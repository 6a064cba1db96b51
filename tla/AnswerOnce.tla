----------------------------- MODULE AnswerOnce -----------------------------
(***************************************************************************)
(* What the radio service promises a client about its requests: each is    *)
(* opened once and then either answered or dropped (the client's callback  *)
(* was gone, the request was local or has no response function), and that  *)
(* is final.                                                               *)
(***************************************************************************)
CONSTANT Requests
VARIABLE status

Init == status = [r \in Requests |-> "new"]

Open(r) ==
    /\ status[r] = "new"
    /\ status' = [status EXCEPT ![r] = "open"]

Answer(r) ==
    /\ status[r] = "open"
    /\ status' = [status EXCEPT ![r] = "answered"]

Drop(r) ==
    /\ status[r] = "open"
    /\ status' = [status EXCEPT ![r] = "dropped"]

Next == \E r \in Requests : Open(r) \/ Answer(r) \/ Drop(r)

Spec == Init /\ [][Next]_status
=============================================================================
