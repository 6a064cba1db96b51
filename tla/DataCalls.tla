----------------------------- MODULE DataCalls -----------------------------
(***************************************************************************)
(* The interface ids of data calls, for a vendor RIL of version 4 to 14.   *)
(* dataCallCids has a position for each of four calls and one more for all *)
(* the others.  setupDataCall asks for the interface after the first free  *)
(* position, setupDataCallResponse puts the call's cid in the position     *)
(* that is the first free one by then, and deactivateDataCall clears the   *)
(* first position that holds the cid.  The array is one for both slots and *)
(* has no lock: set-ups and deactivations come on the one HIDL thread, the *)
(* responses on any thread of the vendor RIL.                              *)
(***************************************************************************)
EXTENDS Integers, Sequences, FiniteSets

CONSTANTS
    Positions,   \* 4; the array's one element more is written and never read
    Cids,        \* the cids of the vendor RIL, the indices of its interfaces
    Calls,       \* data calls that are set up or being set up at a time
    MaxFailed    \* failed set-ups with a full response

NoCid == -1

ASSUME DataCallsAssumption ==
    /\ Positions \in Nat \ {0}
    /\ NoCid \notin Cids
    /\ IsFiniteSet(Calls) /\ "none" \notin Calls
    /\ MaxFailed \in Nat

VARIABLES
    dataCallCids,
    calls,      \* per call where it is, its interface id and its cid
    failed,     \* the cids of failed set-ups that were recorded, as a sequence
    clearing    \* the deactivation under way: the call and the position found for it

dataVars == <<dataCallCids, calls, failed, clearing>>

NoDataCall ==
    [state |-> "none", id |-> 0, cid |-> NoCid, ok |-> FALSE, position |-> 0, alone |-> FALSE]
NotClearing == [call |-> "none", position |-> 0]

DataInit ==
    /\ dataCallCids = [i \in 0..(Positions - 1) |-> NoCid]
    /\ calls = [k \in Calls |-> NoDataCall]
    /\ failed = <<>>
    /\ clearing = NotClearing

\* Seeded defect: only free and taken positions are told apart.
PositionOfAny(v) ==
    CHOOSE i \in 0..Positions :
        /\ i = Positions \/ (dataCallCids[i] = NoCid <=> v = NoCid)
        /\ \A j \in 0..(i - 1) : ~(dataCallCids[j] = NoCid <=> v = NoCid)

\* The first of the positions with value v, or Positions: the code's while loop.
PositionOf(v) ==
    CHOOSE i \in 0..Positions :
        /\ i = Positions \/ dataCallCids[i] = v
        /\ \A j \in 0..(i - 1) : dataCallCids[j] # v

Put(i, v) == IF i < Positions THEN [dataCallCids EXCEPT ![i] = v] ELSE dataCallCids

InFlight == {k \in Calls : calls[k].state \in {"asked", "found"}}

\* The calls in flight, noted to have met another operation on the array.
Disturbed == [k \in Calls |-> [calls[k] EXCEPT !.alone = @ /\ k \notin InFlight]]

\* setupDataCall: the number of the interface is the position's plus one, 0 if all are taken.
SetupDataCall(k) ==
    /\ clearing = NotClearing
    /\ calls[k] = NoDataCall
    /\ LET i == PositionOf(NoCid)
       IN  calls' = [Disturbed EXCEPT ![k] =
                        [NoDataCall EXCEPT !.state = "asked", !.alone = InFlight = {},
                                           !.id = IF i < Positions THEN i + 1 ELSE 0]]
    /\ UNCHANGED <<dataCallCids, failed, clearing>>

\* setupDataCallResponse, with the success and the cid of the vendor RIL: the response
\* is long enough, whatever its error; a cid in use is not given to another call.
FindPosition(k, ok, cid) ==
    /\ calls[k].state = "asked"
    /\ ok => cid # NoCid /\ \A j \in Calls : calls[j].ok => calls[j].cid # cid
    /\ calls' = [calls EXCEPT ![k] = [@ EXCEPT !.state = "found", !.cid = cid, !.ok = ok,
                                               !.position = PositionOf(NoCid)]]
    /\ UNCHANGED <<dataCallCids, failed, clearing>>

\* dataCallCids[i] = result.cid, then the client is told.
StoreCid(k) ==
    LET c == calls[k]
    IN  /\ c.state = "found"
        /\ dataCallCids' = Put(c.position, c.cid)
        /\ \/ /\ c.ok
              /\ calls' = [calls EXCEPT ![k].state = "live", ![k].position = 0]
              /\ UNCHANGED failed
           \/ /\ ~c.ok /\ c.cid = NoCid
              /\ calls' = [calls EXCEPT ![k] = NoDataCall]
              /\ UNCHANGED failed
           \/ /\ ~c.ok /\ c.cid # NoCid /\ Len(failed) < MaxFailed
              /\ calls' = [calls EXCEPT ![k] = NoDataCall]
              /\ failed' = Append(failed, c.cid)
        /\ UNCHANGED clearing

\* A response that is missing or too short, or for which there is no client: nothing is
\* stored.
ShortResponse(k) ==
    /\ calls[k].state = "asked"
    /\ calls' = [calls EXCEPT ![k] = NoDataCall]
    /\ UNCHANGED <<dataCallCids, failed, clearing>>

\* deactivateDataCall of a call the client was told of: find the cid, ...
DeactivateDataCall(k) ==
    /\ clearing = NotClearing
    /\ calls[k].state = "live"
    /\ clearing' = [call |-> k, position |-> PositionOf(calls[k].cid)]
    /\ calls' = Disturbed
    /\ UNCHANGED <<dataCallCids, failed>>

\* Seeded defect: the request is sent and the position kept.
ClearCidKeeps ==
    /\ clearing # NotClearing
    /\ calls' = [calls EXCEPT ![clearing.call] = NoDataCall]
    /\ clearing' = NotClearing
    /\ UNCHANGED <<dataCallCids, failed>>

\* ... then clear its position, unless none was found, and send the request.
ClearCid ==
    /\ clearing # NotClearing
    /\ dataCallCids' = Put(clearing.position, NoCid)
    /\ calls' = [calls EXCEPT ![clearing.call] = NoDataCall]
    /\ clearing' = NotClearing
    /\ UNCHANGED failed

DataNext ==
    \/ \E k \in Calls : SetupDataCall(k)
    \/ \E k \in Calls, ok \in BOOLEAN, cid \in Cids \cup {NoCid} : FindPosition(k, ok, cid)
    \/ \E k \in Calls : StoreCid(k)
    \/ \E k \in Calls : ShortResponse(k)
    \/ \E k \in Calls : DeactivateDataCall(k)
    \/ ClearCid

DataSpec == DataInit /\ [][DataNext]_dataVars

-----------------------------------------------------------------------------
(* Properties. *)

Asking == {k \in Calls : calls[k].state \in {"asked", "found", "live"}}

\* Two calls whose set-ups met no other set-up and no deactivation have different
\* interface ids as long as both last, whatever happened to other calls: the cid of such
\* a call stays in the position of its id (dataCallCids). Without that condition two
\* calls may be given one interface.
OwnInterface ==
    \A j, k \in Asking :
        j # k /\ calls[j].alone /\ calls[k].alone /\ calls[j].id # 0
          => calls[j].id # calls[k].id

\* A position is taken only on behalf of a set-up that was answered with that cid and
\* not deactivated since, however responses and deactivations interleave
\* (setupDataCallResponse, deactivateDataCall); a failed set-up keeps it for good.
PositionsBacked ==
    \A c \in Cids :
        Cardinality({i \in 0..(Positions - 1) : dataCallCids[i] = c})
          <= Cardinality({f \in DOMAIN failed : failed[f] = c})
               + Cardinality({k \in Calls : calls[k].state = "live" /\ calls[k].cid = c})
=============================================================================
