------------------------------- MODULE RilMal -------------------------------
(***************************************************************************)
(* The rild-mal socket server (malServerLoop, malDispatch, malComplete),   *)
(* composed with the AT channels it shares with the rest of libril.        *)
(*                                                                         *)
(* One thread accepts a client, reads a frame, hands its AT command to the *)
(* vendor RIL under the mutex of the channel, waits for the completion or  *)
(* for MAL_COMPLETE_WAIT_S, retries a failed command and answers.  Vendor  *)
(* threads complete with the RequestInfo as token; malClaim looks for it   *)
(* among the in-flight slots without a lock.  As the thread serves one     *)
(* frame at a time only the first slot of s_malInflight is ever used.      *)
(*                                                                         *)
(* A request is its serial.  Its RequestInfo is not reused while it can    *)
(* still be completed, so the serial also stands for the token.  The       *)
(* result of an attempt is <<serial, attempt>>.                            *)
(***************************************************************************)
EXTENDS MtkChannels

CONSTANTS
    SimIds,           \* SIMs a client names in its frames
    Vendors,          \* vendor threads that complete MAL commands
    MAL_MAX_ATTEMPTS,
    MaxSerial         \* bound on requests

ASSUME MalAssumption ==
    /\ SimIds \subseteq Nat
    /\ MAL_MAX_ATTEMPTS \in Nat \ {0}
    /\ MaxSerial \in Nat

VARIABLES
    mpc,       \* where the rild-mal thread is
    serial,    \* the request it works on (requests are numbered from 1)
    chan,      \* the channel of the request's SIM
    attempt,
    timedOut,
    reply,     \* the error and text it has taken from the slot
    slot,      \* s_malInflight[0]: [pRI, done, err, text], pRI 0 when not in use
    peer,      \* the client's end of the connection is open
    owed,      \* tokens the vendor RIL has and has not completed
    vpc, vRes, vErr, \* vendor threads, the result they bring
    crossed,   \* a completion was parked for another request
    freedRI,   \* requests whose RequestInfo was freed
    answers,   \* answers[s]: frames written for serial s
    got,       \* got[s]: the error and text of the last one
    unsent     \* requests whose answer could not be written

malVars == <<mpc, serial, chan, attempt, timedOut, reply>>
clientVars == <<peer, answers, got, unsent>>
vendorVars == <<owed, vpc, vRes, vErr>>
vars == <<channelVars, malVars, slot, clientVars, vendorVars, crossed, freedRI>>

Serials == 1 .. MaxSerial
NoText == <<0, 0>>
GENERIC_FAILURE == 1
FreeSlot == [pRI |-> 0, done |-> FALSE, err |-> 0, text |-> NoText]
NoReply == [err |-> 0, text |-> NoText]

Init ==
    /\ ChannelInit
    /\ mpc = "accept"
    /\ serial = 0
    /\ chan = 0
    /\ attempt = 0
    /\ timedOut = FALSE
    /\ reply = NoReply
    /\ slot = FreeSlot
    /\ peer = FALSE
    /\ owed = {}
    /\ vpc = [v \in Vendors |-> "idle"]
    /\ vRes = [v \in Vendors |-> NoText]
    /\ vErr = [v \in Vendors |-> 0]
    /\ crossed = FALSE
    /\ freedRI = {}
    /\ answers = [s \in Serials |-> 0]
    /\ got = [s \in Serials |-> NoReply]
    /\ unsent = {}

-----------------------------------------------------------------------------
(* malServerLoop *)

(* accept.                                                                 *)
ClientConnects ==
    /\ mpc = "accept"
    /\ peer' = TRUE
    /\ mpc' = "read"
    /\ UNCHANGED <<channelVars, serial, chan, attempt, timedOut, reply, slot,
                   answers, got, unsent, vendorVars, crossed, freedRI>>

(* External: the client closes its end, or writes a frame whose lengths    *)
(* make the server drop the connection.                                    *)
ClientHangsUp ==
    /\ peer
    /\ peer' = FALSE
    /\ UNCHANGED <<channelVars, malVars, slot, answers, got, unsent,
                   vendorVars, crossed, freedRI>>

(* A read fails: wait for the next client.                                 *)
ConnectionDropped ==
    /\ mpc = "read"
    /\ ~peer
    /\ mpc' = "accept"
    /\ UNCHANGED <<channelVars, serial, chan, attempt, timedOut, reply, slot,
                   clientVars, vendorVars, crossed, freedRI>>

(* malDispatch of a frame that is answered with an error at once: another  *)
(* request than 2106, a payload that is too short, no memory.              *)
FrameRefused ==
    /\ mpc = "read" /\ peer
    /\ serial < MaxSerial
    /\ serial' = serial + 1
    /\ reply' = [err |-> GENERIC_FAILURE, text |-> NoText]
    /\ mpc' = "refuse"
    /\ UNCHANGED <<channelVars, chan, attempt, timedOut, slot, clientVars,
                   vendorVars, crossed, freedRI>>

(* ... of an AT command: it takes the slot.  The vendor sends it on the    *)
(* URC channel of the SIM, the first of six.                               *)
FrameServed(sim) ==
    /\ mpc = "read" /\ peer
    /\ serial < MaxSerial
    /\ serial' = serial + 1
    /\ chan' = mtkChannelIndex(sim * 6)
    /\ attempt' = 1
    /\ timedOut' = FALSE
    /\ slot' = [FreeSlot EXCEPT !.pRI = serial + 1]
    /\ mpc' = "reset"
    /\ UNCHANGED <<channelVars, reply, clientVars, vendorVars, crossed,
                   freedRI>>

-----------------------------------------------------------------------------
(* The attempts of malDispatch *)

(* Seeded defect: done is not reset before the command is issued again.    *)
ResetDoneForgets ==
    /\ mpc = "reset"
    /\ mpc' = "lock"
    /\ UNCHANGED <<channelVars, serial, chan, attempt, timedOut, reply, slot,
                   clientVars, vendorVars, crossed, freedRI>>

ResetDone ==
    /\ mpc = "reset"
    /\ slot' = [slot EXCEPT !.done = FALSE]
    /\ mpc' = "lock"
    /\ UNCHANGED <<channelVars, serial, chan, attempt, timedOut, reply,
                   clientVars, vendorVars, crossed, freedRI>>

(* onRequest under the mutex of the channel.                               *)
MalEnters ==
    /\ mpc = "lock"
    /\ mtkChannelLock(chan, MalThread)
    /\ EnterVendor(chan, MalThread)
    /\ owed' = owed \cup {serial}
    /\ mpc' = "call"
    /\ UNCHANGED <<dpc, proxyVars, nomem, serial, chan, attempt, timedOut,
                   reply, slot, clientVars, vpc, vRes, vErr, crossed, freedRI>>

MalLeaves ==
    /\ mpc = "call"
    /\ mtkChannelUnlock(chan)
    /\ LeaveVendor(chan, MalThread)
    /\ mpc' = "wait"
    /\ UNCHANGED <<dpc, proxyVars, nomem, serial, chan, attempt, timedOut,
                   reply, slot, clientVars, vendorVars, crossed, freedRI>>

(* The completion is there: retry, unless it succeeded or was the last try.*)
MalCompleted ==
    /\ mpc = "wait"
    /\ slot.done
    /\ mpc' = IF slot.err = 0 \/ attempt >= MAL_MAX_ATTEMPTS THEN "collect"
                                                             ELSE "retry"
    /\ UNCHANGED <<channelVars, serial, chan, attempt, timedOut, reply, slot,
                   clientVars, vendorVars, crossed, freedRI>>

(* Seeded defect: the wait has no end.                                     *)
MalTimesOutNever ==
    /\ mpc = "wait" /\ ~slot.done /\ owed = {}
    /\ timedOut' = TRUE
    /\ mpc' = "collect"
    /\ UNCHANGED <<channelVars, serial, chan, attempt, reply, slot,
                   clientVars, vendorVars, crossed, freedRI>>

(* pthread_cond_timedwait returns ETIMEDOUT.                               *)
MalTimesOut ==
    /\ mpc = "wait"
    /\ ~slot.done
    /\ timedOut' = TRUE
    /\ mpc' = "collect"
    /\ UNCHANGED <<channelVars, serial, chan, attempt, reply, slot,
                   clientVars, vendorVars, crossed, freedRI>>

MalRetries ==
    /\ mpc = "retry"
    /\ attempt' = attempt + 1
    /\ mpc' = "reset"
    /\ UNCHANGED <<channelVars, serial, chan, timedOut, reply, slot,
                   clientVars, vendorVars, crossed, freedRI>>

(* The error and the text are taken out of the slot, under the mutex.      *)
MalCollects ==
    /\ mpc = "collect"
    /\ reply' = [err |-> IF timedOut THEN GENERIC_FAILURE ELSE slot.err,
                 text |-> slot.text]
    /\ slot' = [slot EXCEPT !.text = NoText]
    /\ mpc' = "send"
    /\ UNCHANGED <<channelVars, serial, chan, attempt, timedOut, clientVars,
                   vendorVars, crossed, freedRI>>

(* malSendFrame: the answer is written if the client is there, ...         *)
SendFrame ==
    /\ mpc \in {"send", "refuse"}
    /\ peer
    /\ answers' = [answers EXCEPT ![serial] = @ + 1]
    /\ got' = [got EXCEPT ![serial] = reply]
    /\ mpc' = IF mpc = "send" THEN "release" ELSE "read"
    /\ reply' = NoReply
    /\ UNCHANGED <<channelVars, serial, chan, attempt, timedOut, slot, peer,
                   unsent, vendorVars, crossed, freedRI>>

(* ... and dropped if it is not, or if there is no memory for the frame.   *)
SendFrameFails ==
    /\ mpc \in {"send", "refuse"}
    /\ \/ ~peer /\ UNCHANGED nomem
       \/ nomem < MaxNoMem /\ nomem' = nomem + 1
    /\ unsent' = unsent \cup {serial}
    /\ mpc' = IF mpc = "send" THEN "release" ELSE "read"
    /\ reply' = NoReply
    /\ UNCHANGED <<s_chMutex, inside, dpc, proxyVars, serial, chan, attempt,
                   timedOut, slot, peer, answers, got, vendorVars, crossed,
                   freedRI>>

(* Seeded defect: the RequestInfo is freed after a timeout as well.        *)
ReleaseSlotAlways ==
    /\ mpc = "release"
    /\ freedRI' = freedRI \cup {serial}
    /\ slot' = [slot EXCEPT !.pRI = 0]
    /\ attempt' = 0 /\ timedOut' = FALSE /\ chan' = 0
    /\ mpc' = "read"
    /\ UNCHANGED <<channelVars, serial, reply, clientVars, vendorVars,
                   crossed>>

(* The end of malDispatch: the command is freed, the RequestInfo too       *)
(* unless the vendor RIL may still complete it.                            *)
ReleaseSlot ==
    /\ mpc = "release"
    /\ freedRI' = IF timedOut THEN freedRI ELSE freedRI \cup {serial}
    /\ slot' = [slot EXCEPT !.pRI = 0]
    /\ attempt' = 0 /\ timedOut' = FALSE /\ chan' = 0
    /\ mpc' = "read"
    /\ UNCHANGED <<channelVars, serial, reply, clientVars, vendorVars,
                   crossed>>

-----------------------------------------------------------------------------
(* RIL_onRequestComplete for a MAL token *)

(* External: the vendor RIL completes a command with error e; malClaim     *)
(* finds its slot.                                                         *)
VendorCompletes(v, s, e) ==
    /\ vpc[v] = "idle"
    /\ s \in owed
    /\ slot.pRI = s
    /\ owed' = owed \ {s}
    /\ vpc' = [vpc EXCEPT ![v] = "park"]
    /\ vRes' = [vRes EXCEPT ![v] = <<s, attempt>>]
    /\ vErr' = [vErr EXCEPT ![v] = e]
    /\ UNCHANGED <<channelVars, malVars, slot, clientVars, crossed, freedRI>>

(* ... or does not, after a timeout: the token goes on to the pending      *)
(* lists, which do not hold it (RilRequests).                              *)
VendorCompletesLate(v, s) ==
    /\ vpc[v] = "idle"
    /\ s \in owed
    /\ slot.pRI # s
    /\ owed' = owed \ {s}
    /\ UNCHANGED <<channelVars, malVars, slot, clientVars, vpc, vRes, vErr,
                   crossed, freedRI>>

(* malComplete: the answer is parked in the claimed slot, under the mutex. *)
malComplete(v) ==
    /\ vpc[v] = "park"
    /\ slot' = [slot EXCEPT !.done = TRUE, !.err = vErr[v], !.text = vRes[v]]
    /\ vpc' = [vpc EXCEPT ![v] = "idle"]
    /\ vRes' = [vRes EXCEPT ![v] = NoText]
    /\ vErr' = [vErr EXCEPT ![v] = 0]
    /\ crossed' = (crossed \/ slot.pRI \notin {0, vRes[v][1]})
    /\ UNCHANGED <<channelVars, malVars, clientVars, owed, freedRI>>

-----------------------------------------------------------------------------
MalStep ==
    \/ ConnectionDropped
    \/ ResetDone \/ MalEnters \/ MalLeaves
    \/ MalCompleted \/ MalTimesOut \/ MalRetries
    \/ MalCollects \/ SendFrame \/ SendFrameFails \/ ReleaseSlot

MalNext ==
    \/ MalStep
    \/ ClientConnects \/ ClientHangsUp
    \/ FrameRefused \/ \E sim \in SimIds : FrameServed(sim)
    \/ \E v \in Vendors, s \in Serials :
          \/ \E e \in {0, GENERIC_FAILURE} : VendorCompletes(v, s, e)
          \/ VendorCompletesLate(v, s)
    \/ \E v \in Vendors : malComplete(v)

Next ==
    \/ MalNext
    \/ ChannelNext /\ UNCHANGED <<malVars, slot, clientVars, vendorVars, crossed,
                                  freedRI>>

Spec == Init /\ [][Next]_vars

(* Threads of libril run, and leave the vendor RIL: a call returns.        *)
Fairness ==
    /\ WF_vars(MalStep)
    /\ \A v \in Vendors : WF_vars(malComplete(v))
    /\ \A d \in Dispatchers : WF_vars(EnqueueLeave(d) /\ UNCHANGED <<malVars, slot,
          clientVars, vendorVars, crossed, freedRI>>)
    /\ \A c \in Channels : WF_vars(WorkerStep(c) /\ UNCHANGED <<malVars, slot,
          clientVars, vendorVars, crossed, freedRI>>)

FairSpec == Spec /\ Fairness

-----------------------------------------------------------------------------
(* Properties *)

(* The slot, the rild-mal thread and the channels are in one of their      *)
(* states, and no serial is answered more than once.                       *)
TypeOK ==
    /\ ChannelTypeOK
    /\ mpc \in {"accept", "read", "refuse", "reset", "lock", "call", "wait",
                "retry", "collect", "send", "release"}
    /\ serial \in 0 .. MaxSerial
    /\ chan \in Channels
    /\ attempt \in 0 .. MAL_MAX_ATTEMPTS
    /\ timedOut \in BOOLEAN /\ peer \in BOOLEAN
    /\ slot.pRI \in 0 .. MaxSerial /\ slot.done \in BOOLEAN
    /\ owed \subseteq Serials
    /\ vpc \in [Vendors -> {"idle", "park"}]
    /\ crossed \in BOOLEAN
    /\ answers \in [Serials -> 0 .. 1]

(* What the comment at the end of malDispatch says: a RequestInfo is not   *)
(* freed as long as the vendor RIL may still complete with it.             *)
TokenOutlivesVendor == owed \cap freedRI = {}

(* It holds, timeouts and late completions included, until malComplete     *)
(* parks an answer in a slot that another request has taken since          *)
(* malClaim looked.                                                        *)
TokenOutlivesUncrossed == ~crossed => TokenOutlivesVendor

(* Until then a client gets the result of its own command and of the last  *)
(* attempt made, and an error only after a timeout or the last attempt.    *)
OwnAnswer ==
    ~crossed =>
        /\ \A s \in Serials : got[s].text # NoText => got[s].text[1] = s
        /\ mpc = "send" => reply.text = <<serial, attempt>> \/ timedOut
        /\ mpc = "send" /\ reply.err # 0 => attempt = MAL_MAX_ATTEMPTS \/ timedOut

(* Every frame that was read is answered, or its client was lost: a vendor *)
(* RIL that never completes does not stop the server.                      *)
EveryFrameAnswered ==
    \A s \in Serials : serial = s ~> answers[s] = 1 \/ s \in unsent
=============================================================================
