---------------------------- MODULE RilRequests ----------------------------
(***************************************************************************)
(* The life of a RequestInfo in libril: a HIDL request is put on the       *)
(* pending list of its slot, handed to the vendor RIL as an opaque token,  *)
(* perhaps acknowledged, completed, answered and freed.                    *)
(*                                                                         *)
(* Binder threads run the dispatch helpers of ril_service.cpp; vendor      *)
(* threads call RIL_onRequestAck and RIL_onRequestComplete.  A vendor that *)
(* completes inside onRequest is the interleaving in which the binder      *)
(* thread waits, so it needs no action of its own.                         *)
(*                                                                         *)
(* A RequestInfo is identified by its address.  Addresses are recycled by  *)
(* the allocator, so every allocation also has an instance number, which   *)
(* no line of the code can see and which the properties are stated over.   *)
(* Serials of one client are distinct: the instance stands for the serial. *)
(***************************************************************************)
EXTENDS Naturals, FiniteSets

CONSTANTS
    Slots,        \* SIM slots (RIL_SOCKET_1, RIL_SOCKET_2)
    Binders,      \* threads that dispatch requests
    Vendors,      \* threads of the vendor RIL that call back into libril
    Addr,         \* addresses calloc may return for a RequestInfo
    Kinds,        \* requests: [local, converts, handled : BOOLEAN]
    Stale,        \* leaked RequestInfos of timed out MAL requests (RilMal)
    Version,      \* s_callbacksSocket.version
    MaxRequests,  \* bound on allocations in a behaviour
    MaxDups,      \* bound on second completions by the vendor
    NoAddr        \* the NULL pointer

ASSUME KindsAssumption ==
    /\ Kinds \subseteq [local: BOOLEAN, converts: BOOLEAN, handled: BOOLEAN]
    /\ Kinds # {}
ASSUME CountsAssumption ==
    MaxRequests \in Nat /\ MaxDups \in Nat /\ Version \in Nat
ASSUME AddrAssumption ==
    /\ NoAddr \notin Addr \cup Stale
    /\ Addr \cap Stale = {}
ASSUME SlotsAssumption == Slots # {}

VARIABLES
    \* The RequestInfo at each address, field by field.
    token,      \* the instance (0 before the first allocation)
    local,      \* serial was -1
    socket_id,
    wasAckSent,
    live,       \* addresses allocated and not freed
    s_pendingRequests, \* per slot, the addresses on the pending list
    \* Binder threads.
    bpc, bRI,   \* where each is, and its pRI
    \* Vendor threads.
    vpc,        \* where each is inside libril ("idle": outside)
    vRI, vId,   \* the token it was given: address and instance
    vSlot,      \* the socket_id it read
    \* The vendor RIL.
    owed,       \* tokens from onRequest that it has not completed
    spent,      \* tokens it has completed
    dups,       \* second completions so far
    \* The client.
    connected,  \* slots whose mRadioResponse is not NULL
    answered,   \* answered[i]: responses sent for instance i
    payload,    \* payload[i]: the instance whose result the last one carried
    expAck,     \* instances completed with RESPONSE_SOLICITED_ACK_EXP
    ackSent,    \* instances whose ack went to the client
    strayAcks,  \* instances whose ack call found other memory at its token
                \* and sent the client an ack for whatever that held
    failed,     \* instances whose argument conversion ran out of memory
    kind,       \* kind[i]: the request of instance i
    nextId      \* instances allocated so far

riVars == <<token, local, socket_id, wasAckSent, live>>
binderVars == <<bpc, bRI>>
vendorVars == <<vpc, vRI, vId, vSlot>>
rilVars == <<owed, spent, dups>>
answerVars == <<answered, payload>>
ackVars == <<expAck, ackSent, strayAcks>>
idVars == <<kind, nextId>>
vars == <<riVars, s_pendingRequests, binderVars, vendorVars, rilVars, connected,
          answerVars, ackVars, failed, idVars>>

Ids == 1 .. MaxRequests
RIs == Addr \cup Stale
Tokens == (Addr \X Ids) \cup (Stale \X {0})
SomeSlot == CHOOSE s \in Slots : TRUE

Init ==
    /\ token = [a \in RIs |-> 0]
    /\ local = [a \in RIs |-> FALSE]
    /\ socket_id = [a \in RIs |-> SomeSlot]
    /\ wasAckSent = [a \in RIs |-> FALSE]
    /\ live = Stale
    /\ s_pendingRequests = [s \in Slots |-> {}]
    /\ bpc = [b \in Binders |-> "idle"]
    /\ bRI = [b \in Binders |-> NoAddr]
    /\ vpc = [v \in Vendors |-> "idle"]
    /\ vRI = [v \in Vendors |-> NoAddr]
    /\ vId = [v \in Vendors |-> 0]
    /\ vSlot = [v \in Vendors |-> SomeSlot]
    /\ owed = Stale \X {0}
    /\ spent = {}
    /\ dups = 0
    /\ connected = Slots
    /\ answered = [i \in Ids |-> 0]
    /\ payload = [i \in Ids |-> 0]
    /\ expAck = {}
    /\ ackSent = {}
    /\ strayAcks = {}
    /\ failed = {}
    /\ kind = [i \in Ids |-> CHOOSE k \in Kinds : TRUE]
    /\ nextId = 0

-----------------------------------------------------------------------------
(* Binder threads *)

(* Seeded defect: the NULL check on calloc's result is missing.            *)
AllocateUnchecked(b, s, k, a) ==
    /\ bpc[b] = "idle"
    /\ nextId < MaxRequests
    /\ nextId' = nextId + 1
    /\ \E p \in {a, NoAddr} \ live :
         /\ live' = live \cup {p}
         /\ token' = [token EXCEPT ![p] = nextId + 1]
         /\ local' = [local EXCEPT ![p] = k.local]
         /\ socket_id' = [socket_id EXCEPT ![p] = s]
         /\ wasAckSent' = [wasAckSent EXCEPT ![p] = FALSE]
         /\ bRI' = [bRI EXCEPT ![b] = p]
    /\ bpc' = [bpc EXCEPT ![b] = "add"]
    /\ kind' = [kind EXCEPT ![nextId + 1] = k]
    /\ UNCHANGED <<s_pendingRequests, vendorVars, rilVars, connected,
                   answerVars, ackVars, failed>>

(* addRequestToList up to the lock: calloc and the private field writes.   *)
(* When calloc returns NULL the request ends here, with no effect.         *)
Allocate(b, s, k, a) ==
    /\ bpc[b] = "idle"
    /\ nextId < MaxRequests
    /\ a \in Addr \ live
    /\ nextId' = nextId + 1
    /\ live' = live \cup {a}
    /\ token' = [token EXCEPT ![a] = nextId + 1]
    /\ local' = [local EXCEPT ![a] = k.local]
    /\ socket_id' = [socket_id EXCEPT ![a] = s]
    /\ wasAckSent' = [wasAckSent EXCEPT ![a] = FALSE]
    /\ bpc' = [bpc EXCEPT ![b] = "add"]
    /\ bRI' = [bRI EXCEPT ![b] = a]
    /\ kind' = [kind EXCEPT ![nextId + 1] = k]
    /\ UNCHANGED <<s_pendingRequests, vendorVars, rilVars, connected,
                   answerVars, ackVars, failed>>

(* addRequestToList under the slot's mutex: the insertion at the head.     *)
AddToList(b) ==
    /\ bpc[b] = "add"
    /\ s_pendingRequests' =
          [s_pendingRequests EXCEPT ![socket_id[bRI[b]]] = @ \cup {bRI[b]}]
    /\ bpc' = [bpc EXCEPT ![b] = "convert"]
    /\ UNCHANGED <<riVars, bRI, vendorVars, rilVars, connected, answerVars,
                   ackVars, failed, idVars>>

(* The response function of instance i, called for slot s with the result  *)
(* of the vendor's instance r: nothing is sent when the client's callback  *)
(* is NULL.                                                                *)
Respond(s, i, r) ==
    /\ answered' = IF s \in connected
                     THEN [answered EXCEPT ![i] = @ + 1] ELSE answered
    /\ payload' = IF s \in connected
                    THEN [payload EXCEPT ![i] = r] ELSE payload

(* Seeded defect: the helper goes on after sendErrorResponse.              *)
ConvertFailsGoesOn(b) ==
    LET i == token[bRI[b]]
    IN  /\ bpc[b] = "convert"
        /\ kind[i].converts /\ kind[i].handled
        /\ i \notin failed
        /\ Respond(socket_id[bRI[b]], i, i)
        /\ failed' = failed \cup {i}
        /\ UNCHANGED <<riVars, s_pendingRequests, binderVars, vendorVars,
                       rilVars, connected, ackVars, idVars>>

(* A dispatch helper whose argument conversion runs out of memory:         *)
(* sendErrorResponse, then return false.  The RequestInfo stays listed.    *)
ConvertFails(b) ==
    LET i == token[bRI[b]]
    IN  /\ bpc[b] = "convert"
        /\ kind[i].converts /\ kind[i].handled
        /\ Respond(socket_id[bRI[b]], i, i)
        /\ failed' = failed \cup {i}
        /\ bpc' = [bpc EXCEPT ![b] = "idle"]
        /\ bRI' = [bRI EXCEPT ![b] = NoAddr]
        /\ UNCHANGED <<riVars, s_pendingRequests, vendorVars, rilVars,
                       connected, ackVars, idVars>>

(* Seeded defect: my_enqueue returns without calling onRequest.            *)
my_enqueueDrops(b) ==
    /\ bpc[b] = "convert"
    /\ bpc' = [bpc EXCEPT ![b] = "idle"]
    /\ bRI' = [bRI EXCEPT ![b] = NoAddr]
    /\ UNCHANGED <<riVars, s_pendingRequests, vendorVars, rilVars, connected,
                   answerVars, ackVars, failed, idVars>>

(* Seeded defect: my_enqueue frees the RequestInfo when onRequest returns. *)
my_enqueueFrees(b) ==
    /\ bpc[b] = "convert"
    /\ owed' = owed \cup {<<bRI[b], token[bRI[b]]>>}
    /\ live' = live \ {bRI[b]}
    /\ bpc' = [bpc EXCEPT ![b] = "idle"]
    /\ bRI' = [bRI EXCEPT ![b] = NoAddr]
    /\ UNCHANGED <<token, local, socket_id, wasAckSent, s_pendingRequests,
                   vendorVars, spent, dups, connected, answerVars, ackVars,
                   failed, idVars>>

(* my_enqueue: the direct call of onRequest gives the token to the vendor. *)
my_enqueue(b) ==
    /\ bpc[b] = "convert"
    /\ owed' = owed \cup {<<bRI[b], token[bRI[b]]>>}
    /\ bpc' = [bpc EXCEPT ![b] = "idle"]
    /\ bRI' = [bRI EXCEPT ![b] = NoAddr]
    /\ UNCHANGED <<riVars, s_pendingRequests, vendorVars, spent, dups,
                   connected, answerVars, ackVars, failed, idVars>>

-----------------------------------------------------------------------------
(* Vendor threads *)

AckPCs == {"ackRead", "ackCheck", "ackSend"}
CompletePCs == {"readSlot", "dequeue", "respond", "free"}

Enter(v, pc, a, i) ==
    /\ vpc' = [vpc EXCEPT ![v] = pc]
    /\ vRI' = [vRI EXCEPT ![v] = a]
    /\ vId' = [vId EXCEPT ![v] = i]
    /\ UNCHANGED vSlot

Goto(v, pc) ==
    /\ vpc' = [vpc EXCEPT ![v] = pc]
    /\ UNCHANGED <<vRI, vId, vSlot>>

Return(v) ==
    /\ vpc' = [vpc EXCEPT ![v] = "idle"]
    /\ vRI' = [vRI EXCEPT ![v] = NoAddr]
    /\ vId' = [vId EXCEPT ![v] = 0]
    /\ vSlot' = [vSlot EXCEPT ![v] = SomeSlot]

(* External: the vendor RIL acknowledges a request it is still working on, *)
(* perhaps on several threads; it never acknowledges a MAL command.        *)
CallAck(v, a, i) ==
    /\ vpc[v] = "idle"
    /\ <<a, i>> \in owed /\ a \in Addr
    /\ Enter(v, "ackRead", a, i)
    /\ UNCHANGED <<riVars, s_pendingRequests, binderVars, rilVars, connected,
                   answerVars, ackVars, failed, idVars>>

(* External: the vendor RIL completes a token, also while another of its   *)
(* threads is still inside RIL_onRequestAck with it.                       *)
CallComplete(v, a, i) ==
    /\ vpc[v] = "idle"
    /\ <<a, i>> \in owed
    /\ owed' = owed \ {<<a, i>>}
    /\ spent' = spent \cup {<<a, i>>}
    /\ Enter(v, "readSlot", a, i)
    /\ UNCHANGED <<riVars, s_pendingRequests, binderVars, dups, connected,
                   answerVars, ackVars, failed, idVars>>

(* External: a vendor RIL that completes a token a second time, for which  *)
(* the "invalid RIL_Token" test is there.                                  *)
CallCompleteAgain(v, a, i) ==
    /\ vpc[v] = "idle"
    /\ <<a, i>> \in spent
    /\ dups < MaxDups
    /\ dups' = dups + 1
    /\ Enter(v, "readSlot", a, i)
    /\ UNCHANGED <<riVars, s_pendingRequests, binderVars, owed, spent,
                   connected, answerVars, ackVars, failed, idVars>>

(* checkAndDequeueRequestInfoIfAck reads socket_id before it takes the     *)
(* mutex and before it knows that the token is valid; freed memory may     *)
(* hold anything.                                                          *)
ReadSlot(v, s) ==
    /\ vpc[v] \in {"readSlot", "ackRead"}
    /\ vRI[v] \in live => s = socket_id[vRI[v]]
    /\ vpc' = [vpc EXCEPT ![v] = IF @ = "readSlot" THEN "dequeue" ELSE "ackCheck"]
    /\ vSlot' = [vSlot EXCEPT ![v] = s]
    /\ UNCHANGED <<riVars, s_pendingRequests, binderVars, vRI, vId, rilVars,
                   connected, answerVars, ackVars, failed, idVars>>

Listed(v) == vRI[v] \in s_pendingRequests[vSlot[v]]

(* Seeded defect: the entry is found but not unlinked.                     *)
DequeueKeeps(v) ==
    /\ vpc[v] = "dequeue"
    /\ Listed(v)
    /\ Goto(v, "respond")
    /\ UNCHANGED <<riVars, s_pendingRequests, binderVars, rilVars, connected,
                   answerVars, ackVars, failed, idVars>>

(* checkAndDequeueRequestInfoIfAck(pRI, false) under the mutex: unlink the *)
(* entry whose address is the token.                                       *)
Dequeue(v) ==
    /\ vpc[v] = "dequeue"
    /\ Listed(v)
    /\ s_pendingRequests' =
          [s_pendingRequests EXCEPT ![vSlot[v]] = @ \ {vRI[v]}]
    /\ Goto(v, "respond")
    /\ UNCHANGED <<riVars, binderVars, rilVars, connected, answerVars,
                   ackVars, failed, idVars>>

(* ... or find no such entry: "RIL_onRequestComplete: invalid RIL_Token".  *)
InvalidToken(v) ==
    /\ vpc[v] = "dequeue"
    /\ ~Listed(v)
    /\ Return(v)
    /\ UNCHANGED <<riVars, s_pendingRequests, binderVars, rilVars, connected,
                   answerVars, ackVars, failed, idVars>>

(* RIL_onRequestComplete up to the response: a request without response    *)
(* function is not answered, an acknowledged one is marked ACK_EXP for a   *)
(* RIL of version 13 or later.                                             *)
Answer(v) ==
    LET i == token[vRI[v]]
    IN  /\ vpc[v] = "respond"
        /\ ~local[vRI[v]]
        /\ \/ kind[i].handled /\ Respond(socket_id[vRI[v]], i, vId[v])
           \/ ~kind[i].handled /\ UNCHANGED answerVars
        /\ expAck' = IF Version >= 13 /\ wasAckSent[vRI[v]]
                       THEN expAck \cup {i} ELSE expAck
        /\ Goto(v, "free")
        /\ UNCHANGED <<riVars, s_pendingRequests, binderVars, rilVars,
                       connected, ackSent, strayAcks, failed, idVars>>

(* The local branch: goto done, no response.                               *)
FinishLocal(v) ==
    /\ vpc[v] = "respond"
    /\ local[vRI[v]]
    /\ Goto(v, "free")
    /\ UNCHANGED <<riVars, s_pendingRequests, binderVars, rilVars, connected,
                   answerVars, ackVars, failed, idVars>>

(* Seeded defect: the RequestInfo is not freed.                            *)
FreeRequestLeaks(v) ==
    /\ vpc[v] = "free"
    /\ Return(v)
    /\ UNCHANGED <<riVars, s_pendingRequests, binderVars, rilVars, connected,
                   answerVars, ackVars, failed, idVars>>

(* free(pRI), the last statement of RIL_onRequestComplete.                 *)
FreeRequest(v) ==
    /\ vpc[v] = "free"
    /\ live' = live \ {vRI[v]}
    /\ Return(v)
    /\ UNCHANGED <<token, local, socket_id, wasAckSent, s_pendingRequests,
                   binderVars, rilVars, connected, answerVars, ackVars,
                   failed, idVars>>

(* Seeded defect: the ack is not remembered.                               *)
MarkAckForgets(v) ==
    /\ vpc[v] = "ackCheck"
    /\ Listed(v)
    /\ Goto(v, "ackSend")
    /\ UNCHANGED <<riVars, s_pendingRequests, binderVars, rilVars, connected,
                   answerVars, ackVars, failed, idVars>>

(* checkAndDequeueRequestInfoIfAck(pRI, true): the entry stays listed and  *)
(* remembers the ack.                                                      *)
MarkAck(v) ==
    /\ vpc[v] = "ackCheck"
    /\ Listed(v)
    /\ wasAckSent' = [wasAckSent EXCEPT ![vRI[v]] = TRUE]
    /\ Goto(v, "ackSend")
    /\ UNCHANGED <<token, local, socket_id, live, s_pendingRequests,
                   binderVars, rilVars, connected, answerVars, ackVars,
                   failed, idVars>>

(* ... or "RIL_onRequestAck: invalid RIL_Token".                           *)
InvalidAck(v) ==
    /\ vpc[v] = "ackCheck"
    /\ ~Listed(v)
    /\ Return(v)
    /\ UNCHANGED <<riVars, s_pendingRequests, binderVars, rilVars, connected,
                   answerVars, ackVars, failed, idVars>>

(* The RequestInfo at a vendor thread's token is the one it was made for.  *)
OwnRI(v) == vRI[v] \in live /\ token[vRI[v]] = vId[v]

(* RIL_onRequestAck after the check: it reads pRI again, without a lock,   *)
(* and sends the ack for the token it finds there.  The address may be     *)
(* free by then, and hold anything, or be another request's.               *)
SendAck(v) ==
    /\ vpc[v] = "ackSend"
    /\ \/ /\ \E s \in connected : vRI[v] \in live => s = socket_id[vRI[v]]
          /\ ackSent' = IF OwnRI(v) THEN ackSent \cup {vId[v]} ELSE ackSent
          /\ strayAcks' = IF OwnRI(v) THEN strayAcks ELSE strayAcks \cup {vId[v]}
       \/ /\ vRI[v] \in live => socket_id[vRI[v]] \notin connected
          /\ UNCHANGED <<ackSent, strayAcks>>
    /\ Return(v)
    /\ UNCHANGED <<riVars, s_pendingRequests, binderVars, rilVars, connected,
                   answerVars, expAck, failed, idVars>>

-----------------------------------------------------------------------------
(* The client registers its callbacks, or dies and they are reset          *)
(* (RadioCallbacks).                                                       *)
SetConnected(s) ==
    /\ connected' = IF s \in connected THEN connected \ {s}
                                       ELSE connected \cup {s}
    /\ UNCHANGED <<riVars, s_pendingRequests, binderVars, vendorVars,
                   rilVars, answerVars, ackVars, failed, idVars>>

BinderStep(b) ==
    \/ \E s \in Slots, k \in Kinds, a \in Addr : Allocate(b, s, k, a)
    \/ AddToList(b)
    \/ ConvertFails(b)
    \/ my_enqueue(b)

CallbackStep(v) ==
    \/ \E s \in Slots : ReadSlot(v, s)
    \/ Dequeue(v) \/ InvalidToken(v)
    \/ Answer(v) \/ FinishLocal(v)
    \/ FreeRequest(v)
    \/ MarkAck(v) \/ InvalidAck(v)
    \/ SendAck(v)

VendorCall(v) ==
    \E a \in RIs, i \in Ids \cup {0} :
        \/ CallAck(v, a, i)
        \/ CallComplete(v, a, i)
        \/ CallCompleteAgain(v, a, i)

Next ==
    \/ \E b \in Binders : BinderStep(b)
    \/ \E v \in Vendors : CallbackStep(v) \/ VendorCall(v)
    \/ \E s \in Slots : SetConnected(s)

Spec == Init /\ [][Next]_vars

(* A thread inside libril is scheduled; nothing makes the vendor call.     *)
Fairness ==
    /\ \A v \in Vendors : WF_vars(CallbackStep(v))
    /\ \A b \in Binders : WF_vars(AddToList(b) \/ my_enqueue(b) \/ ConvertFails(b))

FairSpec == Spec /\ Fairness

-----------------------------------------------------------------------------
(* Properties *)

(* Every variable keeps its type: RequestInfos, the two pending lists and  *)
(* the thread states of the dispatch and completion paths.                 *)
TypeOK ==
    /\ token \in [RIs -> Ids \cup {0}]
    /\ local \in [RIs -> BOOLEAN]
    /\ socket_id \in [RIs -> Slots]
    /\ wasAckSent \in [RIs -> BOOLEAN]
    /\ live \subseteq RIs
    /\ s_pendingRequests \in [Slots -> SUBSET Addr]
    /\ bpc \in [Binders -> {"idle", "add", "convert"}]
    /\ bRI \in [Binders -> Addr \cup {NoAddr}]
    /\ vpc \in [Vendors -> {"idle"} \cup AckPCs \cup CompletePCs]
    /\ vRI \in [Vendors -> RIs \cup {NoAddr}]
    /\ vId \in [Vendors -> Ids \cup {0}]
    /\ vSlot \in [Vendors -> Slots]
    /\ owed \subseteq Tokens
    /\ spent \subseteq Tokens
    /\ dups \in 0 .. MaxDups
    /\ connected \subseteq Slots
    /\ answered \in [Ids -> Nat]
    /\ payload \in [Ids -> Ids \cup {0}]
    /\ expAck \subseteq Ids
    /\ ackSent \subseteq Ids
    /\ strayAcks \subseteq Ids
    /\ failed \subseteq Ids
    /\ kind \in [Ids -> Kinds]
    /\ nextId \in 0 .. MaxRequests

Finishing(v) == vpc[v] \in {"respond", "free"}

(* The pending list only links RequestInfos that are allocated, belong to  *)
(* the slot whose mutex guards them and are not being answered: a          *)
(* completion that passed the check has the RequestInfo for itself.        *)
ListSound ==
    /\ \A s \in Slots : \A a \in s_pendingRequests[s] :
         /\ a \in live
         /\ socket_id[a] = s
         /\ \A v \in Vendors : Finishing(v) => vRI[v] # a
    /\ \A v, w \in Vendors :
         Finishing(v) /\ Finishing(w) /\ v # w => vRI[v] # vRI[w]

(* A request whose arguments could be converted is not answered twice,     *)
(* whatever the vendor completes twice and however the allocator recycles  *)
(* addresses: the response follows the removal from the list.              *)
CompletedAtMostOnce == \A i \in Ids \ failed : answered[i] <= 1

Accounted(a) ==
    \/ \E b \in Binders : bpc[b] = "convert" /\ bRI[b] = a
    \/ <<a, token[a]>> \in owed
    \/ \E v \in Vendors : /\ vRI[v] = a /\ vId[v] = token[a]
                          /\ vpc[v] \in {"readSlot", "dequeue"}
    \/ token[a] \in failed

(* A listed request is on its way to the vendor, owed by it or being       *)
(* completed; only a request whose conversion failed (sendErrorResponse)   *)
(* stays listed with nobody left to complete it.                           *)
PendingAccounted ==
    \A s \in Slots : \A a \in s_pendingRequests[s] : Accounted(a)

(* As long as the vendor has completed no token twice, more holds.         *)

(* RIL_onRequestComplete reads the RequestInfo outside the mutex, and it   *)
(* is still the one the token was made for.  RIL_onRequestAck does the     *)
(* same, but only as long as the vendor does not complete the request on   *)
(* another thread: nothing in libril keeps it from being freed then.       *)
TokenAlive ==
    dups = 0 => \A v \in Vendors :
        \/ vpc[v] = "idle"
        \/ vpc[v] \in AckPCs /\ <<vRI[v], vId[v]>> \in spent
        \/ OwnRI(v)

(* Every request is answered at most once, the ones that sendErrorResponse *)
(* answered while they stay on the list included, and with its own result. *)
OwnResult ==
    dups = 0 => \A i \in Ids :
        answered[i] > 0 => answered[i] = 1 /\ payload[i] = i

(* The client that was sent an ack for a request gets its response marked  *)
(* ACK_EXP when the RIL is version 13 or later.  A client is sent an ack   *)
(* for other than the acknowledged request only if the vendor completed    *)
(* that one before RIL_onRequestAck was through with it.                   *)
AckedMeansExpected ==
    dups = 0 =>
        /\ \A i \in Ids :
             i \in ackSent /\ answered[i] > 0 /\ Version >= 13 => i \in expAck
        /\ \A i \in strayAcks : \E a \in Addr : <<a, i>> \in spent

(* A completed request is taken off the list and freed.                    *)
CompletedIsFreed ==
    \A a \in Addr, i \in Ids :
        <<a, i>> \in spent ~> ~(a \in live /\ token[a] = i)

(* How the requests look to the client: AnswerOnce.                        *)
Closed(i) ==
    \/ i \in failed
    \/ \A a \in live : token[a] = i =>
          \E v \in Vendors : vpc[v] = "free" /\ vRI[v] = a

ClientView ==
    [i \in Ids |-> IF i > nextId THEN "new"
                   ELSE IF answered[i] = 1 THEN "answered"
                   ELSE IF answered[i] > 1 THEN "answered twice"
                   ELSE IF Closed(i) THEN "dropped"
                   ELSE "open"]

Client == INSTANCE AnswerOnce WITH Requests <- Ids, status <- ClientView

(* The request path implements AnswerOnce: a request is opened once, then  *)
(* either answered or dropped, and that is final.                          *)
ImplementsAnswerOnce == Client!Spec
=============================================================================
