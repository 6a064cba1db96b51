--------------------------- MODULE RadioCallbacks ---------------------------
(***************************************************************************)
(* The callback objects of the framework's clients, and how libril calls   *)
(* and replaces them: setResponseFunctions and onNewCommandConnect, the    *)
(* response and indication functions with checkReturnStatus, and the NITZ  *)
(* time that is kept for a client that is not there.                       *)
(*                                                                         *)
(* Every response and indication has the same shape: it tests the callback *)
(* object, calls it, and hands the status of the call to                   *)
(* checkReturnStatus.  RIL_onRequestComplete, RIL_onRequestAck and         *)
(* send_unsolResponse hold the read lock around that; sendErrorResponse    *)
(* and resendLastNITZTimeData do not.                                      *)
(*                                                                         *)
(* A service is a slot with its radio or its OEM hook interface.  In a     *)
(* build for two SIMs the slots are 0 and 1, and getRadioServiceRwlock     *)
(* returns the same lock for both: there is one lock.  The code under the  *)
(* write lock is one step, taken when the lock is free.  As the HIDL       *)
(* thread pool has one thread, calls of clients come one at a time.        *)
(***************************************************************************)
EXTENDS Integers, FiniteSets

CONSTANTS
    Services,   \* the registered services, <<slot, "radio" or "oemHook">>
    Vendors,    \* threads that call RIL_onRequestComplete and the like
    Binder,     \* the HIDL thread
    EventLoop,  \* the loop's thread, on which requests are repeated
    MaxClients, \* bound on client registrations
    MaxCalls,   \* bound on responses and indications
    MaxNitz     \* bound on NITZ indications

ASSUME CallbacksAssumption ==
    /\ MaxClients \in Nat /\ MaxCalls \in Nat /\ MaxNitz \in Nat
    /\ Binder \notin Vendors /\ EventLoop \notin Vendors
    /\ IsFiniteSet(Vendors) /\ Services # {}

VARIABLES
    callback,   \* callback[s]: the client registered for service s, 0 if NULL
    counter,    \* counter[s]: mCounterRadio and mCounterOemHook
    readers,    \* read locks held on radioServiceRwlock
    pc,         \* pc[t]: where thread t is in a response or indication
    service,    \* service[t]: the service it is for
    target,     \* target[t]: the callback it found
    seen,       \* seen[t]: the counter it noted
    locked,     \* locked[t]: it took the read lock first
    time,       \* time[t]: the NITZ time it carries, 0 for anything else
    stage,      \* how far onNewCommandConnect is, 0 when it is not running
    gsmRilInit, \* property gsm.ril.init is "1"
    muxreport,  \* property ril.muxreport is set
    s_lastNITZTimeData, \* the NITZ time that is kept, 0 for none
    clients, dead,      \* clients so far, and those that have died
    calls, nitz,        \* indications and NITZ times so far
    kept,       \* the last NITZ time that was put aside
    told,       \* NITZ times a client was called with
    misused,    \* checkReturnStatus has run without the read lock
    raced       \* a copy was freed that was not the one sent

registryVars == <<callback, counter>>
threadVars == <<pc, service, target, seen, locked, time>>
nitzVars == <<s_lastNITZTimeData, kept, told, raced>>
modemVars == <<gsmRilInit, muxreport>>
worldVars == <<clients, dead, calls, nitz>>
vars == <<registryVars, readers, threadVars, stage, modemVars, nitzVars,
          worldVars, misused>>

Threads == Vendors \cup {Binder, EventLoop}
Times == 1 .. MaxNitz
IsRadio(s) == s[2] = "radio"
AnyService == CHOOSE s \in Services : TRUE

Init ==
    /\ callback = [s \in Services |-> 0]
    /\ counter = [s \in Services |-> 0]
    /\ readers = 0
    /\ pc = [t \in Threads |-> "idle"]
    /\ service = [t \in Threads |-> AnyService]
    /\ target = [t \in Threads |-> 0]
    /\ seen = [t \in Threads |-> 0]
    /\ locked = [t \in Threads |-> FALSE]
    /\ time = [t \in Threads |-> 0]
    /\ stage = 0
    /\ gsmRilInit = TRUE /\ muxreport = FALSE
    /\ s_lastNITZTimeData = 0
    /\ clients = 0 /\ dead = {}
    /\ calls = 0 /\ nitz = 0
    /\ kept = 0 /\ told = {}
    /\ misused = FALSE /\ raced = FALSE

-----------------------------------------------------------------------------
(* The lock and the threads *)

(* pthread_rwlock_unlock of a read lock.  Without one held by anybody it   *)
(* fails; held by another thread, that thread loses it.                    *)
Unlock == readers' = IF readers > 0 THEN readers - 1 ELSE 0

Goto(t, p) == pc' = [pc EXCEPT ![t] = p]

(* Thread t starts a response or an indication of service s.               *)
Start(t, s, underLock, n) ==
    /\ service' = [service EXCEPT ![t] = s]
    /\ locked' = [locked EXCEPT ![t] = underLock]
    /\ time' = [time EXCEPT ![t] = n]
    /\ Goto(t, IF underLock THEN "rdlock" ELSE "test")
    /\ UNCHANGED <<target, seen>>

(* It returns: the thread's state is as before.                            *)
Finish(t) ==
    /\ Goto(t, "idle")
    /\ service' = [service EXCEPT ![t] = IF stage' = 0 THEN AnyService ELSE @]
    /\ target' = [target EXCEPT ![t] = 0]
    /\ seen' = [seen EXCEPT ![t] = 0]
    /\ locked' = [locked EXCEPT ![t] = FALSE]
    /\ time' = [time EXCEPT ![t] = 0]

-----------------------------------------------------------------------------
(* External: what the clients and the vendor RIL do *)

ClientDies(g) ==
    /\ g \notin dead
    /\ dead' = dead \cup {g}
    /\ UNCHANGED <<registryVars, readers, threadVars, stage, modemVars, nitzVars,
                   clients, calls, nitz, misused>>

(* A vendor thread completes a request or sends an indication.             *)
Deliver(t, s) ==
    /\ pc[t] = "idle" /\ calls < MaxCalls
    /\ calls' = calls + 1
    /\ Start(t, s, TRUE, 0)
    /\ UNCHANGED <<registryVars, readers, stage, modemVars, nitzVars, clients, dead,
                   nitz, misused>>

(* ... or the indication is a NITZ time.                                   *)
DeliverNitz(t, s) ==
    /\ pc[t] = "idle" /\ IsRadio(s) /\ nitz < MaxNitz
    /\ nitz' = nitz + 1
    /\ Start(t, s, TRUE, nitz + 1)
    /\ UNCHANGED <<registryVars, readers, stage, modemVars, nitzVars, clients, dead,
                   calls, misused>>

(* sendErrorResponse, for a request that could not be converted, on the    *)
(* HIDL thread or, for one that is repeated, on the loop.                  *)
sendErrorResponse(t, s) ==
    /\ pc[t] = "idle" /\ calls < MaxCalls
    /\ t = Binder => stage = 0
    /\ calls' = calls + 1
    /\ Start(t, s, FALSE, 0)
    /\ UNCHANGED <<registryVars, readers, stage, modemVars, nitzVars, clients, dead,
                   nitz, misused>>

-----------------------------------------------------------------------------
(* A response or an indication, by thread t *)

(* Seeded defect: the caller's read lock is left out.                      *)
RdLockForgets(t) ==
    /\ pc[t] = "rdlock"
    /\ Goto(t, "test")
    /\ UNCHANGED <<registryVars, readers, service, target, seen, locked, time,
                   stage, modemVars, nitzVars, worldVars, misused>>

RdLock(t) ==
    /\ pc[t] = "rdlock"
    /\ readers' = readers + 1
    /\ Goto(t, "test")
    /\ UNCHANGED <<registryVars, service, target, seen, locked, time, stage,
                   modemVars, nitzVars, worldVars, misused>>

(* The callback object is there, or nothing is sent.                       *)
TestCallback(t) ==
    /\ pc[t] = "test"
    /\ target' = [target EXCEPT ![t] = callback[service[t]]]
    /\ Goto(t, IF callback[service[t]] = 0 THEN "return" ELSE "call")
    /\ UNCHANGED <<registryVars, readers, service, seen, locked, time, stage,
                   modemVars, nitzVars, worldVars, misused>>

(* It is called, and the status is that of its client's process.           *)
CallCallback(t) ==
    /\ pc[t] = "call"
    /\ callback[service[t]] # 0
    /\ told' = told \cup ({time[t]} \ {0})
    /\ Goto(t, IF callback[service[t]] \in dead THEN "failed" ELSE "return")
    /\ UNCHANGED <<registryVars, readers, service, target, seen, locked, time,
                   stage, modemVars, s_lastNITZTimeData, kept, raced,
                   worldVars, misused>>

(* It was reset since it was tested: a null pointer is called.             *)
CallNull(t) ==
    /\ pc[t] = "call"
    /\ callback[service[t]] = 0
    /\ Goto(t, "crashed")
    /\ UNCHANGED <<registryVars, readers, service, target, seen, locked, time,
                   stage, modemVars, nitzVars, worldVars, misused>>

(* Seeded defect: the read lock is kept.                                   *)
NoteCounterLocked(t) ==
    /\ pc[t] = "failed"
    /\ seen' = [seen EXCEPT ![t] = counter[service[t]]]
    /\ misused' = (misused \/ ~locked[t])
    /\ Goto(t, "wrlock")
    /\ UNCHANGED <<registryVars, readers, service, target, locked, time, stage,
                   modemVars, nitzVars, worldVars>>

(* checkReturnStatus of a failed call: the counter is noted and the read   *)
(* lock released, ...                                                      *)
NoteCounter(t) ==
    /\ pc[t] = "failed"
    /\ seen' = [seen EXCEPT ![t] = counter[service[t]]]
    /\ Unlock
    /\ misused' = (misused \/ ~locked[t])
    /\ Goto(t, "wrlock")
    /\ UNCHANGED <<registryVars, service, target, locked, time, stage,
                   modemVars, nitzVars, worldVars>>

(* Seeded defect: the counter is not compared.                             *)
ResetCallbackAlways(t) ==
    /\ pc[t] = "wrlock"
    /\ readers = 0
    /\ callback' = [callback EXCEPT ![service[t]] = 0]
    /\ counter' = [counter EXCEPT ![service[t]] = @ + 1]
    /\ Goto(t, "relock")
    /\ UNCHANGED <<readers, service, target, seen, locked, time, stage,
                   modemVars, nitzVars, worldVars, misused>>

(* ... under the write lock the callback objects are dropped, unless the   *)
(* counter says that they are no longer the ones that failed, ...          *)
ResetCallback(t) ==
    LET s == service[t] IN
    /\ pc[t] = "wrlock"
    /\ readers = 0
    /\ \/ /\ counter[s] = seen[t]
          /\ callback' = [callback EXCEPT ![s] = 0]
          /\ counter' = [counter EXCEPT ![s] = @ + 1]
       \/ counter[s] # seen[t] /\ UNCHANGED registryVars
    /\ Goto(t, "relock")
    /\ UNCHANGED <<readers, service, target, seen, locked, time, stage,
                   modemVars, nitzVars, worldVars, misused>>

(* Seeded defect: the read lock is not taken again.                        *)
RelockForgets(t) ==
    /\ pc[t] = "relock"
    /\ Goto(t, "return")
    /\ UNCHANGED <<registryVars, readers, service, target, seen, locked, time,
                   stage, modemVars, nitzVars, worldVars, misused>>

(* ... and the read lock is taken again.                                   *)
Relock(t) ==
    /\ pc[t] = "relock"
    /\ readers' = readers + 1
    /\ Goto(t, "return")
    /\ UNCHANGED <<registryVars, service, target, seen, locked, time, stage,
                   modemVars, nitzVars, worldVars, misused>>

(* The caller that took the read lock releases it.  A NITZ time that found *)
(* no client (the function returned -1) goes on to be stored.              *)
ReturnCallback(t) ==
    /\ pc[t] = "return"
    /\ t = Binder => stage # 5
    /\ IF locked[t] THEN Unlock ELSE UNCHANGED readers
    /\ UNCHANGED stage
    /\ IF time[t] # 0 /\ target[t] = 0
         THEN Goto(t, "store") /\ UNCHANGED <<service, target, seen, locked, time>>
         ELSE Finish(t)
    /\ UNCHANGED <<registryVars, modemVars, nitzVars, worldVars, misused>>

(* send_unsolResponse puts a copy aside in the place of an older one.      *)
StoreNitz(t) ==
    /\ pc[t] = "store"
    /\ s_lastNITZTimeData' = time[t]
    /\ kept' = time[t]
    /\ UNCHANGED stage
    /\ Finish(t)
    /\ UNCHANGED <<registryVars, readers, modemVars, told, raced, worldVars,
                   misused>>

-----------------------------------------------------------------------------
(* A client registers, on the HIDL thread *)

(* setResponseFunctions, of the radio or the OEM hook interface.           *)
setResponseFunctions(s) ==
    /\ pc[Binder] = "idle" /\ stage = 0
    /\ readers = 0
    /\ clients < MaxClients
    /\ clients' = clients + 1
    /\ callback' = [callback EXCEPT ![s] = clients + 1]
    /\ counter' = [counter EXCEPT ![s] = @ + 1]
    /\ service' = [service EXCEPT ![Binder] = IF IsRadio(s) THEN s ELSE @]
    /\ stage' = IF IsRadio(s) THEN 1 ELSE 0
    /\ UNCHANGED <<readers, pc, target, seen, locked, time, modemVars,
                   nitzVars, dead, calls, nitz, misused>>

(* onNewCommandConnect waits for the modem and sends RIL_CONNECTED, ...    *)
WaitForInit ==
    /\ stage = 1
    /\ gsmRilInit
    /\ stage' = 2
    /\ Start(Binder, service[Binder], TRUE, 0)
    /\ UNCHANGED <<registryVars, readers, modemVars, nitzVars, worldVars,
                   misused>>

(* ... the radio state, ...                                                *)
SendRadioState ==
    /\ pc[Binder] = "idle" /\ stage = 2
    /\ stage' = 3
    /\ Start(Binder, service[Binder], TRUE, 0)
    /\ UNCHANGED <<registryVars, readers, modemVars, nitzVars, worldVars,
                   misused>>

(* ... the NITZ time that was put aside, if there is one ...               *)
resendLastNITZTimeData ==
    /\ pc[Binder] = "idle" /\ stage = 3
    /\ s_lastNITZTimeData # 0
    /\ stage' = 5
    /\ Start(Binder, service[Binder], FALSE, s_lastNITZTimeData)
    /\ UNCHANGED <<registryVars, readers, modemVars, nitzVars, worldVars,
                   misused>>

NothingToResend ==
    /\ pc[Binder] = "idle" /\ stage = 3
    /\ s_lastNITZTimeData = 0
    /\ stage' = 4
    /\ UNCHANGED <<registryVars, readers, threadVars, modemVars, nitzVars,
                   worldVars, misused>>

(* Seeded defect: the copy is freed though there was no client.            *)
ResentAlways ==
    /\ pc[Binder] = "return" /\ stage = 5
    /\ s_lastNITZTimeData' = 0
    /\ raced' = (raced \/ s_lastNITZTimeData # time[Binder])
    /\ stage' = 4
    /\ Finish(Binder)
    /\ UNCHANGED <<registryVars, readers, modemVars, kept, told, worldVars,
                   misused>>

(* (freed once a client was called with it)                                *)
Resent ==
    /\ pc[Binder] = "return" /\ stage = 5
    /\ IF target[Binder] = 0
         THEN UNCHANGED <<s_lastNITZTimeData, raced>>
         ELSE /\ s_lastNITZTimeData' = 0
              /\ raced' = (raced \/ s_lastNITZTimeData # time[Binder])
    /\ stage' = 4
    /\ Finish(Binder)
    /\ UNCHANGED <<registryVars, readers, modemVars, kept, told, worldVars,
                   misused>>

(* ... and, for the second SIM and once after boot, has the modem reset.   *)
ConnectDone ==
    LET reset == service[Binder][1] = 1 /\ ~muxreport IN
    /\ pc[Binder] = "idle" /\ stage = 4
    /\ gsmRilInit' = (gsmRilInit /\ ~reset)
    /\ muxreport' = (muxreport \/ reset)
    /\ stage' = 0
    /\ Finish(Binder)
    /\ UNCHANGED <<registryVars, readers, nitzVars, worldVars, misused>>

(* External: the modem has come up again.                                  *)
ModemUp ==
    /\ ~gsmRilInit
    /\ gsmRilInit' = TRUE
    /\ UNCHANGED <<registryVars, readers, threadVars, stage, muxreport,
                   nitzVars, worldVars, misused>>

-----------------------------------------------------------------------------
Crashed == \E t \in Threads : pc[t] = "crashed"

CallbackStep(t) ==
    \/ RdLock(t) \/ TestCallback(t) \/ CallCallback(t) \/ CallNull(t)
    \/ NoteCounter(t) \/ ResetCallback(t) \/ Relock(t)
    \/ ReturnCallback(t) \/ StoreNitz(t)

ConnectStep ==
    \/ WaitForInit \/ SendRadioState
    \/ resendLastNITZTimeData \/ NothingToResend \/ Resent \/ ConnectDone

Next ==
    /\ ~Crashed
    /\ \/ \E t \in Threads : CallbackStep(t)
       \/ ConnectStep
       \/ \E s \in Services :
             \/ setResponseFunctions(s)
             \/ \E t \in Vendors : Deliver(t, s) \/ DeliverNitz(t, s)
             \/ \E t \in {Binder, EventLoop} : sendErrorResponse(t, s)
       \/ \E g \in 1 .. clients : ClientDies(g)
       \/ ModemUp

Spec == Init /\ [][Next]_vars

(* Threads run, and the modem comes up after a reset.                      *)
Fairness ==
    /\ \A t \in Threads : WF_vars(~Crashed /\ CallbackStep(t))
    /\ WF_vars(~Crashed /\ ConnectStep)
    /\ WF_vars(~Crashed /\ ModemUp)

FairSpec == Spec /\ Fairness

-----------------------------------------------------------------------------
(* Properties *)

(* The threads, the counters and the lock are in one of their states.      *)
TypeOK ==
    /\ callback \in [Services -> 0 .. MaxClients]
    /\ \A s \in Services : counter[s] \in Nat
    /\ pc \in [Threads -> {"idle", "rdlock", "test", "call", "failed", "wrlock",
                           "relock", "return", "store", "crashed"}]
    /\ readers \in Nat
    /\ target \in [Threads -> 0 .. MaxClients]
    /\ time \in [Threads -> 0 .. MaxNitz]
    /\ stage \in 0 .. 5
    /\ s_lastNITZTimeData \in 0 .. MaxNitz
    /\ told \subseteq Times

(* The read locks held are those of the threads that took one, however     *)
(* checkReturnStatus has released and taken it in between.                 *)
LockBalanced ==
    ~misused => readers = Cardinality({t \in Threads :
                   locked[t] /\ pc[t] \in {"test", "call", "failed", "return"}})

(* Between the test and the call of a thread with the read lock, the       *)
(* callback object is neither dropped nor replaced: no null pointer is     *)
(* called.                                                                 *)
CallbackStays ==
    ~misused => \A t \in Threads :
        locked[t] /\ pc[t] \in {"call", "crashed"} =>
            callback[service[t]] = target[t] /\ target[t] # 0

(* What the counter is for: a failed call drops the callbacks of a client  *)
(* that has died, never those of one that registered in the meantime.      *)
OnlyDeadDropped ==
    [][\A s \in Services :
          callback[s] # 0 /\ callback'[s] = 0 /\ ~misused => callback[s] \in dead]_vars

(* The last NITZ time put aside is still there or was sent to a client,    *)
(* unless the one thread frees what another has just stored.               *)
NitzKept ==
    ~raced /\ kept # 0 => s_lastNITZTimeData = kept \/ kept \in told

(* Every response and indication returns: threads that wait for the write  *)
(* lock and threads that wait for the read lock do not block each other.   *)
CallEnds ==
    \A t \in Threads :
        pc[t] # "idle" ~> pc[t] = "idle" \/ Crashed \/ misused
=============================================================================
