---------------------------- MODULE RilWakeLock ----------------------------
(***************************************************************************)
(* The partial wake lock that libril holds while an unsolicited response   *)
(* is on its way to the framework (grabPartialWakeLock, releaseWakeLock,   *)
(* wakeTimeoutCallback, and send_unsolResponse around them).               *)
(*                                                                         *)
(* Every grab arms a timer that releases the lock, and cancels the timer   *)
(* of the grab before it by writing to its userParam.  From version 13 on  *)
(* a mutex guards the count of grabs and the framework acknowledges them;  *)
(* the event loop tests userParam and forgets the last timer without it.   *)
(* A timer is a UserCallbackInfo on the event loop (RilEvent).  A write to *)
(* a freed one changes nothing here: addresses are not recycled.           *)
(***************************************************************************)
EXTENDS Integers

CONSTANTS
    Notifiers,  \* threads that send unsolicited responses
    Ackers,     \* threads that release: acknowledgements and error exits
    Versions,   \* values of s_callbacksSocket.version
    MaxTimers,  \* bound on grabs
    MaxAcks,    \* bound on releases
    Nobody      \* no thread

ASSUME VersionsAssumption ==
    Versions \subseteq Nat /\ MaxTimers \in Nat /\ MaxAcks \in Nat
ASSUME ThreadsAssumption ==
    Notifiers \cap Ackers = {} /\ Nobody \notin Notifiers \cup Ackers

VARIABLES
    version,
    held,       \* the kernel's wake lock (acquiring it twice is no different)
    s_wakelock_count,
    mutex,      \* s_wakeLockCountMutex: its owner or Nobody
    s_last_wake_timeout_info, \* a timer or NoTimer
    armed,      \* timers on the event loop's lists
    cancelled,  \* timers whose userParam is not NULL
    freed,      \* timers that were freed
    nextTimer,  \* timers allocated so far
    npc, nT,    \* each notifier, and the timer it has armed
    reg,        \* the s_last_wake_timeout_info a thread has read
    apc, acks,  \* each releasing thread; releases so far
    lpc, lT, lParam \* the event loop, its timer and the userParam it read

lockVars == <<held, s_wakelock_count, mutex>>
timerVars == <<s_last_wake_timeout_info, armed, cancelled, freed, nextTimer>>
threadVars == <<npc, nT, reg, apc, acks>>
loopVars == <<lpc, lT, lParam>>
vars == <<version, lockVars, timerVars, threadVars, loopVars>>

Timers == 1 .. MaxTimers
NoTimer == 0
Counted == version >= 13

Init ==
    /\ version \in Versions
    /\ held = FALSE
    /\ s_wakelock_count = 0
    /\ mutex = Nobody
    /\ s_last_wake_timeout_info = NoTimer
    /\ armed = {} /\ cancelled = {} /\ freed = {}
    /\ nextTimer = 0
    /\ npc = [n \in Notifiers |-> "idle"]
    /\ nT = [n \in Notifiers |-> NoTimer]
    /\ reg = [n \in Notifiers \cup Ackers |-> NoTimer]
    /\ apc = [a \in Ackers |-> "idle"]
    /\ acks = 0
    /\ lpc = "idle" /\ lT = NoTimer /\ lParam = FALSE

-----------------------------------------------------------------------------
(* grabPartialWakeLock *)

(* From version 13 on: lock the mutex, acquire, arm the timer.             *)
Grab(n) ==
    /\ Counted
    /\ npc[n] = "idle"
    /\ mutex = Nobody
    /\ nextTimer < MaxTimers
    /\ mutex' = n
    /\ held' = TRUE
    /\ nextTimer' = nextTimer + 1
    /\ armed' = armed \cup {nextTimer + 1}
    /\ nT' = [nT EXCEPT ![n] = nextTimer + 1]
    /\ npc' = [npc EXCEPT ![n] = "read"]
    /\ UNCHANGED <<version, s_wakelock_count, s_last_wake_timeout_info,
                   cancelled, freed, reg, apc, acks, loopVars>>

(* ... or there is no memory for the timer: acquire and release at once,   *)
(* which takes the lock from whoever held it.                              *)
GrabFails(n) ==
    /\ Counted
    /\ npc[n] = "idle"
    /\ mutex = Nobody
    /\ held
    /\ held' = FALSE
    /\ UNCHANGED <<version, s_wakelock_count, mutex, timerVars, threadVars,
                   loopVars>>

(* Before version 13: acquire, and arm the timer only when the response    *)
(* was sent.                                                               *)
Acquire(n) ==
    /\ ~Counted
    /\ npc[n] = "idle"
    /\ nextTimer < MaxTimers
    /\ held' = TRUE
    /\ npc' = [npc EXCEPT ![n] = "arm"]
    /\ UNCHANGED <<version, s_wakelock_count, mutex, timerVars, nT, reg, apc,
                   acks, loopVars>>

Arm(n) ==
    /\ npc[n] = "arm"
    /\ nextTimer < MaxTimers
    /\ nextTimer' = nextTimer + 1
    /\ armed' = armed \cup {nextTimer + 1}
    /\ nT' = [nT EXCEPT ![n] = nextTimer + 1]
    /\ npc' = [npc EXCEPT ![n] = "read"]
    /\ UNCHANGED <<version, lockVars, s_last_wake_timeout_info, cancelled,
                   freed, reg, apc, acks, loopVars>>

(* ... or error_exit: no timer, the lock is released.                      *)
ArmFails(n) ==
    /\ npc[n] = "arm"
    /\ held' = FALSE
    /\ npc' = [npc EXCEPT ![n] = "idle"]
    /\ UNCHANGED <<version, s_wakelock_count, mutex, timerVars, nT, reg, apc,
                   acks, loopVars>>

(* The count goes up, and s_last_wake_timeout_info is tested ...           *)
ReadLast(n) ==
    /\ npc[n] = "read"
    /\ reg' = [reg EXCEPT ![n] = s_last_wake_timeout_info]
    /\ s_wakelock_count' = IF Counted THEN s_wakelock_count + 1
                                      ELSE s_wakelock_count
    /\ npc' = [npc EXCEPT ![n] = "cancel"]
    /\ UNCHANGED <<version, held, mutex, timerVars, nT, apc, acks, loopVars>>

(* Seeded defect: the new timer is cancelled, not the previous one.        *)
CancelLastOwn(n) ==
    /\ npc[n] = "cancel"
    /\ cancelled' = cancelled \cup {nT[n]}
    /\ s_last_wake_timeout_info' = nT[n]
    /\ mutex' = Nobody
    /\ npc' = [npc EXCEPT ![n] = "idle"]
    /\ nT' = [nT EXCEPT ![n] = NoTimer]
    /\ reg' = [reg EXCEPT ![n] = NoTimer]
    /\ UNCHANGED <<version, held, s_wakelock_count, armed, freed, nextTimer,
                   apc, acks, loopVars>>

(* ... written through, and replaced by the new timer.                     *)
CancelLast(n) ==
    /\ npc[n] = "cancel"
    /\ cancelled' = cancelled \cup ({reg[n]} \ {NoTimer})
    /\ s_last_wake_timeout_info' = nT[n]
    /\ mutex' = Nobody
    /\ npc' = [npc EXCEPT ![n] = "idle"]
    /\ nT' = [nT EXCEPT ![n] = NoTimer]
    /\ reg' = [reg EXCEPT ![n] = NoTimer]
    /\ UNCHANGED <<version, held, s_wakelock_count, armed, freed, nextTimer,
                   apc, acks, loopVars>>

-----------------------------------------------------------------------------
(* releaseWakeLock *)

(* From version 13 on: one grab less, ...                                  *)
ReleaseOne(a) ==
    /\ Counted
    /\ apc[a] = "idle"
    /\ acks < MaxAcks
    /\ mutex = Nobody
    /\ s_wakelock_count > 1
    /\ s_wakelock_count' = s_wakelock_count - 1
    /\ acks' = acks + 1
    /\ UNCHANGED <<version, held, mutex, timerVars, npc, nT, reg, apc,
                   loopVars>>

(* ... or the last one: the lock is released and its timer cancelled.      *)
ReleaseLast(a) ==
    /\ Counted
    /\ apc[a] = "idle"
    /\ acks < MaxAcks
    /\ mutex = Nobody
    /\ s_wakelock_count <= 1
    /\ s_wakelock_count' = 0
    /\ held' = FALSE
    /\ mutex' = a
    /\ reg' = [reg EXCEPT ![a] = s_last_wake_timeout_info]
    /\ apc' = [apc EXCEPT ![a] = "cancel"]
    /\ acks' = acks + 1
    /\ UNCHANGED <<version, timerVars, npc, nT, loopVars>>

ReleaseCancels(a) ==
    /\ apc[a] = "cancel"
    /\ cancelled' = cancelled \cup ({reg[a]} \ {NoTimer})
    /\ mutex' = Nobody
    /\ apc' = [apc EXCEPT ![a] = "idle"]
    /\ reg' = [reg EXCEPT ![a] = NoTimer]
    /\ UNCHANGED <<version, held, s_wakelock_count, s_last_wake_timeout_info,
                   armed, freed, nextTimer, npc, nT, acks, loopVars>>

(* Before version 13: just release.                                        *)
Release(a) ==
    /\ ~Counted
    /\ acks < MaxAcks
    /\ held' = FALSE
    /\ acks' = acks + 1
    /\ UNCHANGED <<version, s_wakelock_count, mutex, timerVars, npc, nT, reg,
                   apc, loopVars>>

-----------------------------------------------------------------------------
(* The event loop *)

(* A timer expires; userTimerCallback reads its userParam.                 *)
TimerExpires(t) ==
    /\ lpc = "idle"
    /\ t \in armed
    /\ armed' = armed \ {t}
    /\ lpc' = "call"
    /\ lT' = t
    /\ lParam' = (t \in cancelled)
    /\ UNCHANGED <<version, lockVars, s_last_wake_timeout_info, cancelled,
                   freed, nextTimer, threadVars>>

(* Seeded defect: the timeout forgets to release the lock.                 *)
wakeTimeoutCallbackKeeps ==
    /\ lpc = "call" /\ ~lParam
    /\ Counted => mutex = Nobody
    /\ s_wakelock_count' = 0
    /\ lpc' = "test"
    /\ UNCHANGED <<version, held, mutex, timerVars, threadVars, lT, lParam>>

(* wakeTimeoutCallback: release the lock, whatever the count.              *)
wakeTimeoutCallback ==
    /\ lpc = "call" /\ ~lParam
    /\ Counted => mutex = Nobody
    /\ s_wakelock_count' = 0
    /\ held' = FALSE
    /\ lpc' = "test"
    /\ UNCHANGED <<version, mutex, timerVars, threadVars, lT, lParam>>

TimerWasCancelled ==
    /\ lpc = "call" /\ lParam
    /\ lpc' = "test"
    /\ UNCHANGED <<version, lockVars, timerVars, threadVars, lT, lParam>>

(* userTimerCallback: is this the last timer?  Tested ...                  *)
TestLast ==
    /\ lpc = "test"
    /\ lpc' = IF s_last_wake_timeout_info = lT THEN "clear" ELSE "free"
    /\ UNCHANGED <<version, lockVars, timerVars, threadVars, lT, lParam>>

(* Seeded defect: the freed timer stays the last one.                      *)
ClearLastKeeps ==
    /\ lpc = "clear"
    /\ lpc' = "free"
    /\ UNCHANGED <<version, lockVars, timerVars, threadVars, lT, lParam>>

(* ... and cleared without the mutex,                                      *)
ClearLast ==
    /\ lpc = "clear"
    /\ s_last_wake_timeout_info' = NoTimer
    /\ lpc' = "free"
    /\ UNCHANGED <<version, lockVars, armed, cancelled, freed, nextTimer,
                   threadVars, lT, lParam>>

(* before the timer is freed.                                              *)
FreeTimer ==
    /\ lpc = "free"
    /\ freed' = freed \cup {lT}
    /\ lpc' = "idle"
    /\ lT' = NoTimer
    /\ lParam' = FALSE
    /\ UNCHANGED <<version, lockVars, s_last_wake_timeout_info, armed,
                   cancelled, nextTimer, threadVars>>

NotifierStep(n) == ReadLast(n) \/ CancelLast(n) \/ Arm(n) \/ ArmFails(n)

LoopStep ==
    \/ \E t \in Timers : TimerExpires(t)
    \/ wakeTimeoutCallback \/ TimerWasCancelled
    \/ TestLast \/ ClearLast \/ FreeTimer

Next ==
    \/ \E n \in Notifiers :
          Grab(n) \/ GrabFails(n) \/ Acquire(n) \/ NotifierStep(n)
    \/ \E a \in Ackers :
          ReleaseOne(a) \/ ReleaseLast(a) \/ ReleaseCancels(a) \/ Release(a)
    \/ LoopStep

Spec == Init /\ [][Next]_vars

(* Threads inside a function finish it, and timers expire.                 *)
Fairness ==
    /\ \A n \in Notifiers : WF_vars(NotifierStep(n))
    /\ \A a \in Ackers : WF_vars(ReleaseCancels(a))
    /\ WF_vars(LoopStep)

FairSpec == Spec /\ Fairness

-----------------------------------------------------------------------------
(* Properties *)

(* Timers and threads are in one of their states.                          *)
TypeOK ==
    /\ version \in Versions
    /\ held \in BOOLEAN
    /\ s_wakelock_count \in 0 .. MaxTimers
    /\ mutex \in Notifiers \cup Ackers \cup {Nobody}
    /\ s_last_wake_timeout_info \in Timers \cup {NoTimer}
    /\ armed \subseteq Timers
    /\ cancelled \subseteq Timers
    /\ freed \subseteq Timers
    /\ nextTimer \in 0 .. MaxTimers
    /\ npc \in [Notifiers -> {"idle", "arm", "read", "cancel"}]
    /\ nT \in [Notifiers -> Timers \cup {NoTimer}]
    /\ reg \in [Notifiers \cup Ackers -> Timers \cup {NoTimer}]
    /\ apc \in [Ackers -> {"idle", "cancel"}]
    /\ acks \in 0 .. MaxAcks
    /\ lpc \in {"idle", "call", "test", "clear", "free"}
    /\ lT \in Timers \cup {NoTimer} /\ lParam \in BOOLEAN

Grabbing == \E n \in Notifiers : npc[n] # "idle"

(* From version 13 on, the lock never leaks: whoever holds it, a timer is  *)
(* armed or running that will release it and that nobody has cancelled,    *)
(* although the loop forgets the last timer without the mutex.             *)
HeldHasTimer ==
    Counted /\ held =>
        \/ armed \ cancelled # {}
        \/ lpc = "call" /\ ~lParam
        \/ Grabbing

(* From version 13 on, s_last_wake_timeout_info never points to a timer    *)
(* that was freed, although a timer may expire before it is stored there.  *)
LastIsLive == Counted => s_last_wake_timeout_info \notin freed

(* From version 13 on, after the last grab the device may sleep again.     *)
FinallyReleased == Counted => <>[]~held
=============================================================================
