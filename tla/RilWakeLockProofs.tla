------------------------- MODULE RilWakeLockProofs -------------------------
(***************************************************************************)
(* Proofs about RilWakeLock, for every number of threads, grabs and        *)
(* releases: from version 13 on the lock never outlives its timers, and    *)
(* the last timer is never a freed one.                                    *)
(***************************************************************************)
EXTENDS RilWakeLock, TLAPS

(* Notifier n is between the lock and the unlock of the mutex.             *)
InGrab(n) == npc[n] \in {"read", "cancel"}

(* The mutex is held by the thread that is in one of the two functions.    *)
MutexOwner ==
    /\ \A n \in Notifiers : npc[n] # "arm" /\ (InGrab(n) <=> mutex = n)
    /\ \A a \in Ackers : apc[a] = "cancel" <=> mutex = a

(* The loop is at work on a timer, or idle.                                *)
LoopHasTimer == lpc = "idle" <=> lT = NoTimer

(* Timers are numbered as they are allocated, and every one is either on   *)
(* the lists, or in the loop, or freed.                                    *)
TimersApart ==
    /\ armed \subseteq 1 .. nextTimer /\ cancelled \subseteq 1 .. nextTimer
    /\ freed \subseteq 1 .. nextTimer /\ lT \in 0 .. nextTimer
    /\ s_last_wake_timeout_info \in 0 .. nextTimer
    /\ \A t \in Notifiers \cup Ackers : reg[t] \in 0 .. nextTimer
    /\ armed \cap freed = {} /\ lT \notin armed /\ lT \notin freed

(* The timer of a grab is the newest one.  It is not cancelled, nor is it  *)
(* about to be, and it is on the lists or waits in the loop for the mutex. *)
GrabTimer ==
    \A n \in Notifiers : InGrab(n) =>
        /\ nT[n] = nextTimer /\ nextTimer # NoTimer
        /\ nT[n] \notin cancelled
        /\ s_last_wake_timeout_info # nT[n]
        /\ npc[n] = "cancel" => reg[n] # nT[n]
        /\ nT[n] \in armed \/ (lpc = "call" /\ lT = nT[n] /\ ~lParam)

(* A release has let go of the lock before it cancels the last timer.      *)
ReleasedFirst == \A a \in Ackers : apc[a] = "cancel" => ~held

(* The count is at most the number of grabs that have counted themselves.  *)
CountBounded ==
    /\ s_wakelock_count \in 0 .. nextTimer
    /\ \A n \in Notifiers : npc[n] = "read" => s_wakelock_count < nextTimer

(* The loop has forgotten the timer that it is about to free.              *)
Forgotten == lpc = "free" => s_last_wake_timeout_info # lT

CountedInv ==
    /\ MutexOwner
    /\ TimersApart
    /\ GrabTimer
    /\ ReleasedFirst
    /\ CountBounded
    /\ Forgotten
    /\ HeldHasTimer
    /\ LastIsLive

WakeInv == TypeOK /\ LoopHasTimer /\ (Counted => CountedInv)

-----------------------------------------------------------------------------
USE DEF Timers, NoTimer

(* Cancelling a timer that has been allocated.                             *)
LEMMA CancelledBounded ==
    ASSUME NEW N \in Nat, NEW S, S \subseteq 1 .. N, NEW t \in 0 .. N
    PROVE  S \cup ({t} \ {NoTimer}) \subseteq 1 .. N
OBVIOUS

(* The initial state.                                                      *)
LEMMA InitInv == Init => WakeInv
<1> SUFFICES ASSUME Init PROVE WakeInv
    OBVIOUS
<1> USE DEF Init
<1>1. TypeOK /\ LoopHasTimer
    <2>1. held \in BOOLEAN /\ lParam \in BOOLEAN
        OBVIOUS
    <2> QED
        BY <2>1, VersionsAssumption DEF TypeOK, LoopHasTimer
<1>2. MutexOwner
    BY ThreadsAssumption DEF MutexOwner, InGrab
<1>3. TimersApart /\ GrabTimer
    BY DEF TimersApart, GrabTimer, InGrab
<1>4. ReleasedFirst /\ CountBounded /\ Forgotten
    BY DEF ReleasedFirst, CountBounded, Forgotten
<1>5. HeldHasTimer /\ LastIsLive
    BY DEF HeldHasTimer, LastIsLive
<1> QED
    BY <1>1, <1>2, <1>3, <1>4, <1>5 DEF WakeInv, CountedInv

(* A grab takes the mutex and numbers its timer.                           *)
LEMMA GrabStep ==
    ASSUME WakeInv, NEW n \in Notifiers, Grab(n)
    PROVE  WakeInv'
<1> USE VersionsAssumption, ThreadsAssumption
    DEF WakeInv, Grab, lockVars, timerVars, threadVars, loopVars
<1>1. Counted' = Counted
    BY DEF Counted
<1>2. (TypeOK /\ LoopHasTimer)'
    BY DEF TypeOK, LoopHasTimer
<1>3. ASSUME Counted PROVE CountedInv'
    <2> USE <1>3 DEF CountedInv, TypeOK
    <2>1. MutexOwner'
        BY DEF MutexOwner, InGrab
    <2>2. TimersApart'
        BY DEF TimersApart
    <2>3. GrabTimer'
        BY DEF GrabTimer, TimersApart, MutexOwner, InGrab
    <2>4. ReleasedFirst'
        BY DEF ReleasedFirst, MutexOwner
    <2>5. CountBounded'
        BY DEF CountBounded
    <2>6. Forgotten'
        BY DEF Forgotten
    <2>7. HeldHasTimer'
        BY DEF HeldHasTimer, Grabbing
    <2>8. LastIsLive'
        BY DEF LastIsLive
    <2> QED
        BY <2>1, <2>2, <2>3, <2>4, <2>5, <2>6, <2>7, <2>8
<1> QED
    BY <1>2, <1>3

(* A grab without memory drops the lock.                                   *)
LEMMA GrabFailsStep ==
    ASSUME WakeInv, NEW n \in Notifiers, GrabFails(n)
    PROVE  WakeInv'
<1> USE VersionsAssumption, ThreadsAssumption
    DEF WakeInv, GrabFails, lockVars, timerVars, threadVars, loopVars
<1>1. Counted' = Counted
    BY DEF Counted
<1>2. (TypeOK /\ LoopHasTimer)'
    BY DEF TypeOK, LoopHasTimer
<1>3. ASSUME Counted PROVE CountedInv'
    <2> USE <1>3 DEF CountedInv, TypeOK
    <2>1. MutexOwner'
        BY DEF MutexOwner, InGrab
    <2>2. TimersApart'
        BY DEF TimersApart
    <2>3. GrabTimer'
        BY DEF GrabTimer, InGrab
    <2>4. ReleasedFirst'
        BY DEF ReleasedFirst
    <2>5. CountBounded'
        BY DEF CountBounded
    <2>6. Forgotten'
        BY DEF Forgotten
    <2>7. HeldHasTimer'
        BY DEF HeldHasTimer
    <2>8. LastIsLive'
        BY DEF LastIsLive
    <2> QED
        BY <2>1, <2>2, <2>3, <2>4, <2>5, <2>6, <2>7, <2>8
<1> QED
    BY <1>2, <1>3

(* Before version 13 the lock is acquired without the mutex.               *)
LEMMA AcquireStep ==
    ASSUME WakeInv, NEW n \in Notifiers, Acquire(n)
    PROVE  WakeInv'
<1> USE VersionsAssumption, ThreadsAssumption
    DEF WakeInv, Acquire, lockVars, timerVars, threadVars, loopVars
<1>1. Counted' = Counted
    BY DEF Counted
<1>2. (TypeOK /\ LoopHasTimer)'
    BY DEF TypeOK, LoopHasTimer
<1> QED
    BY <1>1, <1>2

(* Before version 13 the timer is armed after the response was sent.       *)
LEMMA ArmStep ==
    ASSUME WakeInv, NEW n \in Notifiers, Arm(n)
    PROVE  WakeInv'
<1> USE VersionsAssumption, ThreadsAssumption
    DEF WakeInv, Arm, lockVars, timerVars, threadVars, loopVars
<1>1. Counted' = Counted
    BY DEF Counted
<1>2. (TypeOK /\ LoopHasTimer)'
    BY DEF TypeOK, LoopHasTimer
<1>3. ~Counted
    BY DEF CountedInv, MutexOwner
<1> QED
    BY <1>1, <1>2, <1>3

(* Before version 13 a response that failed releases the lock.             *)
LEMMA ArmFailsStep ==
    ASSUME WakeInv, NEW n \in Notifiers, ArmFails(n)
    PROVE  WakeInv'
<1> USE VersionsAssumption, ThreadsAssumption
    DEF WakeInv, ArmFails, lockVars, timerVars, threadVars, loopVars
<1>1. Counted' = Counted
    BY DEF Counted
<1>2. (TypeOK /\ LoopHasTimer)'
    BY DEF TypeOK, LoopHasTimer
<1>3. ~Counted
    BY DEF CountedInv, MutexOwner
<1> QED
    BY <1>1, <1>2, <1>3

(* The last timer that a grab reads is not its own.                        *)
LEMMA ReadLastStep ==
    ASSUME WakeInv, NEW n \in Notifiers, ReadLast(n)
    PROVE  WakeInv'
<1> USE VersionsAssumption, ThreadsAssumption
    DEF WakeInv, ReadLast, lockVars, timerVars, threadVars, loopVars
<1>1. Counted' = Counted
    BY DEF Counted
<1>2. (TypeOK /\ LoopHasTimer)'
    BY DEF TypeOK, LoopHasTimer, CountedInv, CountBounded
<1>3. ASSUME Counted PROVE CountedInv'
    <2> USE <1>3 DEF CountedInv, TypeOK
    <2>1. MutexOwner'
        BY DEF MutexOwner, InGrab
    <2>2. TimersApart'
        BY DEF TimersApart
    <2>3. GrabTimer'
        BY DEF GrabTimer, InGrab
    <2>4. ReleasedFirst'
        BY DEF ReleasedFirst
    <2>5. CountBounded'
        BY DEF CountBounded, MutexOwner, InGrab
    <2>6. Forgotten'
        BY DEF Forgotten
    <2>7. HeldHasTimer'
        BY DEF HeldHasTimer, Grabbing
    <2>8. LastIsLive'
        BY DEF LastIsLive
    <2> QED
        BY <2>1, <2>2, <2>3, <2>4, <2>5, <2>6, <2>7, <2>8
<1> QED
    BY <1>1, <1>2, <1>3

(* A grab ends with a timer that nobody has cancelled.                     *)
LEMMA CancelLastStep ==
    ASSUME WakeInv, NEW n \in Notifiers, CancelLast(n)
    PROVE  WakeInv'
<1> USE VersionsAssumption, ThreadsAssumption
    DEF WakeInv, CancelLast, lockVars, timerVars, threadVars, loopVars
<1>1. Counted' = Counted
    BY DEF Counted
<1>2. (TypeOK /\ LoopHasTimer)'
    BY DEF TypeOK, LoopHasTimer
<1>3. ASSUME Counted PROVE CountedInv'
    <2> USE <1>3 DEF CountedInv, TypeOK
    <2>1. MutexOwner'
        BY DEF MutexOwner, InGrab
    <2>2. TimersApart'
        <3>1. reg[n] \in 0 .. nextTimer /\ nT[n] \in 0 .. nextTimer
            BY DEF TimersApart, GrabTimer, InGrab
        <3>2. nextTimer \in Nat /\ cancelled \subseteq 1 .. nextTimer
            BY DEF TimersApart
        <3>3. cancelled' = cancelled \cup ({reg[n]} \ {NoTimer})
            OBVIOUS
        <3>4. cancelled' \subseteq 1 .. nextTimer
            BY ONLY <3>1, <3>2, <3>3, CancelledBounded
        <3> QED
            BY <3>1, <3>4 DEF TimersApart
    <2>3. GrabTimer'
        BY DEF GrabTimer, MutexOwner, InGrab
    <2>4. ReleasedFirst'
        BY DEF ReleasedFirst
    <2>5. CountBounded'
        BY DEF CountBounded
    <2>6. Forgotten'
        BY DEF Forgotten, GrabTimer, TimersApart, InGrab
    <2>7. HeldHasTimer'
        BY DEF HeldHasTimer, GrabTimer, InGrab
    <2>8. LastIsLive'
        BY DEF LastIsLive, GrabTimer, TimersApart, InGrab
    <2> QED
        BY <2>1, <2>2, <2>3, <2>4, <2>5, <2>6, <2>7, <2>8
<1> QED
    BY <1>1, <1>2, <1>3

(* One grab less.                                                          *)
LEMMA ReleaseOneStep ==
    ASSUME WakeInv, NEW a \in Ackers, ReleaseOne(a)
    PROVE  WakeInv'
<1> USE VersionsAssumption, ThreadsAssumption
    DEF WakeInv, ReleaseOne, lockVars, timerVars, threadVars, loopVars
<1>1. Counted' = Counted
    BY DEF Counted
<1>2. (TypeOK /\ LoopHasTimer)'
    BY DEF TypeOK, LoopHasTimer
<1>3. ASSUME Counted PROVE CountedInv'
    <2> USE <1>3 DEF CountedInv, TypeOK
    <2>1. MutexOwner'
        BY DEF MutexOwner, InGrab
    <2>2. TimersApart'
        BY DEF TimersApart
    <2>3. GrabTimer'
        BY DEF GrabTimer, InGrab
    <2>4. ReleasedFirst'
        BY DEF ReleasedFirst
    <2>5. CountBounded'
        BY DEF CountBounded
    <2>6. Forgotten'
        BY DEF Forgotten
    <2>7. HeldHasTimer'
        BY DEF HeldHasTimer, Grabbing
    <2>8. LastIsLive'
        BY DEF LastIsLive
    <2> QED
        BY <2>1, <2>2, <2>3, <2>4, <2>5, <2>6, <2>7, <2>8
<1> QED
    BY <1>2, <1>3

(* The last release lets go of the lock first.                             *)
LEMMA ReleaseLastStep ==
    ASSUME WakeInv, NEW a \in Ackers, ReleaseLast(a)
    PROVE  WakeInv'
<1> USE VersionsAssumption, ThreadsAssumption
    DEF WakeInv, ReleaseLast, lockVars, timerVars, threadVars, loopVars
<1>1. Counted' = Counted
    BY DEF Counted
<1>2. (TypeOK /\ LoopHasTimer)'
    <2>1. held' \in BOOLEAN /\ lParam' \in BOOLEAN
        BY DEF TypeOK
    <2> QED
        BY <2>1 DEF TypeOK, LoopHasTimer
<1>3. ASSUME Counted PROVE CountedInv'
    <2> USE <1>3 DEF CountedInv, TypeOK
    <2>1. MutexOwner'
        BY DEF MutexOwner, InGrab
    <2>2. TimersApart'
        BY DEF TimersApart
    <2>3. GrabTimer'
        BY DEF GrabTimer, InGrab
    <2>4. ReleasedFirst'
        BY DEF ReleasedFirst
    <2>5. CountBounded'
        BY DEF CountBounded
    <2>6. Forgotten'
        BY DEF Forgotten
    <2>7. HeldHasTimer'
        BY DEF HeldHasTimer
    <2>8. LastIsLive'
        BY DEF LastIsLive
    <2> QED
        BY <2>1, <2>2, <2>3, <2>4, <2>5, <2>6, <2>7, <2>8
<1> QED
    BY <1>2, <1>3

(* Then it cancels the last timer.                                         *)
LEMMA ReleaseCancelsStep ==
    ASSUME WakeInv, NEW a \in Ackers, ReleaseCancels(a)
    PROVE  WakeInv'
<1> USE VersionsAssumption, ThreadsAssumption
    DEF WakeInv, ReleaseCancels, lockVars, timerVars, threadVars, loopVars
<1>1. Counted' = Counted
    BY DEF Counted
<1>2. (TypeOK /\ LoopHasTimer)'
    BY DEF TypeOK, LoopHasTimer
<1>3. ASSUME Counted PROVE CountedInv'
    <2> USE <1>3 DEF CountedInv, TypeOK
    <2>1. MutexOwner'
        BY DEF MutexOwner, InGrab
    <2>2. TimersApart'
        <3>1. reg[a] \in 0 .. nextTimer
            BY DEF TimersApart
        <3>2. nextTimer \in Nat /\ cancelled \subseteq 1 .. nextTimer
            BY DEF TimersApart
        <3>3. cancelled' = cancelled \cup ({reg[a]} \ {NoTimer})
            OBVIOUS
        <3>4. cancelled' \subseteq 1 .. nextTimer
            BY ONLY <3>1, <3>2, <3>3, CancelledBounded
        <3> QED
            BY <3>4 DEF TimersApart
    <2>3. GrabTimer'
        BY DEF GrabTimer, MutexOwner, InGrab
    <2>4. ReleasedFirst'
        BY DEF ReleasedFirst
    <2>5. CountBounded'
        BY DEF CountBounded
    <2>6. Forgotten'
        BY DEF Forgotten
    <2>7. HeldHasTimer'
        BY DEF HeldHasTimer, ReleasedFirst
    <2>8. LastIsLive'
        BY DEF LastIsLive
    <2> QED
        BY <2>1, <2>2, <2>3, <2>4, <2>5, <2>6, <2>7, <2>8
<1> QED
    BY <1>1, <1>2, <1>3

(* Before version 13 a release just lets go of the lock.                   *)
LEMMA ReleaseStep ==
    ASSUME WakeInv, NEW a \in Ackers, Release(a)
    PROVE  WakeInv'
<1> USE VersionsAssumption, ThreadsAssumption
    DEF WakeInv, Release, lockVars, timerVars, threadVars, loopVars
<1>1. Counted' = Counted
    BY DEF Counted
<1>2. (TypeOK /\ LoopHasTimer)'
    <2>1. held' \in BOOLEAN /\ lParam' \in BOOLEAN
        BY DEF TypeOK
    <2> QED
        BY <2>1 DEF TypeOK, LoopHasTimer
<1> QED
    BY <1>1, <1>2

(* A timer moves from the lists into the loop.                             *)
LEMMA TimerExpiresStep ==
    ASSUME WakeInv, NEW t \in Timers, TimerExpires(t)
    PROVE  WakeInv'
<1> USE VersionsAssumption, ThreadsAssumption
    DEF WakeInv, TimerExpires, lockVars, timerVars, threadVars, loopVars
<1>1. Counted' = Counted
    BY DEF Counted
<1>2. (TypeOK /\ LoopHasTimer)'
    BY DEF TypeOK, LoopHasTimer
<1>3. ASSUME Counted PROVE CountedInv'
    <2> USE <1>3 DEF CountedInv, TypeOK
    <2>1. MutexOwner'
        BY DEF MutexOwner, InGrab
    <2>2. TimersApart'
        BY DEF TimersApart
    <2>3. GrabTimer'
        BY DEF GrabTimer, InGrab
    <2>4. ReleasedFirst'
        BY DEF ReleasedFirst
    <2>5. CountBounded'
        BY DEF CountBounded
    <2>6. Forgotten'
        BY DEF Forgotten
    <2>7. HeldHasTimer'
        <3>1. CASE t \in cancelled
            <4>1. armed' \ cancelled' = armed \ cancelled
                BY <3>1
            <4> QED
                BY <4>1 DEF HeldHasTimer, Grabbing
        <3>2. CASE t \notin cancelled
            <4>1. lpc' = "call" /\ ~lParam'
                BY <3>2
            <4> QED
                BY <4>1 DEF HeldHasTimer
        <3> QED
            BY <3>1, <3>2
    <2>8. LastIsLive'
        BY DEF LastIsLive
    <2> QED
        BY <2>1, <2>2, <2>3, <2>4, <2>5, <2>6, <2>7, <2>8
<1> QED
    BY <1>1, <1>2, <1>3

(* The timeout releases the lock.                                          *)
LEMMA WakeTimeoutCallbackStep ==
    ASSUME WakeInv, wakeTimeoutCallback
    PROVE  WakeInv'
<1> USE VersionsAssumption, ThreadsAssumption
    DEF WakeInv, wakeTimeoutCallback, lockVars, timerVars, threadVars, loopVars
<1>1. Counted' = Counted
    BY DEF Counted
<1>2. (TypeOK /\ LoopHasTimer)'
    <2>1. held' \in BOOLEAN /\ lParam' \in BOOLEAN
        BY DEF TypeOK
    <2> QED
        BY <2>1 DEF TypeOK, LoopHasTimer
<1>3. ASSUME Counted PROVE CountedInv'
    <2> USE <1>3 DEF CountedInv, TypeOK
    <2>1. MutexOwner'
        BY DEF MutexOwner, InGrab
    <2>2. TimersApart'
        BY DEF TimersApart
    <2>3. GrabTimer'
        BY DEF GrabTimer, MutexOwner, InGrab
    <2>4. ReleasedFirst'
        BY DEF ReleasedFirst
    <2>5. CountBounded'
        BY DEF CountBounded
    <2>6. Forgotten'
        BY DEF Forgotten
    <2>7. HeldHasTimer'
        BY DEF HeldHasTimer
    <2>8. LastIsLive'
        BY DEF LastIsLive
    <2> QED
        BY <2>1, <2>2, <2>3, <2>4, <2>5, <2>6, <2>7, <2>8
<1> QED
    BY <1>1, <1>2, <1>3

(* A cancelled timer leaves the lock alone.                                *)
LEMMA TimerWasCancelledStep ==
    ASSUME WakeInv, TimerWasCancelled
    PROVE  WakeInv'
<1> USE VersionsAssumption, ThreadsAssumption
    DEF WakeInv, TimerWasCancelled, lockVars, timerVars, threadVars, loopVars
<1>1. Counted' = Counted
    BY DEF Counted
<1>2. (TypeOK /\ LoopHasTimer)'
    BY DEF TypeOK, LoopHasTimer
<1>3. ASSUME Counted PROVE CountedInv'
    <2> USE <1>3 DEF CountedInv, TypeOK
    <2>1. MutexOwner'
        BY DEF MutexOwner, InGrab
    <2>2. TimersApart'
        BY DEF TimersApart
    <2>3. GrabTimer'
        BY DEF GrabTimer, InGrab
    <2>4. ReleasedFirst'
        BY DEF ReleasedFirst
    <2>5. CountBounded'
        BY DEF CountBounded
    <2>6. Forgotten'
        BY DEF Forgotten
    <2>7. HeldHasTimer'
        BY DEF HeldHasTimer, Grabbing
    <2>8. LastIsLive'
        BY DEF LastIsLive
    <2> QED
        BY <2>1, <2>2, <2>3, <2>4, <2>5, <2>6, <2>7, <2>8
<1> QED
    BY <1>1, <1>2, <1>3

(* The loop tests whether it has the last timer.                           *)
LEMMA TestLastStep ==
    ASSUME WakeInv, TestLast
    PROVE  WakeInv'
<1> USE VersionsAssumption, ThreadsAssumption
    DEF WakeInv, TestLast, lockVars, timerVars, threadVars, loopVars
<1>1. Counted' = Counted
    BY DEF Counted
<1>2. (TypeOK /\ LoopHasTimer)'
    BY DEF TypeOK, LoopHasTimer
<1>3. ASSUME Counted PROVE CountedInv'
    <2> USE <1>3 DEF CountedInv, TypeOK
    <2>1. MutexOwner'
        BY DEF MutexOwner, InGrab
    <2>2. TimersApart'
        BY DEF TimersApart
    <2>3. GrabTimer'
        BY DEF GrabTimer, InGrab
    <2>4. ReleasedFirst'
        BY DEF ReleasedFirst
    <2>5. CountBounded'
        BY DEF CountBounded
    <2>6. Forgotten'
        BY DEF Forgotten
    <2>7. HeldHasTimer'
        BY DEF HeldHasTimer, Grabbing
    <2>8. LastIsLive'
        BY DEF LastIsLive
    <2> QED
        BY <2>1, <2>2, <2>3, <2>4, <2>5, <2>6, <2>7, <2>8
<1> QED
    BY <1>1, <1>2, <1>3

(* The loop forgets the last timer, without the mutex.                     *)
LEMMA ClearLastStep ==
    ASSUME WakeInv, ClearLast
    PROVE  WakeInv'
<1> USE VersionsAssumption, ThreadsAssumption
    DEF WakeInv, ClearLast, lockVars, timerVars, threadVars, loopVars
<1>1. Counted' = Counted
    BY DEF Counted
<1>2. (TypeOK /\ LoopHasTimer)'
    BY DEF TypeOK, LoopHasTimer
<1>3. ASSUME Counted PROVE CountedInv'
    <2> USE <1>3 DEF CountedInv, TypeOK
    <2>1. MutexOwner'
        BY DEF MutexOwner, InGrab
    <2>2. TimersApart'
        BY DEF TimersApart
    <2>3. GrabTimer'
        BY DEF GrabTimer, InGrab
    <2>4. ReleasedFirst'
        BY DEF ReleasedFirst
    <2>5. CountBounded'
        BY DEF CountBounded
    <2>6. Forgotten'
        BY DEF Forgotten, LoopHasTimer
    <2>7. HeldHasTimer'
        BY DEF HeldHasTimer, Grabbing
    <2>8. LastIsLive'
        BY DEF LastIsLive
    <2> QED
        BY <2>1, <2>2, <2>3, <2>4, <2>5, <2>6, <2>7, <2>8
<1> QED
    BY <1>1, <1>2, <1>3

(* The loop frees its timer.                                               *)
LEMMA FreeTimerStep ==
    ASSUME WakeInv, FreeTimer
    PROVE  WakeInv'
<1> USE VersionsAssumption, ThreadsAssumption
    DEF WakeInv, FreeTimer, lockVars, timerVars, threadVars, loopVars
<1>1. Counted' = Counted
    BY DEF Counted
<1>2. (TypeOK /\ LoopHasTimer)'
    <2>1. held' \in BOOLEAN /\ lParam' \in BOOLEAN
        BY DEF TypeOK
    <2> QED
        BY DEF TypeOK, LoopHasTimer
<1>3. ASSUME Counted PROVE CountedInv'
    <2> USE <1>3 DEF CountedInv, TypeOK
    <2>1. MutexOwner'
        BY DEF MutexOwner, InGrab
    <2>2. TimersApart'
        BY DEF TimersApart, LoopHasTimer
    <2>3. GrabTimer'
        BY DEF GrabTimer, InGrab
    <2>4. ReleasedFirst'
        BY DEF ReleasedFirst
    <2>5. CountBounded'
        BY DEF CountBounded
    <2>6. Forgotten'
        BY DEF Forgotten
    <2>7. HeldHasTimer'
        BY DEF HeldHasTimer, Grabbing
    <2>8. LastIsLive'
        BY DEF LastIsLive, Forgotten
    <2> QED
        BY <2>1, <2>2, <2>3, <2>4, <2>5, <2>6, <2>7, <2>8
<1> QED
    BY <1>1, <1>2, <1>3

(* A step that changes nothing.                                            *)
LEMMA StutterStep ==
    ASSUME WakeInv, UNCHANGED vars
    PROVE  WakeInv'
BY DEF WakeInv, TypeOK, LoopHasTimer, CountedInv, MutexOwner, TimersApart, GrabTimer,
   ReleasedFirst, CountBounded, Forgotten, HeldHasTimer, LastIsLive, InGrab, Grabbing, Counted,
   vars, lockVars, timerVars, threadVars, loopVars

(* Every step of the system keeps the invariant.                           *)
LEMMA NextStep ==
    ASSUME WakeInv, [Next]_vars
    PROVE  WakeInv'
<1>1. ASSUME NEW n \in Notifiers,
             Grab(n) \/ GrabFails(n) \/ Acquire(n) \/ NotifierStep(n)
      PROVE  WakeInv'
    BY <1>1, GrabStep, GrabFailsStep, AcquireStep, ReadLastStep, CancelLastStep, ArmStep,
       ArmFailsStep DEF NotifierStep
<1>2. ASSUME NEW a \in Ackers,
             ReleaseOne(a) \/ ReleaseLast(a) \/ ReleaseCancels(a) \/ Release(a)
      PROVE  WakeInv'
    BY <1>2, ReleaseOneStep, ReleaseLastStep, ReleaseCancelsStep, ReleaseStep
<1>3. ASSUME LoopStep
      PROVE  WakeInv'
    BY <1>3, TimerExpiresStep, WakeTimeoutCallbackStep, TimerWasCancelledStep, TestLastStep,
       ClearLastStep, FreeTimerStep DEF LoopStep
<1> QED
    BY <1>1, <1>2, <1>3, StutterStep DEF Next

-----------------------------------------------------------------------------
(* WakeInv holds in every reachable state.                                 *)
THEOREM WakeInductive == Spec => []WakeInv
<1>1. Init => WakeInv
    BY InitInv
<1>2. WakeInv /\ [Next]_vars => WakeInv'
    BY NextStep
<1> QED
    BY <1>1, <1>2, PTL DEF Spec

(* Threads, timers and the loop are always in one of their states, before  *)
(* version 13 too (grabPartialWakeLock, releaseWakeLock).                  *)
THEOREM WakeTypeCorrect == Spec => []TypeOK
<1>1. WakeInv => TypeOK
    BY DEF WakeInv
<1> QED
    BY <1>1, WakeInductive, PTL

(* The wake lock never leaks (wakeTimeoutCallback): whoever holds it, a    *)
(* timer that nobody has cancelled is there to release it.                 *)
THEOREM LockHasTimer == Spec => []HeldHasTimer
<1>1. WakeInv => HeldHasTimer
    BY DEF WakeInv, CountedInv, HeldHasTimer
<1> QED
    BY <1>1, WakeInductive, PTL

(* s_last_wake_timeout_info is never a freed timer (userTimerCallback)     *)
(* when a grab or a release reads it.                                      *)
THEOREM LastTimerLive == Spec => []LastIsLive
<1>1. WakeInv => LastIsLive
    BY DEF WakeInv, CountedInv, LastIsLive
<1> QED
    BY <1>1, WakeInductive, PTL
=============================================================================
