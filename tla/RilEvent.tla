------------------------------ MODULE RilEvent ------------------------------
(***************************************************************************)
(* The event loop of libril (ril_event.cpp, and eventLoop, triggerEvLoop   *)
(* and userTimerCallback of ril.cpp): a sorted list of timers, a watch     *)
(* table and one thread in select().                                       *)
(*                                                                         *)
(* Timers are armed by any thread, which then writes a byte to the wakeup  *)
(* pipe so that select() is entered again with the new first deadline, and *)
(* by callbacks on the loop's own thread, which write nothing.  The wakeup *)
(* pipe's event, persistent, is the only one the program ever watches.     *)
(* A timer stands for one UserCallbackInfo: calloc, armed, fired, freed.   *)
(***************************************************************************)
EXTENDS Integers, Sequences, FiniteSets

CONSTANTS
    MaxTimers,   \* bound on UserCallbackInfos
    Threads,     \* threads that request timed callbacks
    Delays,      \* the relative times they ask for (NULL is 0)
    MaxTime,     \* bound on the monotonic clock
    MaxSignals   \* bound on interrupted select() calls

ASSUME TimeAssumption ==
    /\ Delays \subseteq Nat /\ MaxTime \in Nat
    /\ MaxTimers \in Nat /\ MaxSignals \in Nat

VARIABLES
    now,          \* CLOCK_MONOTONIC
    nextTimer,    \* UserCallbackInfos allocated so far
    timer_list,   \* armed timers, in list order
    timeout,      \* timeout[t]: the deadline of t
    pending_list, \* timers and Wakeup
    watched,      \* s_wakeupfd_event is in watch_table and readFds
    piped,        \* the wakeup pipe exists
    bytes,        \* bytes in the wakeup pipe
    tpc,          \* what each requesting thread is doing
    pc,           \* where the loop's thread is
    rfds,         \* its copy of readFds holds the wakeup fd; then: it is ready
    seen,         \* the deadline calcNextTimeout saw, or Forever
    tv,           \* the relative timeout for select, or Forever
    until,        \* when select times out, or Forever
    signals,      \* interrupted select() calls so far
    fired         \* timers whose callback ran, in order

loopVars == <<pc, rfds, seen, tv, until, signals>>
timerVars == <<nextTimer, timer_list, timeout>>
pipeVars == <<watched, piped, bytes>>
vars == <<now, timerVars, pending_list, pipeVars, tpc, loopVars, fired>>

Timers == 1 .. MaxTimers
Wakeup == 0   \* s_wakeupfd_event
Forever == -1

Elements(s) == {s[i] : i \in DOMAIN s}

Init ==
    /\ now = 0
    /\ nextTimer = 0
    /\ timer_list = <<>>
    /\ timeout = [t \in Timers |-> 0]
    /\ pending_list = <<>>
    /\ watched = FALSE
    /\ piped = FALSE
    /\ bytes = 0
    /\ tpc = [th \in Threads |-> "idle"]
    /\ pc = "pipe"
    /\ rfds = FALSE
    /\ seen = Forever
    /\ tv = Forever
    /\ until = Forever
    /\ signals = 0
    /\ fired = <<>>

-----------------------------------------------------------------------------
(* Arming timers *)

(* The walk of ril_timer_add: past the timers with a smaller deadline.     *)
Position(s, d) ==
    CHOOSE i \in 1 .. Len(s) + 1 :
        /\ i <= Len(s) => timeout[s[i]] >= d
        /\ \A j \in 1 .. i - 1 : timeout[s[j]] < d

(* Seeded defect: the timer goes to the end of the list.                   *)
ril_timer_addUnsorted(t, d) ==
    /\ nextTimer' = t
    /\ timeout' = [timeout EXCEPT ![t] = now + d]
    /\ timer_list' = Append(timer_list, t)

(* A timer is allocated and ril_timer_add links it, under listMutex.       *)
ril_timer_add(t, d) ==
    LET i == Position(timer_list, now + d)
    IN  /\ nextTimer' = t
        /\ timeout' = [timeout EXCEPT ![t] = now + d]
        /\ timer_list' = SubSeq(timer_list, 1, i - 1) \o <<t>>
                           \o SubSeq(timer_list, i, Len(timer_list))

(* internalRequestTimedCallback: a new UserCallbackInfo is armed ...       *)
RequestTimedCallback(th, d) ==
    /\ tpc[th] = "idle"
    /\ nextTimer < MaxTimers
    /\ ril_timer_add(nextTimer + 1, d)
    /\ tpc' = [tpc EXCEPT ![th] = "trigger"]
    /\ UNCHANGED <<now, pending_list, pipeVars, loopVars, fired>>

(* Seeded defect: the loop is not woken up.                                *)
triggerEvLoopForgets(th) ==
    /\ tpc[th] = "trigger"
    /\ tpc' = [tpc EXCEPT ![th] = "idle"]
    /\ UNCHANGED <<now, timerVars, pending_list, pipeVars, loopVars, fired>>

(* ... and triggerEvLoop writes a byte.  The caller waits for s_started,   *)
(* which is set before the pipe is made: until then the byte goes to       *)
(* descriptor 0.                                                           *)
triggerEvLoop(th) ==
    /\ tpc[th] = "trigger"
    /\ bytes' = IF piped THEN bytes + 1 ELSE bytes
    /\ tpc' = [tpc EXCEPT ![th] = "idle"]
    /\ UNCHANGED <<now, timerVars, pending_list, watched, piped, loopVars,
                   fired>>

-----------------------------------------------------------------------------
(* The loop's thread *)

(* eventLoop: the pipe is made and its read end watched.                   *)
MakePipe ==
    /\ pc = "pipe"
    /\ piped' = TRUE
    /\ pc' = "watch"
    /\ UNCHANGED <<now, timerVars, pending_list, watched, bytes, tpc, rfds,
                   seen, tv, until, signals, fired>>

(* Seeded defect: the event is put in the table but not in readFds.        *)
ril_event_addUnset ==
    /\ pc = "watch"
    /\ pc' = "copy"
    /\ UNCHANGED <<now, timerVars, pending_list, pipeVars, tpc, rfds, seen,
                   tv, until, signals, fired>>

(* ril_event_add: the first free entry of watch_table, and FD_SET.         *)
ril_event_add ==
    /\ pc = "watch"
    /\ watched' = TRUE
    /\ pc' = "copy"
    /\ UNCHANGED <<now, timerVars, pending_list, piped, bytes, tpc, rfds,
                   seen, tv, until, signals, fired>>

(* ril_event_loop: a local copy of readFds, without the mutex.             *)
CopyFds ==
    /\ pc = "copy"
    /\ rfds' = watched
    /\ pc' = "calc"
    /\ UNCHANGED <<now, timerVars, pending_list, pipeVars, tpc, seen, tv,
                   until, signals, fired>>

(* calcNextTimeout reads the first timer, again without the mutex.         *)
calcNextTimeout ==
    /\ pc = "calc"
    /\ seen' = IF timer_list = <<>> THEN Forever ELSE timeout[Head(timer_list)]
    /\ tv' = IF timer_list = <<>> THEN Forever
             ELSE IF seen' > now THEN seen' - now ELSE 0
    /\ pc' = "enter"
    /\ UNCHANGED <<now, timerVars, pending_list, pipeVars, tpc, rfds, until,
                   signals, fired>>

(* select starts to wait; a deadline beyond the clock's bound is cut to it. *)
EnterSelect ==
    /\ pc = "enter"
    /\ until' = IF tv = Forever THEN Forever
                ELSE IF now + tv > MaxTime THEN MaxTime ELSE now + tv
    /\ pc' = "select"
    /\ UNCHANGED <<now, timerVars, pending_list, pipeVars, tpc, rfds, seen,
                   tv, signals, fired>>

Readable == rfds /\ bytes > 0

(* select returns because the pipe is readable or its time is over.        *)
SelectReturns ==
    /\ pc = "select"
    /\ Readable \/ (until # Forever /\ now >= until)
    /\ rfds' = Readable
    /\ seen' = Forever /\ tv' = Forever /\ until' = Forever
    /\ pc' = "timeouts"
    /\ UNCHANGED <<now, timerVars, pending_list, pipeVars, tpc, signals,
                   fired>>

(* EINTR: round again.                                                     *)
SelectInterrupted ==
    /\ pc = "select"
    /\ signals < MaxSignals
    /\ signals' = signals + 1
    /\ seen' = Forever /\ tv' = Forever /\ until' = Forever
    /\ pc' = "copy"
    /\ UNCHANGED <<now, timerVars, pending_list, pipeVars, tpc, rfds, fired>>

(* The timers processTimeouts unlinks: the longest expired prefix.         *)
Expired ==
    CHOOSE n \in 0 .. Len(timer_list) :
        /\ \A i \in 1 .. n : now > timeout[timer_list[i]]
        /\ n < Len(timer_list) => ~(now > timeout[timer_list[n + 1]])

(* Seeded defect: timers are looked at but not unlinked.                   *)
processTimeoutsKeeps ==
    /\ pc = "timeouts"
    /\ pending_list' = pending_list \o SubSeq(timer_list, 1, Expired)
    /\ pc' = "reads"
    /\ UNCHANGED <<now, timerVars, pipeVars, tpc, rfds, seen, tv, until,
                   signals, fired>>

(* processTimeouts, under listMutex: strictly after the deadline.          *)
processTimeouts ==
    /\ pc = "timeouts"
    /\ pending_list' = pending_list \o SubSeq(timer_list, 1, Expired)
    /\ timer_list' = SubSeq(timer_list, Expired + 1, Len(timer_list))
    /\ pc' = "reads"
    /\ UNCHANGED <<now, nextTimer, timeout, pipeVars, tpc, rfds, seen, tv,
                   until, signals, fired>>

(* processReadReadies: the persistent wakeup event stays in the table.     *)
processReadReadies ==
    /\ pc = "reads"
    /\ pending_list' = IF rfds THEN Append(pending_list, Wakeup)
                               ELSE pending_list
    /\ rfds' = FALSE
    /\ pc' = "fire"
    /\ UNCHANGED <<now, timerVars, pipeVars, tpc, seen, tv, until, signals,
                   fired>>

(* firePending on the wakeup event: processWakeupCallback empties the pipe. *)
FireWakeup ==
    /\ pc = "fire"
    /\ pending_list # <<>> /\ Head(pending_list) = Wakeup
    /\ pending_list' = Tail(pending_list)
    /\ bytes' = 0
    /\ UNCHANGED <<now, timerVars, watched, piped, tpc, loopVars, fired>>

(* firePending on a timer: userTimerCallback calls it back and frees it.   *)
FireTimer ==
    /\ pc = "fire"
    /\ pending_list # <<>> /\ Head(pending_list) # Wakeup
    /\ pending_list' = Tail(pending_list)
    /\ fired' = Append(fired, Head(pending_list))
    /\ UNCHANGED <<now, timerVars, pipeVars, tpc, loopVars>>

(* ... and the callback may arm another: no byte is written on this thread. *)
FireTimerRearms(d) ==
    /\ pc = "fire"
    /\ pending_list # <<>> /\ Head(pending_list) # Wakeup
    /\ nextTimer < MaxTimers
    /\ pending_list' = Tail(pending_list)
    /\ fired' = Append(fired, Head(pending_list))
    /\ ril_timer_add(nextTimer + 1, d)
    /\ UNCHANGED <<now, pipeVars, tpc, loopVars>>

FireDone ==
    /\ pc = "fire"
    /\ pending_list = <<>>
    /\ pc' = "copy"
    /\ UNCHANGED <<now, timerVars, pending_list, pipeVars, tpc, rfds, seen,
                   tv, until, signals, fired>>

(* External: time passes.                                                  *)
Tick ==
    /\ now < MaxTime
    /\ now' = now + 1
    /\ UNCHANGED <<timerVars, pending_list, pipeVars, tpc, loopVars, fired>>

LoopStep ==
    \/ MakePipe \/ ril_event_add
    \/ CopyFds \/ calcNextTimeout \/ EnterSelect
    \/ SelectReturns
    \/ processTimeouts \/ processReadReadies
    \/ FireWakeup \/ FireTimer \/ FireDone

Next ==
    \/ LoopStep
    \/ SelectInterrupted
    \/ \E d \in Delays : FireTimerRearms(d)
    \/ \E th \in Threads, d \in Delays : RequestTimedCallback(th, d)
    \/ \E th \in Threads : triggerEvLoop(th)
    \/ Tick

Spec == Init /\ [][Next]_vars

(* The loop's thread runs, a thread inside triggerEvLoop finishes, and     *)
(* time goes on up to its bound.                                           *)
Fairness ==
    /\ WF_vars(LoopStep)
    /\ \A th \in Threads : WF_vars(triggerEvLoop(th))
    /\ WF_vars(Tick)

FairSpec == Spec /\ Fairness

-----------------------------------------------------------------------------
(* Properties *)

(* The lists hold timers, and the loop is in one of its phases.            *)
TypeOK ==
    /\ now \in 0 .. MaxTime
    /\ nextTimer \in 0 .. MaxTimers
    /\ timer_list \in Seq(Timers)
    /\ timeout \in [Timers -> Nat]
    /\ pending_list \in Seq(Timers \cup {Wakeup})
    /\ watched \in BOOLEAN /\ piped \in BOOLEAN /\ bytes \in Nat
    /\ tpc \in [Threads -> {"idle", "trigger"}]
    /\ pc \in {"pipe", "watch", "copy", "calc", "enter", "select", "timeouts",
               "reads", "fire"}
    /\ rfds \in BOOLEAN
    /\ {seen, tv, until} \subseteq Nat \cup {Forever}
    /\ signals \in 0 .. MaxSignals
    /\ fired \in Seq(Timers)

(* An event is linked at most once, in the timer list or the pending list, *)
(* and a timer that was fired and freed not at all: addToList never links  *)
(* an event twice.                                                         *)
LinkedOnce ==
    LET all == timer_list \o pending_list \o fired
    IN  \A i, j \in DOMAIN all : all[i] = all[j] => i = j

(* The timers fire in the order of their deadlines, even those armed while *)
(* others are being fired, and none before its deadline has passed.        *)
FiresInOrder ==
    LET due == fired \o pending_list
        timers == {i \in DOMAIN due : due[i] # Wakeup}
    IN  /\ \A i \in timers : timeout[due[i]] < now
        /\ \A i, j \in timers : i < j => timeout[due[i]] <= timeout[due[j]]
        /\ \A i \in timers, j \in DOMAIN timer_list :
              timeout[due[i]] <= timeout[timer_list[j]]

(* While select sleeps on the deadline it saw, a timer with an earlier one *)
(* has somebody about to wake the loop: none is overlooked although the    *)
(* first timer and readFds are read without the mutex.                     *)
NoLostWakeup ==
    pc \in {"enter", "select"} =>
        \/ \A i \in DOMAIN timer_list :
              seen # Forever /\ timeout[timer_list[i]] >= seen
        \/ rfds /\ bytes > 0
        \/ \E th \in Threads : tpc[th] = "trigger"

(* Every armed timer whose deadline passes is fired.                       *)
EveryTimerFires ==
    \A t \in Timers :
        (t \in Elements(timer_list) /\ timeout[t] < MaxTime)
            ~> t \in Elements(fired)
=============================================================================
