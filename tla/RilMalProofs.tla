---------------------------- MODULE RilMalProofs ----------------------------
(***************************************************************************)
(* Proofs about MtkChannels and RilMal, for every number of channels, of   *)
(* threads, of attempts and of requests.                                   *)
(***************************************************************************)
EXTENDS RilMal, SequenceTheorems, TLAPS

Threads == Dispatchers \cup {MalThread, EventLoop} \cup {Worker(c) : c \in Channels}

(* A thread in the vendor RIL that is neither a dispatch thread nor the    *)
(* event loop owns the mutex of the channel.                               *)
MutexInside ==
    \A c \in Channels : \A t \in inside[c] :
        t \in Dispatchers \cup {EventLoop} \/ t = s_chMutex[c]

(* A worker keeps the mutex while it runs a job.                           *)
WorkerHolds == \A c \in Channels : wpc[c] = "run" => s_chMutex[c] = Worker(c)

ChannelInv ==
    /\ ChannelTypeOK
    /\ s_chMutex \in [Channels -> Threads \cup {Nobody}]
    /\ s_proxyQ \in [Channels -> Seq(1 .. MaxJobs)]
    /\ MutexInside
    /\ WorkerHolds

(* The rild-mal thread works on a request.                                 *)
Busy == mpc \in {"reset", "lock", "call", "wait", "retry", "collect", "send", "release"}

(* A vendor thread has claimed the slot for the request and is to park.    *)
Parking(v, s) == vpc[v] = "park" /\ vRes[v][1] = s

Texts == (0 .. MaxSerial) \X (0 .. MAL_MAX_ATTEMPTS)
Errors == {0, GENERIC_FAILURE}
Slots == [pRI : 0 .. MaxSerial, done : BOOLEAN, err : Errors, text : Texts]
Replies == [err : Errors, text : Texts]

MalTypes ==
    /\ mpc \in {"accept", "read", "refuse", "reset", "lock", "call", "wait",
                "retry", "collect", "send", "release"}
    /\ serial \in 0 .. MaxSerial
    /\ chan \in Channels
    /\ attempt \in 0 .. MAL_MAX_ATTEMPTS
    /\ slot \in Slots
    /\ reply \in Replies
    /\ owed \subseteq Serials /\ freedRI \subseteq Serials
    /\ vpc \in [Vendors -> {"idle", "park"}]
    /\ vRes \in [Vendors -> Texts]
    /\ vErr \in [Vendors -> Errors]
    /\ answers \in [Serials -> 0 .. 1]
    /\ got \in [Serials -> Replies]

MalFlags == timedOut \in BOOLEAN /\ peer \in BOOLEAN /\ crossed \in BOOLEAN

(* What is so whether or not an answer was parked for another request.     *)
Sequential ==
    /\ slot.pRI = IF Busy THEN serial ELSE 0
    /\ Busy => serial # 0 /\ attempt # 0
    /\ mpc = "refuse" => serial # 0
    /\ mpc = "retry" => attempt < MAL_MAX_ATTEMPTS
    /\ timedOut => mpc \in {"collect", "send", "release"}
    /\ mpc = "call" => s_chMutex[chan] = MalThread

(* No request beyond the newest is known to anybody.                       *)
Numbered ==
    /\ \A s \in owed \cup freedRI : s <= serial
    /\ \A v \in Vendors : vpc[v] = "park" => vRes[v][1] <= serial
    /\ \A s \in Serials : s > serial => answers[s] = 0
    /\ (Busy /\ mpc # "release") \/ mpc = "refuse" => answers[serial] = 0

(* The token of the newest request is with the vendor RIL, or with one of  *)
(* its threads, or its answer is in the slot.  The first two only while    *)
(* the rild-mal thread is in the vendor RIL or waits, or after a timeout.  *)
TokenOnce ==
    /\ serial \in owed => \A v \in Vendors : ~Parking(v, serial)
    /\ \A v, w \in Vendors : Parking(v, serial) /\ Parking(w, serial) => v = w
    /\ Busy /\ (serial \in owed \/ \E v \in Vendors : Parking(v, serial))
         => ~slot.done /\ (mpc \in {"call", "wait"} \/ timedOut)
    /\ mpc = "lock" => ~slot.done
    /\ Busy => serial \notin freedRI
    /\ owed \cap freedRI = {}

(* The answer that is parked, or to be parked, is the one of the attempt.  *)
AnswerParked ==
    /\ \A v \in Vendors : Parking(v, serial) /\ mpc \in {"call", "wait"}
                            => vRes[v] = <<serial, attempt>>
    /\ mpc \in {"call", "wait"} /\ slot.done => slot.text = <<serial, attempt>>
    /\ mpc = "collect" /\ ~timedOut
         => slot.text = <<serial, attempt>> /\ (slot.err = 0 \/ attempt = MAL_MAX_ATTEMPTS)
    /\ Busy => slot.text = NoText \/ slot.text[1] = serial

(* ... and so is the one that is sent.                                     *)
AnswerSent ==
    /\ mpc = "send" => /\ reply.text = <<serial, attempt>> \/ timedOut
                       /\ reply.err # 0 => attempt = MAL_MAX_ATTEMPTS \/ timedOut
    /\ mpc \in {"send", "refuse"} => reply.text = NoText \/ reply.text[1] = serial
    /\ \A s \in Serials : got[s].text # NoText => got[s].text[1] = s

MalInv ==
    /\ ChannelInv
    /\ MalTypes
    /\ MalFlags
    /\ Sequential
    /\ Numbered
    /\ ~crossed => TokenOnce /\ AnswerParked /\ AnswerSent

-----------------------------------------------------------------------------
(* The channels *)

LEMMA IndexInRange ==
    ASSUME NEW i \in Int
    PROVE  mtkChannelIndex(i) \in Channels
BY ChannelsAssumption DEF mtkChannelIndex, Channels

LEMMA NobodyInside ==
    ASSUME NEW c \in Channels
    PROVE  /\ Nobody \notin Threads /\ Nobody \notin Channels
           /\ Worker(c) \in Threads /\ Worker(c) # Nobody /\ Worker(c) # MalThread
           /\ Worker(c) \notin Dispatchers \cup {EventLoop}
BY ThreadsAssumption DEF Threads

LEMMA ChannelInitInv == ChannelInit => ChannelInv
<1> SUFFICES ASSUME ChannelInit PROVE ChannelInv
    OBVIOUS
<1>1. ChannelTypeOK
    BY ChannelsAssumption DEF ChannelInit, ChannelTypeOK
<1>2. /\ s_chMutex \in [Channels -> Threads \cup {Nobody}]
      /\ s_proxyQ \in [Channels -> Seq(1 .. MaxJobs)]
    BY DEF ChannelInit
<1>3. MutexInside /\ WorkerHolds
    BY DEF ChannelInit, MutexInside, WorkerHolds
<1> QED
    BY <1>1, <1>2, <1>3 DEF ChannelInv

(* A step that leaves the channels alone.                                  *)
LEMMA ChannelSame ==
    ASSUME ChannelInv, UNCHANGED channelVars
    PROVE  ChannelInv'
BY DEF ChannelInv, ChannelTypeOK, MutexInside, WorkerHolds, channelVars, proxyVars

(* The part of the invariant that has nothing to do with the mutexes.      *)
QueueTypes ==
    /\ dpc \in [Dispatchers -> Channels \cup {Nobody}]
    /\ s_proxyWorkerUp \subseteq Channels
    /\ wpc \in [Channels -> {"none", "take", "waiting", "lock", "run"}]
    /\ wJob \in [Channels -> 0 .. MaxJobs]
    /\ lpc \in Channels \cup {Nobody}
    /\ jobs \in 0 .. MaxJobs /\ nomem \in 0 .. MaxNoMem
    /\ s_proxyQ \in [Channels -> Seq(1 .. MaxJobs)]

MutexTypes ==
    /\ s_chMutex \in [Channels -> Threads \cup {Nobody}]
    /\ inside \in [Channels -> SUBSET Threads]

LEMMA ChannelInvParts ==
    /\ ChannelInv => QueueTypes /\ MutexTypes /\ MutexInside /\ WorkerHolds
    /\ QueueTypes /\ MutexTypes /\ MutexInside /\ WorkerHolds => ChannelInv
BY DEF ChannelInv, ChannelTypeOK, QueueTypes, MutexTypes, Threads

(* A thread enters the vendor RIL without the mutex, ...                   *)
LEMMA UnlockedEnter ==
    ASSUME MutexTypes, MutexInside, NEW c \in Channels,
           NEW t \in Dispatchers \cup {EventLoop}, EnterVendor(c, t), UNCHANGED s_chMutex
    PROVE  MutexTypes' /\ MutexInside'
<1>1. MutexTypes'
    BY DEF MutexTypes, EnterVendor, Threads
<1>2. MutexInside'
    BY DEF MutexInside, EnterVendor
<1> QED
    BY <1>1, <1>2

LEMMA UnlockedLeave ==
    ASSUME MutexTypes, MutexInside, NEW c \in Channels, NEW t, LeaveVendor(c, t),
           UNCHANGED s_chMutex
    PROVE  MutexTypes' /\ MutexInside'
BY DEF MutexTypes, MutexInside, LeaveVendor

(* ... or with it.                                                         *)
LEMMA LockedEnter ==
    ASSUME MutexTypes, MutexInside, WorkerHolds, NEW c \in Channels, NEW t \in Threads,
           mtkChannelLock(c, t), EnterVendor(c, t)
    PROVE  /\ MutexTypes' /\ MutexInside' /\ s_chMutex'[c] = t /\ s_chMutex[c] = Nobody
           /\ \A b \in Channels : b # c => s_chMutex'[b] = s_chMutex[b]
<1>1. Nobody \notin Threads
    BY NobodyInside
<1>2. /\ s_chMutex[c] = Nobody /\ s_chMutex'[c] = t
      /\ inside'[c] = inside[c] \cup {t}
      /\ \A b \in Channels : b # c => s_chMutex'[b] = s_chMutex[b] /\ inside'[b] = inside[b]
    BY DEF mtkChannelLock, EnterVendor, MutexTypes
<1>3. MutexTypes'
    BY DEF MutexTypes, mtkChannelLock, EnterVendor
<1>4. MutexInside'
    BY <1>1, <1>2 DEF MutexTypes, MutexInside
<1> QED
    BY <1>2, <1>3, <1>4

LEMMA LockedLeave ==
    ASSUME MutexTypes, MutexInside, NEW c \in Channels, NEW t \in Threads,
           s_chMutex[c] = t, mtkChannelUnlock(c), LeaveVendor(c, t)
    PROVE  /\ MutexTypes' /\ MutexInside'
           /\ \A b \in Channels : b # c => s_chMutex'[b] = s_chMutex[b]
<1>1. /\ s_chMutex'[c] = Nobody /\ inside'[c] = inside[c] \ {t}
      /\ \A b \in Channels : b # c => s_chMutex'[b] = s_chMutex[b] /\ inside'[b] = inside[b]
    BY DEF mtkChannelUnlock, LeaveVendor, MutexTypes
<1>2. MutexTypes'
    BY DEF MutexTypes, mtkChannelUnlock, LeaveVendor
<1>3. MutexInside'
    BY <1>1 DEF MutexInside
<1> QED
    BY <1>1, <1>2, <1>3

(* A timer of the event loop, with a job for the queue of channel c.       *)
LEMMA QueueTyped ==
    ASSUME QueueTypes, NEW c \in Channels, Queue(c)
    PROVE  /\ s_proxyQ' \in [Channels -> Seq(1 .. MaxJobs)]
           /\ jobs' \in 0 .. MaxJobs
<1>1. jobs + 1 \in 1 .. MaxJobs
    BY ChannelsAssumption DEF QueueTypes, Queue
<1>2. Append(s_proxyQ[c], jobs + 1) \in Seq(1 .. MaxJobs)
    BY <1>1 DEF QueueTypes
<1> QED
    BY <1>1 DEF QueueTypes, Queue

LEMMA BroadcastTyped ==
    ASSUME QueueTypes
    PROVE  /\ Broadcast(wpc) \in [Channels -> {"none", "take", "waiting", "lock", "run"}]
           /\ \A c \in Channels : Broadcast(wpc)[c] = "run" <=> wpc[c] = "run"
BY DEF QueueTypes, Broadcast

(* The steps of the channels preserve the invariant, and none of them      *)
(* takes a mutex from the rild-mal thread.                                 *)
LEMMA ChannelStep ==
    ASSUME ChannelInv, ChannelNext
    PROVE  /\ ChannelInv'
           /\ \A c \in Channels : s_chMutex[c] = MalThread => s_chMutex'[c] = MalThread
<1>1. QueueTypes /\ MutexTypes /\ MutexInside /\ WorkerHolds
    BY ChannelInvParts
<1> SUFFICES /\ QueueTypes' /\ MutexTypes' /\ MutexInside' /\ WorkerHolds'
             /\ \A c \in Channels : s_chMutex[c] = MalThread => s_chMutex'[c] = MalThread
    BY DEF ChannelInv, ChannelTypeOK, QueueTypes, MutexTypes, Threads
<1>2. CASE \E d \in Dispatchers, c \in Channels : EnqueueEnter(d, c)
    <2> SUFFICES ASSUME NEW d \in Dispatchers, NEW c \in Channels, EnqueueEnter(d, c)
                 PROVE  /\ QueueTypes' /\ MutexTypes' /\ MutexInside' /\ WorkerHolds'
                        /\ UNCHANGED s_chMutex
        BY <1>2
    <2>1. UNCHANGED s_chMutex /\ EnterVendor(c, d)
        BY DEF EnqueueEnter
    <2>2. MutexTypes' /\ MutexInside'
        BY <1>1, <2>1, UnlockedEnter
    <2> QED
        BY <1>1, <2>2 DEF EnqueueEnter, QueueTypes, WorkerHolds, proxyVars
<1>3. CASE \E d \in Dispatchers : EnqueueLeave(d)
    <2> SUFFICES ASSUME NEW d \in Dispatchers, EnqueueLeave(d)
                 PROVE  /\ QueueTypes' /\ MutexTypes' /\ MutexInside' /\ WorkerHolds'
                        /\ UNCHANGED s_chMutex
        BY <1>3
    <2>1. UNCHANGED s_chMutex /\ LeaveVendor(dpc[d], d) /\ dpc[d] \in Channels
        BY <1>1 DEF EnqueueLeave, QueueTypes
    <2>2. MutexTypes' /\ MutexInside'
        BY <1>1, <2>1, UnlockedLeave
    <2> QED
        BY <1>1, <2>2 DEF EnqueueLeave, QueueTypes, WorkerHolds, proxyVars
<1>4. CASE \E id \in ProxyIds : ProxyTimer(id)
    <2>1. PICK id \in ProxyIds : ProxyTimer(id)
        BY <1>4
    <2>2. PICK c \in Channels : TimerFired(c) \/ TimerFiredStarts(c) \/ TimerFiredNoWorker(c)
                                  \/ TimerFiredOnLoop(c)
        BY <2>1, IndexInRange, ChannelsAssumption DEF ProxyTimer
    <2>3. CASE TimerFired(c) \/ TimerFiredStarts(c) \/ TimerFiredNoWorker(c)
        <3>1. Queue(c) /\ UNCHANGED <<s_chMutex, inside, dpc, wJob, lpc>>
            BY <2>3 DEF TimerFired, TimerFiredStarts, TimerFiredNoWorker
        <3>2. s_proxyQ' \in [Channels -> Seq(1 .. MaxJobs)] /\ jobs' \in 0 .. MaxJobs
            BY <1>1, <3>1, QueueTyped
        <3>3. /\ wpc' \in [Channels -> {"none", "take", "waiting", "lock", "run"}]
              /\ \A b \in Channels : wpc'[b] = "run" => wpc[b] = "run"
            BY <1>1, <2>3, BroadcastTyped DEF TimerFired, TimerFiredStarts, TimerFiredNoWorker
        <3>4. s_proxyWorkerUp' \subseteq Channels /\ nomem' \in 0 .. MaxNoMem
            BY <1>1, <2>3, ChannelsAssumption
               DEF TimerFired, TimerFiredStarts, TimerFiredNoWorker, QueueTypes
        <3>5. QueueTypes'
            BY <1>1, <3>1, <3>2, <3>3, <3>4 DEF QueueTypes
        <3> QED
            BY <1>1, <3>1, <3>3, <3>5 DEF MutexTypes, MutexInside, WorkerHolds
    <2>4. CASE TimerFiredOnLoop(c)
        <3>1. UNCHANGED s_chMutex /\ EnterVendor(c, EventLoop)
            BY <2>4 DEF TimerFiredOnLoop
        <3>2. MutexTypes' /\ MutexInside'
            BY <1>1, <3>1, UnlockedEnter
        <3> QED
            BY <1>1, <2>4, <3>2, ChannelsAssumption
               DEF TimerFiredOnLoop, QueueTypes, WorkerHolds
    <2> QED
        BY <2>2, <2>3, <2>4
<1>5. CASE \E c \in Channels : WorkerWaits(c) \/ WorkerTakes(c)
    <2>1. PICK c \in Channels : WorkerWaits(c) \/ WorkerTakes(c)
        BY <1>5
    <2>2. UNCHANGED <<s_chMutex, inside, dpc, s_proxyWorkerUp, lpc, jobs, nomem>>
        BY <2>1 DEF WorkerWaits, WorkerTakes
    <2>3. /\ wpc' \in [Channels -> {"none", "take", "waiting", "lock", "run"}]
          /\ \A b \in Channels : wpc'[b] = "run" => wpc[b] = "run"
        BY <1>1, <2>1 DEF WorkerWaits, WorkerTakes, QueueTypes
    <2>4. /\ s_proxyQ' \in [Channels -> Seq(1 .. MaxJobs)]
          /\ wJob' \in [Channels -> 0 .. MaxJobs]
        <3>1. CASE WorkerWaits(c)
            BY <1>1, <3>1 DEF WorkerWaits, QueueTypes
        <3>2. CASE WorkerTakes(c)
            <4>1. s_proxyQ[c] \in Seq(1 .. MaxJobs) /\ s_proxyQ[c] # <<>>
                BY <1>1, <3>2 DEF WorkerTakes, QueueTypes
            <4>2. Head(s_proxyQ[c]) \in 1 .. MaxJobs /\ Tail(s_proxyQ[c]) \in Seq(1 .. MaxJobs)
                BY <4>1, HeadTailProperties
            <4>3. Head(s_proxyQ[c]) \in 0 .. MaxJobs
                BY <4>2
            <4> QED
                BY <1>1, <3>2, <4>2 DEF WorkerTakes, QueueTypes
        <3> QED
            BY <2>1, <3>1, <3>2
    <2>5. QueueTypes'
        BY <1>1, <2>2, <2>3, <2>4 DEF QueueTypes
    <2> QED
        BY <1>1, <2>2, <2>3, <2>5 DEF MutexTypes, MutexInside, WorkerHolds
<1>6. CASE \E c \in Channels : WorkerEnters(c)
    <2>1. PICK c \in Channels : WorkerEnters(c)
        BY <1>6
    <2>2. /\ MutexTypes' /\ MutexInside' /\ s_chMutex'[c] = Worker(c) /\ s_chMutex[c] = Nobody
          /\ \A b \in Channels : b # c => s_chMutex'[b] = s_chMutex[b]
        BY <1>1, <2>1, LockedEnter, NobodyInside DEF WorkerEnters
    <2>3. QueueTypes' /\ \A b \in Channels : b # c => wpc'[b] = wpc[b]
        BY <1>1, <2>1 DEF WorkerEnters, QueueTypes
    <2>4. WorkerHolds'
        BY <1>1, <2>2, <2>3 DEF WorkerHolds
    <2> QED
        BY <2>2, <2>3, <2>4, ThreadsAssumption
<1>7. CASE \E c \in Channels : WorkerLeaves(c)
    <2>1. PICK c \in Channels : WorkerLeaves(c)
        BY <1>7
    <2>2. s_chMutex[c] = Worker(c)
        BY <1>1, <2>1 DEF WorkerLeaves, WorkerHolds
    <2>3. /\ MutexTypes' /\ MutexInside'
          /\ \A b \in Channels : b # c => s_chMutex'[b] = s_chMutex[b]
        BY <1>1, <2>1, <2>2, LockedLeave, NobodyInside DEF WorkerLeaves
    <2>4. QueueTypes' /\ wpc'[c] = "take" /\ \A b \in Channels : b # c => wpc'[b] = wpc[b]
        BY <1>1, <2>1, ChannelsAssumption DEF WorkerLeaves, QueueTypes
    <2>5. WorkerHolds'
        BY <1>1, <2>3, <2>4 DEF WorkerHolds
    <2> QED
        BY <2>2, <2>3, <2>4, <2>5, NobodyInside
<1>8. CASE LoopReturns
    <2>1. UNCHANGED s_chMutex /\ LeaveVendor(lpc, EventLoop) /\ lpc \in Channels
        BY <1>1, <1>8 DEF LoopReturns, QueueTypes
    <2>2. MutexTypes' /\ MutexInside'
        BY <1>1, <2>1, UnlockedLeave
    <2> QED
        BY <1>1, <1>8, <2>2 DEF LoopReturns, QueueTypes, WorkerHolds
<1> QED
    BY <1>2, <1>3, <1>4, <1>5, <1>6, <1>7, <1>8 DEF ChannelNext, WorkerStep

-----------------------------------------------------------------------------
(* The rild-mal thread and the vendor RIL *)

LEMMA EmptyTyped == NoText \in Texts /\ NoReply \in Replies /\ FreeSlot \in Slots
<1>1. 0 \in 0 .. MaxSerial /\ 0 \in 0 .. MAL_MAX_ATTEMPTS
    BY MalAssumption
<1>2. NoText \in Texts
    BY <1>1 DEF NoText, Texts
<1> QED
    BY <1>1, <1>2 DEF NoReply, Replies, FreeSlot, Slots, Errors

(* The writes to the slot.                                                 *)
LEMMA SlotWrite ==
    ASSUME NEW x \in Slots
    PROVE  /\ [x EXCEPT !.done = FALSE] \in Slots
           /\ [x EXCEPT !.pRI = 0] \in Slots
           /\ \A t \in Texts : [x EXCEPT !.text = t] \in Slots
           /\ \A e \in Errors, t \in Texts :
                 [x EXCEPT !.done = TRUE, !.err = e, !.text = t] \in Slots
<1>1. 0 \in 0 .. MaxSerial
    BY MalAssumption
<1> QED
    BY <1>1 DEF Slots

(* The steps of the connection.                                            *)
LEMMA ClientConnectsStep ==
    ASSUME MalInv, ClientConnects
    PROVE  MalInv'
<1> USE DEF MalInv
<1>1. ChannelInv'
    BY ChannelSame DEF ClientConnects
<1>2. MalTypes'
    BY DEF ClientConnects, MalTypes, vendorVars
<1>3. MalFlags'
    BY DEF ClientConnects, MalFlags
<1>4. Sequential'
    BY DEF ClientConnects, Sequential, Busy
<1>5. Numbered'
    BY DEF ClientConnects, Numbered, Busy, vendorVars
<1>6. ASSUME ~crossed'
      PROVE  TokenOnce' /\ AnswerParked' /\ AnswerSent'
    <2>1. ~crossed
        BY <1>6 DEF ClientConnects
    <2>2. TokenOnce'
        BY <1>6 DEF ClientConnects, TokenOnce, Parking, Busy, vendorVars
    <2>3. AnswerParked'
        BY DEF ClientConnects, AnswerParked, Busy
    <2>4. AnswerSent'
        BY <1>6 DEF ClientConnects, AnswerSent
    <2> QED
        BY <2>2, <2>3, <2>4
<1> QED
    BY <1>1, <1>2, <1>3, <1>4, <1>5, <1>6

LEMMA ClientHangsUpStep ==
    ASSUME MalInv, ClientHangsUp
    PROVE  MalInv'
<1> USE DEF MalInv
<1>1. ChannelInv'
    BY ChannelSame DEF ClientHangsUp
<1>2. MalTypes'
    BY DEF ClientHangsUp, MalTypes, malVars, vendorVars
<1>3. MalFlags'
    BY DEF ClientHangsUp, MalFlags, malVars
<1>4. Sequential'
    BY DEF ClientHangsUp, Sequential, Busy, malVars, channelVars
<1>5. Numbered'
    BY DEF ClientHangsUp, Numbered, Busy, malVars, vendorVars
<1>6. ASSUME ~crossed'
      PROVE  TokenOnce' /\ AnswerParked' /\ AnswerSent'
    <2>1. ~crossed
        BY <1>6 DEF ClientHangsUp
    <2>2. TokenOnce'
        BY <1>6 DEF ClientHangsUp, TokenOnce, Parking, Busy, malVars, vendorVars
    <2>3. AnswerParked'
        BY <1>6 DEF ClientHangsUp, AnswerParked, Parking, Busy, malVars, vendorVars
    <2>4. AnswerSent'
        BY <1>6 DEF ClientHangsUp, AnswerSent, malVars
    <2> QED
        BY <2>2, <2>3, <2>4
<1> QED
    BY <1>1, <1>2, <1>3, <1>4, <1>5, <1>6

LEMMA ConnectionDroppedStep ==
    ASSUME MalInv, ConnectionDropped
    PROVE  MalInv'
<1> USE DEF MalInv
<1>1. ChannelInv'
    BY ChannelSame DEF ConnectionDropped
<1>2. MalTypes'
    BY DEF ConnectionDropped, MalTypes, clientVars, vendorVars
<1>3. MalFlags'
    BY DEF ConnectionDropped, MalFlags, clientVars
<1>4. Sequential'
    BY DEF ConnectionDropped, Sequential, Busy
<1>5. Numbered'
    BY DEF ConnectionDropped, Numbered, Busy, clientVars, vendorVars
<1>6. ASSUME ~crossed'
      PROVE  TokenOnce' /\ AnswerParked' /\ AnswerSent'
    <2>1. ~crossed
        BY <1>6 DEF ConnectionDropped
    <2>2. TokenOnce'
        BY <1>6 DEF ConnectionDropped, TokenOnce, Parking, Busy, vendorVars
    <2>3. AnswerParked'
        BY DEF ConnectionDropped, AnswerParked, Busy
    <2>4. AnswerSent'
        BY <1>6 DEF ConnectionDropped, AnswerSent, clientVars
    <2> QED
        BY <2>2, <2>3, <2>4
<1> QED
    BY <1>1, <1>2, <1>3, <1>4, <1>5, <1>6

(* A frame is read: the request has the next number.                       *)
LEMMA FrameRefusedStep ==
    ASSUME MalInv, FrameRefused
    PROVE  MalInv'
<1> USE DEF MalInv
<1>1. ChannelInv'
    BY ChannelSame DEF FrameRefused
<1>2. MalTypes'
    <2>1. reply' \in Replies
        BY EmptyTyped DEF FrameRefused, Replies, Errors
    <2>2. serial' \in 0 .. MaxSerial
        BY MalAssumption DEF FrameRefused, MalTypes
    <2> QED
        BY <2>1, <2>2 DEF FrameRefused, MalTypes, clientVars, vendorVars
<1>3. MalFlags'
    BY DEF FrameRefused, MalFlags, clientVars
<1>4. Sequential'
    BY DEF FrameRefused, Sequential, Busy, MalTypes
<1>5. Numbered'
    <2>1. /\ serial' = serial + 1 /\ serial' \in Serials /\ serial \in Nat
          /\ UNCHANGED <<owed, freedRI, vpc, vRes, answers>>
        BY MalAssumption DEF FrameRefused, MalTypes, Serials, clientVars, vendorVars
    <2>2. answers[serial'] = 0
        BY <2>1 DEF Numbered
    <2>3. \A v \in Vendors : vRes[v][1] \in Nat
        BY DEF MalTypes, Texts
    <2>4. owed \cup freedRI \subseteq Nat /\ Serials \subseteq Nat
        BY DEF MalTypes, Serials
    <2> QED
        BY <2>1, <2>3, <2>4 DEF Numbered
<1>6. ASSUME ~crossed'
      PROVE  TokenOnce' /\ AnswerParked' /\ AnswerSent'
    <2>1. ~crossed
        BY <1>6 DEF FrameRefused
    <2>2. TokenOnce'
        BY <1>6 DEF FrameRefused, TokenOnce, Parking, Numbered, MalTypes, vendorVars
    <2>3. AnswerParked'
        BY DEF FrameRefused, AnswerParked, Busy
    <2>4. AnswerSent'
        BY <1>6 DEF FrameRefused, AnswerSent, clientVars
    <2> QED
        BY <2>2, <2>3, <2>4
<1> QED
    BY <1>1, <1>2, <1>3, <1>4, <1>5, <1>6

LEMMA FrameServedStep ==
    ASSUME MalInv, NEW sim \in SimIds, FrameServed(sim)
    PROVE  MalInv'
<1> USE DEF MalInv
<1>1. ChannelInv'
    BY ChannelSame DEF FrameServed
<1>2. MalTypes'
    <2>1. serial' \in 0 .. MaxSerial /\ serial' = serial + 1
        BY MalAssumption DEF FrameServed, MalTypes
    <2>2. slot' \in Slots
        BY <2>1, EmptyTyped DEF FrameServed, Slots
    <2>3. chan' \in Channels
        BY IndexInRange, MalAssumption DEF FrameServed
    <2>4. attempt' \in 0 .. MAL_MAX_ATTEMPTS
        BY MalAssumption DEF FrameServed
    <2> QED
        BY <2>1, <2>2, <2>3, <2>4 DEF FrameServed, MalTypes, clientVars, vendorVars
<1>3. MalFlags'
    BY DEF FrameServed, MalFlags, clientVars
<1>4. Sequential'
    BY DEF FrameServed, Sequential, Busy, MalTypes
<1>5. Numbered'
    <2>1. /\ serial' = serial + 1 /\ serial' \in Serials /\ serial \in Nat
          /\ UNCHANGED <<owed, freedRI, vpc, vRes, answers>>
        BY MalAssumption DEF FrameServed, MalTypes, Serials, clientVars, vendorVars
    <2>2. answers[serial'] = 0
        BY <2>1 DEF Numbered
    <2>3. \A v \in Vendors : vRes[v][1] \in Nat
        BY DEF MalTypes, Texts
    <2>4. owed \cup freedRI \subseteq Nat /\ Serials \subseteq Nat
        BY DEF MalTypes, Serials
    <2> QED
        BY <2>1, <2>3, <2>4 DEF Numbered
<1>6. ASSUME ~crossed'
      PROVE  TokenOnce' /\ AnswerParked' /\ AnswerSent'
    <2>1. ~crossed
        BY <1>6 DEF FrameServed
    <2>2. TokenOnce'
        BY <1>6 DEF FrameServed, TokenOnce, Parking, Numbered, MalTypes, vendorVars
    <2>3. AnswerParked'
        <3>1. slot'.text = NoText /\ ~slot'.done /\ mpc' = "reset"
            BY DEF FrameServed, FreeSlot
        <3> QED
            BY <3>1 DEF AnswerParked
    <2>4. AnswerSent'
        BY <1>6 DEF FrameServed, AnswerSent, clientVars
    <2> QED
        BY <2>2, <2>3, <2>4
<1> QED
    BY <1>1, <1>2, <1>3, <1>4, <1>5, <1>6

(* An attempt: nobody has the token when done is reset, ...                *)
LEMMA ResetDoneStep ==
    ASSUME MalInv, ResetDone
    PROVE  MalInv'
<1> USE DEF MalInv
<1>1. ChannelInv'
    BY ChannelSame DEF ResetDone
<1>2. MalTypes'
    <2>1. slot' \in Slots
        BY SlotWrite DEF ResetDone, MalTypes
    <2> QED
        BY <2>1 DEF ResetDone, MalTypes, clientVars, vendorVars
<1>3. MalFlags'
    BY DEF ResetDone, MalFlags, clientVars
<1>4. Sequential'
    BY DEF ResetDone, Sequential, Busy
<1>5. Numbered'
    BY DEF ResetDone, Numbered, Busy, clientVars, vendorVars
<1>6. ASSUME ~crossed'
      PROVE  TokenOnce' /\ AnswerParked' /\ AnswerSent'
    <2>1. ~crossed
        BY <1>6 DEF ResetDone
    <2>2. TokenOnce'
        BY <1>6 DEF ResetDone, TokenOnce, Parking, Busy, vendorVars
    <2>3. AnswerParked'
        BY <1>6 DEF ResetDone, AnswerParked, Busy
    <2>4. AnswerSent'
        BY <1>6 DEF ResetDone, AnswerSent, clientVars
    <2> QED
        BY <2>2, <2>3, <2>4
<1> QED
    BY <1>1, <1>2, <1>3, <1>4, <1>5, <1>6

(* ... the vendor RIL has it from here on.                                 *)
LEMMA MalEntersStep ==
    ASSUME MalInv, MalEnters
    PROVE  MalInv'
<1> USE DEF MalInv
<1>1. ChannelInv' /\ s_chMutex'[chan] = MalThread
    <2>1. QueueTypes /\ MutexTypes /\ MutexInside /\ WorkerHolds /\ chan \in Channels
        BY ChannelInvParts DEF MalTypes
    <2>2. /\ MutexTypes' /\ MutexInside' /\ s_chMutex'[chan] = MalThread
          /\ s_chMutex[chan] = Nobody
          /\ \A b \in Channels : b # chan => s_chMutex'[b] = s_chMutex[b]
        BY <2>1, LockedEnter DEF MalEnters, Threads
    <2>3. QueueTypes'
        BY <2>1 DEF MalEnters, QueueTypes, proxyVars
    <2>4. WorkerHolds'
        BY <2>1, <2>2, NobodyInside DEF MalEnters, WorkerHolds, proxyVars
    <2> QED
        BY <2>2, <2>3, <2>4 DEF ChannelInv, ChannelTypeOK, QueueTypes, MutexTypes, Threads
<1>2. MalTypes'
    <2>1. serial \in Serials
        BY DEF MalEnters, Sequential, Busy, MalTypes, Serials
    <2> QED
        BY <2>1 DEF MalEnters, MalTypes, clientVars
<1>3. MalFlags'
    BY DEF MalEnters, MalFlags, clientVars
<1>4. Sequential'
    BY <1>1 DEF MalEnters, Sequential, Busy
<1>5. Numbered'
    BY DEF MalEnters, Numbered, Busy, MalTypes, clientVars
<1>6. ASSUME ~crossed'
      PROVE  TokenOnce' /\ AnswerParked' /\ AnswerSent'
    <2>1. ~crossed
        BY <1>6 DEF MalEnters
    <2>2. TokenOnce'
        BY <1>6 DEF MalEnters, TokenOnce, Parking, Busy, Sequential
    <2>3. AnswerParked'
        BY <1>6 DEF MalEnters, AnswerParked, TokenOnce, Parking, Busy, Sequential
    <2>4. AnswerSent'
        BY <1>6 DEF MalEnters, AnswerSent, clientVars
    <2> QED
        BY <2>2, <2>3, <2>4
<1> QED
    BY <1>1, <1>2, <1>3, <1>4, <1>5, <1>6

LEMMA MalLeavesStep ==
    ASSUME MalInv, MalLeaves
    PROVE  MalInv'
<1> USE DEF MalInv
<1>1. ChannelInv'
    <2>1. QueueTypes /\ MutexTypes /\ MutexInside /\ WorkerHolds /\ chan \in Channels
        BY ChannelInvParts DEF MalTypes
    <2>2. s_chMutex[chan] = MalThread
        BY DEF MalLeaves, Sequential
    <2>3. /\ MutexTypes' /\ MutexInside'
          /\ \A b \in Channels : b # chan => s_chMutex'[b] = s_chMutex[b]
        BY <2>1, <2>2, LockedLeave DEF MalLeaves, Threads
    <2>4. QueueTypes'
        BY <2>1 DEF MalLeaves, QueueTypes, proxyVars
    <2>5. WorkerHolds'
        BY <2>1, <2>2, <2>3, NobodyInside DEF MalLeaves, WorkerHolds, proxyVars
    <2> QED
        BY <2>3, <2>4, <2>5 DEF ChannelInv, ChannelTypeOK, QueueTypes, MutexTypes, Threads
<1>2. MalTypes'
    BY DEF MalLeaves, MalTypes, clientVars, vendorVars
<1>3. MalFlags'
    BY DEF MalLeaves, MalFlags, clientVars
<1>4. Sequential'
    BY DEF MalLeaves, Sequential, Busy
<1>5. Numbered'
    BY DEF MalLeaves, Numbered, Busy, clientVars, vendorVars
<1>6. ASSUME ~crossed'
      PROVE  TokenOnce' /\ AnswerParked' /\ AnswerSent'
    <2>1. ~crossed
        BY <1>6 DEF MalLeaves
    <2>2. TokenOnce'
        BY <1>6 DEF MalLeaves, TokenOnce, Parking, Busy, vendorVars
    <2>3. AnswerParked'
        BY <1>6 DEF MalLeaves, AnswerParked, Parking, Busy, vendorVars
    <2>4. AnswerSent'
        BY <1>6 DEF MalLeaves, AnswerSent, clientVars
    <2> QED
        BY <2>2, <2>3, <2>4
<1> QED
    BY <1>1, <1>2, <1>3, <1>4, <1>5, <1>6

LEMMA MalCompletedStep ==
    ASSUME MalInv, MalCompleted
    PROVE  MalInv'
<1> USE DEF MalInv
<1>1. ChannelInv'
    BY ChannelSame DEF MalCompleted
<1>2. MalTypes'
    BY DEF MalCompleted, MalTypes, clientVars, vendorVars
<1>3. MalFlags'
    BY DEF MalCompleted, MalFlags, clientVars
<1>4. Sequential'
    BY MalAssumption DEF MalCompleted, Sequential, Busy, MalTypes
<1>5. Numbered'
    BY DEF MalCompleted, Numbered, Busy, clientVars, vendorVars
<1>6. ASSUME ~crossed'
      PROVE  TokenOnce' /\ AnswerParked' /\ AnswerSent'
    <2>1. ~crossed
        BY <1>6 DEF MalCompleted
    <2>2. TokenOnce'
        BY <1>6 DEF MalCompleted, TokenOnce, Parking, Busy, vendorVars
    <2>3. AnswerParked'
        <3>1. attempt >= MAL_MAX_ATTEMPTS => attempt = MAL_MAX_ATTEMPTS
            BY MalAssumption DEF MalTypes
        <3> QED
            BY <2>1, <3>1 DEF MalCompleted, AnswerParked
    <2>4. AnswerSent'
        BY <1>6 DEF MalCompleted, AnswerSent, clientVars
    <2> QED
        BY <2>2, <2>3, <2>4
<1> QED
    BY <1>1, <1>2, <1>3, <1>4, <1>5, <1>6

LEMMA MalTimesOutStep ==
    ASSUME MalInv, MalTimesOut
    PROVE  MalInv'
<1> USE DEF MalInv
<1>1. ChannelInv'
    BY ChannelSame DEF MalTimesOut
<1>2. MalTypes'
    BY DEF MalTimesOut, MalTypes, clientVars, vendorVars
<1>3. MalFlags'
    BY DEF MalTimesOut, MalFlags, clientVars
<1>4. Sequential'
    BY DEF MalTimesOut, Sequential, Busy
<1>5. Numbered'
    BY DEF MalTimesOut, Numbered, Busy, clientVars, vendorVars
<1>6. ASSUME ~crossed'
      PROVE  TokenOnce' /\ AnswerParked' /\ AnswerSent'
    <2>1. ~crossed
        BY <1>6 DEF MalTimesOut
    <2>2. TokenOnce'
        BY <1>6 DEF MalTimesOut, TokenOnce, Parking, Busy, vendorVars
    <2>3. AnswerParked'
        BY <1>6 DEF MalTimesOut, AnswerParked, Busy
    <2>4. AnswerSent'
        BY <1>6 DEF MalTimesOut, AnswerSent, clientVars
    <2> QED
        BY <2>2, <2>3, <2>4
<1> QED
    BY <1>1, <1>2, <1>3, <1>4, <1>5, <1>6

LEMMA MalRetriesStep ==
    ASSUME MalInv, MalRetries
    PROVE  MalInv'
<1> USE DEF MalInv
<1>1. ChannelInv'
    BY ChannelSame DEF MalRetries
<1>2. MalTypes'
    <2>1. attempt' \in 0 .. MAL_MAX_ATTEMPTS
        BY MalAssumption DEF MalRetries, MalTypes, Sequential
    <2> QED
        BY <2>1 DEF MalRetries, MalTypes, clientVars, vendorVars
<1>3. MalFlags'
    BY DEF MalRetries, MalFlags, clientVars
<1>4. Sequential'
    BY DEF MalRetries, Sequential, Busy, MalTypes
<1>5. Numbered'
    BY DEF MalRetries, Numbered, Busy, clientVars, vendorVars
<1>6. ASSUME ~crossed'
      PROVE  TokenOnce' /\ AnswerParked' /\ AnswerSent'
    <2>1. ~crossed
        BY <1>6 DEF MalRetries
    <2>2. TokenOnce'
        BY <1>6 DEF MalRetries, TokenOnce, Parking, Busy, vendorVars
    <2>3. AnswerParked'
        BY <1>6 DEF MalRetries, AnswerParked, Busy
    <2>4. AnswerSent'
        BY <1>6 DEF MalRetries, AnswerSent, clientVars
    <2> QED
        BY <2>2, <2>3, <2>4
<1> QED
    BY <1>1, <1>2, <1>3, <1>4, <1>5, <1>6

(* The answer.                                                             *)
LEMMA MalCollectsStep ==
    ASSUME MalInv, MalCollects
    PROVE  MalInv'
<1> USE DEF MalInv
<1>1. ChannelInv'
    BY ChannelSame DEF MalCollects
<1>2. MalTypes'
    <2>1. slot' \in Slots
        BY SlotWrite, EmptyTyped DEF MalCollects, MalTypes
    <2>2. slot.err \in Errors /\ slot.text \in Texts
        BY DEF MalTypes, Slots
    <2>3. reply' \in Replies
        BY <2>2 DEF MalCollects, Replies, Errors
    <2> QED
        BY <2>1, <2>3 DEF MalCollects, MalTypes, clientVars, vendorVars
<1>3. MalFlags'
    BY DEF MalCollects, MalFlags, clientVars
<1>4. Sequential'
    BY DEF MalCollects, Sequential, Busy
<1>5. Numbered'
    BY DEF MalCollects, Numbered, Busy, clientVars, vendorVars
<1>6. ASSUME ~crossed'
      PROVE  TokenOnce' /\ AnswerParked' /\ AnswerSent'
    <2>1. ~crossed
        BY <1>6 DEF MalCollects
    <2>2. TokenOnce'
        BY <1>6 DEF MalCollects, TokenOnce, Parking, Busy, vendorVars
    <2>3. AnswerParked'
        BY DEF MalCollects, AnswerParked
    <2>4. AnswerSent'
        BY <1>6 DEF MalCollects, AnswerSent, AnswerParked, Busy, clientVars
    <2> QED
        BY <2>2, <2>3, <2>4
<1> QED
    BY <1>1, <1>2, <1>3, <1>4, <1>5, <1>6

LEMMA SendFrameStep ==
    ASSUME MalInv, SendFrame
    PROVE  MalInv'
<1> USE DEF MalInv
<1>1. ChannelInv'
    BY ChannelSame DEF SendFrame
<1>2. MalTypes'
    <2>1. serial \in Serials /\ answers[serial] = 0
        BY DEF SendFrame, Sequential, Numbered, Busy, MalTypes, Serials
    <2>2. answers' \in [Serials -> 0 .. 1]
        BY <2>1 DEF SendFrame, MalTypes
    <2>3. got' \in [Serials -> Replies] /\ reply' \in Replies
        BY EmptyTyped DEF SendFrame, MalTypes
    <2> QED
        BY <2>2, <2>3 DEF SendFrame, MalTypes, vendorVars
<1>3. MalFlags'
    BY DEF SendFrame, MalFlags
<1>4. Sequential'
    BY DEF SendFrame, Sequential, Busy
<1>5. Numbered'
    BY DEF SendFrame, Numbered, Busy, MalTypes, vendorVars
<1>6. ASSUME ~crossed'
      PROVE  TokenOnce' /\ AnswerParked' /\ AnswerSent'
    <2>1. ~crossed
        BY <1>6 DEF SendFrame
    <2>2. TokenOnce'
        BY <1>6 DEF SendFrame, TokenOnce, Parking, Busy, vendorVars
    <2>3. AnswerParked'
        BY <1>6 DEF SendFrame, AnswerParked, Busy
    <2>4. AnswerSent'
        BY <1>6 DEF SendFrame, AnswerSent
    <2> QED
        BY <2>2, <2>3, <2>4
<1> QED
    BY <1>1, <1>2, <1>3, <1>4, <1>5, <1>6

LEMMA SendFrameFailsStep ==
    ASSUME MalInv, SendFrameFails
    PROVE  MalInv'
<1> USE DEF MalInv
<1>1. ChannelInv'
    <2>1. nomem' \in 0 .. MaxNoMem
        BY ChannelsAssumption DEF SendFrameFails, ChannelInv, ChannelTypeOK
    <2> QED
        BY <2>1
           DEF SendFrameFails, ChannelInv, ChannelTypeOK, MutexInside, WorkerHolds, proxyVars
<1>2. MalTypes'
    <2>1. reply' \in Replies
        BY EmptyTyped DEF SendFrameFails
    <2> QED
        BY <2>1 DEF SendFrameFails, MalTypes, vendorVars
<1>3. MalFlags'
    BY DEF SendFrameFails, MalFlags
<1>4. Sequential'
    BY DEF SendFrameFails, Sequential, Busy
<1>5. Numbered'
    BY DEF SendFrameFails, Numbered, vendorVars
<1>6. ASSUME ~crossed'
      PROVE  TokenOnce' /\ AnswerParked' /\ AnswerSent'
    <2>1. ~crossed
        BY <1>6 DEF SendFrameFails
    <2>2. TokenOnce'
        BY <1>6 DEF SendFrameFails, TokenOnce, Parking, Busy, vendorVars
    <2>3. AnswerParked'
        BY <1>6 DEF SendFrameFails, AnswerParked, Busy
    <2>4. AnswerSent'
        BY <1>6 DEF SendFrameFails, AnswerSent
    <2> QED
        BY <2>2, <2>3, <2>4
<1> QED
    BY <1>1, <1>2, <1>3, <1>4, <1>5, <1>6

LEMMA ReleaseSlotStep ==
    ASSUME MalInv, ReleaseSlot
    PROVE  MalInv'
<1> USE DEF MalInv
<1>1. ChannelInv'
    BY ChannelSame DEF ReleaseSlot
<1>2. MalTypes'
    <2>1. slot' \in Slots
        BY SlotWrite DEF ReleaseSlot, MalTypes
    <2>2. freedRI' \subseteq Serials
        BY DEF ReleaseSlot, MalTypes, Sequential, Busy, Serials
    <2>3. chan' \in Channels /\ attempt' \in 0 .. MAL_MAX_ATTEMPTS
        BY MalAssumption, ChannelsAssumption DEF ReleaseSlot, Channels
    <2> QED
        BY <2>1, <2>2, <2>3 DEF ReleaseSlot, MalTypes, clientVars, vendorVars
<1>3. MalFlags'
    BY DEF ReleaseSlot, MalFlags, clientVars
<1>4. Sequential'
    BY DEF ReleaseSlot, Sequential, Busy
<1>5. Numbered'
    BY DEF ReleaseSlot, Numbered, Busy, MalTypes, clientVars, vendorVars
<1>6. ASSUME ~crossed'
      PROVE  TokenOnce' /\ AnswerParked' /\ AnswerSent'
    <2>1. ~crossed
        BY <1>6 DEF ReleaseSlot
    <2>2. TokenOnce'
        BY <1>6 DEF ReleaseSlot, TokenOnce, Parking, Busy, vendorVars
    <2>3. AnswerParked'
        BY DEF ReleaseSlot, AnswerParked, Busy
    <2>4. AnswerSent'
        BY <1>6 DEF ReleaseSlot, AnswerSent, clientVars
    <2> QED
        BY <2>2, <2>3, <2>4
<1> QED
    BY <1>1, <1>2, <1>3, <1>4, <1>5, <1>6

(* The vendor RIL.                                                         *)
LEMMA VendorCompletesStep ==
    ASSUME MalInv, NEW v \in Vendors, NEW s \in Serials, NEW e \in {0, GENERIC_FAILURE},
           VendorCompletes(v, s, e)
    PROVE  MalInv'
<1> USE DEF MalInv
<1>1. ChannelInv'
    BY ChannelSame DEF VendorCompletes
<1>2. MalTypes'
    <2>1. <<s, attempt>> \in Texts
        BY DEF MalTypes, Texts, Serials
    <2>2. /\ vpc' \in [Vendors -> {"idle", "park"}] /\ vRes' \in [Vendors -> Texts]
          /\ vErr' \in [Vendors -> Errors]
        BY <2>1 DEF VendorCompletes, MalTypes, Errors
    <2> QED
        BY <2>2 DEF VendorCompletes, MalTypes, malVars, clientVars
<1>3. MalFlags'
    BY DEF VendorCompletes, MalFlags, malVars, clientVars
<1>4. Sequential'
    BY DEF VendorCompletes, Sequential, Busy, malVars, channelVars
<1>5. Numbered'
    BY DEF VendorCompletes, Numbered, Busy, MalTypes, malVars, clientVars
<1>6. ASSUME ~crossed'
      PROVE  TokenOnce' /\ AnswerParked' /\ AnswerSent'
    <2>1. ~crossed
        BY <1>6 DEF VendorCompletes
    <2>2. TokenOnce'
        BY <1>6 DEF VendorCompletes, TokenOnce, Parking, Busy, MalTypes, malVars
    <2>3. AnswerParked'
        BY <1>6 DEF VendorCompletes, AnswerParked, Parking, Busy, MalTypes, malVars
    <2>4. AnswerSent'
        BY <1>6 DEF VendorCompletes, AnswerSent, malVars, clientVars
    <2> QED
        BY <2>2, <2>3, <2>4
<1> QED
    BY <1>1, <1>2, <1>3, <1>4, <1>5, <1>6

LEMMA VendorCompletesLateStep ==
    ASSUME MalInv, NEW v \in Vendors, NEW s \in Serials, VendorCompletesLate(v, s)
    PROVE  MalInv'
<1> USE DEF MalInv
<1>1. ChannelInv'
    BY ChannelSame DEF VendorCompletesLate
<1>2. MalTypes'
    BY DEF VendorCompletesLate, MalTypes, malVars, clientVars
<1>3. MalFlags'
    BY DEF VendorCompletesLate, MalFlags, malVars, clientVars
<1>4. Sequential'
    BY DEF VendorCompletesLate, Sequential, Busy, malVars, channelVars
<1>5. Numbered'
    BY DEF VendorCompletesLate, Numbered, Busy, malVars, clientVars
<1>6. ASSUME ~crossed'
      PROVE  TokenOnce' /\ AnswerParked' /\ AnswerSent'
    <2>1. ~crossed
        BY <1>6 DEF VendorCompletesLate
    <2>2. TokenOnce'
        BY <1>6 DEF VendorCompletesLate, TokenOnce, Parking, Busy, malVars
    <2>3. AnswerParked'
        BY <1>6 DEF VendorCompletesLate, AnswerParked, Parking, Busy, malVars
    <2>4. AnswerSent'
        BY <1>6 DEF VendorCompletesLate, AnswerSent, malVars, clientVars
    <2> QED
        BY <2>2, <2>3, <2>4
<1> QED
    BY <1>1, <1>2, <1>3, <1>4, <1>5, <1>6

LEMMA malCompleteStep ==
    ASSUME MalInv, NEW v \in Vendors, malComplete(v)
    PROVE  MalInv'
<1> USE DEF MalInv
<1>1. ChannelInv'
    BY ChannelSame DEF malComplete
<1>2. MalTypes'
    <2>1. vErr[v] \in Errors /\ vRes[v] \in Texts
        BY DEF MalTypes
    <2>2. slot' \in Slots
        BY SlotWrite DEF malComplete, MalTypes
    <2>3. /\ vpc' \in [Vendors -> {"idle", "park"}] /\ vRes' \in [Vendors -> Texts]
          /\ vErr' \in [Vendors -> Errors]
        BY EmptyTyped DEF malComplete, MalTypes, Errors
    <2> QED
        BY <2>2, <2>3 DEF malComplete, MalTypes, malVars, clientVars
<1>3. MalFlags'
    BY DEF malComplete, MalFlags, malVars, clientVars
<1>4. Sequential'
    BY DEF malComplete, Sequential, Busy, malVars, channelVars
<1>5. Numbered'
    BY DEF malComplete, Numbered, Busy, MalTypes, malVars, clientVars
<1>6. ASSUME ~crossed'
      PROVE  TokenOnce' /\ AnswerParked' /\ AnswerSent'
    <2>1. ~crossed
        BY <1>6 DEF malComplete
    <2>2. TokenOnce'
        BY <1>6 DEF malComplete, TokenOnce, Parking, Busy, Sequential, MalTypes, malVars
    <2>3. AnswerParked'
        <3>1. CASE Busy
            <4>1. Parking(v, serial) /\ ~(mpc = "collect" /\ ~timedOut)
                BY <1>6, <3>1 DEF malComplete, Sequential, Parking, TokenOnce
            <4>2. slot'.done /\ slot'.text = vRes[v]
                BY DEF malComplete
            <4>3. \A w \in Vendors : vpc'[w] = "park" => vpc[w] = "park" /\ vRes'[w] = vRes[w]
                BY DEF malComplete, MalTypes
            <4>4. UNCHANGED malVars
                BY DEF malComplete
            <4> QED
                BY <2>1, <4>1, <4>2, <4>3, <4>4 DEF AnswerParked, Parking, malVars
        <3>2. CASE ~Busy
            BY <3>2 DEF malComplete, AnswerParked, Busy, malVars
        <3> QED
            BY <3>1, <3>2
    <2>4. AnswerSent'
        BY <1>6 DEF malComplete, AnswerSent, malVars, clientVars
    <2> QED
        BY <2>2, <2>3, <2>4
<1> QED
    BY <1>1, <1>2, <1>3, <1>4, <1>5, <1>6

(* The steps of the other threads leave the request alone.                 *)
LEMMA ChannelsStep ==
    ASSUME MalInv, ChannelNext,
           UNCHANGED <<malVars, slot, clientVars, vendorVars, crossed, freedRI>>
    PROVE  MalInv'
<1> USE DEF MalInv
<1>1. /\ ChannelInv'
      /\ \A c \in Channels : s_chMutex[c] = MalThread => s_chMutex'[c] = MalThread
    BY ChannelStep
<1>2. MalTypes' /\ MalFlags'
    BY DEF MalTypes, MalFlags, malVars, clientVars, vendorVars
<1>3. Sequential'
    BY <1>1 DEF Sequential, Busy, MalTypes, malVars
<1>4. Numbered'
    BY DEF Numbered, Busy, malVars, clientVars, vendorVars
<1>5. ASSUME ~crossed'
      PROVE  TokenOnce' /\ AnswerParked' /\ AnswerSent'
    BY <1>5
       DEF TokenOnce, AnswerParked, AnswerSent, Parking, Busy, malVars, clientVars, vendorVars
<1> QED
    BY <1>1, <1>2, <1>3, <1>4, <1>5

LEMMA StutterStep ==
    ASSUME MalInv, UNCHANGED vars
    PROVE  MalInv'
<1> USE DEF MalInv, vars
<1>1. ChannelInv'
    BY ChannelSame
<1>2. MalTypes' /\ MalFlags'
    BY DEF MalTypes, MalFlags, malVars, clientVars, vendorVars
<1>3. Sequential' /\ Numbered'
    BY DEF Sequential, Numbered, Busy, malVars, clientVars, vendorVars, channelVars
<1>4. ASSUME ~crossed'
      PROVE  TokenOnce' /\ AnswerParked' /\ AnswerSent'
    BY <1>4
       DEF TokenOnce, AnswerParked, AnswerSent, Parking, Busy, malVars, clientVars, vendorVars
<1> QED
    BY <1>1, <1>2, <1>3, <1>4

LEMMA InitInv == Init => MalInv
<1> SUFFICES ASSUME Init PROVE MalInv
    OBVIOUS
<1>1. ChannelInv
    BY ChannelInitInv DEF Init
<1>2. MalTypes
    BY EmptyTyped, MalAssumption, ChannelsAssumption DEF Init, MalTypes, Errors, Channels
<1>3. MalFlags
    BY DEF Init, MalFlags
<1>4. Sequential /\ Numbered
    BY DEF Init, Sequential, Numbered, Busy, FreeSlot
<1>5. TokenOnce /\ AnswerParked
    BY DEF Init, TokenOnce, AnswerParked, Parking, Busy
<1>6. AnswerSent
    BY DEF Init, AnswerSent, NoReply
<1> QED
    BY <1>1, <1>2, <1>3, <1>4, <1>5, <1>6 DEF MalInv

-----------------------------------------------------------------------------
(* Theorems *)

(* MalInv is an inductive invariant of the rild-mal thread (malDispatch,   *)
(* malClaim, malComplete) with the AT channels it shares.                  *)
THEOREM MalInductive == Spec => []MalInv
<1>1. MalInv /\ [Next]_vars => MalInv'
    <2> SUFFICES ASSUME MalInv, [Next]_vars PROVE MalInv'
        OBVIOUS
    <2>1. CASE MalStep
        BY <2>1, ConnectionDroppedStep, ResetDoneStep, MalEntersStep, MalLeavesStep,
           MalCompletedStep, MalTimesOutStep, MalRetriesStep, MalCollectsStep, SendFrameStep,
           SendFrameFailsStep, ReleaseSlotStep DEF MalStep
    <2>2. CASE ClientConnects \/ ClientHangsUp \/ FrameRefused
        BY <2>2, ClientConnectsStep, ClientHangsUpStep, FrameRefusedStep
    <2>3. CASE \E sim \in SimIds : FrameServed(sim)
        BY <2>3, FrameServedStep
    <2>4. CASE \E v \in Vendors, s \in Serials, e \in {0, GENERIC_FAILURE} :
                  VendorCompletes(v, s, e)
        BY <2>4, VendorCompletesStep
    <2>5. CASE \E v \in Vendors, s \in Serials : VendorCompletesLate(v, s)
        BY <2>5, VendorCompletesLateStep
    <2>6. CASE \E v \in Vendors : malComplete(v)
        BY <2>6, malCompleteStep
    <2>7. CASE ChannelNext /\ UNCHANGED <<malVars, slot, clientVars, vendorVars, crossed,
                                          freedRI>>
        BY <2>7, ChannelsStep
    <2>8. CASE UNCHANGED vars
        BY <2>8, StutterStep
    <2> QED
        BY <2>1, <2>2, <2>3, <2>4, <2>5, <2>6, <2>7, <2>8 DEF Next, MalNext
<1> QED
    BY <1>1, InitInv, PTL DEF Spec

(* The slot, the rild-mal thread and the channels stay in their states;    *)
(* no serial is answered twice (malSendFrame).                             *)
THEOREM MalTypeCorrect == Spec => []TypeOK
<1>1. MalInv => TypeOK
    <2> SUFFICES ASSUME MalInv PROVE TypeOK
        OBVIOUS
    <2>1. ChannelTypeOK
        BY DEF MalInv, ChannelInv
    <2>2. slot.pRI \in 0 .. MaxSerial /\ slot.done \in BOOLEAN
        BY DEF MalInv, MalTypes, Slots
    <2> QED
        BY <2>1, <2>2 DEF MalInv, MalTypes, MalFlags, TypeOK
<1> QED
    BY <1>1, MalInductive, PTL

(* malDispatch frees no RequestInfo that the vendor RIL still has, up to   *)
(* the first completion that is parked for another request.                *)
THEOREM TokensOutlive == Spec => []TokenOutlivesUncrossed
<1>1. MalInv => TokenOutlivesUncrossed
    BY DEF MalInv, TokenOnce, TokenOutlivesUncrossed, TokenOutlivesVendor
<1> QED
    BY <1>1, MalInductive, PTL

(* Up to then malDispatch answers with the result of the client's own      *)
(* command and of the last attempt.                                        *)
THEOREM AnswersOwn == Spec => []OwnAnswer
<1>1. MalInv => OwnAnswer
    BY DEF MalInv, AnswerSent, OwnAnswer
<1> QED
    BY <1>1, MalInductive, PTL

-----------------------------------------------------------------------------
(* The order of the proxy jobs, for MtkChannels alone *)

InHand(c) == IF wpc[c] = "lock" THEN <<wJob[c]>> ELSE <<>>

(* The jobs of a channel: those that were run, the one that is to be run   *)
(* next and those in the queue.                                            *)
History(c) == ran[c] \o InHand(c) \o s_proxyQ[c]

(* A worker has a job of its queue when it goes for the mutex, and there   *)
(* is none before it was started.                                          *)
JobsTyped ==
    /\ ran \in [Channels -> Seq(1 .. MaxJobs)]
    /\ \A c \in Channels : wpc[c] = "lock" => wJob[c] \in 1 .. MaxJobs
    /\ \A c \in Channels : c \notin s_proxyWorkerUp => wpc[c] = "none"

InOrder ==
    \A c \in Channels : \A i, k \in DOMAIN History(c) : i < k => History(c)[i] < History(c)[k]

InOneChannel ==
    \A j \in 1 .. jobs : \E c \in Channels : \A b \in Channels :
        j \in Range(History(b)) <=> b = c

(* The new job is greater than all.                                        *)
SoFar == \A c \in Channels : History(c) \in Seq(1 .. jobs)

FifoInv == ChannelInv /\ JobsTyped /\ SoFar /\ InOrder /\ InOneChannel

(* Appending to the queue appends to the history, ...                      *)
LEMMA ConcatAppend ==
    ASSUME NEW S, NEW s \in Seq(S), NEW q \in Seq(S), NEW e \in S
    PROVE  s \o Append(q, e) = Append(s \o q, e)
<1>1. Append(q, e) = q \o <<e>> /\ s \o q \in Seq(S) /\ <<e>> \in Seq(S)
    OBVIOUS
<1>2. Append(s \o q, e) = (s \o q) \o <<e>>
    OBVIOUS
<1> QED
    OBVIOUS

(* ... taking its first job keeps it, ...                                  *)
LEMMA TakeFirst ==
    ASSUME NEW S, NEW s \in Seq(S), NEW q \in Seq(S), q # <<>>
    PROVE  (s \o <<>>) \o q = (s \o <<Head(q)>>) \o Tail(q)
<1>1. Head(q) \in S /\ Tail(q) \in Seq(S) /\ <<Head(q)>> \in Seq(S)
    OBVIOUS
<1>2. <<Head(q)>> \o Tail(q) = q
    <2>1. <<Head(q)>> \o Tail(q) \in Seq(S) /\ Len(<<Head(q)>> \o Tail(q)) = Len(q)
        OBVIOUS
    <2>2. \A i \in 1 .. Len(q) : (<<Head(q)>> \o Tail(q))[i] = q[i]
        OBVIOUS
    <2> QED
        OBVIOUS
<1>3. s \o <<>> = s
    OBVIOUS
<1> QED
    BY <1>2

(* ... and so does running it.                                             *)
LEMMA RunNext ==
    ASSUME NEW S, NEW s \in Seq(S), NEW j \in S, NEW q
    PROVE  (s \o <<j>>) \o q = (Append(s, j) \o <<>>) \o q
OBVIOUS

LEMMA HistorySame ==
    ASSUME SoFar, InOrder, InOneChannel, UNCHANGED jobs,
           \A c \in Channels : History(c)' = History(c)
    PROVE  SoFar' /\ InOrder' /\ InOneChannel'
BY DEF SoFar, InOrder, InOneChannel

(* Appending the number of the newest job to a history of older ones.      *)
LEMMA AppendNewest ==
    ASSUME NEW n \in Nat, NEW h \in Seq(1 .. n), NEW g, g = Append(h, n + 1),
           \A i, k \in DOMAIN h : i < k => h[i] < h[k]
    PROVE  /\ g \in Seq(1 .. n + 1)
           /\ \A i, k \in DOMAIN g : i < k => g[i] < g[k]
           /\ Range(g) = Range(h) \cup {n + 1}
<1>1. h \in Seq(1 .. n + 1) /\ n + 1 \in 1 .. n + 1
    OBVIOUS
<1>2. g \in Seq(1 .. n + 1)
    OBVIOUS
<1>3. PICK l \in Nat : l = Len(h)
    OBVIOUS
<1>4. DOMAIN h = 1 .. l /\ \A i \in 1 .. l : h[i] \in 1 .. n
    BY <1>3
<1>5. DOMAIN g = 1 .. l + 1 /\ g[l + 1] = n + 1 /\ \A i \in 1 .. l : g[i] = h[i]
    BY <1>3
<1>6. ASSUME NEW i \in 1 .. l + 1, NEW k \in 1 .. l + 1, i < k
      PROVE  g[i] < g[k]
    <2>1. i \in 1 .. l
        BY <1>6
    <2>2. CASE k \in 1 .. l
        BY <1>5, <1>6, <2>1, <2>2
    <2>3. CASE k = l + 1
        BY <1>5, <2>1, <2>3
    <2>4. k \in 1 .. l \/ k = l + 1
        OBVIOUS
    <2> QED
        BY <2>2, <2>3, <2>4
<1>7. Range(g) = Range(h) \cup {n + 1}
    BY <1>4 DEF Range
<1> QED
    BY <1>7

LEMMA HistoryQueued ==
    ASSUME SoFar, InOrder, InOneChannel, jobs \in Nat, jobs' = jobs + 1, NEW c \in Channels,
           History(c)' = Append(History(c), jobs + 1),
           \A b \in Channels : b # c => History(b)' = History(b)
    PROVE  SoFar' /\ InOrder' /\ InOneChannel'
<1>1. /\ History(c)' \in Seq(1 .. jobs + 1)
      /\ \A i, k \in DOMAIN History(c)' : i < k => History(c)'[i] < History(c)'[k]
      /\ Range(History(c)') = Range(History(c)) \cup {jobs + 1}
    <2>1. PICK g : g = History(c)'
        OBVIOUS
    <2>2. PICK n \in Nat : n = jobs
        OBVIOUS
    <2>3. PICK h \in Seq(1 .. n) : h = History(c)
        BY <2>2 DEF SoFar
    <2>4. g = Append(h, n + 1) /\ \A i, k \in DOMAIN h : i < k => h[i] < h[k]
        BY <2>1, <2>2, <2>3 DEF InOrder
    <2>5. /\ g \in Seq(1 .. n + 1)
          /\ \A i, k \in DOMAIN g : i < k => g[i] < g[k]
          /\ Range(g) = Range(h) \cup {n + 1}
        BY ONLY <2>4, AppendNewest, n \in Nat, h \in Seq(1 .. n)
    <2> QED
        BY <2>1, <2>2, <2>3, <2>5
<1>2. SoFar'
    <2> SUFFICES ASSUME NEW b \in Channels PROVE History(b)' \in Seq(1 .. jobs')
        BY DEF SoFar
    <2>1. History(b) \in Seq(1 .. jobs + 1)
        BY DEF SoFar
    <2> QED
        BY <1>1, <2>1
<1>3. InOrder'
    BY <1>1 DEF InOrder
<1>4. InOneChannel'
    <2>1. \A b \in Channels : b # c => Range(History(b)') = Range(History(b))
        OBVIOUS
    <2>2. \A b \in Channels : jobs + 1 \notin Range(History(b))
        BY DEF SoFar, Range
    <2> SUFFICES ASSUME NEW j \in 1 .. jobs + 1
                 PROVE  \E a \in Channels : \A b \in Channels :
                            j \in Range(History(b)') <=> b = a
        BY DEF InOneChannel
    <2>3. CASE j = jobs + 1
        BY <1>1, <2>2, <2>3
    <2>4. CASE j # jobs + 1
        <3>1. PICK a \in Channels : \A b \in Channels : j \in Range(History(b)) <=> b = a
            BY <2>4 DEF InOneChannel
        <3>2. \A b \in Channels : j \in Range(History(b)') <=> j \in Range(History(b))
            BY <1>1, <2>4
        <3>3. \A b \in Channels : j \in Range(History(b)') <=> b = a
            BY <3>1, <3>2
        <3> QED
            BY <3>3
    <2> QED
        BY <2>3, <2>4
<1> QED
    BY <1>2, <1>3, <1>4

(* The job whose timer fires is the newest of its channel.                 *)
LEMMA TimerStep ==
    ASSUME FifoInv, NEW c \in Channels,
           TimerFired(c) \/ TimerFiredStarts(c) \/ TimerFiredNoWorker(c)
    PROVE  JobsTyped' /\ SoFar' /\ InOrder' /\ InOneChannel'
<1> USE DEF FifoInv
<1>1. QueueTypes
    BY ChannelInvParts
<1>2. Queue(c) /\ UNCHANGED <<wJob, ran>> /\ jobs' = jobs + 1 /\ jobs \in Nat
    BY <1>1 DEF TimerFired, TimerFiredStarts, TimerFiredNoWorker, Queue, QueueTypes
<1>3. /\ \A b \in Channels : wpc'[b] = "lock" <=> wpc[b] = "lock"
      /\ \A b \in Channels : b \notin s_proxyWorkerUp' => wpc'[b] = "none"
    BY DEF TimerFired, TimerFiredStarts, TimerFiredNoWorker, Broadcast, JobsTyped
<1>4. JobsTyped'
    BY <1>2, <1>3 DEF JobsTyped
<1>5. \A b \in Channels : InHand(b)' = InHand(b)
    BY <1>2, <1>3 DEF InHand
<1>6. /\ s_proxyQ'[c] = Append(s_proxyQ[c], jobs + 1)
      /\ \A b \in Channels : b # c => s_proxyQ'[b] = s_proxyQ[b]
    BY <1>1, <1>2 DEF Queue, QueueTypes
<1>7. \A b \in Channels : b # c => History(b)' = History(b)
    BY <1>2, <1>5, <1>6 DEF History
<1>8. History(c)' = Append(History(c), jobs + 1)
    <2>1. jobs + 1 \in 1 .. MaxJobs
        BY <1>2, ChannelsAssumption DEF Queue
    <2>2. ran[c] \in Seq(1 .. MaxJobs) /\ InHand(c) \in Seq(1 .. MaxJobs)
        <3>1. CASE wpc[c] = "lock"
            <4>1. wJob[c] \in 1 .. MaxJobs
                BY <3>1 DEF JobsTyped
            <4>2. InHand(c) = <<wJob[c]>>
                BY <3>1 DEF InHand
            <4> QED
                BY <4>1, <4>2 DEF JobsTyped
        <3>2. CASE wpc[c] # "lock"
            <4>1. InHand(c) = <<>>
                BY <3>2 DEF InHand
            <4> QED
                BY <4>1 DEF JobsTyped
        <3> QED
            BY <3>1, <3>2
    <2>3. ran[c] \o InHand(c) \in Seq(1 .. MaxJobs) /\ s_proxyQ[c] \in Seq(1 .. MaxJobs)
        BY <1>1, <2>2 DEF QueueTypes
    <2>4. History(c)' = (ran[c] \o InHand(c)) \o Append(s_proxyQ[c], jobs + 1)
        BY <1>2, <1>5, <1>6 DEF History
    <2>5. (ran[c] \o InHand(c)) \o Append(s_proxyQ[c], jobs + 1)
            = Append((ran[c] \o InHand(c)) \o s_proxyQ[c], jobs + 1)
        <3>1. PICK e \in 1 .. MaxJobs : e = jobs + 1
            BY <2>1
        <3>2. PICK x \in Seq(1 .. MaxJobs), q \in Seq(1 .. MaxJobs) :
                  x = ran[c] \o InHand(c) /\ q = s_proxyQ[c]
            BY <2>3
        <3>3. x \o Append(q, e) = Append(x \o q, e)
            OBVIOUS
        <3> QED
            BY <3>1, <3>2, <3>3
    <2> QED
        BY <2>4, <2>5 DEF History
<1> QED
    BY <1>2, <1>4, <1>7, <1>8, HistoryQueued

(* A worker moves a job within the history of its channel.                 *)
LEMMA WorkerHistory ==
    ASSUME FifoInv, NEW c \in Channels, WorkerStep(c)
    PROVE  JobsTyped' /\ SoFar' /\ InOrder' /\ InOneChannel'
<1> USE DEF FifoInv
<1>1. QueueTypes
    BY ChannelInvParts
<1>2. /\ ran[c] \in Seq(1 .. MaxJobs) /\ s_proxyQ[c] \in Seq(1 .. MaxJobs)
      /\ UNCHANGED <<jobs, s_proxyWorkerUp>>
      /\ \A b \in Channels : b # c => /\ wpc'[b] = wpc[b] /\ wJob'[b] = wJob[b]
                                      /\ ran'[b] = ran[b] /\ s_proxyQ'[b] = s_proxyQ[b]
    BY <1>1 DEF WorkerStep, WorkerWaits, WorkerTakes, WorkerEnters, WorkerLeaves, QueueTypes,
       JobsTyped
<1>3. \A b \in Channels : b # c => History(b)' = History(b)
    BY <1>2 DEF History, InHand
<1>4. c \in s_proxyWorkerUp
    BY DEF JobsTyped, WorkerStep, WorkerWaits, WorkerTakes, WorkerEnters, WorkerLeaves
<1>5. CASE WorkerWaits(c) \/ WorkerLeaves(c)
    <2>1. UNCHANGED <<ran, s_proxyQ>> /\ wpc[c] # "lock" /\ wpc'[c] # "lock"
        BY <1>1, <1>5 DEF WorkerWaits, WorkerLeaves, QueueTypes
    <2>2. History(c)' = History(c)
        BY <2>1 DEF History, InHand
    <2>3. JobsTyped'
        BY <1>2, <1>4, <2>1 DEF JobsTyped
    <2> QED
        BY <1>2, <1>3, <2>2, <2>3, HistorySame
<1>6. CASE WorkerTakes(c)
    <2>1. /\ wpc[c] = "take" /\ wpc'[c] = "lock" /\ s_proxyQ[c] # <<>> /\ UNCHANGED ran
          /\ wJob'[c] = Head(s_proxyQ[c]) /\ s_proxyQ'[c] = Tail(s_proxyQ[c])
        BY <1>1, <1>6 DEF WorkerTakes, QueueTypes
    <2>2. wJob'[c] \in 1 .. MaxJobs
        BY <1>2, <2>1, HeadTailProperties
    <2>3. InHand(c) = <<>> /\ InHand(c)' = <<Head(s_proxyQ[c])>>
        BY <2>1 DEF InHand
    <2>4. History(c)' = History(c)
        BY <1>2, <2>1, <2>3, TakeFirst DEF History
    <2>5. JobsTyped'
        BY <1>2, <2>1, <2>2 DEF JobsTyped
    <2> QED
        BY <1>2, <1>3, <2>4, <2>5, HistorySame
<1>7. CASE WorkerEnters(c)
    <2>1. /\ wpc[c] = "lock" /\ wpc'[c] = "run" /\ UNCHANGED s_proxyQ
          /\ ran' = [ran EXCEPT ![c] = Append(@, wJob[c])] /\ wJob[c] \in 1 .. MaxJobs
        BY <1>1, <1>7 DEF WorkerEnters, QueueTypes, JobsTyped
    <2>2. Append(ran[c], wJob[c]) \in Seq(1 .. MaxJobs)
        BY <1>2, <2>1
    <2>3. ran' \in [Channels -> Seq(1 .. MaxJobs)] /\ ran'[c] = Append(ran[c], wJob[c])
        BY <2>1 DEF JobsTyped
    <2>4. InHand(c) = <<wJob[c]>> /\ InHand(c)' = <<>>
        BY <2>1 DEF InHand
    <2>5. History(c)' = History(c)
        <3>1. History(c)' = (Append(ran[c], wJob[c]) \o <<>>) \o s_proxyQ[c]
            BY <2>1, <2>3, <2>4 DEF History
        <3>2. History(c) = (ran[c] \o <<wJob[c]>>) \o s_proxyQ[c]
            BY <2>4 DEF History
        <3>3. PICK x \in Seq(1 .. MaxJobs), j \in 1 .. MaxJobs : x = ran[c] /\ j = wJob[c]
            BY <1>2, <2>1
        <3>4. \A q : (x \o <<j>>) \o q = (Append(x, j) \o <<>>) \o q
            OBVIOUS
        <3> QED
            BY <3>1, <3>2, <3>3, <3>4
    <2>6. JobsTyped'
        BY <1>2, <2>1, <2>3 DEF JobsTyped
    <2> QED
        BY <1>2, <1>3, <2>5, <2>6, HistorySame
<1> QED
    BY <1>5, <1>6, <1>7 DEF WorkerStep

(* The jobs of a channel run in the order their timers fired, and each is  *)
(* run once by one worker (mtkProxyTimerFired, mtkProxyWorker), for every  *)
(* number of channels, jobs and threads.                                   *)
THEOREM JobsInOrder == ChannelSpec => []ProxyFifo
<1>1. ChannelInit => FifoInv
    <2> SUFFICES ASSUME ChannelInit PROVE FifoInv
        OBVIOUS
    <2>1. ChannelInv
        BY ChannelInitInv
    <2>2. JobsTyped /\ jobs = 0
        BY DEF ChannelInit, JobsTyped
    <2>3. \A c \in Channels : History(c) = <<>>
        BY DEF ChannelInit, History, InHand
    <2>4. SoFar
        BY <2>3, EmptySeq DEF SoFar
    <2>5. InOrder /\ InOneChannel
        BY <2>2, <2>3 DEF InOrder, InOneChannel
    <2> QED
        BY <2>1, <2>2, <2>4, <2>5 DEF FifoInv
<1>2. FifoInv /\ [ChannelNext]_channelVars => FifoInv'
    <2> SUFFICES ASSUME FifoInv, [ChannelNext]_channelVars PROVE FifoInv'
        OBVIOUS
    <2>1. ChannelInv'
        BY ChannelStep, ChannelSame DEF FifoInv
    <2>2. ASSUME UNCHANGED <<s_proxyQ, s_proxyWorkerUp, wpc, wJob, jobs, ran>>
          PROVE  JobsTyped' /\ SoFar' /\ InOrder' /\ InOneChannel'
        <3>1. JobsTyped' /\ \A c \in Channels : History(c)' = History(c)
            BY <2>2 DEF FifoInv, JobsTyped, History, InHand
        <3> QED
            BY <2>2, <3>1, HistorySame DEF FifoInv
    <2>3. CASE \E d \in Dispatchers :
                  (\E c \in Channels : EnqueueEnter(d, c)) \/ EnqueueLeave(d)
        BY <2>1, <2>2, <2>3 DEF EnqueueEnter, EnqueueLeave, proxyVars, FifoInv
    <2>4. CASE LoopReturns
        BY <2>1, <2>2, <2>4 DEF LoopReturns, FifoInv
    <2>5. CASE UNCHANGED channelVars
        BY <2>1, <2>2, <2>5 DEF channelVars, proxyVars, FifoInv
    <2>6. CASE \E id \in ProxyIds : ProxyTimer(id)
        <3>1. PICK c \in Channels :
                  TimerFired(c) \/ TimerFiredStarts(c) \/ TimerFiredNoWorker(c)
                    \/ TimerFiredOnLoop(c)
            BY <2>6, IndexInRange, ChannelsAssumption DEF ProxyTimer
        <3>2. CASE TimerFiredOnLoop(c)
            BY <2>1, <2>2, <3>2 DEF TimerFiredOnLoop, FifoInv
        <3>3. CASE TimerFired(c) \/ TimerFiredStarts(c) \/ TimerFiredNoWorker(c)
            BY <2>1, <3>3, TimerStep DEF FifoInv
        <3> QED
            BY <3>1, <3>2, <3>3
    <2>7. CASE \E c \in Channels : WorkerStep(c)
        BY <2>1, <2>7, WorkerHistory DEF FifoInv
    <2> QED
        BY <2>3, <2>4, <2>5, <2>6, <2>7 DEF ChannelNext
<1>3. FifoInv => ProxyFifo
    BY DEF FifoInv, InOrder, InOneChannel, ProxyFifo, History, InHand
<1> QED
    BY <1>1, <1>2, <1>3, PTL DEF ChannelSpec
=============================================================================
