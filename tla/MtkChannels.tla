---------------------------- MODULE MtkChannels ----------------------------
(***************************************************************************)
(* The AT channels of the MediaTek vendor RIL and the threads of libril    *)
(* that enter it: dispatch threads (my_enqueue), the proxy workers         *)
(* (mtkProxyTimerFired, mtkProxyWorker) and the event loop.  RilMal adds   *)
(* the rild-mal thread.                                                    *)
(*                                                                         *)
(* The vendor keeps one context per channel and fails the command of a     *)
(* second thread that reaches it.  libril has a mutex per channel          *)
(* (s_chMutex) for that.  A dispatch thread inside the vendor is there for *)
(* the length of its onRequest call.                                       *)
(***************************************************************************)
EXTENDS Integers, Sequences, FiniteSets, Functions

CONSTANTS
    MTK_CHANNEL_COUNT,
    ProxyIds,    \* proxy numbers of the vendor's timed callbacks
    Dispatchers, \* threads that call my_enqueue
    MaxJobs,     \* bound on proxy timed callbacks
    MaxNoMem,    \* bound on failed allocations and thread creations
    MalThread,   \* the rild-mal thread
    EventLoop,   \* the event loop's thread
    Nobody       \* no thread

ASSUME ChannelsAssumption ==
    /\ MTK_CHANNEL_COUNT \in Nat \ {0}
    /\ ProxyIds \subseteq Int
    /\ MaxJobs \in Nat /\ MaxNoMem \in Nat

VARIABLES
    s_chMutex,  \* s_chMutex[c]: its owner or Nobody
    inside,     \* inside[c]: threads in the vendor RIL on channel c
    dpc,        \* dpc[d]: the channel a dispatch thread is on, or Nobody
    s_proxyQ,   \* s_proxyQ[c]: the jobs queued for channel c
    s_proxyWorkerUp, \* channels whose worker was started
    wpc, wJob,  \* the worker of each channel and its job
    lpc,        \* the channel the loop runs a callback on, or Nobody
    jobs,       \* jobs whose timer has fired
    ran,        \* ran[c]: jobs of channel c in the order they were run
    nomem       \* failed allocations and thread creations so far

proxyVars == <<s_proxyQ, s_proxyWorkerUp, wpc, wJob, lpc, jobs, ran>>
channelVars == <<s_chMutex, inside, dpc, proxyVars, nomem>>

Channels == 0 .. MTK_CHANNEL_COUNT - 1

mtkChannelIndex(cid) == IF cid < 0 THEN 0 ELSE cid % MTK_CHANNEL_COUNT

(* The worker of channel c, as a thread.                                   *)
Worker(c) == <<"worker", c>>

(* The threads are distinct, and none of them stands for no thread or no   *)
(* channel.                                                                *)
ASSUME ThreadsAssumption ==
    /\ MalThread # EventLoop
    /\ Nobody \notin Dispatchers \cup {MalThread, EventLoop} \cup Channels
    /\ Dispatchers \cap {MalThread, EventLoop} = {}
    /\ \A c \in Channels :
          Worker(c) \notin Dispatchers \cup {MalThread, EventLoop, Nobody}

ChannelInit ==
    /\ s_chMutex = [c \in Channels |-> Nobody]
    /\ inside = [c \in Channels |-> {}]
    /\ dpc = [d \in Dispatchers |-> Nobody]
    /\ s_proxyQ = [c \in Channels |-> <<>>]
    /\ s_proxyWorkerUp = {}
    /\ wpc = [c \in Channels |-> "none"]
    /\ wJob = [c \in Channels |-> 0]
    /\ lpc = Nobody
    /\ jobs = 0
    /\ ran = [c \in Channels |-> <<>>]
    /\ nomem = 0

(* mtkChannelLock and mtkChannelUnlock, and the vendor's context.          *)
mtkChannelLock(c, th) ==
    /\ s_chMutex[c] = Nobody
    /\ s_chMutex' = [s_chMutex EXCEPT ![c] = th]

mtkChannelUnlock(c) == s_chMutex' = [s_chMutex EXCEPT ![c] = Nobody]

EnterVendor(c, th) == inside' = [inside EXCEPT ![c] = @ \cup {th}]
LeaveVendor(c, th) == inside' = [inside EXCEPT ![c] = @ \ {th}]

-----------------------------------------------------------------------------
(* my_enqueue calls onRequest itself, not through mtkOnRequestLocked.      *)
EnqueueEnter(d, c) ==
    /\ dpc[d] = Nobody
    /\ dpc' = [dpc EXCEPT ![d] = c]
    /\ EnterVendor(c, d)
    /\ UNCHANGED <<s_chMutex, proxyVars, nomem>>

EnqueueLeave(d) ==
    /\ dpc[d] # Nobody
    /\ LeaveVendor(dpc[d], d)
    /\ dpc' = [dpc EXCEPT ![d] = Nobody]
    /\ UNCHANGED <<s_chMutex, proxyVars, nomem>>

-----------------------------------------------------------------------------
(* mtkProxyTimerFired, under s_proxyQMutex on the event loop: the job goes *)
(* to the end of its channel's queue and every waiting worker is woken.    *)
Queue(c) ==
    /\ lpc = Nobody
    /\ jobs < MaxJobs
    /\ jobs' = jobs + 1
    /\ s_proxyQ' = [s_proxyQ EXCEPT ![c] = Append(@, jobs + 1)]

Broadcast(w) == [c \in Channels |-> IF w[c] = "waiting" THEN "take" ELSE w[c]]

(* Seeded defect: pthread_cond_signal, which may wake the wrong worker.    *)
TimerFiredSignals(c) ==
    /\ c \in s_proxyWorkerUp
    /\ Queue(c)
    /\ \/ \E w \in Channels : /\ wpc[w] = "waiting"
                               /\ wpc' = [wpc EXCEPT ![w] = "take"]
       \/ /\ \A w \in Channels : wpc[w] # "waiting"
          /\ UNCHANGED wpc
    /\ UNCHANGED <<s_chMutex, inside, dpc, s_proxyWorkerUp, wJob, lpc, ran,
                   nomem>>

TimerFired(c) ==
    /\ c \in s_proxyWorkerUp
    /\ Queue(c)
    /\ wpc' = Broadcast(wpc)
    /\ UNCHANGED <<s_chMutex, inside, dpc, s_proxyWorkerUp, wJob, lpc, ran,
                   nomem>>

(* ... the first job of a channel starts its worker, ...                   *)
TimerFiredStarts(c) ==
    /\ c \notin s_proxyWorkerUp
    /\ Queue(c)
    /\ s_proxyWorkerUp' = s_proxyWorkerUp \cup {c}
    /\ wpc' = [Broadcast(wpc) EXCEPT ![c] = "take"]
    /\ UNCHANGED <<s_chMutex, inside, dpc, wJob, lpc, ran, nomem>>

(* ... or cannot: the job stays queued until a later one starts it.        *)
TimerFiredNoWorker(c) ==
    /\ c \notin s_proxyWorkerUp
    /\ nomem < MaxNoMem
    /\ nomem' = nomem + 1
    /\ Queue(c)
    /\ wpc' = Broadcast(wpc)
    /\ UNCHANGED <<s_chMutex, inside, dpc, s_proxyWorkerUp, wJob, lpc, ran>>

(* Without memory for a job the callback runs on the loop, unlocked.       *)
TimerFiredOnLoop(c) ==
    /\ lpc = Nobody
    /\ nomem < MaxNoMem
    /\ nomem' = nomem + 1
    /\ lpc' = c
    /\ EnterVendor(c, EventLoop)
    /\ UNCHANGED <<s_chMutex, dpc, s_proxyQ, s_proxyWorkerUp, wpc, wJob,
                   jobs, ran>>

LoopReturns ==
    /\ lpc # Nobody
    /\ LeaveVendor(lpc, EventLoop)
    /\ lpc' = Nobody
    /\ UNCHANGED <<s_chMutex, dpc, s_proxyQ, s_proxyWorkerUp, wpc, wJob,
                   jobs, ran, nomem>>

(* mtkProxyWorker, under s_proxyQMutex: wait for a job ...                 *)
WorkerWaits(c) ==
    /\ wpc[c] = "take"
    /\ s_proxyQ[c] = <<>>
    /\ wpc' = [wpc EXCEPT ![c] = "waiting"]
    /\ UNCHANGED <<s_chMutex, inside, dpc, s_proxyQ, s_proxyWorkerUp, wJob,
                   lpc, jobs, ran, nomem>>

(* Seeded defect: the newest job is taken.                                 *)
WorkerTakesLast(c) ==
    /\ wpc[c] = "take"
    /\ s_proxyQ[c] # <<>>
    /\ wJob' = [wJob EXCEPT ![c] = s_proxyQ[c][Len(s_proxyQ[c])]]
    /\ s_proxyQ' = [s_proxyQ EXCEPT ![c] = SubSeq(@, 1, Len(@) - 1)]
    /\ wpc' = [wpc EXCEPT ![c] = "lock"]
    /\ UNCHANGED <<s_chMutex, inside, dpc, s_proxyWorkerUp, lpc, jobs,
                   ran, nomem>>

(* ... or take the first one,                                              *)
WorkerTakes(c) ==
    /\ wpc[c] = "take"
    /\ s_proxyQ[c] # <<>>
    /\ wJob' = [wJob EXCEPT ![c] = Head(s_proxyQ[c])]
    /\ s_proxyQ' = [s_proxyQ EXCEPT ![c] = Tail(@)]
    /\ wpc' = [wpc EXCEPT ![c] = "lock"]
    /\ UNCHANGED <<s_chMutex, inside, dpc, s_proxyWorkerUp, lpc, jobs,
                   ran, nomem>>

(* run it under the channel's mutex, and free it.                          *)
WorkerEnters(c) ==
    /\ wpc[c] = "lock"
    /\ mtkChannelLock(c, Worker(c))
    /\ EnterVendor(c, Worker(c))
    /\ ran' = [ran EXCEPT ![c] = Append(@, wJob[c])]
    /\ wpc' = [wpc EXCEPT ![c] = "run"]
    /\ UNCHANGED <<dpc, s_proxyQ, s_proxyWorkerUp, wJob, lpc, jobs, nomem>>

WorkerLeaves(c) ==
    /\ wpc[c] = "run"
    /\ mtkChannelUnlock(c)
    /\ LeaveVendor(c, Worker(c))
    /\ wJob' = [wJob EXCEPT ![c] = 0]
    /\ wpc' = [wpc EXCEPT ![c] = "take"]
    /\ UNCHANGED <<dpc, s_proxyQ, s_proxyWorkerUp, lpc, jobs, ran,
                   nomem>>

WorkerStep(c) ==
    WorkerWaits(c) \/ WorkerTakes(c) \/ WorkerEnters(c) \/ WorkerLeaves(c)

(* RIL_requestProxyTimedCallbackMtk chose the channel when the callback    *)
(* was requested; RilEvent models the timer in between.                    *)
ProxyTimer(id) ==
    LET c == mtkChannelIndex(id)
    IN  \/ TimerFired(c) \/ TimerFiredStarts(c) \/ TimerFiredNoWorker(c)
        \/ TimerFiredOnLoop(c)

ChannelNext ==
    \/ \E d \in Dispatchers :
          (\E c \in Channels : EnqueueEnter(d, c)) \/ EnqueueLeave(d)
    \/ \E id \in ProxyIds : ProxyTimer(id)
    \/ \E c \in Channels : WorkerStep(c)
    \/ LoopReturns

(* Without the rild-mal thread.                                            *)
ChannelSpec == ChannelInit /\ [][ChannelNext]_channelVars

(* The workers run, and leave the vendor RIL: a callback returns.          *)
ChannelFairness == \A c \in Channels : WF_channelVars(WorkerStep(c))

ChannelFairSpec == ChannelSpec /\ ChannelFairness

-----------------------------------------------------------------------------
(* Properties *)

(* The mutexes, the queues and the threads are in one of their states.     *)
ChannelTypeOK ==
    /\ DOMAIN s_chMutex = Channels
    /\ inside \in [Channels -> SUBSET (Dispatchers \cup {MalThread, EventLoop}
                                         \cup {Worker(c) : c \in Channels})]
    /\ dpc \in [Dispatchers -> Channels \cup {Nobody}]
    /\ s_proxyWorkerUp \subseteq Channels
    /\ wpc \in [Channels -> {"none", "take", "waiting", "lock", "run"}]
    /\ wJob \in [Channels -> 0 .. MaxJobs]
    /\ lpc \in Channels \cup {Nobody}
    /\ jobs \in 0 .. MaxJobs /\ nomem \in 0 .. MaxNoMem

(* "Keeps the stock FIFO order": the jobs of a channel run in the order    *)
(* their timers fired, and each is run once by one worker.                 *)
ProxyFifo ==
    LET inHand(c) == IF wpc[c] = "lock" THEN <<wJob[c]>> ELSE <<>>
        history == [c \in Channels |-> ran[c] \o inHand(c) \o s_proxyQ[c]]
    IN  /\ \A c \in Channels : \A i, k \in DOMAIN history[c] :
              i < k => history[c][i] < history[c][k]
        /\ \A j \in 1 .. jobs : \E c \in Channels :
              \A b \in Channels : j \in Range(history[b]) <=> b = c

(* "Route every request through the per-channel mutex" (CALL_ONREQUEST):   *)
(* the vendor RIL refuses a command while another thread is on the same    *)
(* channel, so no two threads are ever inside it on one.                   *)
OneThreadPerChannel == \A c \in Channels : Cardinality(inside[c]) <= 1

(* Every job that is queued for a running worker is run, whatever the      *)
(* other threads do with the channel.                                      *)
EveryJobRuns ==
    \A c \in Channels, j \in 1 .. MaxJobs :
        (c \in s_proxyWorkerUp /\ j \in Range(s_proxyQ[c]))
            ~> j \in Range(ran[c])
=============================================================================
