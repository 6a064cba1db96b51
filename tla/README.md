# Verification of libril for the CTyon CT07

This directory models the radio interface layer of the device tree, `src/ril/libril`,
in TLA+. The repository is an Android device tree for a MediaTek phone; most of
it is configuration. Its own program logic is libril: it takes the framework's
HIDL requests, hands them to a closed vendor RIL, brings the vendor's answers and
unsolicited messages back, and adds what the MediaTek vendor library expects
of its host (proxy timers, AT channels, the `rild-mal` socket).

libril is concurrent. Binder threads, the vendor's threads, one event loop, up to
24 proxy workers and one socket thread share lists, timers, callback objects and
flags, some under a mutex and some not. The project asks whether those parts stay
correct under every interleaving and under the failures the code handles.

## Inventory

| Component | Source | State | Operations |
|---|---|---|---|
| Request path | `ril.cpp`, `ril_service.cpp` | pending list per slot, `RequestInfo`s | `addRequestToList`, the dispatch helpers, `my_enqueue`, `RIL_onRequestAck`, `RIL_onRequestComplete` |
| Event loop and timers | `ril_event.cpp`, `ril.cpp` | timer list, pending list, watch table, wakeup pipe | `ril_timer_add`, `ril_event_add`, `ril_event_loop`, `RIL_requestTimedCallback`, `triggerEvLoop` |
| Wake lock | `ril.cpp` | kernel wake lock, count, last timer | `grabPartialWakeLock`, `releaseWakeLock`, `wakeTimeoutCallback` |
| AT channel serialization | `ril.cpp` | mutex per channel, proxy queues, workers | `mtkChannelLock`, `mtkProxyTimerFired`, `mtkProxyWorker` |
| MAL socket server | `ril.cpp` | `s_malInflight`, the connection | `malServerLoop`, `malDispatch`, `malClaim`, `malComplete`, `malSendFrame` |
| Client callbacks, connection | `ril_service.cpp`, `ril.cpp` | callback objects and counters, `radioServiceRwlock`, NITZ copy | `setResponseFunctions`, `onNewCommandConnect`, `checkReturnStatus`, `send_unsolResponse` |
| Radio operations, responses, indications | `ril_service.cpp` | the last radio capability per slot | about 140 operations, as many response functions, 60 indications |
| Data calls | `ril_service.cpp` | `dataCallCids` | `setupDataCall`, `setupDataCallResponse`, `deactivateDataCall` |
| Initial attach | `ril_service.cpp` | the last attach APN per slot | `setInitialAttachApn`, `setAttachApnInd`, `sendInitialAttachApnAgain` |
| Command and unsolicited tables | `ril_commands.h` and three more | constant | the index of `addRequestToList` and of `send_unsolResponse` |
| SIM access profile | `sap_service.cpp`, `RilSapSocket.cpp`, `rilSocketQueue.h` | the queue of pending responses, the blocks of a request, the callback | eight requests, `onRequestComplete`, `onUnsolicitedResponse`, `setCallback` |
| Pure conversions | `ril_service.cpp`, `spn.h` | none | `mtkFcpToLegacy`, operator names |
| Everything else | `bt`, shims, patches, board files | none | configuration, one-shot programs, symbol forwarding |

How they interact: a binder thread enters through a `radio::` operation, links a
`RequestInfo` and calls `onRequest` in the vendor RIL, perhaps on a channel that a
proxy worker or the MAL thread is using. The vendor calls back on its own
threads with the address of the `RequestInfo` as token, which is the only thing that
ties answer to request. An answer or an unsolicited message reaches the client
through a callback object, read under the read lock and replaced under the write
lock of the slot's `radioServiceRwlock`. Unsolicited messages take a wake lock,
which a timer on the event loop ends if the framework does not. Proxy timers fire
on the event loop and are handed to a worker per channel.

What is hard here, and would hardly be reached by a test, is listed under `hazards` in
PROJECT.json, each at its line: tokens completed twice or after their
memory was recycled; timers armed while the loop reads its lists without a lock;
a timer cancelled while it fires; late completions after a timeout; a shared
condition variable; a lock released in the middle of a call made under it; tables of
140 rows in which one row may name the wrong function; length tests that differ
per function; settings copied under a mutex and used after it; memory freed by one
thread while another still follows a pointer to it.

## Modules

| Module | Models | Composes |
|---|---|---|
| `RilRequests` | the life of a `RequestInfo` | |
| `AnswerOnce` | what a client may rely on: opened once, then answered or dropped for good | implemented by `RilRequests` |
| `RilEvent` | the event loop, its timers and the wakeup pipe | |
| `RilWakeLock` | the partial wake lock | timers abstractly, as in `RilEvent` |
| `MtkChannels` | channel mutexes, proxy queues and workers, dispatch threads | |
| `RilMal` | the MAL server | extends `MtkChannels` |
| `RadioCallbacks` | callback objects, the read-write lock, connection, NITZ | |
| `RadioTables` | a table put together from the parts it is written in | |
| `RadioOperations` | per operation the request it sends or refuses; the command tables | extends `RadioTables` |
| `RadioResponses` | per response function the payloads it accepts, how far it reads, whom it calls | extends `RadioTables` |
| `RadioIndications` | the same per indication function; the unsolicited tables; the vendor's call messages | extends `RadioResponses` |
| `RadioService` | a slot's radio and OEM hook services at work, and the kept radio capability | extends `RadioOperations`, `RadioIndications` |
| `DataCalls` | `dataCallCids` and the interface ids of data calls | |
| `InitialAttach` | the attach APN, set and sent again | timers abstractly |
| `Sap` | SAP requests, their memory, their queue and their answers | |
| `RilRequestsProofs`, `RilEventProofs`, `RilWakeLockProofs`, `RilMalProofs`, `RadioCallbacksProofs`, `RadioServiceProofs`, `SapProofs` | the theorems about the module they are named after, `RilMalProofs` also those about `MtkChannels` | each extends its module |
| `DataProofs` | the theorems about `DataCalls` and `InitialAttach` | extends both |

The `MC*` modules hold the values that a cfg cannot write. Two of them put two specifications side by side:
`MCRadioService` has `RadioService` and `DataCalls`, `MCMtkChannels` has `MtkChannels` and `InitialAttach`. The two share no
variable; `part`, chosen in the initial state, says which of them runs, and the other keeps its initial state. Every behaviour
of each part is therefore explored, and none that mixes them, which could show nothing more. No fair action is enabled in the
initial state of a part, so the part that does not run leaves no fairness condition unmet. Definitions whose comment
begins "Seeded defect" are not part of any specification: each is a plausible error in
the definition after it, and shows that a property would notice (`mutants` in
PROJECT.json).

**RilRequests.** An address stands for a pointer. Addresses are recycled after `free`, so
each allocation also has an instance number that no line of the code can see; the
properties are stated over instances. A binder thread goes through `Allocate`,
`AddToList` (under the slot's mutex), then `ConvertFails` (no memory:
`sendErrorResponse`, the entry stays listed) or `my_enqueue`. A vendor thread
completes with `ReadSlot` (`socket_id` is read before the mutex and before the
token is known to be valid: of freed memory, any value), `Dequeue` or
`InvalidToken`, `Answer` or `FinishLocal`, `FreeRequest`; it acknowledges with `ReadSlot`, `MarkAck` or
`InvalidAck`, and `SendAck`. Nothing keeps another vendor thread from completing a request, and freeing it, while this one
acknowledges it: `SendAck` reads whatever the address then holds, and an acknowledgement sent for other memory than the
request's is noted in the ghost `strayAcks`. `Kinds` are requests told apart by whether they are local, convert
arguments, and have a response function. What the vendor RIL does is external:
it completes each token once, and up to `MaxDups` times again.

**RilEvent.** `timer_list` and `pending_list` are the lists; the loop's thread goes through the
phases of `ril_event_loop` one read at a time, since it copies `readFds` and looks
at the first timer without `listMutex`. Timers expire strictly after their
deadline, and equal deadlines fire last-armed first, as in the code. The pipe does not exist
when `s_started` is set: bytes written before it does are lost.

**RilWakeLock.** `version` chooses between the counted path (13 and later, with a
mutex) and the plain one. `TimerExpires` reads `userParam` before
`wakeTimeoutCallback` tests it, and the loop clears `s_last_wake_timeout_info`
without the mutex, in two steps.

**MtkChannels, RilMal.** Channels are the vendor's per-channel contexts, with `inside`
the threads in them. `my_enqueue` calls `onRequest` without the channel's mutex;
workers and the MAL thread take it. The `s_malInflight` table is one slot, because the server
handles one frame at a time. `malClaim` (in `VendorCompletes`) and `malComplete` are two
steps, since the slot is found without a lock.

**RadioCallbacks.** A client is a number; its callback object is that number. A response
or indication is the sequence lock, test, call, and after a failed call
`checkReturnStatus`: note the counter, unlock, write-lock, compare and reset,
unlock, read-lock. `setResponseFunctions` is followed by the whole of
`onNewCommandConnect`. The ghost `misused` becomes true when `checkReturnStatus` runs
without the read lock, `raced` when the NITZ copy is freed by one thread after another
replaced it.

**RadioOperations, RadioResponses, RadioIndications.** These hold no state: they are the
source's functions as tables. An operation is a set of *ways*: each sends a request or
answers it with an error, from one version of the vendor RIL to another, and the
arguments choose among those that are open. A dispatch helper that copies its arguments
also has the way in which the copy fails. A response function is a *shape*: whether it accepts NULL,
which counts of units it accepts, whether its length test lets a remainder pass, how many units it then reads, whether it can refuse the
contents, and what it tells the client instead. The command and unsolicited tables are sequences in the
order of the header files, and `CommandOf` and `HandlerOf` compute the index
as `addRequestToList` and `send_unsolResponse` do, vendor numbers included. The comment over each
table has the lines of `ril_service.cpp` it stands for.

**RadioService.** A client comes and goes (`SetResponseFunctions`); an operation is sent (`Invoke`) or
refused (`Refused`); the vendor RIL completes it with any error and any payload
(`Complete`), which looks up the row's response function; an unsolicited response goes through its function
(`Indicate`, `CallMessage`). A call message has a number of
string pointers, a length that is their count, their bytes or neither (`ragged`), may be NULL, and says in its second string that a call comes in, that
its state changed, something else, or nothing (NULL). `event` is what the step told the client or the vendor RIL. The radio
capability is stored word by word and then marked valid (`StoreCapability`,
`ValidateCapability`), and read flag first by the thread that answers `getRadioCapability`.

**DataCalls.** The array's search, and the assignment that follows it, are two steps of the vendor's thread and
two of the HIDL thread. `alone` notes whether a set-up met another set-up or
a deactivation between its request and its answer.

**InitialAttach.** Three threads (HIDL, event loop, vendor) take `s_lastIaMutex` and the vendor RIL's own
mutex of a slot, which is external: the source says that the vendor raises
`RIL_UNSOL_SET_ATTACH_APN` with it held and takes it to handle the request. A setting is two fields with the
same number, so that a mixed copy shows.

**Sap.** A request is its blocks of memory (`msg`, an APDU's `command`, the encoding `buffer`, its copy in
the `payload`, the queue `entry`, the `message` that
`sapDecodeMessage` allocates). `FreedAt` has, per request and stage, the blocks the
code passes to `sendFailedResponse`; `HeldAt` has those there are. The vendor's threads complete in the steps
of `onRequestComplete`: read the token, decode the message (which may be refused, or find no memory, and is then NULL), test the callback, call it, take the first entry with the
same id and token off the queue and free the request. A step that uses freed memory or NULL sets `trouble` and ends the behaviour,
since nothing is known after it.

## Runs

| Run | Bounds | Shows |
|---|---|---|
| `requests` | 2 slots, 2 binder and 2 vendor threads, 2 addresses, 2 requests of the two kinds that convert arguments, 1 second completion, 1 stale MAL token | the lists are sound, one answer per request and with its own result, nothing listed without an owner |
| `requests_live` | 1 slot, 1 binder, 2 vendor threads, 2 requests of all three kinds | a completed request is freed; `AnswerOnce` is implemented |
| `event_loop` | 3 timers, 2 threads, delays 0 and 2, clock to 4, 1 interrupted `select` | timers fire once, in order, and every one fires; no wakeup is lost |
| `wake_lock` | 2 grabbing threads, 1 releasing, 4 timers, 2 releases, versions 12 and 13 | from version 13 on no leak, no dangling last timer, final release |
| `channels` | 2 channels, 2 dispatchers, proxies -1, 1, 2, 4 jobs, 1 failed allocation; attach APN: 2 slots, 2 settings, 2 resets, 1 failed conversion | FIFO per channel, every job runs; whole and newest settings, no thread waits for ever |
| `mal` | 1 channel with its worker, 2 SIMs, 2 requests, 2 attempts, 1 failed allocation, 1 vendor thread | own answers, tokens outlive the vendor's use of them, the server never stops |
| `callbacks` | 1 radio, 2 clients, 1 call, 2 NITZ times, HIDL, vendor and loop threads | the lock is balanced, only dead callbacks are dropped, no call blocks |
| `radio_service` | versions 12 and 15, all operations and tables, NULL and payloads of the counts around every length test, call messages of all forms, 1 capability indication; data calls: 2 positions and the one past them, 2 cids, 3 calls, 1 failed set-up with a full response | own callback, the vendor's error, no read past the payload, a whole capability; data calls have interfaces of their own, no position without a set-up |
| `sap` | all 8 requests, 2 tokens, 2 requests, 2 vendor threads, 1 indication; symmetric threads and tokens | one answer, nothing left but the two blocks the code never frees, use after free only as described |
| `attach_stale` | 1 slot, 2 settings, 1 reset | violation, see Findings |
| `channel_claim` | 2 channels, 2 dispatchers, 2 jobs | violation, see Findings |
| `call_count` | call messages of all forms | violation, see Findings |

Why the bounds are enough to be interesting: two requests on two addresses are what is
needed for an address to be freed and given out again while a vendor thread
still carries the old token; a third timer is the first that can be armed between two
others; four timers let a wake timer be cancelled, expire and be
replaced; two workers are the least that can steal each other's wakeup; two MAL requests are the least
for a late completion to meet the next one; two clients are the least for a registration during
a reset. Versions 12 and 15 lie on both sides of every test of the version in the
operations and responses but the lower bound of 4 in `setupDataCall`, where `RIL_register` has
already refused versions below `RIL_VERSION_MIN`; the vendor RIL sends its radio capability once, when it starts (comment at
`ril_service.cpp:8620`), so one indication is what the lock-free copy has to bear. Two positions and three
calls, two of which can be live with cids of their own while the third is set up or has failed, fill `dataCallCids` and spill past its end, as five calls do the four of the code.
Two SAP requests are the least for two entries with the same id and token.

A run ends when its bounds are used up, so runs that stop there do not
check deadlock. `requests` and `requests_live` do: a client may
always connect or disconnect.

Reductions. `RadioService` has one request at a time, since what requests in flight do
to each other is the subject of `RilRequests`; its unsolicited responses neither read nor change the
request in flight and are explored while there is none. `Sap` and `RadioCallbacks`
model one slot. Of each payload only what a length test or a read tells apart is kept.

Several properties carry a condition, a ghost that names exactly the event described
under Known divergences or in `hazards`: up to it everything is claimed, after it nothing. They are `~crossed` (`mal`),
`~misused` and `~raced` (`callbacks`), `Misrouted` (`OwnCallback`), `Trusted` (`ReadsFit`), `alone` (`OwnInterface`), `twins` and `early` (`sap`).
The wake-lock properties are stated for version 13 and later, where the mutex is
taken; version 12 is explored without a claim. The type invariant of `RilRequests` is checked by its run; those of
the other modules are part of the inductive invariants under Proofs, or document their variables.

### Fairness

Weak fairness throughout, on threads that are inside libril and can go on: a thread in a
function finishes it, the loop's thread runs, workers run, the clock goes on, a call into the vendor
RIL returns, and the modem comes up after a reset. Nothing is assumed of the vendor
RIL completing a request, of clients, or of a thread that has not started an operation.
Where a thread waits for a mutex or for the read-write lock, weak fairness is enough because the number of
competing acquisitions is bounded in every run (in `InitialAttach` too, where the event loop also runs what is due); in the program the same
conclusion would rest on the lock's own fairness, which bionic does not promise to writers.

## Proofs

Every safety property of the passing runs is also a theorem, for every value of the constants, and `CapabilityWhole` under the condition below. In each module the pattern is the same: an inductive invariant, a lemma
per action with a step per conjunct that the action can disturb, the invariant as a theorem of `Spec`, and
the properties as its consequences by temporal logic. TLC has checked each inductive invariant on the instance of the run
before it was proved.

| Theorem | States | Inductive invariant, and why the property alone is not inductive |
|---|---|---|
| `TypeCorrect`, `ListsAreSound`, `AtMostOneAnswer`, `PendingHasOwner` (`RilRequestsProofs`) | `TypeOK`, `ListSound`, `CompletedAtMostOnce`, `PendingAccounted` | `IInv`: see below |
| `TokensStayAlive`, `ResultsNotMixed`, `AcksAreExpected` | `TokenAlive`, `OwnResult`, `AckedMeansExpected` | `OnceInv` on top of `IInv`, while `dups = 0`: a token is with the binder, owed by the vendor RIL or with one completing thread, and with one of them only; an acknowledging thread's token is owed or completed (`AckKnown`), and a marked request is answered with ACK_EXP (`MarkExpected`) |
| `RefinesAnswerOnce` | `Spec /\ [](dups = 0) => ImplementsAnswerOnce` | the same; the initial state maps to the initial state, and every action to one of `AnswerOnce` or to a stutter |
| `WakeupsNotLost`, `EventsLinkedOnce`, `TimersFireInOrder`, `EventTypeCorrect` (`RilEventProofs`) | `NoLostWakeup`, `LinkedOnce`, `FiresInOrder`, `TypeOK` | `EventInv`: `Lists` (the timer list is sorted, no two lists share an event, and the deadlines grow from the fired timers over the pending ones to the armed) and `Phases` (nothing is pending outside of two phases; the pipe is made, watched and in the loop's copy whenever the loop sleeps). The first timer that `calcNextTimeout` sees is the earliest only because of the order, and a byte wakes the loop only because of the phases |
| `LockHasTimer`, `LastTimerLive`, `WakeTypeCorrect` (`RilWakeLockProofs`) | `HeldHasTimer`, `LastIsLive`, `TypeOK` | `WakeInv`: who has the mutex; that timers are on the lists, in the loop's hands or freed; that the timer of a grab is the newest, neither cancelled nor about to be; that a release lets go of the lock before it cancels (`ReleasedFirst`); that the loop has forgotten the timer it is about to free; and the bound on the count |
| `TokensOutlive`, `AnswersOwn`, `MalTypeCorrect` (`RilMalProofs`) | `TokenOutlivesUncrossed`, `OwnAnswer`, `TypeOK` | `MalInv`: the threads inside a channel are those with its mutex or those that never take it; requests are worked on one after the other; until a completion has crossed, a token is owed by the vendor RIL or claimed by one thread, and an answer in the slot is that of the request and attempt the slot has |
| `JobsInOrder` | `ChannelSpec => []ProxyFifo` | `FifoInv`: the jobs so far, each in the history of one channel, and the steps of a worker leave its channel's history as it is |
| `ReadLockBalanced`, `CallbackNotDropped`, `NitzNotLost`, `DropsDeadOnly`, `CallbackTypeCorrect` (`RadioCallbacksProofs`) | `LockBalanced`, `CallbackStays`, `NitzKept`, the action property `OnlyDeadDropped`, `TypeOK` | `CallbackInv`: `LockOrder` (which thread may be where with which lock: the write lock and a second read lock only for a thread that came with a read lock, and a new connection waits with an idle HIDL thread and sends NITZ again without a lock), `FailedDead` (the callbacks a failed call is about to drop are a dead client's as long as the counter is the noted one) and `CalledTold` (a NITZ time for which a client was found is told once it was called) |
| `CapabilityIsWhole`, `CapabilityIsIndicated`, `TypeCorrect` (`RadioServiceProofs`) | `indicated <= 1 => CapabilityWhole`, `CapabilityTold`, `TypeOK` | `CapabilityInv`: the words stored, read and told are of indications made so far; both are stored once the flag is set or an indication is past its second word; and the answering thread has words of indications only, or only defaults, according to the flag it saw before |
| `CallbacksAreOwn`, `ErrorsAreFaithful`, `ReadsAreFit` | `OwnCallback`, `ErrorFaithful`, `ReadsFit` | `CallRouted`: the request in flight has a row whose response function is its operation's; see below |
| `OwnInterfaces`, `PositionsStayBacked` (`DataProofs`) | `OwnInterface`, `PositionsBacked` | `DataInv`: the cids of live calls differ; a call that was alone has its cid at the position of its id and nobody is about to overwrite it; a set-up alone in flight sees the array as `setupDataCall` saw it; and the positions stay backed after a deactivation's search too (`BackedAfterClear`). The counting is over finite sets |
| `ModemGetsWholeApn`, `NewestSettingsKept` (`DataProofs`) | `WholeApn`, `NewestKept` | `AttachInv`: the kept settings are whole outside of the critical section; what a thread carries is whole but for the loop's half of a copy; and the HIDL thread carries the newest settings and has stored them once it is through the section |
| `UseAfterFreeOnlyThen`, `EachAnsweredOnce`, `FinishedLeavesNothing` (`SapProofs`) | `UseAfterFreeExplained`, `AnsweredOnce`, `NothingLeft` | `SapInv`: a request is with the vendor RIL or with one of its threads; as long as no twins have met, the queue has exactly the requests under way, no two with one id and token, and says which blocks are allocated |

**`IInv`.** That a listed entry is
allocated depends on nobody else freeing it; that depends on a completing thread being
the only one to hold an unlinked entry; and that depends on a binder's
new entry not being listed, and not being an entry someone is finishing. `IInv` adds four
conjuncts for this: `TokensFresh` (an instance is handed out once, so no two addresses carry the same),
`BinderOwns` (an entry is private until it is listed), `VendorHolds` (what a
thread inside libril knows of its token) and `NotYetAnswered` (a listed or just unlinked entry
has had no response).

**The tables.** `CallRouted` holds because of what the tables say, and the proof goes through
them part by part. `RequestsDiffer`: no two of the 141 rows of the command table have the same request, and none has a
vendor's, so that the row found for a request is its own (`OwnRow`). `OperationsSound`: every way of every
operation asks for a request whose row names the operation's response function, but for `setSimCardPower`; and
`iccOpenLogicalChannel`, whose function reads an integer even of an empty payload, sends no request at all.
`ResponsesFaithful` and `IndicationsFit`: the shape of each function reads no more units than its length test asks for, and only
`getModemActivityInfo` tolerates what it does not accept. `CallReadsTrusted`: of a call message more is read than there is only in the cases
of `Trusted`, since a count taken for bytes makes the functions read less (`FieldsReadFew`). Three lemmas on `Merged` carry this from the
parts to the tables. Nothing in it depends on the version but the two registration states, whose strings are shapes of their own
(`ShapeFaithful`).

`CapabilityWhole` itself is false for two indications: the second one may come between the two words that
`responseRadioCapability` copies. The vendor RIL sends one at start-up, and the run has one;
`CapabilityIsIndicated` says what is left with more of them.

The first four theorems allow the vendor to complete tokens twice. They show that validation by address under
the mutex is enough for the lists and for at-most-one answer, and they
do not claim that the answer is the right one: with a recycled address a second
completion may be taken for the new request's. That is why `OwnResult`, `TokenAlive`, `AckedMeansExpected`
and the refinement are stated for `dups = 0`. In the same way the theorems about `RilMal`, `RadioCallbacks`,
`DataCalls` and `Sap` carry the conditions of the properties (`~crossed`, `~misused`, `~raced`, `alone`, `~twins`),
and those about `RadioService` the exceptions written into them (`Misrouted`, the registration strings, `Trusted`). `TokenAlive` excepts an acknowledging thread
whose request was completed meanwhile: there the RequestInfo may be gone, and the proof shows that this is the only such case.

Assumptions, each evaluated by TLC in the runs: bounds are natural numbers; there is a slot and a service; the
sets of data calls and of vendor threads are finite; a version or a delay is a natural number; threads, channels
and the values for "nobody" and "none" are different from each other; a NULL pointer is no address, and stale tokens are not on the heap's
free list; a SAP request is one of the eight of the tables.

Only model-checked:

* liveness (`CompletedIsFreed`, `EveryTimerFires`, `FinallyReleased`, `EveryJobRuns`, `EveryFrameAnswered`, `CallEnds`,
  `OperationsEnd`): fairness is out of the prover's reach;
* the violations `ModemHasLast`, `OneThreadPerChannel` and `CallAcknowledged`.

## Findings

**A replaced attach APN can be sent last** (`attach_stale`). `sendInitialAttachApnAgain` copies the slot's settings
under `s_lastIaMutex` and sends them after the unlock. The framework can store and send newer ones
in between, on the HIDL thread; the loop then sends the old ones, or the empty ones, and the
modem keeps them until something is set again. The comment over the function promises
"the APN the framework last set for the slot". What is kept in `s_lastIa` is never the older setting
(`NewestKept`), so a further reset repairs it.

**Requests do not take the channel's mutex** (`channel_claim`). The comments at `ril.cpp:380` ("Route every request
through the per-channel mutex") and 1141 ("taken around every vendor onRequest") say that one thread at a time is in the vendor RIL on
a channel. `my_enqueue` calls `onRequest` directly (`ril.cpp:1057`), so two HIDL threads, or one and a worker, are
there together; the run shows two dispatchers on one channel. Workers and the MAL thread exclude each other.

**A call message counted in pointers may not be acknowledged** (`call_count`). The comments at `ril_service.cpp:9063` and
9097 say that the length may be a count of pointers or of bytes and that both are accepted. A count of 12, 16 up to 32 is
divided by the pointer's size: `mtkEcpiInd` then drops the call, and `callInfoInd` acknowledges it with the sequence number 0 instead of its own.

### Known divergences

Met while modelling; each is a state of the models that the conditions above name, or an exception written
into a property, and none has a run of its own.

* A cancelled wake timer can release a later grab: `userParam` is read, and tested in
  `wakeTimeoutCallback`, before the mutex is taken (`ril.cpp:2281`). The newer grab's timer still
  ends it (`HeldHasTimer`): the lock is lost early, never kept.
* `RIL_onRequestAck` reads the RequestInfo after it released the mutex (`ril.cpp:1951`). If another vendor thread completes
  the request in between, the memory is freed or another request's, and the client is sent an acknowledgement for what it
  holds (`strayAcks`; the exception in `TokenAlive`, the second part of `AckedMeansExpected`).
* A late MAL completion can free a live token (`crossed`): `malClaim` finds a slot without a lock, and
  when the slot is reused before `malComplete`, the next request is marked done and its `RequestInfo` freed
  while the vendor RIL has it (`ril.cpp:1303`).
* `sendErrorResponse` and `resendLastNITZTimeData` call response functions without the read lock that
  `checkReturnStatus` releases and takes again (`misused`; `ril_service.cpp:519`, 812).
* `setSimCardPower` has a vendor's number, and the table has no vendor rows at that
  index: its answer goes through the row of `DIAL` or `SIM_IO` (`Misrouted`; `ril.cpp:403`, 622).
* `hangupForegroundResumeBackgroundResponse` calls `hangupWaitingOrBackgroundResponse` (`ril_service.cpp:3471`).
* `getVoiceRegistrationStateResponse` reads 14 strings as soon as there are 5, for versions up to 14
  (`ril_service.cpp:3889`; the exception in `ReadsFit`).
* `mtkEcpiInd` and `callInfoInd` take a byte length that is no multiple of 4 for a count of pointers and read past the
  message (`ril_service.cpp:9065`, 9099); `callInfoInd` compares the second string as soon as the length is 2 or more
  (`ril_service.cpp:9124`), also of a message of one pointer (4 bytes), of a NULL message, and if that string is NULL (`Trusted`).
* Two data calls set up at once, or one during a deactivation, may be given one interface id
  (`alone`), and a failed set-up with a full response keeps its position for good.
* A SAP request that completes before its dispatch returns is read after it was freed, and two with one id and
  token free each other's entry (`early`, `twins`; `sap_service.cpp:126`, `rilSocketQueue.h:143`). The command of
  an APDU is not freed when the request succeeds in being sent, and the message that `sapDecodeMessage` allocates is
  not freed on any path of `processResponse` (`sap_service.cpp:545`, 770).

## Not modelled

* In what is modelled: the fields of requests and answers and their conversion one by one; who frees the
  argument buffers of the radio operations; the bytes of MAL frames; `calloc` failing for a timer
  in `RilEvent` (the caller's handling of it is in `RilWakeLock` and `MtkChannels`);
  `ril_event_del` and events that are not persistent, which nothing uses; the branch for proxies from
  `RIL_URC` on, which hands timers to librilmtk's `enqueue`, outside the repository;
  `calloc` failing in `addRequestToList` for the radio operations; bringing network interfaces up; the use of the
  NITZ copy after it was freed; the emulation of `DEVICE_IDENTITY` and its shared string.
* Builds with `RIL_CHANNEL_QUEUING` or `RIL_UNSOL_PENDING`, both off by default and for this device.
* Start-up: registering services, binding sockets, creating threads, `RIL_register`.
* `spn.h`, a table of operator names without logic, and `mtkFcpToLegacy`.
* The Bluetooth address program (file I/O), shims (no state), patches to projects that are
  not here, board configuration.

## Plan

1. Ownership of the strings and arrays of the radio operations, on every exit of a dispatch helper.
2. The optional builds: `my_enqueue`/`my_dequeue` with channel queuing, the cache of pending
   unsolicited messages.
3. `mtkFcpToLegacy` against a reference definition.
