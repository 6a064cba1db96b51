------------------------ MODULE RadioCallbacksProofs ------------------------
(***************************************************************************)
(* Proofs about RadioCallbacks, for every number of services, threads,     *)
(* clients and calls.                                                      *)
(***************************************************************************)
EXTENDS RadioCallbacks, FiniteSetTheorems, TLAPS

(* TypeOK with the types of the variables it leaves out.                   *)
CallbackTypeOK ==
    /\ callback \in [Services -> 0 .. MaxClients]
    /\ counter \in [Services -> Nat]
    /\ readers \in Nat
    /\ pc \in [Threads -> {"idle", "rdlock", "test", "call", "failed", "wrlock",
                           "relock", "return", "store", "crashed"}]
    /\ service \in [Threads -> Services]
    /\ target \in [Threads -> 0 .. MaxClients]
    /\ seen \in [Threads -> Nat]
    /\ locked \in [Threads -> BOOLEAN]
    /\ time \in [Threads -> 0 .. MaxNitz]
    /\ stage \in 0 .. 5
    /\ s_lastNITZTimeData \in 0 .. MaxNitz
    /\ clients \in 0 .. MaxClients /\ nitz \in 0 .. MaxNitz
    /\ told \subseteq Times
    /\ misused \in BOOLEAN /\ raced \in BOOLEAN

(* The threads whose read lock is counted in readers.                      *)
Holders ==
    {t \in Threads : locked[t] /\ pc[t] \in {"test", "call", "failed", "return"}}

(* Who is where with which lock: the write lock and the second read lock   *)
(* are for threads that came with a read lock, and the connection waits    *)
(* with an idle HIDL thread and sends the NITZ time again without a lock.  *)
LockOrder ==
    /\ \A t \in Threads :
          /\ pc[t] = "rdlock" => locked[t]
          /\ pc[t] \in {"wrlock", "relock"} /\ ~misused => locked[t]
    /\ stage = 1 => pc[Binder] = "idle"
    /\ stage = 5 => ~locked[Binder]

(* The callbacks a failed call is about to drop are those of a dead client *)
(* as long as the counter is the one that was noted.                       *)
FailedDead ==
    ~misused => \A t \in Threads :
        /\ locked[t] /\ pc[t] = "failed" => callback[service[t]] \in dead
        /\ pc[t] = "wrlock" =>
              /\ seen[t] <= counter[service[t]]
              /\ seen[t] = counter[service[t]] => callback[service[t]] \in dead \cup {0}

(* A NITZ time for which a client was found is told once it was called.    *)
CalledTold ==
    \A t \in Threads :
        pc[t] \in {"failed", "wrlock", "relock", "return"} /\ target[t] # 0 /\ time[t] # 0
            => time[t] \in told

CallbackInv ==
    /\ CallbackTypeOK
    /\ LockOrder
    /\ LockBalanced
    /\ CallbackStays
    /\ FailedDead
    /\ CalledTold
    /\ NitzKept

-----------------------------------------------------------------------------
USE DEF Threads, Times

(* The set of threads is finite, and so are the holders of the lock.       *)
LEMMA HoldersFinite == IsFiniteSet(Holders)
<1>1. IsFiniteSet(Threads)
    <2>1. IsFiniteSet(Vendors)
        BY CallbacksAssumption
    <2>2. IsFiniteSet({Binder, EventLoop})
        <3>1. IsFiniteSet({Binder}) /\ {Binder, EventLoop} = {Binder} \cup {EventLoop}
            BY FS_Singleton
        <3> QED
            BY <3>1, FS_AddElement
    <2> QED
        BY <2>1, <2>2, FS_Union
<1>2. Holders \subseteq Threads
    BY DEF Holders
<1> QED
    BY <1>1, <1>2, FS_Subset

(* LockBalanced in terms of the holders.                                   *)
LEMMA Balance == LockBalanced <=> (~misused => readers = Cardinality(Holders))
BY DEF LockBalanced, Holders

LEMMA BalancePrimed == LockBalanced' <=> (~misused' => readers' = Cardinality(Holders'))
BY DEF LockBalanced, Holders

(* Nobody else is between a test and a call when the lock is free.         *)
LEMMA FreeMeansNoHolder ==
    ASSUME LockBalanced, ~misused, readers = 0
    PROVE  Holders = {}
<1>1. Cardinality(Holders) = 0
    BY Balance
<1> QED
    BY <1>1, HoldersFinite, FS_EmptySet

(* A thread that takes the read lock, ...                                  *)
LEMMA BalancedTake ==
    ASSUME LockBalanced, NEW t, t \notin Holders, Holders' = Holders \cup {t},
           readers' = readers + 1, misused' = misused
    PROVE  LockBalanced'
<1>1. Cardinality(Holders') = Cardinality(Holders) + 1
    BY HoldersFinite, FS_AddElement
<1> QED
    BY <1>1, Balance, BalancePrimed

(* ... and one that releases it.                                           *)
LEMMA BalancedRelease ==
    ASSUME LockBalanced, NEW t, t \in Holders, Holders' = Holders \ {t},
           Unlock, misused' = misused
    PROVE  LockBalanced'
<1>1. /\ Cardinality(Holders') = Cardinality(Holders) - 1
      /\ Cardinality(Holders) \in Nat
    BY HoldersFinite, FS_RemoveElement, FS_CardinalityType
<1>2. Cardinality(Holders) # 0
    BY HoldersFinite, FS_EmptySet
<1>3. CASE misused
    BY <1>3, BalancePrimed
<1>4. CASE ~misused
    <2>1. readers = Cardinality(Holders)
        BY <1>4, Balance
    <2>2. readers' = readers - 1
        BY <1>1, <1>2, <2>1 DEF Unlock
    <2> QED
        BY <1>1, <2>1, <2>2, BalancePrimed
<1> QED
    BY <1>3, <1>4

(* Every other step.                                                       *)
LEMMA BalancedSame ==
    ASSUME LockBalanced, Holders' = Holders, readers' = readers, misused' = misused
    PROVE  LockBalanced'
BY Balance, BalancePrimed

(* AnyService stands for some service.                                     *)
LEMMA AnyServiceIsOne == AnyService \in Services
BY CallbacksAssumption DEF AnyService

(* The initial state.                                                      *)
LEMMA InitInv == Init => CallbackInv
<1> SUFFICES ASSUME Init PROVE CallbackInv
    OBVIOUS
<1>1. CallbackTypeOK
    <2>1. misused \in BOOLEAN /\ raced \in BOOLEAN /\ locked \in [Threads -> BOOLEAN]
        BY DEF Init
    <2> QED
        BY <2>1, AnyServiceIsOne, CallbacksAssumption DEF Init, CallbackTypeOK
<1>2. LockOrder
    BY DEF Init, LockOrder
<1>3. LockBalanced
    <2>1. Holders = {}
        BY DEF Init, Holders
    <2> QED
        BY <2>1, Balance, FS_EmptySet DEF Init
<1>4. CallbackStays /\ FailedDead /\ CalledTold /\ NitzKept
    BY DEF Init, CallbackStays, FailedDead, CalledTold, NitzKept
<1> QED
    BY <1>1, <1>2, <1>3, <1>4 DEF CallbackInv

(* A client dies.                                                          *)
LEMMA ClientDiesStep ==
    ASSUME CallbackInv, ~Crashed, NEW g, ClientDies(g)
    PROVE  CallbackInv'
<1> USE CallbacksAssumption DEF CallbackInv,
        ClientDies,
        registryVars, threadVars, nitzVars, modemVars, worldVars
<1>1. CallbackTypeOK'
    BY DEF CallbackTypeOK
<1>2. LockOrder'
    BY DEF LockOrder
<1>3. LockBalanced'
    <2>1. Holders' = Holders
        BY DEF Holders
    <2> QED
        BY <2>1, BalancedSame
<1>4. CallbackStays' /\ FailedDead'
    BY DEF CallbackStays, FailedDead
<1>5. CalledTold' /\ NitzKept'
    BY DEF CalledTold, NitzKept
<1> QED
    BY <1>1, <1>2, <1>3, <1>4, <1>5

(* A vendor thread starts a response or an indication.                     *)
LEMMA DeliverStep ==
    ASSUME CallbackInv, ~Crashed, NEW t \in Vendors, NEW s \in Services, Deliver(t, s)
    PROVE  CallbackInv'
<1> USE CallbacksAssumption DEF CallbackInv,
        Deliver, Start, Goto,
        registryVars, threadVars, nitzVars, modemVars, worldVars
<1>1. CallbackTypeOK'
    BY DEF CallbackTypeOK
<1>2. LockOrder'
    BY DEF LockOrder, CallbackTypeOK
<1>3. LockBalanced'
    <2>1. Holders' = Holders
        BY DEF Holders
    <2> QED
        BY <2>1, BalancedSame
<1>4. CallbackStays' /\ FailedDead'
    BY DEF CallbackStays, FailedDead
<1>5. CalledTold' /\ NitzKept'
    BY DEF CalledTold, NitzKept
<1> QED
    BY <1>1, <1>2, <1>3, <1>4, <1>5

(* A vendor thread starts a NITZ indication.                               *)
LEMMA DeliverNitzStep ==
    ASSUME CallbackInv, ~Crashed, NEW t \in Vendors, NEW s \in Services, DeliverNitz(t, s)
    PROVE  CallbackInv'
<1> USE CallbacksAssumption DEF CallbackInv,
        DeliverNitz, Start, Goto,
        registryVars, threadVars, nitzVars, modemVars, worldVars
<1>1. CallbackTypeOK'
    BY DEF CallbackTypeOK
<1>2. LockOrder'
    BY DEF LockOrder, CallbackTypeOK
<1>3. LockBalanced'
    <2>1. Holders' = Holders
        BY DEF Holders
    <2> QED
        BY <2>1, BalancedSame
<1>4. CallbackStays' /\ FailedDead'
    BY DEF CallbackStays, FailedDead
<1>5. CalledTold' /\ NitzKept'
    BY DEF CalledTold, NitzKept
<1> QED
    BY <1>1, <1>2, <1>3, <1>4, <1>5

(* A conversion has failed.                                                *)
LEMMA SendErrorResponseStep ==
    ASSUME CallbackInv, ~Crashed, NEW t \in {Binder, EventLoop}, NEW s \in Services,
           sendErrorResponse(t, s)
    PROVE  CallbackInv'
<1> USE CallbacksAssumption DEF CallbackInv,
        sendErrorResponse, Start, Goto,
        registryVars, threadVars, nitzVars, modemVars, worldVars
<1>1. CallbackTypeOK'
    BY DEF CallbackTypeOK
<1>2. LockOrder'
    BY DEF LockOrder
<1>3. LockBalanced'
    <2>1. Holders' = Holders
        BY DEF Holders, CallbackTypeOK
    <2> QED
        BY <2>1, BalancedSame
<1>4. CallbackStays' /\ FailedDead'
    BY DEF CallbackStays, FailedDead
<1>5. CalledTold' /\ NitzKept'
    BY DEF CalledTold, NitzKept
<1> QED
    BY <1>1, <1>2, <1>3, <1>4, <1>5

(* The read lock is taken.                                                 *)
LEMMA RdLockStep ==
    ASSUME CallbackInv, ~Crashed, NEW t \in Threads, RdLock(t)
    PROVE  CallbackInv'
<1> USE CallbacksAssumption DEF CallbackInv,
        RdLock, Goto,
        registryVars, threadVars, nitzVars, modemVars, worldVars
<1>1. CallbackTypeOK'
    BY DEF CallbackTypeOK
<1>2. LockOrder'
    BY DEF LockOrder
<1>3. LockBalanced'
    <2>1. CASE misused
        BY <2>1, BalancePrimed
    <2>2. CASE ~misused
        <3>1. t \notin Holders /\ Holders' = Holders \cup {t}
            BY DEF Holders, CallbackTypeOK, LockOrder
        <3> QED
            BY <3>1, BalancedTake
    <2> QED
        BY <2>1, <2>2
<1>4. CallbackStays' /\ FailedDead'
    BY DEF CallbackStays, FailedDead
<1>5. CalledTold' /\ NitzKept'
    BY DEF CalledTold, NitzKept
<1> QED
    BY <1>1, <1>2, <1>3, <1>4, <1>5

(* The callback that is found is the one that is registered.               *)
LEMMA TestCallbackStep ==
    ASSUME CallbackInv, ~Crashed, NEW t \in Threads, TestCallback(t)
    PROVE  CallbackInv'
<1> USE CallbacksAssumption DEF CallbackInv,
        TestCallback, Goto,
        registryVars, threadVars, nitzVars, modemVars, worldVars
<1>1. CallbackTypeOK'
    BY DEF CallbackTypeOK
<1>2. LockOrder'
    BY DEF LockOrder
<1>3. LockBalanced'
    <2>1. Holders' = Holders
        BY DEF Holders
    <2> QED
        BY <2>1, BalancedSame
<1>4. CallbackStays' /\ FailedDead'
    BY DEF CallbackStays, FailedDead, CallbackTypeOK
<1>5. CalledTold' /\ NitzKept'
    BY DEF CalledTold, NitzKept, CallbackTypeOK
<1> QED
    BY <1>1, <1>2, <1>3, <1>4, <1>5

(* The callback is called, and a NITZ time is told.                        *)
LEMMA CallCallbackStep ==
    ASSUME CallbackInv, ~Crashed, NEW t \in Threads, CallCallback(t)
    PROVE  CallbackInv'
<1> USE CallbacksAssumption DEF CallbackInv,
        CallCallback, Goto,
        registryVars, threadVars, nitzVars, modemVars, worldVars
<1>1. CallbackTypeOK'
    <2>1. time[t] \in 0 .. MaxNitz
        BY DEF CallbackTypeOK
    <2>2. ({time[t]} \ {0}) \subseteq Times
        BY ONLY <2>1, CallbacksAssumption DEF Times
    <2>3. told' \subseteq Times
        BY <2>2 DEF CallbackTypeOK
    <2> QED
        BY <2>3 DEF CallbackTypeOK
<1>2. LockOrder'
    BY DEF LockOrder
<1>3. LockBalanced'
    <2>1. Holders' = Holders
        BY DEF Holders
    <2> QED
        BY <2>1, BalancedSame
<1>4. CallbackStays' /\ FailedDead'
    BY DEF CallbackStays, FailedDead
<1>5. CalledTold' /\ NitzKept'
    BY DEF CalledTold, NitzKept
<1> QED
    BY <1>1, <1>2, <1>3, <1>4, <1>5

(* No thread with the read lock calls a null pointer.                      *)
LEMMA CallNullStep ==
    ASSUME CallbackInv, ~Crashed, NEW t \in Threads, CallNull(t)
    PROVE  CallbackInv'
<1> USE CallbacksAssumption DEF CallbackInv,
        CallNull, Goto,
        registryVars, threadVars, nitzVars, modemVars, worldVars
<1>1. CallbackTypeOK'
    BY DEF CallbackTypeOK
<1>2. LockOrder'
    BY DEF LockOrder
<1>3. LockBalanced'
    <2>1. CASE misused
        BY <2>1, BalancePrimed
    <2>2. CASE ~misused
        <3>1. Holders' = Holders
            BY <2>2 DEF Holders, CallbackStays
        <3> QED
            BY <3>1, BalancedSame
    <2> QED
        BY <2>1, <2>2
<1>4. CallbackStays' /\ FailedDead'
    BY DEF CallbackStays, FailedDead
<1>5. CalledTold' /\ NitzKept'
    BY DEF CalledTold, NitzKept
<1> QED
    BY <1>1, <1>2, <1>3, <1>4, <1>5

(* The counter is noted while the lock is still held.                      *)
LEMMA NoteCounterStep ==
    ASSUME CallbackInv, ~Crashed, NEW t \in Threads, NoteCounter(t)
    PROVE  CallbackInv'
<1> USE CallbacksAssumption DEF CallbackInv,
        NoteCounter, Goto,
        registryVars, threadVars, nitzVars, modemVars, worldVars
<1>1. CallbackTypeOK'
    BY DEF CallbackTypeOK, Unlock
<1>2. LockOrder'
    BY DEF LockOrder, CallbackTypeOK
<1>3. LockBalanced'
    <2>1. CASE misused'
        BY <2>1, BalancePrimed
    <2>2. CASE ~misused'
        <3>1. t \in Holders /\ Holders' = Holders \ {t} /\ misused' = misused
            BY <2>2 DEF Holders, CallbackTypeOK
        <3> QED
            BY <3>1, BalancedRelease
    <2> QED
        BY <2>1, <2>2
<1>4. CallbackStays' /\ FailedDead'
    <2> SUFFICES ASSUME ~misused' PROVE CallbackStays' /\ FailedDead'
        BY DEF CallbackStays, FailedDead
    <2>1. ~misused /\ locked[t]
        OBVIOUS
    <2>2. CallbackStays'
        BY <2>1 DEF CallbackStays
    <2>3. callback[service[t]] \in dead
        BY DEF FailedDead
    <2>4. FailedDead'
        BY <2>1 DEF FailedDead, CallbackTypeOK
    <2> QED
        BY <2>2, <2>4
<1>5. CalledTold' /\ NitzKept'
    BY DEF CalledTold, NitzKept
<1> QED
    BY <1>1, <1>2, <1>3, <1>4, <1>5

(* The write lock is taken when no thread is between test and call.        *)
LEMMA ResetCallbackStep ==
    ASSUME CallbackInv, ~Crashed, NEW t \in Threads, ResetCallback(t)
    PROVE  CallbackInv'
<1> USE CallbacksAssumption DEF CallbackInv,
        ResetCallback, Goto,
        registryVars, threadVars, nitzVars, modemVars, worldVars
<1>1. CallbackTypeOK'
    BY DEF CallbackTypeOK
<1>2. LockOrder'
    BY DEF LockOrder
<1>3. LockBalanced'
    <2>1. Holders' = Holders
        BY DEF Holders
    <2> QED
        BY <2>1, BalancedSame
<1>4. ~misused => \A u \in Threads :
                     ~(locked[u] /\ pc[u] \in {"call", "failed", "crashed"})
    BY FreeMeansNoHolder DEF Holders, Crashed
<1>5. CallbackStays' /\ FailedDead'
    <2>1. CallbackStays'
        BY <1>4 DEF CallbackStays
    <2>2. FailedDead'
        BY <1>4 DEF FailedDead, CallbackTypeOK
    <2> QED
        BY <2>1, <2>2
<1>6. CalledTold' /\ NitzKept'
    BY DEF CalledTold, NitzKept
<1> QED
    BY <1>1, <1>2, <1>3, <1>5, <1>6

(* The read lock is taken again.                                           *)
LEMMA RelockStep ==
    ASSUME CallbackInv, ~Crashed, NEW t \in Threads, Relock(t)
    PROVE  CallbackInv'
<1> USE CallbacksAssumption DEF CallbackInv,
        Relock, Goto,
        registryVars, threadVars, nitzVars, modemVars, worldVars
<1>1. CallbackTypeOK'
    BY DEF CallbackTypeOK
<1>2. LockOrder'
    BY DEF LockOrder
<1>3. LockBalanced'
    <2>1. CASE misused
        BY <2>1, BalancePrimed
    <2>2. CASE ~misused
        <3>1. t \notin Holders /\ Holders' = Holders \cup {t}
            BY <2>2 DEF Holders, CallbackTypeOK, LockOrder
        <3> QED
            BY <3>1, BalancedTake
    <2> QED
        BY <2>1, <2>2
<1>4. CallbackStays' /\ FailedDead'
    BY DEF CallbackStays, FailedDead
<1>5. CalledTold' /\ NitzKept'
    BY DEF CalledTold, NitzKept
<1> QED
    BY <1>1, <1>2, <1>3, <1>4, <1>5

(* The read lock is released by the thread that took it.                   *)
LEMMA ReturnCallbackStep ==
    ASSUME CallbackInv, ~Crashed, NEW t \in Threads, ReturnCallback(t)
    PROVE  CallbackInv'
<1> USE CallbacksAssumption DEF CallbackInv,
        ReturnCallback, Goto, Finish,
        registryVars, threadVars, nitzVars, modemVars, worldVars
<1>1. CallbackTypeOK'
    <2>1. readers' \in Nat
        BY DEF CallbackTypeOK, Unlock
    <2>2. CASE time[t] # 0 /\ target[t] = 0
        BY <2>1, <2>2 DEF CallbackTypeOK
    <2>3. CASE ~(time[t] # 0 /\ target[t] = 0)
        <3>1. service' \in [Threads -> Services] /\ locked' \in [Threads -> BOOLEAN]
            <4>1. /\ service' = [service EXCEPT ![t] = IF stage' = 0 THEN AnyService ELSE @]
                  /\ locked' = [locked EXCEPT ![t] = FALSE]
                BY <2>3
            <4>2. service \in [Threads -> Services] /\ locked \in [Threads -> BOOLEAN]
                BY DEF CallbackTypeOK
            <4> QED
                BY <4>1, <4>2, AnyServiceIsOne
        <3> QED
            BY <2>1, <3>1 DEF CallbackTypeOK
    <2> QED
        BY <2>2, <2>3
<1>2. LockOrder'
    BY DEF LockOrder, CallbackTypeOK
<1>3. LockBalanced'
    <2>1. CASE locked[t]
        <3>1. t \in Holders /\ Holders' = Holders \ {t}
            BY <2>1 DEF Holders, CallbackTypeOK
        <3> QED
            BY <2>1, <3>1, BalancedRelease
    <2>2. CASE ~locked[t]
        <3>1. Holders' = Holders
            BY <2>2 DEF Holders, CallbackTypeOK
        <3> QED
            BY <2>2, <3>1, BalancedSame
    <2> QED
        BY <2>1, <2>2
<1>4. CallbackStays' /\ FailedDead'
    BY DEF CallbackStays, FailedDead, CallbackTypeOK
<1>5. CalledTold' /\ NitzKept'
    BY DEF CalledTold, NitzKept, CallbackTypeOK
<1> QED
    BY <1>1, <1>2, <1>3, <1>4, <1>5

(* A NITZ time is put aside.                                               *)
LEMMA StoreNitzStep ==
    ASSUME CallbackInv, ~Crashed, NEW t \in Threads, StoreNitz(t)
    PROVE  CallbackInv'
<1> USE CallbacksAssumption DEF CallbackInv,
        StoreNitz, Goto, Finish,
        registryVars, threadVars, nitzVars, modemVars, worldVars
<1>1. CallbackTypeOK'
    BY AnyServiceIsOne DEF CallbackTypeOK
<1>2. LockOrder'
    BY DEF LockOrder
<1>3. LockBalanced'
    <2>1. Holders' = Holders
        BY DEF Holders
    <2> QED
        BY <2>1, BalancedSame
<1>4. CallbackStays' /\ FailedDead'
    BY DEF CallbackStays, FailedDead
<1>5. CalledTold' /\ NitzKept'
    BY DEF CalledTold, NitzKept
<1> QED
    BY <1>1, <1>2, <1>3, <1>4, <1>5

(* A client registers, under the write lock.                               *)
LEMMA SetResponseFunctionsStep ==
    ASSUME CallbackInv, ~Crashed, NEW s \in Services, setResponseFunctions(s)
    PROVE  CallbackInv'
<1> USE CallbacksAssumption DEF CallbackInv,
        setResponseFunctions,
        registryVars, threadVars, nitzVars, modemVars, worldVars
<1>1. CallbackTypeOK'
    BY DEF CallbackTypeOK
<1>2. LockOrder'
    BY DEF LockOrder
<1>3. LockBalanced'
    <2>1. Holders' = Holders
        BY DEF Holders
    <2> QED
        BY <2>1, BalancedSame
<1>4. ~misused => \A u \in Threads :
                     ~(locked[u] /\ pc[u] \in {"call", "failed", "crashed"})
    BY FreeMeansNoHolder DEF Holders, Crashed
<1>5. CallbackStays' /\ FailedDead'
    <2>1. CallbackStays'
        BY <1>4 DEF CallbackStays
    <2>2. FailedDead'
        BY <1>4 DEF FailedDead, CallbackTypeOK
    <2> QED
        BY <2>1, <2>2
<1>6. CalledTold' /\ NitzKept'
    BY DEF CalledTold, NitzKept
<1> QED
    BY <1>1, <1>2, <1>3, <1>5, <1>6

(* RIL_CONNECTED is sent.                                                  *)
LEMMA WaitForInitStep ==
    ASSUME CallbackInv, ~Crashed, WaitForInit
    PROVE  CallbackInv'
<1> USE CallbacksAssumption DEF CallbackInv,
        WaitForInit, Start, Goto,
        registryVars, threadVars, nitzVars, modemVars, worldVars
<1>1. CallbackTypeOK'
    BY DEF CallbackTypeOK
<1>2. LockOrder'
    BY DEF LockOrder, CallbackTypeOK
<1>3. LockBalanced'
    <2>1. Holders' = Holders
        BY DEF Holders, LockOrder
    <2> QED
        BY <2>1, BalancedSame
<1>4. CallbackStays' /\ FailedDead'
    BY DEF CallbackStays, FailedDead, LockOrder
<1>5. CalledTold' /\ NitzKept'
    BY DEF CalledTold, NitzKept
<1> QED
    BY <1>1, <1>2, <1>3, <1>4, <1>5

(* The radio state is sent.                                                *)
LEMMA SendRadioStateStep ==
    ASSUME CallbackInv, ~Crashed, SendRadioState
    PROVE  CallbackInv'
<1> USE CallbacksAssumption DEF CallbackInv,
        SendRadioState, Start, Goto,
        registryVars, threadVars, nitzVars, modemVars, worldVars
<1>1. CallbackTypeOK'
    BY DEF CallbackTypeOK
<1>2. LockOrder'
    BY DEF LockOrder, CallbackTypeOK
<1>3. LockBalanced'
    <2>1. Holders' = Holders
        BY DEF Holders
    <2> QED
        BY <2>1, BalancedSame
<1>4. CallbackStays' /\ FailedDead'
    BY DEF CallbackStays, FailedDead
<1>5. CalledTold' /\ NitzKept'
    BY DEF CalledTold, NitzKept
<1> QED
    BY <1>1, <1>2, <1>3, <1>4, <1>5

(* The NITZ time is sent again.                                            *)
LEMMA ResendLastNITZTimeDataStep ==
    ASSUME CallbackInv, ~Crashed, resendLastNITZTimeData
    PROVE  CallbackInv'
<1> USE CallbacksAssumption DEF CallbackInv,
        resendLastNITZTimeData, Start, Goto,
        registryVars, threadVars, nitzVars, modemVars, worldVars
<1>1. CallbackTypeOK'
    BY DEF CallbackTypeOK
<1>2. LockOrder'
    BY DEF LockOrder, CallbackTypeOK
<1>3. LockBalanced'
    <2>1. Holders' = Holders
        BY DEF Holders, CallbackTypeOK
    <2> QED
        BY <2>1, BalancedSame
<1>4. CallbackStays' /\ FailedDead'
    BY DEF CallbackStays, FailedDead
<1>5. CalledTold' /\ NitzKept'
    BY DEF CalledTold, NitzKept
<1> QED
    BY <1>1, <1>2, <1>3, <1>4, <1>5

(* There is no NITZ time to be sent again.                                 *)
LEMMA NothingToResendStep ==
    ASSUME CallbackInv, ~Crashed, NothingToResend
    PROVE  CallbackInv'
<1> USE CallbacksAssumption DEF CallbackInv,
        NothingToResend,
        registryVars, threadVars, nitzVars, modemVars, worldVars
<1>1. CallbackTypeOK'
    BY DEF CallbackTypeOK
<1>2. LockOrder'
    BY DEF LockOrder
<1>3. LockBalanced'
    <2>1. Holders' = Holders
        BY DEF Holders
    <2> QED
        BY <2>1, BalancedSame
<1>4. CallbackStays' /\ FailedDead'
    BY DEF CallbackStays, FailedDead
<1>5. CalledTold' /\ NitzKept'
    BY DEF CalledTold, NitzKept
<1> QED
    BY <1>1, <1>2, <1>3, <1>4, <1>5

(* The NITZ time is freed once it was told.                                *)
LEMMA ResentStep ==
    ASSUME CallbackInv, ~Crashed, Resent
    PROVE  CallbackInv'
<1> USE CallbacksAssumption DEF CallbackInv,
        Resent, Goto, Finish,
        registryVars, threadVars, nitzVars, modemVars, worldVars
<1>1. CallbackTypeOK'
    <2>1. s_lastNITZTimeData' \in 0 .. MaxNitz
        BY DEF CallbackTypeOK
    <2>2. raced' \in BOOLEAN
        BY DEF CallbackTypeOK
    <2>3. service' \in [Threads -> Services] /\ locked' \in [Threads -> BOOLEAN]
        BY DEF CallbackTypeOK
    <2> QED
        BY <2>2 DEF CallbackTypeOK
<1>2. LockOrder'
    BY DEF LockOrder
<1>3. LockBalanced'
    <2>1. Holders' = Holders
        BY DEF Holders, LockOrder
    <2> QED
        BY <2>1, BalancedSame
<1>4. CallbackStays' /\ FailedDead'
    BY DEF CallbackStays, FailedDead
<1>5. CalledTold' /\ NitzKept'
    <2>1. CalledTold'
        BY DEF CalledTold
    <2>2. CASE target[Binder] = 0
        BY <2>1, <2>2 DEF NitzKept
    <2>3. CASE target[Binder] # 0
        <3>1. time[Binder] # 0 => time[Binder] \in told
            BY <2>3 DEF CalledTold
        <3> QED
            BY <2>1, <3>1 DEF NitzKept
    <2> QED
        BY <2>2, <2>3
<1> QED
    BY <1>1, <1>2, <1>3, <1>4, <1>5

(* The connection is set up.                                               *)
LEMMA ConnectDoneStep ==
    ASSUME CallbackInv, ~Crashed, ConnectDone
    PROVE  CallbackInv'
<1> USE CallbacksAssumption DEF CallbackInv,
        ConnectDone, Goto, Finish,
        registryVars, threadVars, nitzVars, modemVars, worldVars
<1>1. CallbackTypeOK'
    BY AnyServiceIsOne DEF CallbackTypeOK
<1>2. LockOrder'
    BY DEF LockOrder
<1>3. LockBalanced'
    <2>1. Holders' = Holders
        BY DEF Holders
    <2> QED
        BY <2>1, BalancedSame
<1>4. CallbackStays' /\ FailedDead'
    BY DEF CallbackStays, FailedDead
<1>5. CalledTold' /\ NitzKept'
    BY DEF CalledTold, NitzKept
<1> QED
    BY <1>1, <1>2, <1>3, <1>4, <1>5

(* The modem is up again.                                                  *)
LEMMA ModemUpStep ==
    ASSUME CallbackInv, ~Crashed, ModemUp
    PROVE  CallbackInv'
<1> USE CallbacksAssumption DEF CallbackInv,
        ModemUp,
        registryVars, threadVars, nitzVars, modemVars, worldVars
<1>1. CallbackTypeOK'
    BY DEF CallbackTypeOK
<1>2. LockOrder'
    BY DEF LockOrder
<1>3. LockBalanced'
    <2>1. Holders' = Holders
        BY DEF Holders
    <2> QED
        BY <2>1, BalancedSame
<1>4. CallbackStays' /\ FailedDead'
    BY DEF CallbackStays, FailedDead
<1>5. CalledTold' /\ NitzKept'
    BY DEF CalledTold, NitzKept
<1> QED
    BY <1>1, <1>2, <1>3, <1>4, <1>5

(* A step that changes nothing.                                            *)
LEMMA StutterStep ==
    ASSUME CallbackInv, UNCHANGED vars
    PROVE  CallbackInv'
BY DEF CallbackInv, CallbackTypeOK, LockOrder, LockBalanced, CallbackStays, FailedDead,
   CalledTold, NitzKept, vars, registryVars, threadVars, nitzVars, worldVars

(* Every step of the system keeps the invariant.                           *)
LEMMA NextStep ==
    ASSUME CallbackInv, [Next]_vars
    PROVE  CallbackInv'
<1> SUFFICES ASSUME Next PROVE CallbackInv'
    BY StutterStep
<1>1. ~Crashed
    BY DEF Next
<1>2. ASSUME NEW t \in Threads, CallbackStep(t)
      PROVE  CallbackInv'
    BY <1>1, <1>2, RdLockStep, TestCallbackStep, CallCallbackStep, CallNullStep,
       NoteCounterStep, ResetCallbackStep, RelockStep, ReturnCallbackStep, StoreNitzStep
       DEF CallbackStep
<1>3. ASSUME ConnectStep
      PROVE  CallbackInv'
    BY <1>1, <1>3, WaitForInitStep, SendRadioStateStep, ResendLastNITZTimeDataStep,
       NothingToResendStep, ResentStep, ConnectDoneStep DEF ConnectStep
<1>4. ASSUME NEW s \in Services,
             \/ setResponseFunctions(s)
             \/ \E t \in Vendors : Deliver(t, s) \/ DeliverNitz(t, s)
             \/ \E t \in {Binder, EventLoop} : sendErrorResponse(t, s)
      PROVE  CallbackInv'
    BY <1>1, <1>4, SetResponseFunctionsStep, DeliverStep, DeliverNitzStep, SendErrorResponseStep
<1> QED
    BY <1>2, <1>3, <1>4, ClientDiesStep, ModemUpStep DEF Next

-----------------------------------------------------------------------------
(* CallbackInv holds in every reachable state.                             *)
THEOREM CallbackInductive == Spec => []CallbackInv
<1>1. Init => CallbackInv
    BY InitInv
<1>2. CallbackInv /\ [Next]_vars => CallbackInv'
    BY NextStep
<1> QED
    BY <1>1, <1>2, PTL DEF Spec

(* The threads, the counters and the lock are always in one of their       *)
(* states.                                                                 *)
THEOREM CallbackTypeCorrect == Spec => []TypeOK
<1>1. CallbackInv => TypeOK
    BY DEF CallbackInv, CallbackTypeOK, TypeOK
<1> QED
    BY <1>1, CallbackInductive, PTL

(* checkReturnStatus, which releases the caller's read lock and takes it   *)
(* again, never leaves it unbalanced.                                      *)
THEOREM ReadLockBalanced == Spec => []LockBalanced
<1>1. CallbackInv => LockBalanced
    BY DEF CallbackInv
<1> QED
    BY <1>1, CallbackInductive, PTL

(* No response or indication under the read lock calls a null pointer or   *)
(* the callback of another client than the one it tested.                  *)
THEOREM CallbackNotDropped == Spec => []CallbackStays
<1>1. CallbackInv => CallbackStays
    BY DEF CallbackInv
<1> QED
    BY <1>1, CallbackInductive, PTL

(* A NITZ time that send_unsolResponse put aside is not lost.              *)
THEOREM NitzNotLost == Spec => []NitzKept
<1>1. CallbackInv => NitzKept
    BY DEF CallbackInv
<1> QED
    BY <1>1, CallbackInductive, PTL

(* checkReturnStatus drops the callbacks of dead clients only: the counter *)
(* tells it that a new client has registered.                              *)
THEOREM DropsDeadOnly == Spec => OnlyDeadDropped
<1> DEFINE Drop == \A s \in Services :
                      callback[s] # 0 /\ callback'[s] = 0 /\ ~misused => callback[s] \in dead
<1>1. ASSUME CallbackInv, [Next]_vars
      PROVE  [Drop]_vars
    <2> USE DEF CallbackInv, CallbackTypeOK
    <2>1. ASSUME NEW t \in Threads, ResetCallback(t) PROVE Drop
        BY <1>1, <2>1 DEF ResetCallback, FailedDead, registryVars
    <2>2. ASSUME NEW s \in Services, setResponseFunctions(s) PROVE Drop
        BY <1>1, <2>2 DEF setResponseFunctions
    <2>3. ASSUME UNCHANGED callback PROVE Drop
        BY <2>3
    <2>4. CASE Next
        <3>1. \/ \E t \in Threads : ResetCallback(t)
              \/ \E s \in Services : setResponseFunctions(s)
              \/ UNCHANGED callback
            BY <2>4 DEF Next, CallbackStep, ConnectStep, RdLock, TestCallback, CallCallback,
               CallNull, NoteCounter, Relock, ReturnCallback, StoreNitz, WaitForInit,
               SendRadioState, resendLastNITZTimeData, NothingToResend, Resent, ConnectDone,
               Deliver, DeliverNitz, sendErrorResponse, ClientDies, ModemUp, registryVars
        <3> QED
            BY <2>1, <2>2, <3>1
    <2> QED
        BY <1>1, <2>4
<1> QED
    BY <1>1, CallbackInductive, PTL DEF Spec, OnlyDeadDropped
=============================================================================
