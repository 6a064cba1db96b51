--------------------------- MODULE InitialAttach ---------------------------
(***************************************************************************)
(* The initial attach APN: set by the framework on the HIDL thread, kept   *)
(* per slot under s_lastIaMutex, and sent again by the event loop when the *)
(* vendor RIL asks for it.  The vendor RIL asks, in setAttachApnInd, while *)
(* it holds the mutex that its handling of the request takes; the mutex    *)
(* and what the modem last got are modelled from how the source uses them. *)
(***************************************************************************)
EXTENDS Integers

CONSTANTS
    Slots,
    MaxApns,     \* initial attach APNs set by the framework
    MaxResets,   \* RIL_UNSOL_SET_ATTACH_APN raised by the vendor RIL
    MaxNoMemory  \* failed conversions

ASSUME AttachAssumption == MaxApns \in Nat /\ MaxResets \in Nat /\ MaxNoMemory \in Nat
ASSUME SlotsAssumption == Slots # {}

VARIABLES
    s_lastIaMutex, s_lastIaValid,
    s_lastIa,     \* per slot the profile and the two flags, each the number of its setting
    rilMutex,     \* the vendor RIL's mutex of a slot
    modemApn,     \* what the vendor RIL was last given
    pc, slot,     \* per thread: where it is and the slot it serves
    carried,      \* per thread: the settings it is about to send
    due,          \* timed callbacks of sendInitialAttachApnAgain not yet run
    apns, resets, noMemory

attachVars == <<s_lastIaMutex, s_lastIaValid, s_lastIa, rilMutex, modemApn, pc, slot,
                carried, due, apns, resets, noMemory>>

Threads == {"hidl", "loop", "vendor"}
NoOwner == "none"
EmptyApn == <<0, 0>>
Settings == (0..MaxApns) \X (0..MaxApns)

AttachInit ==
    /\ s_lastIaMutex = NoOwner
    /\ s_lastIaValid = [s \in Slots |-> FALSE]
    /\ s_lastIa = [s \in Slots |-> EmptyApn]
    /\ rilMutex = [s \in Slots |-> NoOwner]
    /\ modemApn = [s \in Slots |-> EmptyApn]
    /\ pc = [t \in Threads |-> "idle"]
    /\ slot = [t \in Threads |-> CHOOSE s \in Slots : TRUE]
    /\ carried = [t \in Threads |-> EmptyApn]
    /\ due = [s \in Slots |-> 0]
    /\ apns = 0 /\ resets = 0 /\ noMemory = 0

-----------------------------------------------------------------------------
\* The framework's setInitialAttachApn, which has a serial number other than -1.
SetInitialAttachApn(s) ==
    /\ pc["hidl"] = "idle" /\ apns < MaxApns
    /\ apns' = apns + 1
    /\ carried' = [carried EXCEPT !["hidl"] = <<apns + 1, apns + 1>>]
    /\ slot' = [slot EXCEPT !["hidl"] = s]
    /\ pc' = [pc EXCEPT !["hidl"] = "lock"]
    /\ UNCHANGED <<s_lastIaMutex, s_lastIaValid, s_lastIa, rilMutex, modemApn, due, resets,
                   noMemory>>

\* Seeded defect: no mutex.
LockIaUnlocked(t) ==
    /\ pc[t] = "lock"
    /\ pc' = [pc EXCEPT ![t] = IF t = "hidl" THEN "store" ELSE "copy"]
    /\ UNCHANGED <<s_lastIaMutex, s_lastIaValid, s_lastIa, rilMutex, modemApn, slot, carried,
                   due, apns, resets, noMemory>>

LockIa(t) ==
    /\ pc[t] = "lock" /\ s_lastIaMutex = NoOwner
    /\ s_lastIaMutex' = t
    /\ pc' = [pc EXCEPT ![t] = IF t = "hidl" THEN "store" ELSE "copy"]
    /\ UNCHANGED <<s_lastIaValid, s_lastIa, rilMutex, modemApn, slot, carried, due, apns,
                   resets, noMemory>>

\* The profile, then the flags, s_lastIaValid and the unlock.
StoreIa ==
    LET s == slot["hidl"]
    IN  /\ \/ /\ pc["hidl"] = "store"
              /\ s_lastIa' = [s_lastIa EXCEPT ![s][1] = carried["hidl"][1]]
              /\ pc' = [pc EXCEPT !["hidl"] = "storeFlags"]
              /\ UNCHANGED <<s_lastIaMutex, s_lastIaValid>>
           \/ /\ pc["hidl"] = "storeFlags"
              /\ s_lastIa' = [s_lastIa EXCEPT ![s][2] = carried["hidl"][2]]
              /\ s_lastIaValid' = [s_lastIaValid EXCEPT ![s] = TRUE]
              /\ s_lastIaMutex' = NoOwner
              /\ pc' = [pc EXCEPT !["hidl"] = "convert"]
        /\ UNCHANGED <<rilMutex, modemApn, slot, carried, due, apns, resets, noMemory>>

\* sendInitialAttachApnAgain: the settings of the slot if there are any, else empty ones.
CopyIa(t) ==
    /\ \/ /\ pc[t] = "copy" /\ ~s_lastIaValid[slot[t]]
          /\ carried' = [carried EXCEPT ![t] = EmptyApn]
          /\ s_lastIaMutex' = NoOwner
          /\ pc' = [pc EXCEPT ![t] = "convert"]
       \/ /\ pc[t] = "copy" /\ s_lastIaValid[slot[t]]
          /\ carried' = [carried EXCEPT ![t][1] = s_lastIa[slot[t]][1]]
          /\ pc' = [pc EXCEPT ![t] = "copyFlags"]
          /\ UNCHANGED s_lastIaMutex
       \/ /\ pc[t] = "copyFlags"
          /\ carried' = [carried EXCEPT ![t][2] = s_lastIa[slot[t]][2]]
          /\ s_lastIaMutex' = NoOwner
          /\ pc' = [pc EXCEPT ![t] = "convert"]
    /\ UNCHANGED <<s_lastIaValid, s_lastIa, rilMutex, modemApn, slot, due, apns, resets, noMemory>>

\* Seeded defect: what is sent again is also stored again.
ConvertStores(t) ==
    /\ pc[t] = "convert"
    /\ pc' = [pc EXCEPT ![t] = "send"]
    /\ s_lastIa' = [s_lastIa EXCEPT ![slot[t]] = carried[t]]
    /\ UNCHANGED <<s_lastIaMutex, s_lastIaValid, rilMutex, modemApn, slot, carried, due,
                   apns, resets, noMemory>>

\* addRequestToList and the copies of the strings, for the framework's serial number or
\* for -1; without memory the request is not sent. With -1 nothing is stored again.
Convert(t) ==
    /\ pc[t] = "convert"
    /\ \/ /\ pc' = [pc EXCEPT ![t] = "send"]
          /\ UNCHANGED noMemory
       \/ /\ noMemory < MaxNoMemory
          /\ noMemory' = noMemory + 1
          /\ pc' = [pc EXCEPT ![t] = "idle"]
    /\ UNCHANGED <<s_lastIaMutex, s_lastIaValid, s_lastIa, rilMutex, modemApn, slot, carried,
                   due, apns, resets>>

\* my_enqueue calls the vendor RIL's onRequest, which takes its mutex, ...
OnRequest(t) ==
    /\ pc[t] = "send" /\ rilMutex[slot[t]] = NoOwner
    /\ rilMutex' = [rilMutex EXCEPT ![slot[t]] = t]
    /\ modemApn' = [modemApn EXCEPT ![slot[t]] = carried[t]]
    /\ pc' = [pc EXCEPT ![t] = "sent"]
    /\ UNCHANGED <<s_lastIaMutex, s_lastIaValid, s_lastIa, slot, carried, due, apns, resets,
                   noMemory>>

\* ... and returns.
OnRequestReturns(t) ==
    /\ pc[t] = "sent"
    /\ rilMutex' = [rilMutex EXCEPT ![slot[t]] = NoOwner]
    /\ pc' = [pc EXCEPT ![t] = "idle"]
    /\ UNCHANGED <<s_lastIaMutex, s_lastIaValid, s_lastIa, modemApn, slot, carried, due, apns,
                   resets, noMemory>>

-----------------------------------------------------------------------------
\* onAttachApnReset of the vendor RIL: it takes its mutex and raises the unsolicited
\* response, ...
OnAttachApnReset(s) ==
    /\ pc["vendor"] = "idle" /\ rilMutex[s] = NoOwner
    /\ resets < MaxResets
    /\ resets' = resets + 1
    /\ rilMutex' = [rilMutex EXCEPT ![s] = "vendor"]
    /\ slot' = [slot EXCEPT !["vendor"] = s]
    /\ pc' = [pc EXCEPT !["vendor"] = "raise"]
    /\ UNCHANGED <<s_lastIaMutex, s_lastIaValid, s_lastIa, modemApn, carried, due, apns, noMemory>>

\* Seeded defect: the settings are sent at once, by the thread that raised the response.
SetAttachApnIndAtOnce ==
    /\ pc["vendor"] = "raise"
    /\ pc' = [pc EXCEPT !["vendor"] = "lock"]
    /\ UNCHANGED <<s_lastIaMutex, s_lastIaValid, s_lastIa, rilMutex, modemApn, slot, carried,
                   due, apns, resets, noMemory>>

\* ... setAttachApnInd requests a timed callback, if there is a client, ...
SetAttachApnInd ==
    /\ pc["vendor"] = "raise"
    /\ due' \in {due, [due EXCEPT ![slot["vendor"]] = @ + 1]}
    /\ pc' = [pc EXCEPT !["vendor"] = "sent"]
    /\ UNCHANGED <<s_lastIaMutex, s_lastIaValid, s_lastIa, rilMutex, modemApn, slot, carried,
                   apns, resets, noMemory>>

\* ... and the event loop runs the callback.
TimedCallback(s) ==
    /\ pc["loop"] = "idle" /\ due[s] > 0
    /\ due' = [due EXCEPT ![s] = @ - 1]
    /\ slot' = [slot EXCEPT !["loop"] = s]
    /\ pc' = [pc EXCEPT !["loop"] = "lock"]
    /\ UNCHANGED <<s_lastIaMutex, s_lastIaValid, s_lastIa, rilMutex, modemApn, carried, apns,
                   resets, noMemory>>

ThreadStep(t) ==
    \/ LockIa(t)
    \/ CopyIa(t)
    \/ Convert(t)
    \/ OnRequest(t)
    \/ OnRequestReturns(t)

AttachNext ==
    \/ \E s \in Slots : SetInitialAttachApn(s)
    \/ StoreIa
    \/ \E t \in Threads : ThreadStep(t)
    \/ \E s \in Slots : OnAttachApnReset(s)
    \/ SetAttachApnInd
    \/ \E s \in Slots : TimedCallback(s)

\* A thread that is running goes on, and the event loop runs what is due.
AttachFairness ==
    /\ \A t \in Threads : WF_attachVars(ThreadStep(t))
    /\ WF_attachVars(StoreIa)
    /\ WF_attachVars(SetAttachApnInd)
    /\ \A s \in Slots : WF_attachVars(TimedCallback(s))

AttachSpec == AttachInit /\ [][AttachNext]_attachVars
AttachFairSpec == AttachSpec /\ AttachFairness

-----------------------------------------------------------------------------
(* Properties. *)

\* The modem is never given the profile of one setting with the flags of another, though
\* the framework may set new ones while the loop copies the old (s_lastIaMutex).
WholeApn == \A s \in Slots : modemApn[s][1] = modemApn[s][2]

\* Sending the settings again never puts older ones back: outside of the mutex s_lastIa
\* holds what the framework set last (serial != -1 in setInitialAttachApn).
NewestKept ==
    s_lastIaMutex = NoOwner /\ pc["hidl"] # "lock" /\ apns > 0
      => s_lastIa[slot["hidl"]] = <<apns, apns>>

\* "the APN the framework last set for the slot" (sendInitialAttachApnAgain) is what the
\* modem is left with when all threads are done.
ModemHasLast ==
    (\A t \in Threads : pc[t] = "idle") /\ noMemory = 0
      => \A s \in Slots : modemApn[s] = s_lastIa[s]

\* Every operation on the initial attach APN ends, on every thread, and every callback
\* that setAttachApnInd requested runs, though three threads meet at two mutexes and the
\* vendor RIL raises the indication under one of them.
OperationsEnd ==
    /\ \A t \in Threads : pc[t] # "idle" ~> pc[t] = "idle"
    /\ \A s \in Slots : due[s] > 0 ~> due[s] = 0
=============================================================================
