------------------------- MODULE RilRequestsProofs -------------------------
(***************************************************************************)
(* Proofs about RilRequests, for every number of slots, threads, addresses *)
(* and requests, and for a vendor that completes tokens twice.             *)
(***************************************************************************)
EXTENDS RilRequests, TLAPS

(* Instances are handed out once, so no two addresses carry the same one.  *)
TokensFresh ==
    /\ \A a \in RIs : token[a] <= nextId
    /\ \A a, c \in Addr : token[a] = token[c] /\ a # c => token[a] = 0
    /\ \A a \in RIs, i \in Ids \cup {0} :
          <<a, i>> \in owed \cup spent =>
             i <= nextId /\ (a \in Addr => token[a] # 0)
    /\ \A i \in Ids : i > nextId => answered[i] = 0 /\ i \notin failed

(* A binder thread has its RequestInfo for itself until it is listed.      *)
BinderOwnsOne(b) ==
    /\ bpc[b] # "idle" => bRI[b] \in Addr /\ token[bRI[b]] # 0
    /\ bpc[b] = "add" =>
          /\ bRI[b] \in live
          /\ token[bRI[b]] \notin failed => answered[token[bRI[b]]] = 0
          /\ \A s \in Slots : bRI[b] \notin s_pendingRequests[s]
          /\ \A v \in Vendors : Finishing(v) => vRI[v] # bRI[b]
          /\ \A c \in Binders : c # b /\ bpc[c] = "add" => bRI[c] # bRI[b]

BinderOwns == \A b \in Binders : BinderOwnsOne(b)

(* What a vendor thread inside libril knows about its token.               *)
VendorHoldsOne(v) ==
    /\ <<vRI[v], vId[v]>> \in Tokens
    /\ vId[v] <= nextId
    /\ vRI[v] \in Addr => token[vRI[v]] # 0
    /\ Finishing(v) => vRI[v] \in Addr /\ vRI[v] \in live
    /\ vpc[v] \in AckPCs => vRI[v] \in Addr
    /\ vpc[v] = "dequeue" /\ vRI[v] \in live /\ token[vRI[v]] = vId[v]
         => vSlot[v] = socket_id[vRI[v]]

VendorHolds == \A v \in Vendors : vpc[v] # "idle" => VendorHoldsOne(v)

(* A request on the list, or unlinked and not yet answered, has had no     *)
(* response, unless its conversion failed.                                 *)
NotYetAnswered ==
    /\ \A s \in Slots : \A a \in s_pendingRequests[s] :
          token[a] # 0 /\ (token[a] \notin failed => answered[token[a]] = 0)
    /\ \A v \in Vendors : vpc[v] = "respond" =>
          (token[vRI[v]] \notin failed => answered[token[vRI[v]]] = 0)

IInv ==
    /\ TypeOK
    /\ TokensFresh
    /\ BinderOwns
    /\ VendorHolds
    /\ ListSound
    /\ NotYetAnswered
    /\ CompletedAtMostOnce
    /\ PendingAccounted

-----------------------------------------------------------------------------
USE DEF riVars, binderVars, vendorVars, rilVars, answerVars, ackVars, idVars,
        Ids, RIs, AckPCs, CompletePCs

(* The initial value of socket_id and vSlot is a slot.                     *)
LEMMA SomeSlotIsSlot == SomeSlot \in Slots
BY SlotsAssumption DEF SomeSlot

(* The entry a binder thread works on is a request, ...                    *)
LEMMA BinderToken ==
    ASSUME IInv, NEW b \in Binders, bpc[b] # "idle"
    PROVE  bRI[b] \in Addr /\ token[bRI[b]] \in 1 .. MaxRequests
<1>1. bRI[b] \in Addr /\ token[bRI[b]] # 0
    BY DEF IInv, BinderOwns, BinderOwnsOne
<1>2. token \in [RIs -> Ids \cup {0}]
    BY DEF IInv, TypeOK
<1> QED
    BY <1>1, <1>2

(* ... and so is the one a vendor thread acknowledges or finishes.         *)
LEMMA VendorToken ==
    ASSUME IInv, NEW v \in Vendors,
           vpc[v] \in {"ackRead", "ackCheck", "ackSend", "respond", "free"}
    PROVE  vRI[v] \in Addr /\ token[vRI[v]] \in 1 .. MaxRequests
<1>1. VendorHoldsOne(v)
    BY DEF IInv, VendorHolds
<1>2. vRI[v] \in Addr /\ token[vRI[v]] # 0
    BY <1>1 DEF VendorHoldsOne, Finishing
<1>3. token \in [RIs -> Ids \cup {0}]
    BY DEF IInv, TypeOK
<1> QED
    BY <1>2, <1>3

(* A fresh instance at an address that was free.                           *)
LEMMA AllocateStep ==
    ASSUME IInv, NEW b \in Binders, NEW s \in Slots, NEW k \in Kinds, NEW a \in Addr,
           Allocate(b, s, k, a)
    PROVE  IInv'
<1>i. nextId + 1 \in 1 .. MaxRequests /\ a \in RIs
    BY CountsAssumption DEF IInv, TypeOK, Allocate
<1>j. /\ token' = [token EXCEPT ![a] = nextId + 1]
      /\ \A c \in RIs : c # a => token'[c] = token[c]
      /\ token'[a] = nextId + 1
      /\ a \notin live
    BY DEF IInv, TypeOK, Allocate
<1>1. TypeOK'
  <2>1. /\ token' \in [RIs -> Ids \cup {0}]
        /\ local' \in [RIs -> BOOLEAN]
        /\ socket_id' \in [RIs -> Slots]
        /\ wasAckSent' \in [RIs -> BOOLEAN]
        /\ live' \subseteq RIs
    BY <1>i, KindsAssumption DEF IInv, TypeOK, Allocate
  <2>2. /\ bpc' \in [Binders -> {"idle", "add", "convert"}]
        /\ bRI' \in [Binders -> Addr \cup {NoAddr}]
    BY DEF IInv, TypeOK, Allocate
  <2>3. kind' \in [Ids -> Kinds] /\ nextId' \in 0 .. MaxRequests
    BY <1>i DEF IInv, TypeOK, Allocate
  <2> QED
    BY <2>1 DEF IInv, TypeOK, Allocate
<1>2. TokensFresh'
  <2>a. /\ nextId' = nextId + 1 /\ nextId \in Nat
        /\ token \in [RIs -> Ids \cup {0}]
    BY DEF IInv, TypeOK, Allocate
  <2>1. \A c \in RIs : token'[c] <= nextId'
    <3> SUFFICES ASSUME NEW c \in RIs PROVE token'[c] <= nextId'
      OBVIOUS
    <3>1. token[c] \in Nat /\ token[c] <= nextId
      BY <2>a DEF IInv, TokensFresh
    <3> QED
      BY <1>j, <2>a, <3>1
  <2>2. \A c, d \in Addr : token'[c] = token'[d] /\ c # d => token'[c] = 0
    <3> SUFFICES ASSUME NEW c \in Addr, NEW d \in Addr,
                        token'[c] = token'[d], c # d
                 PROVE  token'[c] = 0
      OBVIOUS
    <3>1. c # a /\ d # a
      BY <1>j DEF IInv, TypeOK, TokensFresh
    <3> QED
      BY <3>1, <1>j DEF IInv, TokensFresh
  <2>3. \A c \in RIs, i \in Ids \cup {0} :
          <<c, i>> \in owed' \cup spent' =>
             i <= nextId' /\ (c \in Addr => token'[c] # 0)
    BY DEF IInv, TypeOK, TokensFresh, Allocate
  <2>4. \A i \in Ids : i > nextId' => answered'[i] = 0 /\ i \notin failed'
    BY DEF IInv, TypeOK, TokensFresh, Allocate
  <2> QED
    BY <2>1, <2>2, <2>3, <2>4 DEF TokensFresh
<1>3. BinderOwns'
  <2> SUFFICES ASSUME NEW c \in Binders PROVE BinderOwnsOne(c)'
    BY DEF BinderOwns
  <2>1. CASE c = b
    <3>1. bRI'[c] = a /\ token'[a] \notin failed /\ answered[token'[a]] = 0
      BY <2>1, <1>i DEF IInv, TypeOK, TokensFresh, Allocate
    <3>2. \A s_1 \in Slots : a \notin s_pendingRequests[s_1]
      BY <1>j DEF IInv, ListSound
    <3>3. \A w \in Vendors : Finishing(w) => vRI[w] # a
      BY <1>j DEF IInv, VendorHolds, VendorHoldsOne, Finishing
    <3>4. \A d \in Binders : bpc[d] = "add" => bRI[d] # a
      BY <1>j DEF IInv, BinderOwns, BinderOwnsOne
    <3> QED
      BY <3>1, <3>2, <3>3, <3>4, <1>i, <1>j DEF Allocate, BinderOwnsOne, Finishing
  <2>2. CASE c # b
    <3>1. bpc'[c] = bpc[c] /\ bRI'[c] = bRI[c] /\ BinderOwnsOne(c)
      BY <2>2 DEF IInv, BinderOwns, Allocate
    <3>2. bpc[c] # "idle" => token'[bRI[c]] # 0
      BY <3>1, <1>i, <1>j DEF BinderOwnsOne
    <3>3. bpc[c] = "add" => bRI[c] # a /\ token'[bRI[c]] = token[bRI[c]]
      BY <3>1, <1>j DEF BinderOwnsOne
    <3> QED
      BY <3>1 DEF IInv, TypeOK, Allocate, BinderOwnsOne, Finishing
  <2> QED
    BY <2>1, <2>2
<1>4. VendorHolds'
  <2> SUFFICES ASSUME NEW w \in Vendors, vpc[w] # "idle"
               PROVE  VendorHoldsOne(w)'
    BY DEF VendorHolds, Allocate
  <2>1. VendorHoldsOne(w)
    BY DEF IInv, VendorHolds
  <2>2. vRI[w] \in RIs
    BY <2>1 DEF VendorHoldsOne, Tokens
  <2>3. CASE vRI[w] = a
    <3>1. token'[a] # vId[w] /\ token'[a] # 0 /\ ~Finishing(w)
      BY <2>1, <2>3, <1>j DEF IInv, TypeOK, VendorHoldsOne
    <3>2. /\ UNCHANGED <<vpc, vRI, vId, vSlot>>
          /\ nextId' = nextId + 1 /\ nextId \in Nat /\ vId[w] \in Nat
      BY DEF IInv, TypeOK, Allocate
    <3> QED
      BY <2>1, <2>3, <3>1, <3>2 DEF VendorHoldsOne, Finishing
  <2>4. CASE vRI[w] # a
    <3>1. token'[vRI[w]] = token[vRI[w]] /\ socket_id'[vRI[w]] = socket_id[vRI[w]]
      BY <2>4 DEF Allocate
    <3>2. /\ UNCHANGED <<vpc, vRI, vId, vSlot>>
          /\ nextId \in Nat /\ nextId' = nextId + 1
          /\ live' = live \cup {a} /\ vId[w] \in Nat
      BY DEF IInv, TypeOK, Allocate
    <3> QED
      BY <2>1, <2>4, <3>1, <3>2 DEF VendorHoldsOne, Finishing
  <2> QED
    BY <2>3, <2>4
<1>5. ListSound'
    BY DEF IInv, ListSound, Finishing, Allocate
<1>6. NotYetAnswered'
    BY <1>i DEF IInv, TypeOK, TokensFresh, NotYetAnswered, Allocate
<1>7. CompletedAtMostOnce'
    BY DEF IInv, CompletedAtMostOnce, Allocate
<1>8. PendingAccounted'
  <2> SUFFICES ASSUME NEW r \in Slots, NEW x \in s_pendingRequests[r]
               PROVE  Accounted(x)'
    BY DEF PendingAccounted, Allocate
  <2>1. x \in Addr /\ x # a /\ token'[x] = token[x]
    BY DEF IInv, TypeOK, ListSound, Allocate
  <2>2. Accounted(x)
    BY DEF IInv, PendingAccounted
  <2> QED
    BY <2>1, <2>2 DEF Accounted, Allocate
<1> QED BY <1>1, <1>2, <1>3, <1>4, <1>5, <1>6, <1>7, <1>8 DEF IInv

(* The insertion at the head of the pending list.                          *)
LEMMA AddToListStep ==
    ASSUME IInv, NEW b \in Binders,
           AddToList(b)
    PROVE  IInv'
<1>1. TypeOK'
    BY DEF IInv, TypeOK, BinderOwns, BinderOwnsOne, AddToList
<1>2. TokensFresh'
    BY DEF IInv, TokensFresh, AddToList
<1>3. BinderOwns'
    BY DEF IInv, TypeOK, BinderOwns, BinderOwnsOne, Finishing, AddToList
<1>4. VendorHolds'
    BY DEF IInv, VendorHolds, VendorHoldsOne, Finishing, AddToList
<1>5. ListSound'
    BY DEF IInv, ListSound, BinderOwns, BinderOwnsOne, Finishing, AddToList
<1>6. NotYetAnswered'
    BY DEF IInv, BinderOwns, BinderOwnsOne, NotYetAnswered, AddToList
<1>7. CompletedAtMostOnce'
    BY DEF IInv, CompletedAtMostOnce, AddToList
<1>8. PendingAccounted'
  <2> SUFFICES ASSUME NEW r \in Slots, NEW x \in s_pendingRequests'[r]
               PROVE  Accounted(x)'
    BY DEF PendingAccounted
  <2>1. CASE x = bRI[b]
    BY <2>1 DEF Accounted, IInv, TypeOK, AddToList
  <2>2. CASE x # bRI[b]
    <3>1. x \in s_pendingRequests[r]
      BY <2>2 DEF AddToList
    <3>2. Accounted(x)
      BY <3>1 DEF IInv, PendingAccounted
    <3> QED
      BY <3>2 DEF Accounted, AddToList
  <2> QED
    BY <2>1, <2>2
<1> QED BY <1>1, <1>2, <1>3, <1>4, <1>5, <1>6, <1>7, <1>8 DEF IInv

(* sendErrorResponse puts the instance among the failed ones.              *)
LEMMA ConvertFailsStep ==
    ASSUME IInv, NEW b \in Binders,
           ConvertFails(b)
    PROVE  IInv'
<1>i. token[bRI[b]] \in 1 .. MaxRequests
    BY BinderToken DEF ConvertFails
<1>j. /\ answered' \in [Ids -> Nat]
      /\ payload' \in [Ids -> Ids \cup {0}]
      /\ \A i \in Ids : i # token[bRI[b]] => answered'[i] = answered[i]
    BY <1>i DEF IInv, TypeOK, ConvertFails, Respond
<1>k. /\ bpc' = [bpc EXCEPT ![b] = "idle"]
      /\ bRI' = [bRI EXCEPT ![b] = NoAddr]
      /\ failed' = failed \cup {token[bRI[b]]}
      /\ UNCHANGED <<token, local, socket_id, wasAckSent, live,
                     s_pendingRequests, vpc, vRI, vId, vSlot, owed, spent, dups,
                     connected, expAck, ackSent, strayAcks, kind, nextId>>
    BY DEF ConvertFails
<1>l. \A x \in Addr : x # bRI[b] /\ token[x] # 0
         => token[x] \in Ids /\ answered'[token[x]] = answered[token[x]]
  <2>1. bRI[b] \in Addr
    BY DEF IInv, BinderOwns, BinderOwnsOne, ConvertFails
  <2> QED
    BY <2>1, <1>j DEF IInv, TypeOK, TokensFresh
<1>1. TypeOK'
  <2>1. /\ bpc' \in [Binders -> {"idle", "add", "convert"}]
        /\ bRI' \in [Binders -> Addr \cup {NoAddr}]
    BY <1>k DEF IInv, TypeOK
  <2>2. failed' \subseteq Ids
    BY <1>i, <1>k DEF IInv, TypeOK
  <2> QED
    BY <2>2, <1>j, <1>k DEF IInv, TypeOK
<1>2. TokensFresh'
  <2>1. \A i \in Ids : i > nextId => answered'[i] = 0 /\ i \notin failed'
    <3> SUFFICES ASSUME NEW i \in Ids, i > nextId
                 PROVE  answered'[i] = 0 /\ i \notin failed'
      OBVIOUS
    <3>1. bRI[b] \in Addr /\ token[bRI[b]] <= nextId /\ nextId \in Nat
      BY DEF IInv, TypeOK, TokensFresh, BinderOwns, BinderOwnsOne, ConvertFails
    <3>2. i # token[bRI[b]]
      BY <3>1
    <3> QED
      BY <3>2, <1>j, <1>k DEF IInv, TokensFresh
  <2> QED
    BY <2>1, <1>k DEF IInv, TokensFresh
<1>3. BinderOwns'
  <2> SUFFICES ASSUME NEW c \in Binders PROVE BinderOwnsOne(c)'
    BY DEF BinderOwns
  <2>1. CASE c = b
    BY <2>1, <1>k DEF IInv, TypeOK, BinderOwnsOne
  <2>2. CASE c # b
    <3>1. BinderOwnsOne(c) /\ bpc'[c] = bpc[c] /\ bRI'[c] = bRI[c]
      BY <2>2, <1>k DEF IInv, BinderOwns
    <3>2. bpc[c] = "add" =>
             (token[bRI[c]] \notin failed' => answered'[token[bRI[c]]] = 0)
      BY <3>1, <1>k, <1>l DEF BinderOwnsOne
    <3>3. \A d \in Binders : bpc'[d] = "add" => bpc[d] = "add" /\ bRI'[d] = bRI[d]
      BY <1>k DEF IInv, TypeOK
    <3> QED
      BY <3>1, <3>2, <3>3, <1>k DEF BinderOwnsOne, Finishing
  <2> QED
    BY <2>1, <2>2
<1>4. VendorHolds'
    BY <1>k DEF IInv, VendorHolds, VendorHoldsOne, Finishing
<1>5. ListSound'
    BY <1>k DEF IInv, ListSound, Finishing
<1>6. NotYetAnswered'
  <2>1. ASSUME NEW x \in Addr, token[x] # 0, token[x] \notin failed'
        PROVE  token[x] \notin failed /\ answered'[token[x]] = answered[token[x]]
    BY <2>1, <1>k, <1>l
  <2>2. ASSUME NEW r \in Slots, NEW x \in s_pendingRequests[r]
        PROVE  token[x] # 0 /\ (token[x] \notin failed' => answered'[token[x]] = 0)
    <3>1. x \in Addr
      BY DEF IInv, TypeOK
    <3> QED
      BY <3>1, <2>1 DEF IInv, NotYetAnswered
  <2>3. ASSUME NEW w \in Vendors, vpc[w] = "respond",
               token[vRI[w]] \notin failed'
        PROVE  answered'[token[vRI[w]]] = 0
    <3>1. vRI[w] \in Addr /\ token[vRI[w]] # 0
      BY <2>3 DEF IInv, VendorHolds, VendorHoldsOne, Finishing
    <3> QED
      BY <2>1, <2>3, <3>1 DEF IInv, NotYetAnswered
  <2> QED
    BY <2>2, <2>3, <1>k DEF NotYetAnswered
<1>7. CompletedAtMostOnce'
    BY <1>j, <1>k DEF IInv, CompletedAtMostOnce
<1>8. PendingAccounted'
    BY <1>k DEF IInv, TypeOK, PendingAccounted, Accounted
<1> QED BY <1>1, <1>2, <1>3, <1>4, <1>5, <1>6, <1>7, <1>8 DEF IInv

(* onRequest hands the token to the vendor.                                *)
LEMMA my_enqueueStep ==
    ASSUME IInv, NEW b \in Binders,
           my_enqueue(b)
    PROVE  IInv'
<1>i. bRI[b] \in Addr /\ token[bRI[b]] \in 1 .. MaxRequests
    BY BinderToken DEF my_enqueue
<1>1. TypeOK'
  <2>1. <<bRI[b], token[bRI[b]]>> \in Tokens
    BY <1>i DEF Tokens
  <2> QED
    BY <2>1 DEF IInv, TypeOK, my_enqueue
<1>2. TokensFresh'
    BY <1>i DEF IInv, TokensFresh, my_enqueue
<1>3. BinderOwns'
    BY DEF IInv, TypeOK, BinderOwns, BinderOwnsOne, Finishing, my_enqueue
<1>4. VendorHolds'
    BY DEF IInv, VendorHolds, VendorHoldsOne, Finishing, my_enqueue
<1>5. ListSound'
    BY DEF IInv, ListSound, Finishing, my_enqueue
<1>6. NotYetAnswered'
    BY DEF IInv, NotYetAnswered, my_enqueue
<1>7. CompletedAtMostOnce'
    BY DEF IInv, CompletedAtMostOnce, my_enqueue
<1>8. PendingAccounted'
    BY DEF IInv, PendingAccounted, Accounted, my_enqueue
<1> QED BY <1>1, <1>2, <1>3, <1>4, <1>5, <1>6, <1>7, <1>8 DEF IInv

(* The vendor starts to acknowledge an owed token.                         *)
LEMMA CallAckStep ==
    ASSUME IInv, NEW v \in Vendors, NEW a \in RIs, NEW i \in Ids \cup {0},
           CallAck(v, a, i)
    PROVE  IInv'
<1>1. TypeOK'
    BY DEF IInv, TypeOK, CallAck, Enter
<1>2. TokensFresh'
    BY DEF IInv, TokensFresh, CallAck
<1>3. BinderOwns'
    BY DEF IInv, BinderOwns, BinderOwnsOne, Finishing, CallAck, Enter
<1>4. VendorHolds'
    BY DEF IInv, TypeOK, TokensFresh, VendorHolds, VendorHoldsOne, Finishing, CallAck, Enter,
       Tokens
<1>5. ListSound'
    BY DEF IInv, ListSound, Finishing, CallAck, Enter
<1>6. NotYetAnswered'
    BY DEF IInv, NotYetAnswered, CallAck, Enter
<1>7. CompletedAtMostOnce'
    BY DEF IInv, CompletedAtMostOnce, CallAck
<1>8. PendingAccounted'
    BY DEF IInv, PendingAccounted, Accounted, CallAck, Enter
<1> QED BY <1>1, <1>2, <1>3, <1>4, <1>5, <1>6, <1>7, <1>8 DEF IInv

(* The vendor starts to complete an owed token.                            *)
LEMMA CallCompleteStep ==
    ASSUME IInv, NEW v \in Vendors, NEW a \in RIs, NEW i \in Ids \cup {0},
           CallComplete(v, a, i)
    PROVE  IInv'
<1>1. TypeOK'
    BY DEF IInv, TypeOK, CallComplete, Enter, Tokens
<1>2. TokensFresh'
    BY DEF IInv, TokensFresh, CallComplete
<1>3. BinderOwns'
    BY DEF IInv, BinderOwns, BinderOwnsOne, Finishing, CallComplete, Enter
<1>4. VendorHolds'
    BY DEF IInv, TypeOK, TokensFresh, VendorHolds, VendorHoldsOne, Finishing, CallComplete,
       Enter, Tokens
<1>5. ListSound'
    BY DEF IInv, ListSound, Finishing, CallComplete, Enter
<1>6. NotYetAnswered'
    BY DEF IInv, NotYetAnswered, CallComplete, Enter
<1>7. CompletedAtMostOnce'
    BY DEF IInv, CompletedAtMostOnce, CallComplete
<1>8. PendingAccounted'
  <2> SUFFICES ASSUME NEW r \in Slots, NEW x \in s_pendingRequests[r]
               PROVE  Accounted(x)'
    BY DEF PendingAccounted, CallComplete
  <2>1. Accounted(x)
    BY DEF IInv, PendingAccounted
  <2>2. CASE <<x, token[x]>> = <<a, i>>
    BY <2>2 DEF Accounted, IInv, TypeOK, CallComplete, Enter
  <2>3. CASE <<x, token[x]>> # <<a, i>>
    BY <2>1, <2>3 DEF Accounted, CallComplete, Enter
  <2> QED
    BY <2>2, <2>3
<1> QED BY <1>1, <1>2, <1>3, <1>4, <1>5, <1>6, <1>7, <1>8 DEF IInv

(* The vendor completes a token it completed before.                       *)
LEMMA CallCompleteAgainStep ==
    ASSUME IInv, NEW v \in Vendors, NEW a \in RIs, NEW i \in Ids \cup {0},
           CallCompleteAgain(v, a, i)
    PROVE  IInv'
<1>1. TypeOK'
    <2>1. dups' \in 0 .. MaxDups
        BY CountsAssumption DEF IInv, TypeOK, CallCompleteAgain
    <2>2. /\ vpc' \in [Vendors -> {"idle"} \cup AckPCs \cup CompletePCs]
          /\ vRI' \in [Vendors -> RIs \cup {NoAddr}] /\ vId' \in [Vendors -> Ids \cup {0}]
        BY DEF IInv, TypeOK, CallCompleteAgain, Enter
    <2> QED
        BY <2>1, <2>2 DEF IInv, TypeOK, CallCompleteAgain, Enter
<1>2. TokensFresh'
    BY DEF IInv, TokensFresh, CallCompleteAgain
<1>3. BinderOwns'
    BY DEF IInv, BinderOwns, BinderOwnsOne, Finishing, CallCompleteAgain, Enter
<1>4. VendorHolds'
    BY DEF IInv, TypeOK, TokensFresh, VendorHolds, VendorHoldsOne, Finishing, CallCompleteAgain,
       Enter, Tokens
<1>5. ListSound'
    BY DEF IInv, ListSound, Finishing, CallCompleteAgain, Enter
<1>6. NotYetAnswered'
    BY DEF IInv, NotYetAnswered, CallCompleteAgain, Enter
<1>7. CompletedAtMostOnce'
    BY DEF IInv, CompletedAtMostOnce, CallCompleteAgain
<1>8. PendingAccounted'
    BY DEF IInv, PendingAccounted, Accounted, CallCompleteAgain, Enter
<1> QED BY <1>1, <1>2, <1>3, <1>4, <1>5, <1>6, <1>7, <1>8 DEF IInv

(* The unlocked read of socket_id.                                         *)
LEMMA ReadSlotStep ==
    ASSUME IInv, NEW v \in Vendors, NEW s \in Slots,
           ReadSlot(v, s)
    PROVE  IInv'
<1>1. TypeOK'
    BY DEF IInv, TypeOK, ReadSlot
<1>2. TokensFresh'
    BY DEF IInv, TokensFresh, ReadSlot
<1>3. BinderOwns'
    BY DEF IInv, BinderOwns, BinderOwnsOne, Finishing, ReadSlot
<1>4. VendorHolds'
    BY DEF IInv, TypeOK, VendorHolds, VendorHoldsOne, Finishing, ReadSlot
<1>5. ListSound'
    BY DEF IInv, ListSound, Finishing, ReadSlot
<1>6. NotYetAnswered'
    BY DEF IInv, NotYetAnswered, ReadSlot
<1>7. CompletedAtMostOnce'
    BY DEF IInv, CompletedAtMostOnce, ReadSlot
<1>8. PendingAccounted'
    BY DEF IInv, PendingAccounted, Accounted, ReadSlot
<1> QED BY <1>1, <1>2, <1>3, <1>4, <1>5, <1>6, <1>7, <1>8 DEF IInv

(* The unlink under the mutex: the entry becomes the thread's own.         *)
LEMMA DequeueStep ==
    ASSUME IInv, NEW v \in Vendors,
           Dequeue(v)
    PROVE  IInv'
<1>1. TypeOK'
    BY DEF IInv, TypeOK, Dequeue, Goto
<1>2. TokensFresh'
    BY DEF IInv, TokensFresh, Dequeue
<1>3. BinderOwns'
    BY DEF IInv, TypeOK, BinderOwns, BinderOwnsOne, Finishing, Dequeue, Listed, Goto
<1>4. VendorHolds'
    BY DEF IInv, TypeOK, VendorHolds, VendorHoldsOne, ListSound, Finishing, Dequeue, Listed,
       Goto
<1>5. ListSound'
    BY DEF IInv, TypeOK, ListSound, Finishing, Dequeue, Listed, Goto
<1>6. NotYetAnswered'
    BY DEF IInv, TypeOK, NotYetAnswered, Dequeue, Listed, Goto
<1>7. CompletedAtMostOnce'
    BY DEF IInv, CompletedAtMostOnce, Dequeue
<1>8. PendingAccounted'
  <2> SUFFICES ASSUME NEW r \in Slots, NEW x \in s_pendingRequests'[r]
               PROVE  Accounted(x)'
    BY DEF PendingAccounted
  <2>1. x \in s_pendingRequests[r] /\ x \in Addr
    BY DEF IInv, TypeOK, Dequeue
  <2>2. x # vRI[v]
    BY DEF IInv, TypeOK, ListSound, Dequeue, Listed
  <2>3. Accounted(x)
    BY <2>1 DEF IInv, PendingAccounted
  <2> QED
    BY <2>2, <2>3 DEF Accounted, Dequeue, Goto
<1> QED BY <1>1, <1>2, <1>3, <1>4, <1>5, <1>6, <1>7, <1>8 DEF IInv

(* The token is not on the list of the slot that was read.                 *)
LEMMA InvalidTokenStep ==
    ASSUME IInv, NEW v \in Vendors,
           InvalidToken(v)
    PROVE  IInv'
<1>1. TypeOK'
    BY SomeSlotIsSlot DEF IInv, TypeOK, InvalidToken, Return
<1>2. TokensFresh'
    BY DEF IInv, TokensFresh, InvalidToken
<1>3. BinderOwns'
    BY DEF IInv, BinderOwns, BinderOwnsOne, Finishing, InvalidToken, Return
<1>4. VendorHolds'
    BY DEF IInv, TypeOK, VendorHolds, VendorHoldsOne, Finishing, InvalidToken, Return
<1>5. ListSound'
    BY DEF IInv, ListSound, Finishing, InvalidToken, Return
<1>6. NotYetAnswered'
    BY DEF IInv, NotYetAnswered, InvalidToken, Return
<1>7. CompletedAtMostOnce'
    BY DEF IInv, CompletedAtMostOnce, InvalidToken
<1>8. PendingAccounted'
  <2> SUFFICES ASSUME NEW r \in Slots, NEW x \in s_pendingRequests[r]
               PROVE  Accounted(x)'
    BY DEF PendingAccounted, InvalidToken
  <2>1. Accounted(x)
    BY DEF IInv, PendingAccounted
  <2>2. x \in live /\ socket_id[x] = r /\ x \in Addr
    BY DEF IInv, TypeOK, ListSound
  <2>3. ~(vRI[v] = x /\ vId[v] = token[x])
    BY <2>2 DEF IInv, VendorHolds, VendorHoldsOne, InvalidToken, Listed
  <2> QED
    BY <2>1, <2>3 DEF Accounted, InvalidToken, Return
<1> QED BY <1>1, <1>2, <1>3, <1>4, <1>5, <1>6, <1>7, <1>8 DEF IInv

(* The response, which nobody else can send.                               *)
LEMMA AnswerStep ==
    ASSUME IInv, NEW v \in Vendors,
           Answer(v)
    PROVE  IInv'
<1>i. vRI[v] \in Addr /\ token[vRI[v]] \in 1 .. MaxRequests
    BY VendorToken DEF Answer
<1>j. /\ answered' \in [Ids -> Nat]
      /\ payload' \in [Ids -> Ids \cup {0}]
      /\ \A i \in Ids : i # token[vRI[v]] => answered'[i] = answered[i]
      /\ answered'[token[vRI[v]]] <= answered[token[vRI[v]]] + 1
  <2>1. CASE UNCHANGED answerVars
    BY <2>1, <1>i DEF IInv, TypeOK
  <2>2. CASE Respond(socket_id[vRI[v]], token[vRI[v]], vId[v])
    BY <2>2, <1>i DEF IInv, TypeOK, Respond
  <2> QED
    BY <2>1, <2>2 DEF Answer
<1>k. /\ vpc[v] = "respond"
      /\ vpc' = [vpc EXCEPT ![v] = "free"]
      /\ expAck' \in {expAck, expAck \cup {token[vRI[v]]}}
      /\ UNCHANGED <<token, local, socket_id, wasAckSent, live,
                     s_pendingRequests, bpc, bRI, vRI, vId, vSlot, owed, spent,
                     dups, connected, ackSent, strayAcks, failed, kind, nextId>>
    BY DEF Answer, Goto
<1>l. \A x \in Addr : x # vRI[v] /\ token[x] # 0
         => token[x] \in Ids /\ answered'[token[x]] = answered[token[x]]
    BY <1>i, <1>j DEF IInv, TypeOK, TokensFresh
<1>1. TypeOK'
  <2>1. vpc' \in [Vendors -> {"idle"} \cup AckPCs \cup CompletePCs]
    BY <1>k DEF IInv, TypeOK
  <2>2. expAck' \subseteq Ids
    BY <1>i, <1>k DEF IInv, TypeOK
  <2> QED
    BY <2>2, <1>j, <1>k DEF IInv, TypeOK
<1>2. TokensFresh'
  <2>1. \A i \in Ids : i > nextId => answered'[i] = 0 /\ i \notin failed'
    <3> SUFFICES ASSUME NEW i \in Ids, i > nextId
                 PROVE  answered'[i] = 0 /\ i \notin failed'
      OBVIOUS
    <3>1. token[vRI[v]] <= nextId /\ nextId \in Nat
      BY <1>i DEF IInv, TypeOK, TokensFresh
    <3>2. i # token[vRI[v]]
      BY <3>1
    <3> QED
      BY <3>2, <1>j, <1>k DEF IInv, TokensFresh
  <2> QED
    BY <2>1, <1>k DEF IInv, TokensFresh
<1>3. BinderOwns'
  <2> SUFFICES ASSUME NEW c \in Binders PROVE BinderOwnsOne(c)'
    BY DEF BinderOwns
  <2>1. BinderOwnsOne(c)
    BY DEF IInv, BinderOwns
  <2>2. \A w \in Vendors : Finishing(w)' => Finishing(w)
    BY <1>k DEF Finishing
  <2>3. bpc[c] = "add" => bRI[c] # vRI[v] /\ bRI[c] \in Addr /\ token[bRI[c]] # 0
    BY <2>1, <1>k DEF BinderOwnsOne, Finishing
  <2> QED
    BY <2>1, <2>2, <2>3, <1>k, <1>l DEF BinderOwnsOne
<1>4. VendorHolds'
    BY <1>k DEF IInv, TypeOK, VendorHolds, VendorHoldsOne, Finishing
<1>5. ListSound'
    BY <1>k DEF IInv, ListSound, Finishing
<1>6. NotYetAnswered'
  <2>1. ASSUME NEW r \in Slots, NEW x \in s_pendingRequests[r]
        PROVE  token[x] # 0 /\ (token[x] \notin failed => answered'[token[x]] = 0)
    <3>1. x \in Addr /\ x # vRI[v]
      BY <1>k DEF IInv, TypeOK, ListSound, Finishing
    <3> QED
      BY <3>1, <1>l DEF IInv, NotYetAnswered
  <2>2. ASSUME NEW w \in Vendors, vpc'[w] = "respond",
               token[vRI[w]] \notin failed
        PROVE  answered'[token[vRI[w]]] = 0
    <3>1. w # v /\ vpc[w] = "respond"
      BY <2>2, <1>k DEF IInv, TypeOK
    <3>2. vRI[w] \in Addr /\ token[vRI[w]] # 0 /\ vRI[w] # vRI[v]
      BY <3>1, <1>k DEF IInv, VendorHolds, VendorHoldsOne, ListSound, Finishing
    <3> QED
      BY <2>2, <3>1, <3>2, <1>l DEF IInv, NotYetAnswered
  <2> QED
    BY <2>1, <2>2, <1>k DEF NotYetAnswered
<1>7. CompletedAtMostOnce'
  <2> SUFFICES ASSUME NEW i \in Ids, i \notin failed PROVE answered'[i] <= 1
    BY <1>k DEF CompletedAtMostOnce
  <2>1. CASE i = token[vRI[v]]
    <3>1. answered[i] = 0
      BY <2>1, <1>k DEF IInv, NotYetAnswered
    <3> QED
      BY <3>1, <1>j
  <2>2. CASE i # token[vRI[v]]
    BY <2>2, <1>j DEF IInv, CompletedAtMostOnce
  <2> QED
    BY <2>1, <2>2
<1>8. PendingAccounted'
    BY <1>k DEF IInv, TypeOK, PendingAccounted, Accounted
<1> QED BY <1>1, <1>2, <1>3, <1>4, <1>5, <1>6, <1>7, <1>8 DEF IInv

(* The end of a local request.                                             *)
LEMMA FinishLocalStep ==
    ASSUME IInv, NEW v \in Vendors,
           FinishLocal(v)
    PROVE  IInv'
<1>1. TypeOK'
    BY DEF IInv, TypeOK, FinishLocal, Goto
<1>2. TokensFresh'
    BY DEF IInv, TokensFresh, FinishLocal
<1>3. BinderOwns'
    BY DEF IInv, BinderOwns, BinderOwnsOne, Finishing, FinishLocal, Goto
<1>4. VendorHolds'
    BY DEF IInv, VendorHolds, VendorHoldsOne, Finishing, FinishLocal, Goto
<1>5. ListSound'
    BY DEF IInv, ListSound, Finishing, FinishLocal, Goto
<1>6. NotYetAnswered'
    BY DEF IInv, NotYetAnswered, FinishLocal, Goto
<1>7. CompletedAtMostOnce'
    BY DEF IInv, CompletedAtMostOnce, FinishLocal
<1>8. PendingAccounted'
    BY DEF IInv, PendingAccounted, Accounted, FinishLocal, Goto
<1> QED BY <1>1, <1>2, <1>3, <1>4, <1>5, <1>6, <1>7, <1>8 DEF IInv

(* free(pRI) of an entry that is on no list.                               *)
LEMMA FreeRequestStep ==
    ASSUME IInv, NEW v \in Vendors,
           FreeRequest(v)
    PROVE  IInv'
<1>1. TypeOK'
    BY SomeSlotIsSlot DEF IInv, TypeOK, FreeRequest, Return
<1>2. TokensFresh'
    BY DEF IInv, TokensFresh, FreeRequest
<1>3. BinderOwns'
    BY AddrAssumption DEF IInv, BinderOwns, BinderOwnsOne, Finishing, FreeRequest, Return
<1>4. VendorHolds'
    BY DEF IInv, TypeOK, VendorHolds, VendorHoldsOne, ListSound, Finishing, FreeRequest, Return
<1>5. ListSound'
    BY DEF IInv, TypeOK, ListSound, Finishing, FreeRequest, Return
<1>6. NotYetAnswered'
    BY DEF IInv, NotYetAnswered, FreeRequest, Return
<1>7. CompletedAtMostOnce'
    BY DEF IInv, CompletedAtMostOnce, FreeRequest
<1>8. PendingAccounted'
    BY DEF IInv, PendingAccounted, Accounted, FreeRequest, Return
<1> QED BY <1>1, <1>2, <1>3, <1>4, <1>5, <1>6, <1>7, <1>8 DEF IInv

(* The ack is remembered in a listed entry.                                *)
LEMMA MarkAckStep ==
    ASSUME IInv, NEW v \in Vendors,
           MarkAck(v)
    PROVE  IInv'
<1>i. vRI[v] \in Addr /\ token[vRI[v]] \in 1 .. MaxRequests
    BY VendorToken DEF MarkAck
<1>1. TypeOK'
    BY DEF IInv, TypeOK, MarkAck, Goto
<1>2. TokensFresh'
    BY DEF IInv, TokensFresh, MarkAck
<1>3. BinderOwns'
    BY DEF IInv, BinderOwns, BinderOwnsOne, Finishing, MarkAck, Goto
<1>4. VendorHolds'
    BY DEF IInv, VendorHolds, VendorHoldsOne, Finishing, MarkAck, Goto
<1>5. ListSound'
    BY DEF IInv, ListSound, Finishing, MarkAck, Goto
<1>6. NotYetAnswered'
    BY DEF IInv, NotYetAnswered, MarkAck, Goto
<1>7. CompletedAtMostOnce'
    BY DEF IInv, CompletedAtMostOnce, MarkAck
<1>8. PendingAccounted'
    BY DEF IInv, PendingAccounted, Accounted, MarkAck, Goto
<1> QED BY <1>1, <1>2, <1>3, <1>4, <1>5, <1>6, <1>7, <1>8 DEF IInv

(* The ack of a token that is not listed.                                  *)
LEMMA InvalidAckStep ==
    ASSUME IInv, NEW v \in Vendors,
           InvalidAck(v)
    PROVE  IInv'
<1>1. TypeOK'
    BY SomeSlotIsSlot DEF IInv, TypeOK, InvalidAck, Return
<1>2. TokensFresh'
    BY DEF IInv, TokensFresh, InvalidAck
<1>3. BinderOwns'
    BY DEF IInv, BinderOwns, BinderOwnsOne, Finishing, InvalidAck, Return
<1>4. VendorHolds'
    BY DEF IInv, TypeOK, VendorHolds, VendorHoldsOne, Finishing, InvalidAck, Return
<1>5. ListSound'
    BY DEF IInv, ListSound, Finishing, InvalidAck, Return
<1>6. NotYetAnswered'
    BY DEF IInv, NotYetAnswered, InvalidAck, Return
<1>7. CompletedAtMostOnce'
    BY DEF IInv, CompletedAtMostOnce, InvalidAck
<1>8. PendingAccounted'
    BY DEF IInv, PendingAccounted, Accounted, InvalidAck, Return
<1> QED BY <1>1, <1>2, <1>3, <1>4, <1>5, <1>6, <1>7, <1>8 DEF IInv

(* The ack is sent.                                                        *)
LEMMA SendAckStep ==
    ASSUME IInv, NEW v \in Vendors,
           SendAck(v)
    PROVE  IInv'
<1>i. vId[v] \in Ids
  <2>1. <<vRI[v], vId[v]>> \in Tokens /\ vRI[v] \in Addr
    BY DEF IInv, VendorHolds, VendorHoldsOne, SendAck
  <2> QED
    BY <2>1, AddrAssumption DEF Tokens
<1>1. TypeOK'
    BY <1>i, SomeSlotIsSlot DEF IInv, TypeOK, SendAck, Return
<1>2. TokensFresh'
    BY DEF IInv, TokensFresh, SendAck
<1>3. BinderOwns'
    BY DEF IInv, BinderOwns, BinderOwnsOne, Finishing, SendAck, Return
<1>4. VendorHolds'
    BY DEF IInv, TypeOK, VendorHolds, VendorHoldsOne, Finishing, SendAck, Return
<1>5. ListSound'
    BY DEF IInv, ListSound, Finishing, SendAck, Return
<1>6. NotYetAnswered'
    BY DEF IInv, NotYetAnswered, SendAck, Return
<1>7. CompletedAtMostOnce'
    BY DEF IInv, CompletedAtMostOnce, SendAck
<1>8. PendingAccounted'
    BY DEF IInv, PendingAccounted, Accounted, SendAck, Return
<1> QED BY <1>1, <1>2, <1>3, <1>4, <1>5, <1>6, <1>7, <1>8 DEF IInv

(* The client comes or goes.                                               *)
LEMMA SetConnectedStep ==
    ASSUME IInv, NEW s \in Slots,
           SetConnected(s)
    PROVE  IInv'
<1>1. TypeOK'
    BY DEF IInv, TypeOK, SetConnected
<1>2. TokensFresh'
    BY DEF IInv, TokensFresh, SetConnected
<1>3. BinderOwns'
    BY DEF IInv, BinderOwns, BinderOwnsOne, Finishing, SetConnected
<1>4. VendorHolds'
    BY DEF IInv, VendorHolds, VendorHoldsOne, Finishing, SetConnected
<1>5. ListSound'
    BY DEF IInv, ListSound, Finishing, SetConnected
<1>6. NotYetAnswered'
    BY DEF IInv, NotYetAnswered, SetConnected
<1>7. CompletedAtMostOnce'
    BY DEF IInv, CompletedAtMostOnce, SetConnected
<1>8. PendingAccounted'
    BY DEF IInv, PendingAccounted, Accounted, SetConnected
<1> QED BY <1>1, <1>2, <1>3, <1>4, <1>5, <1>6, <1>7, <1>8 DEF IInv

(* The invariant holds of the empty list, with the leaked MAL tokens owed. *)
LEMMA InitInv == Init => IInv
<1> SUFFICES ASSUME Init PROVE IInv
    OBVIOUS
<1>1. TypeOK
  <2>1. \A k \in {CHOOSE k \in Kinds : TRUE} : k \in Kinds
    BY KindsAssumption
  <2>2. kind \in [Ids -> Kinds]
    BY <2>1 DEF Init
  <2>3. owed \subseteq Tokens
    BY DEF Init, Tokens
  <2>4. /\ token \in [RIs -> Ids \cup {0}]
        /\ local \in [RIs -> BOOLEAN]
        /\ socket_id \in [RIs -> Slots]
        /\ wasAckSent \in [RIs -> BOOLEAN]
        /\ live \subseteq RIs
        /\ s_pendingRequests \in [Slots -> SUBSET Addr]
    BY SomeSlotIsSlot DEF Init
  <2>5. /\ bpc \in [Binders -> {"idle", "add", "convert"}]
        /\ bRI \in [Binders -> Addr \cup {NoAddr}]
        /\ vpc \in [Vendors -> {"idle"} \cup AckPCs \cup CompletePCs]
        /\ vRI \in [Vendors -> RIs \cup {NoAddr}]
        /\ vId \in [Vendors -> Ids \cup {0}]
        /\ vSlot \in [Vendors -> Slots]
    BY SomeSlotIsSlot DEF Init
  <2>6. /\ spent \subseteq Tokens /\ dups \in 0 .. MaxDups
        /\ connected \subseteq Slots
        /\ answered \in [Ids -> Nat] /\ payload \in [Ids -> Ids \cup {0}]
        /\ expAck \subseteq Ids /\ ackSent \subseteq Ids /\ strayAcks \subseteq Ids
        /\ failed \subseteq Ids
        /\ nextId \in 0 .. MaxRequests
    BY CountsAssumption DEF Init
  <2> QED
    BY <2>2, <2>3, <2>4, <2>5, <2>6 DEF TypeOK
<1>2. TokensFresh
    BY AddrAssumption DEF Init, TokensFresh
<1>3. BinderOwns /\ VendorHolds
    BY DEF Init, BinderOwns, BinderOwnsOne, VendorHolds
<1>4. ListSound /\ NotYetAnswered /\ PendingAccounted
    BY DEF Init, ListSound, NotYetAnswered, PendingAccounted, Finishing
<1>5. CompletedAtMostOnce
    BY DEF Init, CompletedAtMostOnce
<1> QED
    BY <1>1, <1>2, <1>3, <1>4, <1>5 DEF IInv

(* Nothing in the invariant looks beyond vars.                             *)
LEMMA StutterStep == IInv /\ UNCHANGED vars => IInv'
<1> SUFFICES ASSUME IInv, UNCHANGED vars PROVE IInv'
    OBVIOUS
<1>1. TypeOK' /\ TokensFresh'
    BY DEF IInv, vars, TypeOK, TokensFresh
<1>2. BinderOwns' /\ VendorHolds'
    BY DEF IInv, vars, BinderOwns, BinderOwnsOne, VendorHolds, VendorHoldsOne, Finishing
<1>3. ListSound' /\ NotYetAnswered' /\ CompletedAtMostOnce'
    BY DEF IInv, vars, ListSound, NotYetAnswered, CompletedAtMostOnce, Finishing
<1>4. PendingAccounted'
    BY DEF IInv, vars, PendingAccounted, Accounted
<1> QED
    BY <1>1, <1>2, <1>3, <1>4 DEF IInv

(* Every step of every thread preserves the invariant.                     *)
LEMMA NextStep == IInv /\ [Next]_vars => IInv'
<1> SUFFICES ASSUME IInv, [Next]_vars PROVE IInv'
    OBVIOUS
<1>1. CASE \E b \in Binders : BinderStep(b)
    BY <1>1, AllocateStep, AddToListStep, ConvertFailsStep, my_enqueueStep DEF BinderStep
<1>2. CASE \E v \in Vendors : CallbackStep(v)
    BY <1>2, ReadSlotStep, DequeueStep, InvalidTokenStep, AnswerStep, FinishLocalStep,
       FreeRequestStep, MarkAckStep, InvalidAckStep, SendAckStep DEF CallbackStep
<1>3. CASE \E v \in Vendors : VendorCall(v)
    BY <1>3, CallAckStep, CallCompleteStep, CallCompleteAgainStep DEF VendorCall
<1>4. CASE \E s \in Slots : SetConnected(s)
    BY <1>4, SetConnectedStep
<1>5. CASE UNCHANGED vars
    BY <1>5, StutterStep
<1> QED
    BY <1>1, <1>2, <1>3, <1>4, <1>5 DEF Next

(* The inductive invariant holds in every reachable state.                 *)
THEOREM InductiveInvariant == Spec => []IInv
<1>1. Init => IInv
    BY InitInv
<1>2. IInv /\ [Next]_vars => IInv'
    BY NextStep
<1> QED
    BY <1>1, <1>2, PTL DEF Spec

(* Every variable of the request path keeps its type.                      *)
THEOREM TypeCorrect == Spec => []TypeOK
<1>1. IInv => TypeOK
    BY DEF IInv
<1> QED
    BY <1>1, InductiveInvariant, PTL

(* The pending lists link live RequestInfos of their own slot, and nobody  *)
(* but the completing thread can reach one that is being answered, even if *)
(* the vendor RIL completes its tokens again and again.                    *)
THEOREM ListsAreSound == Spec => []ListSound
<1>1. IInv => ListSound
    BY DEF IInv
<1> QED
    BY <1>1, InductiveInvariant, PTL

(* No request that reached the vendor RIL is answered twice, whatever the  *)
(* vendor completes twice and however addresses are recycled.              *)
THEOREM AtMostOneAnswer == Spec => []CompletedAtMostOnce
<1>1. IInv => CompletedAtMostOnce
    BY DEF IInv
<1> QED
    BY <1>1, InductiveInvariant, PTL

(* A listed request always has somebody who will complete it, unless       *)
(* sendErrorResponse answered it.                                          *)
THEOREM PendingHasOwner == Spec => []PendingAccounted
<1>1. IInv => PendingAccounted
    BY DEF IInv
<1> QED
    BY <1>1, InductiveInvariant, PTL

-----------------------------------------------------------------------------
(* A vendor RIL that completes every token once.                           *)

Working(b) == bpc[b] # "idle"
Completing(v) == vpc[v] \in CompletePCs

(* Nobody of the threads inside libril has the request at address a.       *)
BinderFree(a) == \A b \in Binders : Working(b) => bRI[b] # a
CompleterFree(a) == \A v \in Vendors : Completing(v) => vRI[v] # a

(* The tokens of the MAL requests keep instance 0.                         *)
StaleTokens == \A a \in Stale : a \in live /\ token[a] = 0

(* A request has one holder at a time: the binder thread that dispatches   *)
(* it, ...                                                                 *)
BinderAlone ==
    \A b \in Binders : Working(b) =>
        /\ bRI[b] \in live
        /\ token[bRI[b]] \notin failed \cup ackSent
        /\ \A a \in RIs : <<a, token[bRI[b]]>> \notin spent
        /\ \A c \in Binders : Working(c) /\ c # b => bRI[c] # bRI[b]
        /\ CompleterFree(bRI[b])

(* ... the vendor RIL, ...                                                 *)
OwedAlone ==
    \A a \in RIs, i \in Ids \cup {0} : <<a, i>> \in owed =>
        /\ a \in live /\ token[a] = i
        /\ i \notin failed
        /\ BinderFree(a)
        /\ CompleterFree(a)

(* ... or the thread that completes it.                                    *)
CompleterAlone ==
    \A v \in Vendors : Completing(v) =>
        /\ vRI[v] \in live /\ token[vRI[v]] = vId[v]
        /\ vId[v] \notin failed
        /\ \A w \in Vendors : Completing(w) /\ w # v => vRI[w] # vRI[v]

(* A request is acknowledged while the vendor RIL has it or after it was   *)
(* completed; the mark is in the RequestInfo as long as that is its own.   *)
AckKnown ==
    \A v \in Vendors : vpc[v] \in AckPCs =>
        /\ <<vRI[v], vId[v]>> \in owed \cup spent
        /\ vpc[v] = "ackSend" /\ OwnRI(v) => wasAckSent[vRI[v]]

(* The vendor RIL completes only what it was given.                        *)
SpentNotFailed ==
    \A a \in RIs, i \in Ids \cup {0} : <<a, i>> \in spent => i \notin failed

(* A marked request that was answered was answered with ACK_EXP.           *)
MarkExpected ==
    \A a \in live \cap Addr :
        wasAckSent[a] /\ Version >= 13 /\ token[a] # 0 /\ token[a] \notin failed
          /\ answered[token[a]] # 0 => token[a] \in expAck

(* A request is unanswered until it is about to be freed or has failed.    *)
Unanswered ==
    \A a \in live \cap Addr :
        token[a] # 0 /\ token[a] \notin failed /\ answered[token[a]] # 0
            => \E v \in Vendors : vpc[v] = "free" /\ vRI[v] = a

(* An ack that was sent is remembered in the RequestInfo.                  *)
AckRemembered ==
    /\ \A i \in ackSent : i <= nextId /\ i \notin failed
    /\ \A a \in live \cap Addr : token[a] \in ackSent => wasAckSent[a]

OnceInv ==
    /\ StaleTokens
    /\ BinderAlone
    /\ OwedAlone
    /\ CompleterAlone
    /\ AckKnown
    /\ SpentNotFailed
    /\ MarkExpected
    /\ Unanswered
    /\ AckRemembered
    /\ OwnResult
    /\ AckedMeansExpected

(* No other RequestInfo carries the instance of a request.                 *)
LEMMA OtherToken ==
    ASSUME IInv, StaleTokens, NEW a \in Addr, token[a] # 0, NEW c \in RIs, c # a
    PROVE  token[c] # token[a]
BY DEF IInv, TokensFresh, StaleTokens

(* What a completing thread holds is a RequestInfo.                        *)
LEMMA VendorAddress ==
    ASSUME IInv, NEW v \in Vendors, Completing(v)
    PROVE  vRI[v] \in RIs
BY DEF IInv, VendorHolds, VendorHoldsOne, Completing, Tokens

(* The new instance has had no ack and no failure.                         *)
LEMMA AllocateOnceStep ==
    ASSUME IInv, dups = 0, OnceInv, NEW b \in Binders, NEW s \in Slots, NEW k \in Kinds,
           NEW a \in Addr, Allocate(b, s, k, a)
    PROVE  OnceInv'
<1> USE CountsAssumption, AddrAssumption DEF IInv, OnceInv, TypeOK, Allocate
<1>1. StaleTokens'
    BY DEF StaleTokens
<1>2. BinderAlone'
    <2>1. nextId + 1 \in Ids /\ nextId + 1 \notin failed \cup ackSent
        BY DEF TokensFresh, AckRemembered
    <2>5. \A x \in RIs : <<x, nextId + 1>> \notin spent
        BY <2>1 DEF TokensFresh
    <2>2. \A c \in Binders : Working(c) => bRI[c] # a /\ token'[bRI[c]] = token[bRI[c]]
        BY DEF BinderAlone
    <2>3. CompleterFree(a)
        BY DEF CompleterAlone, CompleterFree
    <2>4. ASSUME NEW c \in Binders, Working(c)'
          PROVE  /\ bRI'[c] \in live'
                 /\ token'[bRI'[c]] \notin failed' \cup ackSent'
                 /\ \A x \in RIs : <<x, token'[bRI'[c]]>> \notin spent'
                 /\ \A d \in Binders : Working(d)' /\ d # c => bRI'[d] # bRI'[c]
                 /\ CompleterFree(bRI[c])'
        <3>1. CASE c = b
            BY <2>1, <2>2, <2>3, <2>4, <2>5, <3>1 DEF Working, CompleterFree, Completing
        <3>2. CASE c # b
            BY <2>4, <3>2 DEF BinderAlone, Working, CompleterFree, Completing
        <3> QED
            BY <3>1, <3>2
    <2> QED
        BY <2>4 DEF BinderAlone
<1>3. OwedAlone'
    BY DEF OwedAlone, Working, Completing, BinderFree, CompleterFree
<1>4. CompleterAlone'
    BY DEF CompleterAlone, Completing
<1>5. AckKnown'
    <2> SUFFICES ASSUME NEW w \in Vendors, vpc[w] \in AckPCs
                 PROVE  /\ <<vRI[w], vId[w]>> \in owed \cup spent
                        /\ vpc[w] = "ackSend" /\ OwnRI(w)' => wasAckSent'[vRI[w]]
        BY DEF AckKnown
    <2>1. vId[w] <= nextId /\ vRI[w] \in Addr /\ vId[w] \in Nat /\ nextId \in Nat
        <3>1. VendorHoldsOne(w)
            BY DEF VendorHolds
        <3>2. vId[w] \in Ids \cup {0} /\ nextId \in 0 .. MaxRequests
            OBVIOUS
        <3> QED
            BY ONLY <3>1, <3>2, vpc[w] \in AckPCs DEF VendorHoldsOne, AckPCs, Ids
    <2>2. OwnRI(w)' => vRI[w] # a /\ OwnRI(w)
        BY <2>1 DEF OwnRI
    <2> QED
        BY <2>1, <2>2 DEF AckKnown
<1>6. Unanswered'
    BY DEF Unanswered, TokensFresh
<1>7. AckRemembered'
    BY DEF AckRemembered
<1>8. OwnResult'
    BY DEF OwnResult
<1>10. SpentNotFailed'
    BY DEF SpentNotFailed
<1>11. MarkExpected'
    <2> SUFFICES ASSUME NEW x \in live' \cap Addr, wasAckSent'[x], Version >= 13,
                        token'[x] # 0, token'[x] \notin failed, answered[token'[x]] # 0
                 PROVE  token'[x] \in expAck
        BY DEF MarkExpected
    <2>1. x # a
        OBVIOUS
    <2>2. x \in live \cap Addr /\ token'[x] = token[x] /\ wasAckSent[x]
        BY <2>1
    <2> QED
        BY <2>2 DEF MarkExpected
<1>9. AckedMeansExpected'
    BY DEF AckedMeansExpected
<1> QED
    BY <1>1, <1>2, <1>3, <1>4, <1>5, <1>6, <1>7, <1>8, <1>9, <1>10, <1>11

(* The list is not looked at.                                              *)
LEMMA AddToListOnceStep ==
    ASSUME IInv, dups = 0, OnceInv, NEW b \in Binders, AddToList(b)
    PROVE  OnceInv'
<1> USE CountsAssumption, AddrAssumption DEF IInv, OnceInv, TypeOK, AddToList
<1>1. StaleTokens'
    BY DEF StaleTokens
<1>2. BinderAlone'
    BY DEF BinderAlone, Working, Completing, CompleterFree
<1>3. OwedAlone'
    BY DEF OwedAlone, Working, Completing, BinderFree, CompleterFree
<1>4. CompleterAlone'
    BY DEF CompleterAlone, Completing
<1>5. AckKnown'
    BY DEF AckKnown, OwnRI
<1>6. Unanswered'
    BY DEF Unanswered
<1>7. AckRemembered'
    BY DEF AckRemembered
<1>8. OwnResult'
    BY DEF OwnResult
<1>10. SpentNotFailed'
    BY DEF SpentNotFailed
<1>11. MarkExpected'
    BY DEF MarkExpected
<1>9. AckedMeansExpected'
    BY DEF AckedMeansExpected
<1> QED
    BY <1>1, <1>2, <1>3, <1>4, <1>5, <1>6, <1>7, <1>8, <1>9, <1>10, <1>11

(* The request that fails is answered for the first time and has no other  *)
(* holder.                                                                 *)
LEMMA ConvertFailsOnceStep ==
    ASSUME IInv, dups = 0, OnceInv, NEW b \in Binders, ConvertFails(b)
    PROVE  OnceInv'
<1> USE CountsAssumption, AddrAssumption DEF IInv, OnceInv, TypeOK, ConvertFails, Respond
<1>a. bRI[b] \in Addr /\ token[bRI[b]] \in Ids /\ token[bRI[b]] # 0
    <2>1. bpc[b] # "idle"
        OBVIOUS
    <2>2. bRI[b] \in Addr /\ token[bRI[b]] \in 1 .. MaxRequests
        BY <2>1, BinderToken
    <2> QED
        BY <2>2
<1>b. \A x \in RIs : x # bRI[b] => token[x] # token[bRI[b]]
    BY <1>a, OtherToken
<1>1. StaleTokens'
    BY DEF StaleTokens
<1>2. BinderAlone'
    <2>1. ASSUME NEW c \in Binders, Working(c)'
          PROVE  /\ bRI'[c] \in live'
                 /\ token'[bRI'[c]] \notin failed' \cup ackSent'
                 /\ \A x \in RIs : <<x, token'[bRI'[c]]>> \notin spent'
                 /\ \A d \in Binders : Working(d)' /\ d # c => bRI'[d] # bRI'[c]
                 /\ CompleterFree(bRI[c])'
        <3>1. c # b /\ Working(c) /\ bRI'[c] = bRI[c]
            BY <2>1 DEF Working
        <3>2. bRI[c] \in Addr /\ bRI[c] # bRI[b]
            BY <3>1 DEF Working, BinderAlone, BinderOwns, BinderOwnsOne
        <3>3. token[bRI[c]] # token[bRI[b]]
            BY <1>b, <3>2
        <3> QED
            BY <3>1, <3>3 DEF BinderAlone, Working, CompleterFree, Completing
    <2> QED
        BY <2>1 DEF BinderAlone
<1>3. OwedAlone'
    <2>1. \A x \in RIs, i \in Ids \cup {0} : <<x, i>> \in owed => i # token[bRI[b]]
        BY <1>b DEF OwedAlone, BinderFree, Working
    <2> QED
        BY <2>1 DEF OwedAlone, Working, Completing, BinderFree, CompleterFree
<1>4. CompleterAlone'
    <2>1. \A v \in Vendors : Completing(v) =>
              vRI[v] \in RIs /\ vRI[v] # bRI[b] /\ token[vRI[v]] = vId[v]
        BY DEF BinderAlone, CompleterAlone, CompleterFree, Working
    <2>2. \A v \in Vendors : Completing(v) => vId[v] # token[bRI[b]]
        BY <1>b, <2>1
    <2> QED
        BY <2>2 DEF CompleterAlone, Completing
<1>5. AckKnown'
    BY DEF AckKnown, OwnRI
<1>6. Unanswered'
    BY DEF Unanswered
<1>7. AckRemembered'
    BY DEF AckRemembered, BinderAlone, Working
<1>8. OwnResult'
    BY DEF OwnResult, BinderAlone, Unanswered, Working, Completing, CompleterFree
<1>10. SpentNotFailed'
    <2>1. \A x \in RIs : <<x, token[bRI[b]]>> \notin spent
        BY DEF BinderAlone, Working
    <2> QED
        BY <2>1 DEF SpentNotFailed
<1>11. MarkExpected'
    BY DEF MarkExpected
<1>9. AckedMeansExpected'
    BY DEF AckedMeansExpected, BinderAlone, Working
<1> QED
    BY <1>1, <1>2, <1>3, <1>4, <1>5, <1>6, <1>7, <1>8, <1>9, <1>10, <1>11

(* The request changes hands from the binder thread to the vendor RIL.     *)
LEMMA my_enqueueOnceStep ==
    ASSUME IInv, dups = 0, OnceInv, NEW b \in Binders, my_enqueue(b)
    PROVE  OnceInv'
<1> USE CountsAssumption, AddrAssumption DEF IInv, OnceInv, TypeOK, my_enqueue
<1>1. StaleTokens'
    BY DEF StaleTokens
<1>2. BinderAlone'
    BY DEF BinderAlone, Working, Completing, CompleterFree
<1>3. OwedAlone'
    BY DEF OwedAlone, BinderAlone, Working, Completing, BinderFree, CompleterFree
<1>4. CompleterAlone'
    BY DEF CompleterAlone, Completing
<1>5. AckKnown'
    BY DEF AckKnown, OwnRI
<1>6. Unanswered'
    BY DEF Unanswered
<1>7. AckRemembered'
    BY DEF AckRemembered
<1>8. OwnResult'
    BY DEF OwnResult
<1>10. SpentNotFailed'
    BY DEF SpentNotFailed
<1>11. MarkExpected'
    BY DEF MarkExpected
<1>9. AckedMeansExpected'
    BY DEF AckedMeansExpected
<1> QED
    BY <1>1, <1>2, <1>3, <1>4, <1>5, <1>6, <1>7, <1>8, <1>9, <1>10, <1>11

(* The vendor RIL acknowledges what it has.                                *)
LEMMA CallAckOnceStep ==
    ASSUME IInv, dups = 0, OnceInv, NEW v \in Vendors, NEW a \in RIs, NEW i \in Ids \cup {0},
           CallAck(v, a, i)
    PROVE  OnceInv'
<1> USE CountsAssumption, AddrAssumption DEF IInv, OnceInv, TypeOK, CallAck, Enter
<1>1. StaleTokens'
    BY DEF StaleTokens
<1>2. BinderAlone'
    BY DEF BinderAlone, Working, Completing, CompleterFree
<1>3. OwedAlone'
    BY DEF OwedAlone, Working, Completing, BinderFree, CompleterFree
<1>4. CompleterAlone'
    BY DEF CompleterAlone, Completing
<1>5. AckKnown'
    <2> SUFFICES ASSUME NEW w \in Vendors, vpc'[w] \in AckPCs
                 PROVE  /\ <<vRI'[w], vId'[w]>> \in owed \cup spent
                        /\ vpc'[w] = "ackSend" /\ OwnRI(w)' => wasAckSent[vRI'[w]]
        BY DEF AckKnown
    <2>1. CASE w = v
        BY <2>1
    <2>2. CASE w # v
        BY <2>2 DEF AckKnown, OwnRI
    <2> QED
        BY <2>2
<1>6. Unanswered'
    BY DEF Unanswered
<1>7. AckRemembered'
    BY DEF AckRemembered
<1>8. OwnResult'
    BY DEF OwnResult
<1>10. SpentNotFailed'
    BY DEF SpentNotFailed
<1>11. MarkExpected'
    BY DEF MarkExpected
<1>9. AckedMeansExpected'
    BY DEF AckedMeansExpected
<1> QED
    BY <1>1, <1>2, <1>3, <1>4, <1>5, <1>6, <1>7, <1>8, <1>9, <1>10, <1>11

(* The request changes hands from the vendor RIL to the completing thread. *)
LEMMA CallCompleteOnceStep ==
    ASSUME IInv, dups = 0, OnceInv, NEW v \in Vendors, NEW a \in RIs, NEW i \in Ids \cup {0},
           CallComplete(v, a, i)
    PROVE  OnceInv'
<1> USE CountsAssumption, AddrAssumption DEF IInv, OnceInv, TypeOK, CallComplete, Enter
<1>1. StaleTokens'
    BY DEF StaleTokens
<1>2. BinderAlone'
    <2>1. ASSUME NEW b \in Binders, Working(b)
          PROVE  token[bRI[b]] # i
        <3>1. bRI[b] \in Addr /\ token[bRI[b]] # 0 /\ a # bRI[b] /\ token[a] = i
            BY <2>1, BinderToken DEF OwedAlone, BinderFree, Working
        <3> QED
            BY <3>1, OtherToken
    <2> QED
        BY <2>1 DEF BinderAlone, OwedAlone, Working, Completing, BinderFree, CompleterFree
<1>3. OwedAlone'
    BY DEF OwedAlone, Working, Completing, BinderFree, CompleterFree
<1>4. CompleterAlone'
    BY DEF CompleterAlone, OwedAlone, Completing, CompleterFree
<1>5. AckKnown'
    BY DEF AckKnown, OwnRI
<1>6. Unanswered'
    BY DEF Unanswered
<1>7. AckRemembered'
    BY DEF AckRemembered
<1>8. OwnResult'
    BY DEF OwnResult
<1>10. SpentNotFailed'
    BY DEF SpentNotFailed, OwedAlone
<1>11. MarkExpected'
    BY DEF MarkExpected
<1>9. AckedMeansExpected'
    BY DEF AckedMeansExpected
<1> QED
    BY <1>1, <1>2, <1>3, <1>4, <1>5, <1>6, <1>7, <1>8, <1>9, <1>10, <1>11

(* The slot that is read plays no part.                                    *)
LEMMA ReadSlotOnceStep ==
    ASSUME IInv, dups = 0, OnceInv, NEW v \in Vendors, NEW s \in Slots, ReadSlot(v, s)
    PROVE  OnceInv'
<1> USE CountsAssumption, AddrAssumption DEF IInv, OnceInv, TypeOK, ReadSlot
<1>1. StaleTokens'
    BY DEF StaleTokens
<1>2. BinderAlone'
    BY DEF BinderAlone, Working, Completing, CompleterFree
<1>3. OwedAlone'
    BY DEF OwedAlone, Working, Completing, BinderFree, CompleterFree
<1>4. CompleterAlone'
    BY DEF CompleterAlone, Completing
<1>5. AckKnown'
    BY DEF AckKnown, OwnRI
<1>6. Unanswered'
    BY DEF Unanswered
<1>7. AckRemembered'
    BY DEF AckRemembered
<1>8. OwnResult'
    BY DEF OwnResult
<1>10. SpentNotFailed'
    BY DEF SpentNotFailed
<1>11. MarkExpected'
    BY DEF MarkExpected
<1>9. AckedMeansExpected'
    BY DEF AckedMeansExpected
<1> QED
    BY <1>1, <1>2, <1>3, <1>4, <1>5, <1>6, <1>7, <1>8, <1>9, <1>10, <1>11

(* The list is not looked at.                                              *)
LEMMA DequeueOnceStep ==
    ASSUME IInv, dups = 0, OnceInv, NEW v \in Vendors, Dequeue(v)
    PROVE  OnceInv'
<1> USE CountsAssumption, AddrAssumption DEF IInv, OnceInv, TypeOK, Dequeue, Goto
<1>1. StaleTokens'
    BY DEF StaleTokens
<1>2. BinderAlone'
    BY DEF BinderAlone, Working, Completing, CompleterFree
<1>3. OwedAlone'
    BY DEF OwedAlone, Working, Completing, BinderFree, CompleterFree
<1>4. CompleterAlone'
    BY DEF CompleterAlone, Completing
<1>5. AckKnown'
    BY DEF AckKnown, OwnRI
<1>6. Unanswered'
    BY DEF Unanswered
<1>7. AckRemembered'
    BY DEF AckRemembered
<1>8. OwnResult'
    BY DEF OwnResult
<1>10. SpentNotFailed'
    BY DEF SpentNotFailed
<1>11. MarkExpected'
    BY DEF MarkExpected
<1>9. AckedMeansExpected'
    BY DEF AckedMeansExpected
<1> QED
    BY <1>1, <1>2, <1>3, <1>4, <1>5, <1>6, <1>7, <1>8, <1>9, <1>10, <1>11

(* A MAL token ends here.                                                  *)
LEMMA InvalidTokenOnceStep ==
    ASSUME IInv, dups = 0, OnceInv, NEW v \in Vendors, InvalidToken(v)
    PROVE  OnceInv'
<1> USE CountsAssumption, AddrAssumption DEF IInv, OnceInv, TypeOK, InvalidToken, Return
<1>1. StaleTokens'
    BY DEF StaleTokens
<1>2. BinderAlone'
    BY DEF BinderAlone, Working, Completing, CompleterFree
<1>3. OwedAlone'
    BY DEF OwedAlone, Working, Completing, BinderFree, CompleterFree
<1>4. CompleterAlone'
    BY DEF CompleterAlone, Completing
<1>5. AckKnown'
    BY DEF AckKnown, OwnRI
<1>6. Unanswered'
    BY DEF Unanswered
<1>7. AckRemembered'
    BY DEF AckRemembered
<1>8. OwnResult'
    BY DEF OwnResult
<1>10. SpentNotFailed'
    BY DEF SpentNotFailed
<1>11. MarkExpected'
    BY DEF MarkExpected
<1>9. AckedMeansExpected'
    BY DEF AckedMeansExpected
<1> QED
    BY <1>1, <1>2, <1>3, <1>4, <1>5, <1>6, <1>7, <1>8, <1>9, <1>10, <1>11

(* The one holder of the request answers it for the first time.            *)
LEMMA AnswerOnceStep ==
    ASSUME IInv, dups = 0, OnceInv, NEW v \in Vendors, Answer(v)
    PROVE  OnceInv'
<1> USE CountsAssumption, AddrAssumption DEF IInv, OnceInv, TypeOK, Answer, Goto, Respond
<1>a. /\ vRI[v] \in Addr /\ vRI[v] \in live /\ token[vRI[v]] \in Ids
      /\ token[vRI[v]] = vId[v] /\ vId[v] \notin failed
    BY VendorToken DEF CompleterAlone, Completing
<1>b. \A w \in Vendors : vpc[w] = "free" => vRI[w] # vRI[v]
    BY DEF CompleterAlone, Completing
<1>c. answered[token[vRI[v]]] = 0
    <2>1. token[vRI[v]] # 0 /\ Unanswered
        BY <1>a
    <2> QED
        BY ONLY <1>a, <1>b, <2>1 DEF Unanswered
<1>d. \A i \in Ids : i # vId[v] => answered'[i] = answered[i] /\ payload'[i] = payload[i]
    BY <1>a
<1>e. answered'[vId[v]] > 0 => answered'[vId[v]] = 1 /\ payload'[vId[v]] = vId[v]
    BY <1>a, <1>c
<1>1. StaleTokens'
    BY DEF StaleTokens
<1>2. BinderAlone'
    BY DEF BinderAlone, Working, Completing, CompleterFree
<1>3. OwedAlone'
    BY DEF OwedAlone, Working, Completing, BinderFree, CompleterFree
<1>4. CompleterAlone'
    BY DEF CompleterAlone, Completing
<1>5. AckKnown'
    BY DEF AckKnown, OwnRI
<1>6. Unanswered'
    <2> SUFFICES ASSUME NEW x \in live \cap Addr, token[x] # 0, token[x] \notin failed,
                        answered'[token[x]] # 0
                 PROVE  \E w \in Vendors : vpc'[w] = "free" /\ vRI[w] = x
        BY DEF Unanswered
    <2>1. CASE x = vRI[v]
        BY <2>1
    <2>2. CASE x # vRI[v]
        <3>1. token[x] \in Ids /\ token[x] # vId[v]
            BY <1>a, <2>2 DEF TokensFresh
        <3>2. PICK w \in Vendors : vpc[w] = "free" /\ vRI[w] = x
            BY <1>d, <3>1 DEF Unanswered
        <3> QED
            BY <3>2
    <2> QED
        BY <2>2
<1>7. AckRemembered'
    BY DEF AckRemembered
<1>8. OwnResult'
    BY <1>a, <1>e DEF OwnResult
<1>10. SpentNotFailed'
    BY DEF SpentNotFailed
<1>11. MarkExpected'
    <2> SUFFICES ASSUME NEW x \in live \cap Addr, wasAckSent[x], Version >= 13,
                        token[x] # 0, token[x] \notin failed, answered'[token[x]] # 0
                 PROVE  token[x] \in expAck'
        BY DEF MarkExpected
    <2>1. CASE x = vRI[v]
        BY <2>1
    <2>2. CASE x # vRI[v]
        <3>1. token[x] \in Ids /\ token[x] # vId[v]
            BY <1>a, <2>2 DEF TokensFresh
        <3> QED
            BY <1>d, <3>1 DEF MarkExpected
    <2> QED
        BY <2>1, <2>2
<1>9. AckedMeansExpected'
    <2>1. vId[v] \in ackSent /\ Version >= 13 => vId[v] \in expAck'
        BY <1>a DEF AckRemembered
    <2>2. \A i \in Ids : i \in ackSent /\ answered'[i] > 0 /\ Version >= 13 => i \in expAck'
        BY <1>d, <2>1 DEF AckedMeansExpected
    <2>3. \A i \in strayAcks : \E a \in Addr : <<a, i>> \in spent
        BY DEF AckedMeansExpected
    <2> QED
        BY <2>2, <2>3 DEF AckedMeansExpected
<1> QED
    BY <1>1, <1>2, <1>3, <1>4, <1>5, <1>6, <1>7, <1>8, <1>9, <1>10, <1>11

(* A local request is not answered.                                        *)
LEMMA FinishLocalOnceStep ==
    ASSUME IInv, dups = 0, OnceInv, NEW v \in Vendors, FinishLocal(v)
    PROVE  OnceInv'
<1> USE CountsAssumption, AddrAssumption DEF IInv, OnceInv, TypeOK, FinishLocal, Goto
<1>1. StaleTokens'
    BY DEF StaleTokens
<1>2. BinderAlone'
    BY DEF BinderAlone, Working, Completing, CompleterFree
<1>3. OwedAlone'
    BY DEF OwedAlone, Working, Completing, BinderFree, CompleterFree
<1>4. CompleterAlone'
    BY DEF CompleterAlone, Completing
<1>5. AckKnown'
    BY DEF AckKnown, OwnRI
<1>6. Unanswered'
    BY DEF Unanswered
<1>7. AckRemembered'
    BY DEF AckRemembered
<1>8. OwnResult'
    BY DEF OwnResult
<1>10. SpentNotFailed'
    BY DEF SpentNotFailed
<1>11. MarkExpected'
    BY DEF MarkExpected
<1>9. AckedMeansExpected'
    BY DEF AckedMeansExpected
<1> QED
    BY <1>1, <1>2, <1>3, <1>4, <1>5, <1>6, <1>7, <1>8, <1>9, <1>10, <1>11

(* The address is free and nobody has it.                                  *)
LEMMA FreeRequestOnceStep ==
    ASSUME IInv, dups = 0, OnceInv, NEW v \in Vendors, FreeRequest(v)
    PROVE  OnceInv'
<1> USE CountsAssumption, AddrAssumption DEF IInv, OnceInv, TypeOK, FreeRequest, Return
<1>1. StaleTokens'
    BY VendorToken DEF StaleTokens
<1>2. BinderAlone'
    BY DEF BinderAlone, Working, Completing, CompleterFree
<1>3. OwedAlone'
    BY DEF OwedAlone, Working, Completing, BinderFree, CompleterFree
<1>4. CompleterAlone'
    BY DEF CompleterAlone, Completing
<1>5. AckKnown'
    BY DEF AckKnown, OwnRI
<1>6. Unanswered'
    BY DEF Unanswered
<1>7. AckRemembered'
    BY DEF AckRemembered
<1>8. OwnResult'
    BY DEF OwnResult
<1>10. SpentNotFailed'
    BY DEF SpentNotFailed
<1>11. MarkExpected'
    BY DEF MarkExpected
<1>9. AckedMeansExpected'
    BY DEF AckedMeansExpected
<1> QED
    BY <1>1, <1>2, <1>3, <1>4, <1>5, <1>6, <1>7, <1>8, <1>9, <1>10, <1>11

(* The ack is remembered before it is sent.                                *)
LEMMA MarkAckOnceStep ==
    ASSUME IInv, dups = 0, OnceInv, NEW v \in Vendors, MarkAck(v)
    PROVE  OnceInv'
<1> USE CountsAssumption, AddrAssumption DEF IInv, OnceInv, TypeOK, MarkAck, Goto
<1>1. StaleTokens'
    BY DEF StaleTokens
<1>2. BinderAlone'
    BY DEF BinderAlone, Working, Completing, CompleterFree
<1>3. OwedAlone'
    BY DEF OwedAlone, Working, Completing, BinderFree, CompleterFree
<1>4. CompleterAlone'
    BY DEF CompleterAlone, Completing
<1>5. AckKnown'
    <2> SUFFICES ASSUME NEW w \in Vendors, vpc'[w] \in AckPCs
                 PROVE  /\ <<vRI[w], vId[w]>> \in owed \cup spent
                        /\ vpc'[w] = "ackSend" /\ OwnRI(w)' => wasAckSent'[vRI[w]]
        BY DEF AckKnown
    <2>1. vRI[v] \in Addr
        BY VendorToken
    <2>2. CASE w = v
        BY <2>1, <2>2 DEF AckKnown
    <2>3. CASE w # v
        BY <2>1, <2>3 DEF AckKnown, OwnRI
    <2> QED
        BY <2>2, <2>3
<1>6. Unanswered'
    BY DEF Unanswered
<1>7. AckRemembered'
    BY DEF AckRemembered
<1>8. OwnResult'
    BY DEF OwnResult
<1>10. SpentNotFailed'
    BY DEF SpentNotFailed
<1>11. MarkExpected'
    <2>1. vRI[v] \in Addr /\ (token[vRI[v]] \notin failed => answered[token[vRI[v]]] = 0)
        BY VendorToken DEF NotYetAnswered, Listed
    <2> QED
        BY <2>1 DEF MarkExpected
<1>9. AckedMeansExpected'
    BY DEF AckedMeansExpected
<1> QED
    BY <1>1, <1>2, <1>3, <1>4, <1>5, <1>6, <1>7, <1>8, <1>9, <1>10, <1>11

(* No ack is sent.                                                         *)
LEMMA InvalidAckOnceStep ==
    ASSUME IInv, dups = 0, OnceInv, NEW v \in Vendors, InvalidAck(v)
    PROVE  OnceInv'
<1> USE CountsAssumption, AddrAssumption DEF IInv, OnceInv, TypeOK, InvalidAck, Return
<1>1. StaleTokens'
    BY DEF StaleTokens
<1>2. BinderAlone'
    BY DEF BinderAlone, Working, Completing, CompleterFree
<1>3. OwedAlone'
    BY DEF OwedAlone, Working, Completing, BinderFree, CompleterFree
<1>4. CompleterAlone'
    BY DEF CompleterAlone, Completing
<1>5. AckKnown'
    BY DEF AckKnown, OwnRI
<1>6. Unanswered'
    BY DEF Unanswered
<1>7. AckRemembered'
    BY DEF AckRemembered
<1>8. OwnResult'
    BY DEF OwnResult
<1>10. SpentNotFailed'
    BY DEF SpentNotFailed
<1>11. MarkExpected'
    BY DEF MarkExpected
<1>9. AckedMeansExpected'
    BY DEF AckedMeansExpected
<1> QED
    BY <1>1, <1>2, <1>3, <1>4, <1>5, <1>6, <1>7, <1>8, <1>9, <1>10, <1>11

(* The request whose ack is sent has not failed, and if it was answered    *)
(* meanwhile it was answered with ACK_EXP.  Other memory is found only     *)
(* after a completion.                                                     *)
LEMMA SendAckOnceStep ==
    ASSUME IInv, dups = 0, OnceInv, NEW v \in Vendors, SendAck(v)
    PROVE  OnceInv'
<1> USE CountsAssumption, AddrAssumption DEF IInv, OnceInv, TypeOK, SendAck, Return
<1>a. /\ vRI[v] \in Addr /\ vId[v] \in Ids
      /\ <<vRI[v], vId[v]>> \in owed \cup spent
    <2>1. <<vRI[v], vId[v]>> \in Tokens /\ vRI[v] \in Addr
        BY DEF VendorHolds, VendorHoldsOne
    <2> QED
        BY <2>1 DEF Tokens, AckKnown
<1>b. ackSent' \subseteq ackSent \cup {vId[v]}
    OBVIOUS
<1>c. ASSUME vId[v] \in ackSent', vId[v] \notin ackSent
      PROVE  OwnRI(v) /\ wasAckSent[vRI[v]]
    BY <1>c DEF AckKnown
<1>d. vId[v] \notin failed
    BY <1>a DEF OwedAlone, SpentNotFailed
<1>e. ASSUME OwnRI(v)
      PROVE  \A x \in Addr : x # vRI[v] => token[x] # vId[v]
    BY <1>a, <1>e DEF OwnRI, TokensFresh
<1>f. ~OwnRI(v) => <<vRI[v], vId[v]>> \in spent
    BY <1>a DEF OwedAlone, OwnRI
<1>1. StaleTokens'
    BY DEF StaleTokens
<1>2. BinderAlone'
    <2>1. ASSUME NEW b \in Binders, Working(b)
          PROVE  token[bRI[b]] \notin ackSent'
        <3>1. token[bRI[b]] \notin ackSent /\ <<vRI[v], token[bRI[b]]>> \notin spent
            BY <1>a, <2>1 DEF BinderAlone
        <3>2. CASE token[bRI[b]] = vId[v] /\ OwnRI(v)
            <4>1. <<vRI[v], vId[v]>> \in owed
                BY <1>a, <3>1, <3>2
            <4>2. bRI[b] # vRI[v] /\ bRI[b] \in Addr
                BY <1>a, <2>1, <4>1, BinderToken DEF OwedAlone, BinderFree, Working
            <4> QED
                BY <1>e, <3>2, <4>2
        <3> QED
            BY <1>b, <1>c, <3>1, <3>2
    <2> QED
        BY <2>1 DEF BinderAlone, Working, Completing, CompleterFree
<1>3. OwedAlone'
    BY DEF OwedAlone, Working, Completing, BinderFree, CompleterFree
<1>4. CompleterAlone'
    BY DEF CompleterAlone, Completing
<1>5. AckKnown'
    BY DEF AckKnown, OwnRI
<1>6. Unanswered'
    BY DEF Unanswered
<1>7. AckRemembered'
    <2>0. vId[v] <= nextId
        BY DEF VendorHolds, VendorHoldsOne
    <2>1. \A i \in ackSent' : i <= nextId /\ i \notin failed
        BY <1>b, <1>d, <2>0 DEF AckRemembered
    <2>2. ASSUME NEW x \in live \cap Addr, token[x] \in ackSent'
          PROVE  wasAckSent[x]
        <3>1. CASE token[x] \in ackSent
            BY <3>1 DEF AckRemembered
        <3>2. CASE token[x] \notin ackSent
            <4>1. token[x] = vId[v] /\ OwnRI(v) /\ wasAckSent[vRI[v]]
                BY <1>b, <1>c, <2>2, <3>2
            <4> QED
                BY <1>e, <4>1
        <3> QED
            BY <3>1, <3>2
    <2> QED
        BY <2>1, <2>2 DEF AckRemembered
<1>8. OwnResult'
    BY DEF OwnResult
<1>10. SpentNotFailed'
    BY DEF SpentNotFailed
<1>11. MarkExpected'
    BY DEF MarkExpected
<1>9. AckedMeansExpected'
    <2>1. ASSUME NEW i \in Ids, i \in ackSent', answered[i] > 0, Version >= 13
          PROVE  i \in expAck
        <3>1. CASE i \in ackSent
            BY <2>1, <3>1 DEF AckedMeansExpected
        <3>2. CASE i \notin ackSent
            <4>1. i = vId[v] /\ OwnRI(v) /\ wasAckSent[vRI[v]]
                BY <1>b, <1>c, <2>1, <3>2
            <4> QED
                BY <1>a, <1>d, <2>1, <4>1 DEF MarkExpected, OwnRI
        <3> QED
            BY <3>1, <3>2
    <2>2. ASSUME NEW i \in strayAcks' PROVE \E a \in Addr : <<a, i>> \in spent
        <3>1. CASE i \in strayAcks
            BY <3>1 DEF AckedMeansExpected
        <3>2. CASE i \notin strayAcks
            <4>1. i = vId[v] /\ ~OwnRI(v)
                BY <3>2
            <4> QED
                BY <1>a, <1>f, <4>1
        <3> QED
            BY <3>1, <3>2
    <2> QED
        BY <2>1, <2>2 DEF AckedMeansExpected
<1> QED
    BY <1>1, <1>2, <1>3, <1>4, <1>5, <1>6, <1>7, <1>8, <1>9, <1>10, <1>11

(* The client's presence plays no part.                                    *)
LEMMA SetConnectedOnceStep ==
    ASSUME IInv, dups = 0, OnceInv, NEW s \in Slots, SetConnected(s)
    PROVE  OnceInv'
<1> USE CountsAssumption, AddrAssumption DEF IInv, OnceInv, TypeOK, SetConnected
<1>1. StaleTokens'
    BY DEF StaleTokens
<1>2. BinderAlone'
    BY DEF BinderAlone, Working, Completing, CompleterFree
<1>3. OwedAlone'
    BY DEF OwedAlone, Working, Completing, BinderFree, CompleterFree
<1>4. CompleterAlone'
    BY DEF CompleterAlone, Completing
<1>5. AckKnown'
    BY DEF AckKnown, OwnRI
<1>6. Unanswered'
    BY DEF Unanswered
<1>7. AckRemembered'
    BY DEF AckRemembered
<1>8. OwnResult'
    BY DEF OwnResult
<1>10. SpentNotFailed'
    BY DEF SpentNotFailed
<1>11. MarkExpected'
    BY DEF MarkExpected
<1>9. AckedMeansExpected'
    BY DEF AckedMeansExpected
<1> QED
    BY <1>1, <1>2, <1>3, <1>4, <1>5, <1>6, <1>7, <1>8, <1>9, <1>10, <1>11

(* A second completion ends the claim, every other step keeps it.          *)
LEMMA OnceNextStep ==
    ASSUME IInv, dups = 0 => OnceInv, [Next]_vars
    PROVE  dups' = 0 => OnceInv'
<1> SUFFICES ASSUME dups' = 0 PROVE OnceInv'
    OBVIOUS
<1>1. CASE UNCHANGED vars
    BY <1>1 DEF vars, OnceInv, StaleTokens, BinderAlone, OwedAlone, CompleterAlone,
       AckKnown, SpentNotFailed, MarkExpected, OwnRI, Unanswered, AckRemembered, OwnResult,
       AckedMeansExpected, Working,
       Completing, BinderFree, CompleterFree
<1>2. CASE \E v \in Vendors, a \in RIs, i \in Ids \cup {0} : CallCompleteAgain(v, a, i)
    BY <1>2 DEF CallCompleteAgain, IInv, TypeOK
<1>3. ASSUME NEW b \in Binders, BinderStep(b)
      PROVE  OnceInv'
    <2>1. dups = 0
        BY <1>3 DEF BinderStep, Allocate, AddToList, ConvertFails, my_enqueue
    <2> QED
        BY <1>3, <2>1, AllocateOnceStep, AddToListOnceStep, ConvertFailsOnceStep,
           my_enqueueOnceStep DEF BinderStep
<1>4. ASSUME NEW v \in Vendors, CallbackStep(v)
      PROVE  OnceInv'
    <2>1. dups = 0
        BY <1>4 DEF CallbackStep, ReadSlot, Dequeue, InvalidToken, Answer, FinishLocal,
           FreeRequest, MarkAck, InvalidAck, SendAck
    <2> QED
        BY <1>4, <2>1, ReadSlotOnceStep, DequeueOnceStep, InvalidTokenOnceStep, AnswerOnceStep,
           FinishLocalOnceStep, FreeRequestOnceStep, MarkAckOnceStep, InvalidAckOnceStep,
           SendAckOnceStep DEF CallbackStep
<1>5. ASSUME NEW v \in Vendors, NEW a \in RIs, NEW i \in Ids \cup {0},
             CallAck(v, a, i) \/ CallComplete(v, a, i)
      PROVE  OnceInv'
    BY <1>5, CallAckOnceStep, CallCompleteOnceStep DEF CallAck, CallComplete
<1>6. ASSUME NEW s \in Slots, SetConnected(s)
      PROVE  OnceInv'
    BY <1>6, SetConnectedOnceStep DEF SetConnected
<1> QED
    BY <1>1, <1>2, <1>3, <1>4, <1>5, <1>6 DEF Next, VendorCall

(* At first the vendor RIL has the MAL tokens and nothing else.            *)
LEMMA OnceInit == Init => OnceInv
<1> SUFFICES ASSUME Init PROVE OnceInv
    OBVIOUS
<1>1. StaleTokens /\ OwedAlone
    BY AddrAssumption DEF Init, StaleTokens, OwedAlone, BinderFree, CompleterFree
<1>2. BinderAlone /\ CompleterAlone /\ AckKnown
    BY DEF Init, BinderAlone, CompleterAlone, AckKnown, Working, Completing
<1>3. Unanswered /\ AckRemembered
    BY DEF Init, Unanswered, AckRemembered
<1>5. SpentNotFailed
    BY DEF Init, SpentNotFailed
<1>6. MarkExpected
    BY DEF Init, MarkExpected
<1>4. OwnResult /\ AckedMeansExpected
    BY DEF Init, OwnResult, AckedMeansExpected
<1> QED
    BY <1>1, <1>2, <1>3, <1>4, <1>5, <1>6 DEF OnceInv

(* OnceInv holds as long as the vendor RIL completes no token twice.       *)
THEOREM OnceInductive == Spec => [](dups = 0 => OnceInv)
<1>1. Init => (dups = 0 => OnceInv)
    BY OnceInit
<1>2. IInv /\ (dups = 0 => OnceInv) /\ [Next]_vars => (dups = 0 => OnceInv)'
    BY OnceNextStep
<1> QED
    BY <1>1, <1>2, InductiveInvariant, PTL DEF Spec

(* RIL_onRequestComplete, which reads the RequestInfo outside the mutex,   *)
(* finds the one that its token was made for; RIL_onRequestAck does until  *)
(* the vendor RIL completes the token on another thread.                   *)
THEOREM TokensStayAlive == Spec => []TokenAlive
<1>1. ASSUME IInv, dups = 0 => OnceInv
      PROVE  TokenAlive
    <2> SUFFICES ASSUME OnceInv, NEW v \in Vendors, vpc[v] # "idle",
                        vpc[v] \in AckPCs => <<vRI[v], vId[v]>> \notin spent
                 PROVE  OwnRI(v)
        BY <1>1 DEF TokenAlive
    <2>1. CASE Completing(v)
        BY <2>1 DEF OnceInv, CompleterAlone, OwnRI
    <2>2. CASE vpc[v] \in AckPCs
        <3>1. <<vRI[v], vId[v]>> \in owed /\ vRI[v] \in RIs /\ vId[v] \in Ids \cup {0}
            BY <1>1, <2>2, VendorToken DEF OnceInv, AckKnown, IInv, TypeOK
        <3> QED
            BY <3>1 DEF OnceInv, OwedAlone, OwnRI
    <2> QED
        BY <1>1, <2>1, <2>2 DEF IInv, TypeOK, Completing
<1> QED
    BY <1>1, InductiveInvariant, OnceInductive, PTL

(* Every request gets at most one response, and its own.                   *)
THEOREM ResultsNotMixed == Spec => []OwnResult
<1>1. (dups = 0 => OnceInv) => OwnResult
    BY DEF OnceInv, OwnResult
<1> QED
    BY <1>1, OnceInductive, PTL

(* A client that was sent an ack is told to expect it (RIL_onRequestAck,   *)
(* RIL_onRequestComplete).                                                 *)
THEOREM AcksAreExpected == Spec => []AckedMeansExpected
<1>1. (dups = 0 => OnceInv) => AckedMeansExpected
    BY DEF OnceInv, AckedMeansExpected
<1> QED
    BY <1>1, OnceInductive, PTL

-----------------------------------------------------------------------------
(* The refinement of AnswerOnce.                                           *)

AboutToFree(a) == \E v \in Vendors : vpc[v] = "free" /\ vRI[v] = a

(* The instance has a RequestInfo that nobody is about to free.            *)
Standing(i) == \E a \in live : token[a] = i /\ ~AboutToFree(a)

(* The client's view of one instance.                                      *)
Status(i) ==
    IF i > nextId THEN "new"
    ELSE IF answered[i] = 1 THEN "answered"
    ELSE IF answered[i] > 1 THEN "answered twice"
    ELSE IF Closed(i) THEN "dropped"
    ELSE "open"

LEMMA ClosedMeans == \A i : Closed(i) <=> i \in failed \/ ~Standing(i)
BY DEF Closed, Standing, AboutToFree

LEMMA ClosedMeansNext == \A i : Closed(i)' <=> i \in failed' \/ ~Standing(i)'
BY DEF Closed, Standing, AboutToFree

(* The view changes for one instance, ...                                  *)
LEMMA ViewUpdate ==
    ASSUME NEW i \in Ids, NEW x, \A j \in Ids : j # i => Status(j)' = Status(j),
           Status(i)' = x
    PROVE  ClientView' = [ClientView EXCEPT ![i] = x]
<1>1. ClientView = [j \in Ids |-> Status(j)] /\ ClientView' = [j \in Ids |-> Status(j)']
    BY DEF ClientView, Status
<1> HIDE DEF Status
<1> QED
    BY <1>1

(* ... or for none.                                                        *)
LEMMA ViewSame ==
    ASSUME \A j \in Ids : Status(j)' = Status(j)
    PROVE  ClientView' = ClientView
<1>1. ClientView = [j \in Ids |-> Status(j)] /\ ClientView' = [j \in Ids |-> Status(j)']
    BY DEF ClientView, Status
<1> HIDE DEF Status
<1> QED
    BY <1>1

(* What decides the status of an instance.                                 *)
LEMMA StatusSame ==
    ASSUME NEW i, nextId' = nextId, answered'[i] = answered[i],
           i \in failed' <=> i \in failed, Standing(i)' <=> Standing(i)
    PROVE  Status(i)' = Status(i)
BY ClosedMeans, ClosedMeansNext DEF Status

(* A request that has a holder is open.                                    *)
LEMMA OpenStatus ==
    ASSUME IInv, OnceInv, NEW a \in Addr, a \in live, token[a] # 0,
           token[a] \notin failed, ~AboutToFree(a)
    PROVE  token[a] \in Ids /\ Status(token[a]) = "open"
<1>1. token[a] \in Ids /\ token[a] <= nextId /\ nextId \in Nat
    BY DEF IInv, TypeOK, TokensFresh
<1>2. answered[token[a]] = 0
    BY DEF OnceInv, Unanswered, AboutToFree
<1>3. Standing(token[a])
    BY DEF Standing
<1> QED
    BY <1>1, <1>2, <1>3, ClosedMeans DEF Status

(* The client's view of the initial state.                                 *)
LEMMA ViewInit == Init => Client!Init
BY DEF Init, Client!Init, ClientView

(* A new request is opened.                                                *)
LEMMA AllocateView ==
    ASSUME IInv, OnceInv, NEW b \in Binders, NEW s \in Slots, NEW k \in Kinds,
           NEW a \in Addr, Allocate(b, s, k, a)
    PROVE  Client!Next
<1>a. nextId + 1 \in Ids
    BY CountsAssumption DEF IInv, TypeOK, Allocate
<1>b. PICK i \in Ids : i = nextId + 1
    BY <1>a
<1>1. nextId' = i /\ nextId = i - 1 /\ nextId \in Nat /\ a \notin live
    BY <1>b DEF IInv, TypeOK, Allocate
<1>2. /\ token'[a] = i /\ live' = live \cup {a}
      /\ \A c \in live : c # a /\ token'[c] = token[c]
      /\ UNCHANGED <<vpc, vRI, answered, failed>>
    BY <1>1 DEF IInv, TypeOK, Allocate
<1>3. answered[i] = 0 /\ i \notin failed
    BY <1>1 DEF IInv, TokensFresh
<1>4. \A v \in Vendors : vpc[v] = "free" => vRI[v] # a
    BY <1>1 DEF OnceInv, CompleterAlone, Completing
<1>5. Status(i) = "new"
    BY <1>1 DEF Status
<1>6. Status(i)' = "open"
    <2>1. Standing(i)'
        BY <1>2, <1>4 DEF Standing, AboutToFree
    <2> QED
        BY <1>1, <1>2, <1>3, <2>1, ClosedMeansNext DEF Status
<1>7. ASSUME NEW j \in Ids, j # i PROVE Status(j)' = Status(j)
    <2>1. Standing(j)' <=> Standing(j)
        BY <1>2, <1>7 DEF Standing, AboutToFree
    <2>2. j > nextId' <=> j > nextId
        BY <1>1, <1>7
    <2> QED
        BY <1>2, <2>1, <2>2, ClosedMeans, ClosedMeansNext DEF Status
<1>8. ClientView[i] = "new"
    BY <1>1 DEF ClientView
<1>9. ClientView' = [ClientView EXCEPT ![i] = "open"]
    BY <1>6, <1>7, ViewUpdate
<1> QED
    BY <1>8, <1>9 DEF Client!Next, Client!Open

(* An open request is answered or dropped by a step that answers it,       *)
(* fails it or is about to free it.                                        *)
LEMMA CloseView ==
    ASSUME NEW i \in Ids, Status(i) = "open", Status(i)' \in {"answered", "dropped"},
           \A j \in Ids : j # i => Status(j)' = Status(j)
    PROVE  Client!Next
<1>1. ClientView[i] = "open"
    BY DEF ClientView, Status
<1>2. CASE Status(i)' = "answered"
    <2>1. ClientView' = [ClientView EXCEPT ![i] = "answered"]
        BY <1>2, ViewUpdate
    <2> QED
        BY <1>1, <2>1 DEF Client!Next, Client!Answer
<1>3. CASE Status(i)' = "dropped"
    <2>1. ClientView' = [ClientView EXCEPT ![i] = "dropped"]
        BY <1>3, ViewUpdate
    <2> QED
        BY <1>1, <2>1 DEF Client!Next, Client!Drop
<1> QED
    BY <1>2, <1>3

LEMMA ConvertFailsView ==
    ASSUME IInv, OnceInv, NEW b \in Binders, ConvertFails(b)
    PROVE  Client!Next
<1>a. bRI[b] \in Addr /\ token[bRI[b]] \in Ids
    BY BinderToken DEF ConvertFails
<1>b. PICK i \in Ids : i = token[bRI[b]]
    BY <1>a
<1>1. /\ bRI[b] \in Addr /\ token[bRI[b]] = i /\ i # 0
      /\ bRI[b] \in live /\ i \notin failed
    BY <1>a, <1>b DEF ConvertFails, OnceInv, BinderAlone, Working
<1>2. ~AboutToFree(bRI[b])
    BY DEF ConvertFails, OnceInv, BinderAlone, Working, CompleterFree, Completing, AboutToFree
<1>3. Status(i) = "open"
    BY <1>1, <1>2, OpenStatus
<1>4. /\ failed' = failed \cup {i} /\ UNCHANGED <<token, live, vpc, vRI, nextId>>
      /\ \A j \in Ids : j # i => answered'[j] = answered[j]
      /\ answered'[i] \in {answered[i], answered[i] + 1}
    BY <1>1 DEF ConvertFails, Respond
<1>5. answered[i] = 0 /\ i <= nextId /\ nextId \in Nat
    BY <1>1, <1>2 DEF IInv, TypeOK, TokensFresh, OnceInv, Unanswered, AboutToFree
<1>6. Status(i)' \in {"answered", "dropped"}
    BY <1>4, <1>5, ClosedMeansNext DEF Status
<1>7. ASSUME NEW j \in Ids, j # i PROVE Status(j)' = Status(j)
    <2>1. Standing(j)' <=> Standing(j)
        BY <1>4 DEF Standing, AboutToFree
    <2> QED
        BY <1>4, <1>7, <2>1, StatusSame
<1> QED
    BY <1>3, <1>6, <1>7, CloseView

(* A completion that is about to free the RequestInfo.                     *)
LEMMA FinishView ==
    ASSUME IInv, OnceInv, NEW v \in Vendors, Answer(v) \/ FinishLocal(v)
    PROVE  Client!Next
<1>a. vRI[v] \in Addr /\ token[vRI[v]] \in Ids /\ vpc[v] = "respond"
    BY VendorToken DEF Answer, FinishLocal
<1>b. PICK i \in Ids : i = token[vRI[v]]
    BY <1>a
<1>1. /\ vRI[v] \in Addr /\ token[vRI[v]] = i /\ i # 0
      /\ vRI[v] \in live /\ i \notin failed /\ vpc[v] = "respond"
    BY <1>a, <1>b DEF OnceInv, CompleterAlone, Completing
<1>2. ~AboutToFree(vRI[v])
    BY <1>1 DEF OnceInv, CompleterAlone, Completing, AboutToFree
<1>3. Status(i) = "open"
    BY <1>1, <1>2, OpenStatus
<1>4. /\ UNCHANGED <<token, live, failed, vRI, nextId>>
      /\ vpc' = [vpc EXCEPT ![v] = "free"]
      /\ \A j \in Ids : j # i => answered'[j] = answered[j]
      /\ answered'[i] \in {answered[i], answered[i] + 1}
    BY <1>1 DEF IInv, TypeOK, Answer, FinishLocal, Respond, Goto
<1>5. answered[i] = 0 /\ i <= nextId /\ nextId \in Nat
    BY <1>1, <1>2 DEF IInv, TypeOK, TokensFresh, OnceInv, Unanswered, AboutToFree
<1>6. vpc \in [Vendors -> {"idle"} \cup AckPCs \cup CompletePCs]
    BY DEF IInv, TypeOK
<1>7. AboutToFree(vRI[v])' /\ \A a : a # vRI[v] => (AboutToFree(a)' <=> AboutToFree(a))
    BY <1>4, <1>6 DEF AboutToFree
<1>8. \A c \in live : c # vRI[v] => token[c] # i
    BY <1>1, OtherToken DEF IInv, TypeOK, OnceInv
<1>9. Status(i)' \in {"answered", "dropped"}
    <2>1. ~Standing(i)'
        BY <1>4, <1>7, <1>8 DEF Standing
    <2> QED
        BY <1>4, <1>5, <2>1, ClosedMeansNext DEF Status
<1>10. ASSUME NEW j \in Ids, j # i PROVE Status(j)' = Status(j)
    <2>1. Standing(j)' <=> Standing(j)
        BY <1>1, <1>4, <1>7, <1>10 DEF Standing
    <2> QED
        BY <1>4, <1>10, <2>1, StatusSame
<1> QED
    BY <1>3, <1>9, <1>10, CloseView

(* What is freed was closed already.                                       *)
LEMMA FreeRequestView ==
    ASSUME IInv, OnceInv, NEW v \in Vendors, FreeRequest(v)
    PROVE  ClientView' = ClientView
<1>1. vRI[v] \in Addr /\ vpc[v] = "free" /\ token[vRI[v]] # 0
    BY VendorToken DEF FreeRequest
<1>2. /\ UNCHANGED <<token, failed, answered, nextId>>
      /\ live' = live \ {vRI[v]}
      /\ vpc' = [vpc EXCEPT ![v] = "idle"] /\ vRI' = [vRI EXCEPT ![v] = NoAddr]
    BY DEF FreeRequest, Return
<1>3. vpc \in [Vendors -> {"idle"} \cup AckPCs \cup CompletePCs]
      /\ vRI \in [Vendors -> RIs \cup {NoAddr}]
    BY DEF IInv, TypeOK
<1>4. AboutToFree(vRI[v]) /\ \A a : a # vRI[v] => (AboutToFree(a)' <=> AboutToFree(a))
    BY <1>1, <1>2, <1>3 DEF AboutToFree
<1>5. \A j : Standing(j)' <=> Standing(j)
    BY <1>2, <1>4 DEF Standing
<1> QED
    BY <1>2, <1>5, StatusSame, ViewSame

(* No other step shows.                                                    *)
LEMMA HiddenView ==
    ASSUME UNCHANGED <<token, live, failed, answered, nextId>>,
           \A a : AboutToFree(a)' <=> AboutToFree(a)
    PROVE  ClientView' = ClientView
<1>1. \A j : Standing(j)' <=> Standing(j)
    BY DEF Standing
<1> QED
    BY <1>1, StatusSame, ViewSame

LEMMA BinderView ==
    ASSUME IInv, OnceInv, NEW b \in Binders, BinderStep(b)
    PROVE  [Client!Next]_ClientView
<1>1. CASE AddToList(b) \/ my_enqueue(b)
    <2>1. /\ UNCHANGED <<token, live, failed, answered, nextId>>
          /\ \A a : AboutToFree(a)' <=> AboutToFree(a)
        BY <1>1 DEF AddToList, my_enqueue, AboutToFree
    <2> QED
        BY <2>1, HiddenView
<1> QED
    BY <1>1, AllocateView, ConvertFailsView DEF BinderStep

LEMMA CallbackView ==
    ASSUME IInv, OnceInv, NEW v \in Vendors, CallbackStep(v)
    PROVE  [Client!Next]_ClientView
<1>1. CASE Answer(v) \/ FinishLocal(v)
    BY <1>1, FinishView
<1>2. CASE FreeRequest(v)
    BY <1>2, FreeRequestView
<1>3. CASE \/ (\E s \in Slots : ReadSlot(v, s)) \/ Dequeue(v) \/ InvalidToken(v)
           \/ MarkAck(v) \/ InvalidAck(v) \/ SendAck(v)
    <2>1. UNCHANGED <<token, live, failed, answered, nextId>>
        BY <1>3 DEF ReadSlot, Dequeue, InvalidToken, MarkAck, InvalidAck, SendAck
    <2>2. /\ vpc[v] # "free" /\ vpc'[v] # "free"
          /\ \A w \in Vendors : w # v => vpc'[w] = vpc[w] /\ vRI'[w] = vRI[w]
        BY <1>3 DEF ReadSlot, Dequeue, InvalidToken, MarkAck, InvalidAck, SendAck, Goto, Return,
           IInv, TypeOK
    <2>3. \A a : AboutToFree(a)' <=> AboutToFree(a)
        BY <2>2 DEF AboutToFree
    <2> QED
        BY <2>1, <2>3, HiddenView
<1> QED
    BY <1>1, <1>2, <1>3 DEF CallbackStep

LEMMA VendorCallView ==
    ASSUME IInv, NEW v \in Vendors, VendorCall(v)
    PROVE  ClientView' = ClientView
<1>1. UNCHANGED <<token, live, failed, answered, nextId>>
    BY DEF VendorCall, CallAck, CallComplete, CallCompleteAgain
<1>2. /\ vpc[v] # "free" /\ vpc'[v] # "free"
      /\ \A w \in Vendors : w # v => vpc'[w] = vpc[w] /\ vRI'[w] = vRI[w]
    BY DEF VendorCall, CallAck, CallComplete, CallCompleteAgain, Enter, IInv, TypeOK
<1>3. \A a : AboutToFree(a)' <=> AboutToFree(a)
    BY <1>2 DEF AboutToFree
<1> QED
    BY <1>1, <1>3, HiddenView

(* Every step of the request path is a step of AnswerOnce or none.         *)
LEMMA StepSimulation ==
    ASSUME IInv, OnceInv, [Next]_vars
    PROVE  [Client!Next]_ClientView
<1>1. CASE \/ \E s \in Slots : SetConnected(s)
           \/ UNCHANGED vars
    <2>1. /\ UNCHANGED <<token, live, failed, answered, nextId>>
          /\ \A a : AboutToFree(a)' <=> AboutToFree(a)
        BY <1>1 DEF SetConnected, AboutToFree, vars
    <2> QED
        BY <2>1, HiddenView
<1> QED
    BY <1>1, BinderView, CallbackView, VendorCallView DEF Next

(* The request path implements AnswerOnce when the vendor RIL completes    *)
(* every token once: each request that addRequestToList opens is answered  *)
(* once or dropped, and that is final.                                     *)
THEOREM RefinesAnswerOnce == Spec /\ [](dups = 0) => ImplementsAnswerOnce
<1>1. Init => Client!Init
    BY ViewInit
<1>2. IInv /\ OnceInv /\ [Next]_vars => [Client!Next]_ClientView
    BY StepSimulation
<1> QED
    BY <1>1, <1>2, InductiveInvariant, OnceInductive, PTL
    DEF Spec, ImplementsAnswerOnce, Client!Spec
=============================================================================
