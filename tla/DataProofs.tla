---------------------------- MODULE DataProofs ----------------------------
(***************************************************************************)
(* Proofs about the two parts of the data service: DataCalls, for every    *)
(* number of positions, calls and cids, and then InitialAttach, for every  *)
(* number of slots, settings, resets and failed conversions.               *)
(***************************************************************************)
EXTENDS DataCalls, InitialAttach, FiniteSetTheorems, WellFoundedInduction, TLAPS

-----------------------------------------------------------------------------
(* DataCalls *)

CallRecord ==
    [state : {"none", "asked", "found", "live"}, id : 0..Positions, cid : Cids \cup {NoCid},
     ok : BOOLEAN, position : 0..Positions, alone : BOOLEAN]

(* The array, the calls and the deactivation are in one of their states.   *)
DataTypeOK ==
    /\ dataCallCids \in [0..(Positions - 1) -> Cids \cup {NoCid}]
    /\ calls \in [Calls -> CallRecord]
    /\ failed \in Seq(Cids)
    /\ \/ clearing = NotClearing
       \/ /\ clearing \in [call : Calls, position : 0..Positions]
          /\ calls[clearing.call].state = "live"

(* A call that was set up has a cid, and no other call has the same.       *)
CidsApart ==
    \A k \in Calls :
        /\ calls[k].ok => calls[k].cid \in Cids
        /\ calls[k].state = "live" => calls[k].ok
        /\ calls[k].ok => calls[k].state \in {"found", "live"}
        /\ \A j \in Calls : j # k /\ calls[j].ok /\ calls[k].ok => calls[j].cid # calls[k].cid

IdOf(i) == IF i < Positions THEN i + 1 ELSE 0

(* A set-up that has met nothing is the only one under way, there is no    *)
(* deactivation, and the array is as setupDataCall saw it.                 *)
AloneInFlight ==
    \A k \in Calls : k \in InFlight /\ calls[k].alone =>
        /\ InFlight = {k} /\ clearing = NotClearing
        /\ calls[k].id = IdOf(PositionOf(NoCid))
        /\ calls[k].state = "found" => calls[k].position = PositionOf(NoCid)

(* The cid of such a call is in the position of its id, and nobody is      *)
(* about to overwrite it.                                                  *)
AloneKept ==
    \A k \in Calls : calls[k].state = "live" /\ calls[k].alone /\ calls[k].id # 0 =>
        /\ dataCallCids[calls[k].id - 1] = calls[k].cid
        /\ \A j \in Calls : calls[j].state = "found" => calls[j].position # calls[k].id - 1
        /\ clearing # NotClearing /\ clearing.call # k => clearing.position # calls[k].id - 1

(* The two sides of PositionsBacked.                                       *)
Taken(c) == {i \in 0..(Positions - 1) : dataCallCids[i] = c}
FailedWith(c) == {f \in DOMAIN failed : failed[f] = c}
LiveWith(c) == {k \in Calls : calls[k].state = "live" /\ calls[k].cid = c}

Backed == \A c \in Cids :
    Cardinality(Taken(c)) <= Cardinality(FailedWith(c)) + Cardinality(LiveWith(c))

(* A deactivation leaves the positions of its cid backed: those other than *)
(* the one it found are fewer, even when that one was overwritten.         *)
BackedAfterClear ==
    clearing # NotClearing =>
        LET c == calls[clearing.call].cid
        IN  Cardinality(Taken(c) \ {clearing.position})
              < Cardinality(FailedWith(c)) + Cardinality(LiveWith(c))

DataInv ==
    /\ DataTypeOK
    /\ CidsApart
    /\ AloneInFlight
    /\ AloneKept
    /\ Backed
    /\ BackedAfterClear

-----------------------------------------------------------------------------
USE DEF NoCid

(* PositionOf is the first position with the value: there is one, as the   *)
(* order of the natural numbers is well-founded.                           *)
LEMMA PositionOfIs ==
    ASSUME NEW v
    PROVE  /\ PositionOf(v) \in 0..Positions
           /\ PositionOf(v) = Positions \/ dataCallCids[PositionOf(v)] = v
           /\ \A j \in 0..(PositionOf(v) - 1) : dataCallCids[j] # v
<1> DEFINE T == {i \in 0..Positions : i = Positions \/ dataCallCids[i] = v}
<1>1. T \subseteq Nat /\ Positions \in T
    BY DataCallsAssumption
<1>2. \E x \in T : \A y \in T : ~(<<y, x>> \in OpToRel(<, Nat))
    BY <1>1, NatLessThanWellFounded, WFMin
<1>3. PICK x \in T : \A y \in T : ~(<<y, x>> \in OpToRel(<, Nat))
    BY <1>2
<1>4. \A y \in T : ~(y < x)
    BY <1>1, <1>3 DEF OpToRel
<1>5. \A j \in 0..(x - 1) : dataCallCids[j] # v
    BY <1>4, DataCallsAssumption
<1> QED
    BY <1>5 DEF PositionOf

(* It looks at nothing but the array.                                      *)
LEMMA PositionOfSame ==
    ASSUME UNCHANGED dataCallCids, NEW v
    PROVE  PositionOf(v)' = PositionOf(v)
BY DEF PositionOf

(* The sets that are counted are finite.                                   *)
LEMMA CountedFinite ==
    ASSUME DataTypeOK, NEW c
    PROVE  IsFiniteSet(Taken(c)) /\ IsFiniteSet(FailedWith(c)) /\ IsFiniteSet(LiveWith(c))
<1>1. IsFiniteSet(0..(Positions - 1)) /\ IsFiniteSet(1..Len(failed))
    BY FS_Interval, DataCallsAssumption DEF DataTypeOK
<1>2. IsFiniteSet(DOMAIN failed)
    BY <1>1 DEF DataTypeOK
<1>3. Taken(c) \subseteq 0..(Positions - 1) /\ FailedWith(c) \subseteq DOMAIN failed
      /\ LiveWith(c) \subseteq Calls
    BY DEF Taken, FailedWith, LiveWith
<1> QED
    BY <1>1, <1>2, <1>3, FS_Subset, DataCallsAssumption

(* Sizes of sets that grow by at most one element.                         *)
LEMMA SizeGrow ==
    ASSUME NEW S, NEW T, NEW x, IsFiniteSet(S), T \subseteq S \cup {x}
    PROVE  /\ IsFiniteSet(T) /\ Cardinality(T) \in Nat /\ Cardinality(S) \in Nat
           /\ Cardinality(T) <= Cardinality(S) + 1
<1>1. IsFiniteSet(S \cup {x}) /\ Cardinality(S \cup {x}) <= Cardinality(S) + 1
      /\ Cardinality(S) \in Nat
    <2>1. Cardinality(S) \in Nat
        BY FS_CardinalityType
    <2>2. /\ IsFiniteSet(S \cup {x})
          /\ \/ Cardinality(S \cup {x}) = Cardinality(S)
             \/ Cardinality(S \cup {x}) = Cardinality(S) + 1
        BY FS_AddElement
    <2> QED
        BY <2>1, <2>2
<1>2. IsFiniteSet(T) /\ Cardinality(T) <= Cardinality(S \cup {x}) /\ Cardinality(T) \in Nat
      /\ Cardinality(S \cup {x}) \in Nat
    BY <1>1, FS_Subset, FS_CardinalityType
<1> QED
    BY <1>1, <1>2

LEMMA SizeSubset ==
    ASSUME NEW S, NEW T, IsFiniteSet(S), T \subseteq S
    PROVE  /\ IsFiniteSet(T) /\ Cardinality(T) \in Nat /\ Cardinality(S) \in Nat
           /\ Cardinality(T) <= Cardinality(S)
BY FS_Subset, FS_CardinalityType

(* The initial state.                                                      *)
LEMMA InitInv == DataInit => DataInv
<1> SUFFICES ASSUME DataInit PROVE DataInv
    OBVIOUS
<1>1. NoDataCall \in CallRecord
    BY DataCallsAssumption DEF NoDataCall, CallRecord
<1>2. DataTypeOK
    BY <1>1, DataCallsAssumption DEF DataInit, DataTypeOK
<1>3. CidsApart /\ AloneKept
    BY DEF DataInit, CidsApart, AloneKept, NoDataCall
<1>4. AloneInFlight
    BY DEF DataInit, AloneInFlight, NoDataCall, InFlight
<1>5. Backed
    <2> SUFFICES ASSUME NEW c \in Cids
                 PROVE  Cardinality(Taken(c))
                            <= Cardinality(FailedWith(c)) + Cardinality(LiveWith(c))
        BY DEF Backed
    <2>1. Taken(c) = {} /\ FailedWith(c) = {} /\ LiveWith(c) = {}
        BY DataCallsAssumption DEF DataInit, Taken, FailedWith, LiveWith, NoDataCall
    <2> QED
        BY <2>1, FS_EmptySet
<1>6. BackedAfterClear
    BY DEF DataInit, BackedAfterClear
<1> QED
    BY <1>2, <1>3, <1>4, <1>5, <1>6 DEF DataInv

(* A step that leaves the array, the failed and the live calls alone.      *)
LEMMA CountsSame ==
    ASSUME UNCHANGED <<dataCallCids, failed>>,
           \A k \in Calls : /\ calls'[k].state = "live" <=> calls[k].state = "live"
                            /\ calls[k].state = "live" => calls'[k].cid = calls[k].cid,
           NEW c
    PROVE  Taken(c)' = Taken(c) /\ FailedWith(c)' = FailedWith(c) /\ LiveWith(c)' = LiveWith(c)
BY DEF Taken, FailedWith, LiveWith

LEMMA BackedSame ==
    ASSUME Backed, \A c \in Cids : /\ Taken(c)' = Taken(c)
                                   /\ FailedWith(c)' = FailedWith(c)
                                   /\ LiveWith(c)' = LiveWith(c)
    PROVE  Backed'
BY DEF Backed

(* Writing the alone flag of a call, ...                                   *)
LEMMA AloneWrite ==
    ASSUME NEW r \in CallRecord, NEW b \in BOOLEAN
    PROVE  /\ [r EXCEPT !.alone = b] \in CallRecord
           /\ [r EXCEPT !.alone = b].state = r.state /\ [r EXCEPT !.alone = b].id = r.id
           /\ [r EXCEPT !.alone = b].cid = r.cid /\ [r EXCEPT !.alone = b].ok = r.ok
           /\ [r EXCEPT !.alone = b].position = r.position
           /\ [r EXCEPT !.alone = b].alone = b
BY DEF CallRecord

(* ... as every set-up and deactivation does for the calls in flight.      *)
LEMMA DisturbedIs ==
    ASSUME DataTypeOK
    PROVE  /\ Disturbed \in [Calls -> CallRecord]
           /\ \A j \in Calls :
                 /\ Disturbed[j].state = calls[j].state /\ Disturbed[j].id = calls[j].id
                 /\ Disturbed[j].cid = calls[j].cid /\ Disturbed[j].ok = calls[j].ok
                 /\ Disturbed[j].position = calls[j].position
                 /\ Disturbed[j].alone <=> calls[j].alone /\ j \notin InFlight
<1>1. ASSUME NEW j \in Calls
      PROVE  /\ Disturbed[j] \in CallRecord
             /\ Disturbed[j].state = calls[j].state /\ Disturbed[j].id = calls[j].id
             /\ Disturbed[j].cid = calls[j].cid /\ Disturbed[j].ok = calls[j].ok
             /\ Disturbed[j].position = calls[j].position
             /\ Disturbed[j].alone <=> calls[j].alone /\ j \notin InFlight
    <2>1. PICK b \in BOOLEAN : b = (calls[j].alone /\ j \notin InFlight)
        OBVIOUS
    <2>2. Disturbed[j] = [calls[j] EXCEPT !.alone = b]
        BY <2>1, Zenon DEF Disturbed
    <2>3. calls[j] \in CallRecord
        BY DEF DataTypeOK
    <2> HIDE <2>1
    <2>4. /\ Disturbed[j] \in CallRecord
          /\ Disturbed[j].state = calls[j].state /\ Disturbed[j].id = calls[j].id
          /\ Disturbed[j].cid = calls[j].cid /\ Disturbed[j].ok = calls[j].ok
          /\ Disturbed[j].position = calls[j].position
          /\ Disturbed[j].alone = b
        BY <2>2, <2>3, AloneWrite
    <2> QED
        BY <2>1, <2>4
<1>2. Disturbed = [j \in Calls |-> Disturbed[j]]
    BY DEF Disturbed
<1> QED
    BY <1>1, <1>2

(* setupDataCall: the id is the first free position's.                     *)
LEMMA SetupDataCallStep ==
    ASSUME DataInv, NEW k \in Calls, SetupDataCall(k)
    PROVE  DataInv'
<1> DEFINE i == PositionOf(NoCid)
<1> USE DEF DataInv
<1>1. i \in 0..Positions /\ IdOf(i) \in 0..Positions
    BY PositionOfIs, DataCallsAssumption DEF IdOf
<1>2. PICK b \in BOOLEAN : b = (InFlight = {})
    OBVIOUS
<1> DEFINE r == [NoDataCall EXCEPT !.state = "asked", !.alone = b, !.id = IdOf(i)]
<1>3. /\ r \in CallRecord
      /\ r.state = "asked" /\ r.id = IdOf(i) /\ ~r.ok /\ r.position = 0 /\ r.alone = b
    <2>1. PICK x \in 0..Positions : x = IdOf(i)
        BY <1>1
    <2>2. NoDataCall \in CallRecord /\ ~NoDataCall.ok /\ NoDataCall.position = 0
        BY DataCallsAssumption DEF NoDataCall, CallRecord
    <2>3. r = [NoDataCall EXCEPT !.state = "asked", !.alone = b, !.id = x]
        BY <2>1
    <2> HIDE DEF r
    <2> QED
        BY <2>1, <2>2, <2>3 DEF CallRecord
<1>4. /\ UNCHANGED <<dataCallCids, failed, clearing>> /\ clearing = NotClearing
      /\ calls[k] = NoDataCall
      /\ calls' = [Disturbed EXCEPT ![k] = r]
    BY <1>2, Zenon DEF SetupDataCall, IdOf
<1> HIDE DEF r
<1>5. calls' \in [Calls -> CallRecord] /\ calls'[k] = r
    BY <1>3, <1>4, DisturbedIs
<1>6. /\ calls'[k].state = "asked" /\ calls'[k].id = IdOf(i) /\ ~calls'[k].ok
      /\ calls'[k].position = 0 /\ calls'[k].alone = b
    BY <1>3, <1>5
<1>7. \A j \in Calls : j # k =>
          /\ calls'[j].state = calls[j].state /\ calls'[j].id = calls[j].id
          /\ calls'[j].cid = calls[j].cid /\ calls'[j].ok = calls[j].ok
          /\ calls'[j].position = calls[j].position
          /\ calls'[j].alone <=> calls[j].alone /\ j \notin InFlight
    <2>1. \A j \in Calls : j # k => calls'[j] = Disturbed[j]
        BY <1>4, DisturbedIs
    <2> QED
        BY <2>1, DisturbedIs
<1>8. DataTypeOK'
    BY <1>4, <1>5, <1>6 DEF DataTypeOK
<1>9. CidsApart'
    BY <1>7, <1>5, <1>6 DEF CidsApart
<1>10. AloneInFlight'
    <2> SUFFICES ASSUME NEW j \in Calls, (j \in InFlight)', calls'[j].alone
                 PROVE  (/\ InFlight = {j} /\ clearing = NotClearing
                         /\ calls[j].id = IdOf(PositionOf(NoCid))
                         /\ calls[j].state = "found" => calls[j].position = PositionOf(NoCid))'
        BY DEF AloneInFlight
    <2>1. j = k
        BY <1>7 DEF InFlight
    <2>2. InFlight = {}
        BY <1>2, <1>6, <2>1
    <2>3. InFlight' = {k}
        BY <1>7, <1>5, <1>6, <2>2 DEF InFlight
    <2>4. i' = i
        BY <1>4, PositionOfSame
    <2> QED
        BY <1>4, <1>5, <1>6, <2>1, <2>3, <2>4 DEF IdOf
<1>11. AloneKept'
    BY <1>4, <1>7, <1>5, <1>6 DEF AloneKept
<1>12. Backed' /\ BackedAfterClear'
    <2>1. \A c \in Cids : Taken(c)' = Taken(c) /\ FailedWith(c)' = FailedWith(c)
                            /\ LiveWith(c)' = LiveWith(c)
        BY <1>4, <1>7, <1>5, <1>6, CountsSame DEF NoDataCall
    <2> QED
        BY <1>4, <2>1, BackedSame DEF BackedAfterClear
<1> QED
    BY <1>8, <1>9, <1>10, <1>11, <1>12

(* setupDataCallResponse finds the first free position.                    *)
LEMMA FindPositionStep ==
    ASSUME DataInv, NEW k \in Calls, NEW ok \in BOOLEAN, NEW cid \in Cids \cup {NoCid},
           FindPosition(k, ok, cid)
    PROVE  DataInv'
<1> DEFINE i == PositionOf(NoCid)
           r == [calls[k] EXCEPT !.state = "found", !.cid = cid, !.ok = ok, !.position = i]
<1> USE DEF DataInv
<1>1. i \in 0..Positions /\ (i = Positions \/ dataCallCids[i] = NoCid)
    BY PositionOfIs
<1>2. /\ UNCHANGED <<dataCallCids, failed, clearing>>
      /\ calls[k].state = "asked"
      /\ ok => cid # NoCid /\ \A j \in Calls : calls[j].ok => calls[j].cid # cid
      /\ calls' = [calls EXCEPT ![k] = r]
    BY DEF FindPosition
<1>3. /\ r \in CallRecord
      /\ r.state = "found" /\ r.cid = cid /\ r.ok = ok /\ r.position = i
      /\ r.id = calls[k].id /\ r.alone = calls[k].alone
    <2>1. calls[k] \in CallRecord
        BY DEF DataTypeOK
    <2>2. PICK x \in 0..Positions : x = i
        BY <1>1
    <2>3. r = [calls[k] EXCEPT !.state = "found", !.cid = cid, !.ok = ok, !.position = x]
        BY <2>2
    <2> HIDE DEF r
    <2> QED
        BY <2>1, <2>2, <2>3 DEF CallRecord
<1>4. calls' \in [Calls -> CallRecord] /\ \A j \in Calls : j # k => calls'[j] = calls[j]
    BY <1>2, <1>3 DEF DataTypeOK
<1>5. /\ calls'[k].state = "found" /\ calls'[k].cid = cid /\ calls'[k].ok = ok
      /\ calls'[k].position = i
      /\ calls'[k].id = calls[k].id /\ calls'[k].alone = calls[k].alone
    <2>1. calls'[k] = r
        BY <1>2 DEF DataTypeOK
    <2> QED
        BY <1>3, <2>1
<1>6. DataTypeOK'
    BY <1>2, <1>5, <1>4 DEF DataTypeOK
<1>7. CidsApart'
    BY <1>2, <1>5, <1>4 DEF CidsApart
<1>8. AloneInFlight'
    <2>1. InFlight' = InFlight
        BY <1>2, <1>5, <1>4 DEF InFlight
    <2>2. i' = i
        BY <1>2, PositionOfSame
    <2> QED
        BY <1>2, <1>5, <1>4, <2>1, <2>2 DEF AloneInFlight, IdOf
<1>9. AloneKept'
    <2>1. \A j \in Calls : calls[j].state = "live" /\ calls[j].alone /\ calls[j].id # 0
                             => calls[j].id - 1 # i
        <3> SUFFICES ASSUME NEW j \in Calls, calls[j].state = "live", calls[j].alone,
                            calls[j].id # 0, calls[j].id - 1 = i
                     PROVE  FALSE
            OBVIOUS
        <3>1. dataCallCids[i] \in Cids
            BY DEF AloneKept, CidsApart
        <3>2. calls[j].id \in 0..Positions
            BY DEF DataTypeOK, CallRecord
        <3> QED
            BY <1>1, <3>1, <3>2, DataCallsAssumption
    <2> QED
        BY <1>2, <1>5, <1>4, <2>1 DEF AloneKept
<1>10. Backed' /\ BackedAfterClear'
    <2>1. \A c : Taken(c)' = Taken(c) /\ FailedWith(c)' = FailedWith(c)
                            /\ LiveWith(c)' = LiveWith(c)
        BY <1>2, <1>5, <1>4, CountsSame
    <2>2. clearing # NotClearing => calls'[clearing.call].cid = calls[clearing.call].cid
        BY <1>2, <1>4 DEF DataTypeOK
    <2> QED
        BY <1>2, <2>1, <2>2, BackedSame DEF BackedAfterClear
<1> QED
    BY <1>6, <1>7, <1>8, <1>9, <1>10

(* A set-up that ends without a cid.                                       *)
LEMMA ShortResponseStep ==
    ASSUME DataInv, NEW k \in Calls, ShortResponse(k)
    PROVE  DataInv'
<1> USE DEF DataInv
<1>1. /\ UNCHANGED <<dataCallCids, failed, clearing>>
      /\ calls[k].state = "asked"
      /\ \A j \in Calls : j # k => calls'[j] = calls[j]
      /\ calls'[k] = NoDataCall /\ calls' = [calls EXCEPT ![k] = NoDataCall]
    BY DEF ShortResponse, DataTypeOK
<1>2. NoDataCall \in CallRecord /\ NoDataCall.state = "none" /\ ~NoDataCall.ok
    BY DataCallsAssumption DEF NoDataCall, CallRecord
<1>3. DataTypeOK'
    BY <1>1, <1>2 DEF DataTypeOK
<1>4. CidsApart'
    BY <1>1, <1>2 DEF CidsApart
<1>5. AloneInFlight'
    <2>1. InFlight' = InFlight \ {k} /\ k \in InFlight
        BY <1>1, <1>2 DEF InFlight
    <2>2. PositionOf(NoCid)' = PositionOf(NoCid)
        BY <1>1, PositionOfSame
    <2> QED
        BY <1>1, <2>1, <2>2 DEF AloneInFlight, IdOf
<1>6. AloneKept'
    BY <1>1, <1>2 DEF AloneKept
<1>7. Backed' /\ BackedAfterClear'
    <2>1. \A c : Taken(c)' = Taken(c) /\ FailedWith(c)' = FailedWith(c)
                            /\ LiveWith(c)' = LiveWith(c)
        BY <1>1, <1>2, CountsSame
    <2>2. clearing # NotClearing => calls'[clearing.call].cid = calls[clearing.call].cid
        BY <1>1 DEF DataTypeOK
    <2> QED
        BY <1>1, <2>1, <2>2, BackedSame DEF BackedAfterClear
<1> QED
    BY <1>3, <1>4, <1>5, <1>6, <1>7

(* deactivateDataCall finds the cid, or none of its positions is left.     *)
LEMMA DeactivateDataCallStep ==
    ASSUME DataInv, NEW k \in Calls, DeactivateDataCall(k)
    PROVE  DataInv'
<1> DEFINE c == calls[k].cid
           q == PositionOf(c)
<1> USE DEF DataInv
<1>1. /\ q \in 0..Positions /\ (q = Positions \/ dataCallCids[q] = c)
      /\ \A j \in 0..(q - 1) : dataCallCids[j] # c
    BY PositionOfIs
<1>2. /\ UNCHANGED <<dataCallCids, failed>> /\ clearing = NotClearing
      /\ calls[k].state = "live"
      /\ clearing' = [call |-> k, position |-> q]
      /\ calls' = Disturbed
    BY DEF DeactivateDataCall
<1>3. \A j \in Calls :
          /\ calls'[j].state = calls[j].state /\ calls'[j].id = calls[j].id
          /\ calls'[j].cid = calls[j].cid /\ calls'[j].ok = calls[j].ok
          /\ calls'[j].position = calls[j].position
          /\ calls'[j].alone <=> calls[j].alone /\ j \notin InFlight
    BY <1>2, DisturbedIs
<1>4. DataTypeOK'
    BY <1>1, <1>2, <1>3, DisturbedIs DEF DataTypeOK
<1>5. CidsApart'
    BY <1>2, <1>3 DEF CidsApart
<1>6. AloneInFlight'
    BY <1>3 DEF AloneInFlight, InFlight
<1>7. AloneKept'
    <2>1. \A j \in Calls : calls[j].state = "live" /\ calls[j].alone /\ calls[j].id # 0
                             /\ j # k => calls[j].id - 1 # q
        <3> SUFFICES ASSUME NEW j \in Calls, calls[j].state = "live", calls[j].alone,
                            calls[j].id # 0, j # k, calls[j].id - 1 = q
                     PROVE  FALSE
            OBVIOUS
        <3>1. dataCallCids[q] = calls[j].cid /\ calls[j].cid # c
            BY <1>2 DEF AloneKept, CidsApart
        <3>2. calls[j].id \in 0..Positions
            BY DEF DataTypeOK, CallRecord
        <3> QED
            BY <1>1, <3>1, <3>2, DataCallsAssumption
    <2> QED
        BY <1>2, <1>3, <2>1 DEF AloneKept
<1>8. \A e : Taken(e)' = Taken(e) /\ FailedWith(e)' = FailedWith(e) /\ LiveWith(e)' = LiveWith(e)
    BY <1>2, <1>3, CountsSame
<1>9. Backed'
    BY <1>8, BackedSame
<1>10. BackedAfterClear'
    <2>1. c \in Cids /\ k \in LiveWith(c)
        BY <1>2 DEF CidsApart, LiveWith
    <2>2. /\ Cardinality(Taken(c)) \in Nat /\ Cardinality(FailedWith(c)) \in Nat
          /\ Cardinality(LiveWith(c)) \in Nat /\ Cardinality(LiveWith(c)) # 0
          /\ Cardinality(Taken(c)) <= Cardinality(FailedWith(c)) + Cardinality(LiveWith(c))
        BY <2>1, CountedFinite, FS_CardinalityType, FS_EmptySet DEF Backed
    <2>3. Cardinality(Taken(c) \ {q}) < Cardinality(FailedWith(c)) + Cardinality(LiveWith(c))
        <3>1. CASE q = Positions
            <4>1. Taken(c) \ {q} = {}
                BY <1>1, <3>1, DataCallsAssumption DEF Taken
            <4> QED
                BY <2>2, <4>1, FS_EmptySet
        <3>2. CASE q # Positions
            <4>1. q \in Taken(c)
                BY <1>1, <3>2, DataCallsAssumption DEF Taken
            <4>2. Cardinality(Taken(c) \ {q}) = Cardinality(Taken(c)) - 1
                BY <4>1, CountedFinite, FS_RemoveElement
            <4> QED
                BY <2>2, <4>2
        <3> QED
            BY <3>1, <3>2
    <2>4. clearing'.call = k /\ clearing'.position = q /\ calls'[k].cid = c
        BY <1>2, <1>3
    <2> QED
        BY <1>8, <2>3, <2>4 DEF BackedAfterClear
<1> QED
    BY <1>4, <1>5, <1>6, <1>7, <1>9, <1>10

(* The array after a write at a position, which may be beyond it.          *)
LEMMA PutIs ==
    ASSUME DataTypeOK, NEW p \in 0..Positions, NEW v \in Cids \cup {NoCid},
           dataCallCids' = Put(p, v)
    PROVE  /\ dataCallCids' \in [0..(Positions - 1) -> Cids \cup {NoCid}]
           /\ \A i \in 0..(Positions - 1) : i # p => dataCallCids'[i] = dataCallCids[i]
           /\ p # Positions => p \in 0..(Positions - 1) /\ dataCallCids'[p] = v
BY DataCallsAssumption DEF DataTypeOK, Put

(* setupDataCallResponse stores the cid in the position it found.          *)
LEMMA StoreCidStep ==
    ASSUME DataInv, NEW k \in Calls, StoreCid(k)
    PROVE  DataInv'
<1> DEFINE c == calls[k]
           p == calls[k].position
           cid == calls[k].cid
<1> USE DEF DataInv
<1>1. /\ c \in CallRecord /\ c.state = "found" /\ p \in 0..Positions
      /\ cid \in Cids \cup {NoCid} /\ c.id \in 0..Positions
    BY DEF StoreCid, DataTypeOK, CallRecord
<1>2. /\ dataCallCids' = Put(p, cid) /\ UNCHANGED clearing
      /\ \/ /\ c.ok /\ UNCHANGED failed
            /\ calls' = [calls EXCEPT ![k].state = "live", ![k].position = 0]
         \/ /\ ~c.ok /\ calls' = [calls EXCEPT ![k] = NoDataCall]
            /\ \/ cid = NoCid /\ UNCHANGED failed
               \/ cid # NoCid /\ failed' = Append(failed, cid)
    BY DEF StoreCid
<1>3. /\ dataCallCids' \in [0..(Positions - 1) -> Cids \cup {NoCid}]
      /\ \A i \in 0..(Positions - 1) : i # p => dataCallCids'[i] = dataCallCids[i]
      /\ p # Positions => p \in 0..(Positions - 1) /\ dataCallCids'[p] = cid
    BY <1>1, <1>2, PutIs
<1>4. \A j \in Calls : j # k => calls'[j] = calls[j]
    BY <1>2 DEF DataTypeOK
<1>5. ASSUME c.ok
      PROVE  /\ calls' \in [Calls -> CallRecord] /\ UNCHANGED failed /\ cid \in Cids
             /\ calls'[k].state = "live" /\ calls'[k].cid = cid /\ calls'[k].ok
             /\ calls'[k].id = c.id /\ (calls'[k].alone <=> c.alone)
    <2> DEFINE r == [calls[k] EXCEPT !.state = "live", !.position = 0]
    <2>1. /\ r \in CallRecord /\ r.state = "live" /\ r.cid = cid /\ r.ok = c.ok
          /\ r.id = c.id /\ r.alone = c.alone
        <3>1. PICK x \in CallRecord : x = calls[k]
            BY <1>1
        <3>2. r = [x EXCEPT !.state = "live", !.position = 0]
            BY <3>1
        <3> HIDE DEF r
        <3>3. /\ r \in CallRecord /\ r.state = "live" /\ r.cid = x.cid /\ r.ok = x.ok
              /\ r.id = x.id /\ r.alone = x.alone
            <4>1. 0 \in 0..Positions
                BY DataCallsAssumption
            <4> QED
                BY <3>2, <4>1 DEF CallRecord
        <3> QED
            BY <3>1, <3>3
    <2>2. calls' = [calls EXCEPT ![k] = r] /\ calls \in [Calls -> CallRecord]
        BY <1>2, <1>5 DEF DataTypeOK
    <2> HIDE DEF r
    <2>3. calls' \in [Calls -> CallRecord] /\ calls'[k] = r
        BY <2>1, <2>2
    <2>4. UNCHANGED failed /\ cid \in Cids
        BY <1>2, <1>5 DEF CidsApart
    <2> QED
        BY <1>5, <2>1, <2>3, <2>4
<1>6. ASSUME ~c.ok
      PROVE  /\ calls' \in [Calls -> CallRecord] /\ calls'[k] = NoDataCall
             /\ calls'[k].state = "none" /\ ~calls'[k].ok
    <2>1. NoDataCall \in CallRecord /\ NoDataCall.state = "none" /\ ~NoDataCall.ok
        BY DataCallsAssumption DEF NoDataCall, CallRecord
    <2> QED
        BY <1>2, <1>6, <2>1 DEF DataTypeOK
<1>7. clearing # NotClearing => /\ clearing.call \in Calls /\ clearing.call # k
                                /\ calls[clearing.call].state = "live"
                                /\ calls'[clearing.call] = calls[clearing.call]
    BY <1>1, <1>4 DEF DataTypeOK
<1>8. DataTypeOK'
    <2>1. failed' \in Seq(Cids)
        <3>1. cid # NoCid => cid \in Cids
            BY <1>1
        <3>2. failed \in Seq(Cids)
            BY DEF DataTypeOK
        <3>3. \/ UNCHANGED failed
              \/ cid # NoCid /\ failed' = Append(failed, cid)
            BY <1>2
        <3> QED
            BY <3>1, <3>2, <3>3
    <2>2. calls' \in [Calls -> CallRecord]
        BY <1>5, <1>6
    <2> QED
        BY <1>2, <1>3, <1>7, <2>1, <2>2 DEF DataTypeOK
<1>9. CidsApart'
    BY <1>1, <1>4, <1>5, <1>6 DEF CidsApart
<1>10. InFlight' = InFlight \ {k} /\ k \in InFlight
    BY <1>1, <1>4, <1>5, <1>6 DEF InFlight
<1>11. AloneInFlight'
    BY <1>4, <1>10 DEF AloneInFlight
<1>12. AloneKept'
    <2> SUFFICES ASSUME NEW j \in Calls, calls'[j].state = "live", calls'[j].alone,
                        calls'[j].id # 0
                 PROVE  (/\ dataCallCids[calls[j].id - 1] = calls[j].cid
                         /\ \A m \in Calls : calls[m].state = "found"
                                               => calls[m].position # calls[j].id - 1
                         /\ clearing # NotClearing /\ clearing.call # j
                              => clearing.position # calls[j].id - 1)'
        BY DEF AloneKept
    <2>1. CASE j # k
        <3>1. calls[j].id - 1 \in 0..(Positions - 1)
            BY <1>4, <2>1, DataCallsAssumption DEF DataTypeOK, CallRecord
        <3>2. p # calls[j].id - 1
            BY <1>1, <1>4, <2>1 DEF AloneKept
        <3>3. \A m \in Calls : calls'[m].state = "found" => calls[m].state = "found" /\ m # k
            BY <1>4, <1>5, <1>6
        <3> QED
            BY <1>2, <1>3, <1>4, <2>1, <3>1, <3>2, <3>3 DEF AloneKept
    <2>2. CASE j = k
        <3>1. /\ c.ok /\ c.alone /\ c.id # 0 /\ calls'[k].id = c.id /\ calls'[k].cid = cid
              /\ calls'[k].state = "live"
            BY <1>5, <1>6, <2>2
        <3>2. InFlight = {k} /\ clearing = NotClearing /\ c.id = IdOf(p)
            BY <1>1, <1>10, <3>1 DEF AloneInFlight
        <3>3. p # Positions /\ c.id - 1 = p
            BY <1>1, <3>1, <3>2, DataCallsAssumption DEF IdOf
        <3>4. \A m \in Calls : calls'[m].state # "found"
            BY <1>4, <3>1, <3>2 DEF InFlight
        <3> QED
            BY <1>2, <1>3, <2>2, <3>1, <3>2, <3>3, <3>4
    <2> QED
        BY <2>1, <2>2
<1>13. ASSUME NEW e \in Cids
       PROVE  /\ Cardinality(FailedWith(e)) \in Nat /\ Cardinality(FailedWith(e)') \in Nat
              /\ Cardinality(LiveWith(e)) \in Nat /\ Cardinality(LiveWith(e)') \in Nat
              /\ Cardinality(FailedWith(e)') + Cardinality(LiveWith(e)')
                   = Cardinality(FailedWith(e)) + Cardinality(LiveWith(e))
                       + (IF e = cid THEN 1 ELSE 0)
    <2>1. /\ IsFiniteSet(FailedWith(e)) /\ Cardinality(FailedWith(e)) \in Nat
          /\ IsFiniteSet(LiveWith(e)) /\ Cardinality(LiveWith(e)) \in Nat
        BY CountedFinite, FS_CardinalityType
    <2>2. k \notin LiveWith(e)
        BY <1>1 DEF LiveWith
    <2>3. CASE c.ok
        <3>1. FailedWith(e)' = FailedWith(e)
            BY <1>5, <2>3 DEF FailedWith
        <3>2. LiveWith(e)' = IF e = cid THEN LiveWith(e) \cup {k} ELSE LiveWith(e)
            BY <1>4, <1>5, <2>3, <2>2 DEF LiveWith
        <3>3. /\ IsFiniteSet(LiveWith(e) \cup {k})
              /\ Cardinality(LiveWith(e) \cup {k}) = Cardinality(LiveWith(e)) + 1
            BY <2>1, <2>2, FS_AddElement
        <3> QED
            BY <2>1, <3>1, <3>2, <3>3
    <2>4. CASE ~c.ok
        <3>1. LiveWith(e)' = LiveWith(e)
            BY <1>1, <1>4, <1>6, <2>4 DEF LiveWith
        <3>2. CASE cid = NoCid
            <4>1. FailedWith(e)' = FailedWith(e) /\ e # cid
                BY <1>2, <2>4, <3>2, DataCallsAssumption DEF FailedWith
            <4> QED
                BY <2>1, <3>1, <4>1
        <3>3. CASE cid # NoCid
            <4> DEFINE n == Len(failed) + 1
            <4>1. failed' = Append(failed, cid) /\ failed \in Seq(Cids)
                BY <1>2, <2>4, <3>3 DEF DataTypeOK
            <4>2. /\ DOMAIN failed' = DOMAIN failed \cup {n} /\ n \notin DOMAIN failed
                  /\ failed'[n] = cid /\ \A f \in DOMAIN failed : failed'[f] = failed[f]
                BY <4>1
            <4>3. FailedWith(e)' = IF e = cid THEN FailedWith(e) \cup {n} ELSE FailedWith(e)
                BY <4>2 DEF FailedWith
            <4>4. /\ IsFiniteSet(FailedWith(e) \cup {n})
                  /\ Cardinality(FailedWith(e) \cup {n}) = Cardinality(FailedWith(e)) + 1
                BY <2>1, <4>2, FS_AddElement DEF FailedWith
            <4> QED
                BY <2>1, <3>1, <4>3, <4>4
        <3> QED
            BY <3>2, <3>3
    <2> QED
        BY <2>3, <2>4
<1>14. ASSUME NEW e \in Cids
       PROVE  /\ e # cid => Taken(e)' \subseteq Taken(e)
              /\ Taken(e)' \subseteq Taken(e) \cup {p}
    BY <1>1, <1>3 DEF Taken
<1>15. ASSUME NEW e \in Cids, NEW q
       PROVE  /\ Cardinality(Taken(e) \ {q}) \in Nat /\ Cardinality(Taken(e)' \ {q}) \in Nat
              /\ Cardinality(Taken(e)' \ {q})
                   <= Cardinality(Taken(e) \ {q}) + (IF e = cid THEN 1 ELSE 0)
    <2>1. IsFiniteSet(Taken(e) \ {q})
        BY CountedFinite, SizeSubset
    <2>2. Taken(e)' \ {q} \subseteq (Taken(e) \ {q}) \cup {p}
        BY <1>14
    <2>3. e # cid => Taken(e)' \ {q} \subseteq Taken(e) \ {q}
        BY <1>14
    <2>4. /\ Cardinality(Taken(e)' \ {q}) \in Nat /\ Cardinality(Taken(e) \ {q}) \in Nat
          /\ Cardinality(Taken(e)' \ {q}) <= Cardinality(Taken(e) \ {q}) + 1
        BY <2>1, <2>2, SizeGrow
    <2>5. e # cid => Cardinality(Taken(e)' \ {q}) <= Cardinality(Taken(e) \ {q})
        BY <2>1, <2>3, SizeSubset
    <2> QED
        BY <2>4, <2>5
<1>16. Backed'
    <2> SUFFICES ASSUME NEW e \in Cids
                 PROVE  Cardinality(Taken(e)')
                          <= Cardinality(FailedWith(e)') + Cardinality(LiveWith(e)')
        BY DEF Backed
    <2>1. Cardinality(Taken(e)) <= Cardinality(FailedWith(e)) + Cardinality(LiveWith(e))
        BY DEF Backed
    <2>2. /\ Cardinality(Taken(e)) \in Nat /\ Cardinality(Taken(e)') \in Nat
          /\ Cardinality(Taken(e)') <= Cardinality(Taken(e)) + (IF e = cid THEN 1 ELSE 0)
        <3>1. Taken(e) \ {-1} = Taken(e) /\ Taken(e)' \ {-1} = Taken(e)'
            BY DEF Taken
        <3> QED
            BY <1>15, <3>1
    <2> QED
        BY ONLY <1>13, <2>1, <2>2, e \in Cids
<1>17. ASSUME clearing # NotClearing, NEW e, e = calls[clearing.call].cid
       PROVE  Cardinality(Taken(e)' \ {clearing.position})
                < Cardinality(FailedWith(e)') + Cardinality(LiveWith(e)')
    <2>1. e \in Cids
        BY <1>7, <1>17 DEF CidsApart
    <2>2. Cardinality(Taken(e) \ {clearing.position})
            < Cardinality(FailedWith(e)) + Cardinality(LiveWith(e))
        BY <1>17 DEF BackedAfterClear
    <2>3. /\ Cardinality(Taken(e) \ {clearing.position}) \in Nat
          /\ Cardinality(Taken(e)' \ {clearing.position}) \in Nat
          /\ Cardinality(Taken(e)' \ {clearing.position})
               <= Cardinality(Taken(e) \ {clearing.position}) + (IF e = cid THEN 1 ELSE 0)
        BY <1>15, <2>1
    <2> QED
        BY ONLY <1>13, <2>1, <2>2, <2>3
<1>18. BackedAfterClear'
    BY <1>2, <1>7, <1>17 DEF BackedAfterClear
<1> QED
    BY <1>8, <1>9, <1>11, <1>12, <1>16, <1>18

(* deactivateDataCall clears the position it found.                        *)
LEMMA ClearCidStep ==
    ASSUME DataInv, ClearCid
    PROVE  DataInv'
<1> USE DEF DataInv
<1>1. PICK m \in Calls, q \in 0..Positions :
          /\ clearing.call = m /\ clearing.position = q
          /\ calls[m].state = "live" /\ clearing # NotClearing
    BY DEF ClearCid, DataTypeOK
<1>2. /\ dataCallCids' = Put(q, NoCid) /\ clearing' = NotClearing /\ UNCHANGED failed
      /\ calls' = [calls EXCEPT ![m] = NoDataCall]
    BY <1>1 DEF ClearCid
<1>3. /\ dataCallCids' \in [0..(Positions - 1) -> Cids \cup {NoCid}]
      /\ \A i \in 0..(Positions - 1) : i # q => dataCallCids'[i] = dataCallCids[i]
      /\ q # Positions => q \in 0..(Positions - 1) /\ dataCallCids'[q] = NoCid
    BY <1>2, PutIs
<1>4. NoDataCall \in CallRecord /\ NoDataCall.state = "none" /\ ~NoDataCall.ok
    BY DataCallsAssumption DEF NoDataCall, CallRecord
<1>5. /\ calls' \in [Calls -> CallRecord] /\ calls'[m] = NoDataCall
      /\ \A j \in Calls : j # m => calls'[j] = calls[j]
    BY <1>2, <1>4 DEF DataTypeOK
<1>6. DataTypeOK'
    BY <1>2, <1>3, <1>5 DEF DataTypeOK
<1>7. CidsApart'
    BY <1>4, <1>5 DEF CidsApart
<1>8. AloneInFlight'
    <2>1. InFlight' = InFlight
        BY <1>1, <1>4, <1>5 DEF InFlight
    <2>2. \A j \in Calls : j \in InFlight => ~calls[j].alone /\ calls'[j] = calls[j]
        BY <1>1, <1>5 DEF AloneInFlight, InFlight
    <2> QED
        BY <2>1, <2>2 DEF AloneInFlight
<1>9. AloneKept'
    <2> SUFFICES ASSUME NEW j \in Calls, calls'[j].state = "live", calls'[j].alone,
                        calls'[j].id # 0
                 PROVE  (/\ dataCallCids[calls[j].id - 1] = calls[j].cid
                         /\ \A n \in Calls : calls[n].state = "found"
                                               => calls[n].position # calls[j].id - 1)'
        BY <1>2 DEF AloneKept
    <2>1. j # m /\ calls'[j] = calls[j]
        BY <1>4, <1>5
    <2>2. calls[j].id - 1 \in 0..(Positions - 1)
        BY <2>1, DataCallsAssumption DEF DataTypeOK, CallRecord
    <2>3. q # calls[j].id - 1
        BY <1>1, <2>1 DEF AloneKept
    <2>4. \A n \in Calls : calls'[n].state = "found" => calls'[n] = calls[n]
        BY <1>4, <1>5
    <2> QED
        BY <1>3, <2>1, <2>2, <2>3, <2>4 DEF AloneKept
<1>10. ASSUME NEW e \in Cids
       PROVE  Cardinality(Taken(e)') <= Cardinality(FailedWith(e)') + Cardinality(LiveWith(e)')
    <2>1. IsFiniteSet(Taken(e)) /\ IsFiniteSet(LiveWith(e)) /\ IsFiniteSet(FailedWith(e))
        BY CountedFinite
    <2>2. /\ FailedWith(e)' = FailedWith(e)
          /\ Taken(e)' \subseteq Taken(e) \ {q}
        BY <1>2, <1>3, DataCallsAssumption DEF FailedWith, Taken
    <2>3. /\ IsFiniteSet(Taken(e) \ {q}) /\ Cardinality(Taken(e) \ {q}) \in Nat
          /\ Cardinality(Taken(e) \ {q}) <= Cardinality(Taken(e))
          /\ Cardinality(Taken(e)) \in Nat
        BY <2>1, SizeSubset
    <2>4. Cardinality(Taken(e)') \in Nat /\ Cardinality(Taken(e)') <= Cardinality(Taken(e) \ {q})
        BY <2>2, <2>3, SizeSubset
    <2>5. Cardinality(FailedWith(e)) \in Nat /\ Cardinality(LiveWith(e)) \in Nat
        BY <2>1, FS_CardinalityType
    <2>6. CASE e = calls[m].cid
        <3>1. m \in LiveWith(e) /\ LiveWith(e)' = LiveWith(e) \ {m}
            BY <1>1, <1>4, <1>5, <2>6 DEF LiveWith
        <3>2. Cardinality(LiveWith(e)') = Cardinality(LiveWith(e)) - 1
            BY <2>1, <3>1, FS_RemoveElement
        <3>3. Cardinality(Taken(e) \ {q}) < Cardinality(FailedWith(e)) + Cardinality(LiveWith(e))
            BY <1>1, <2>6 DEF BackedAfterClear
        <3> QED
            BY <2>2, <2>3, <2>4, <2>5, <3>2, <3>3
    <2>7. CASE e # calls[m].cid
        <3>1. LiveWith(e)' = LiveWith(e)
            BY <1>4, <1>5, <2>7 DEF LiveWith
        <3>2. Cardinality(Taken(e)) <= Cardinality(FailedWith(e)) + Cardinality(LiveWith(e))
            BY DEF Backed
        <3> QED
            BY <2>2, <2>3, <2>4, <2>5, <3>1, <3>2
    <2> QED
        BY <2>6, <2>7
<1>11. Backed' /\ BackedAfterClear'
    BY <1>2, <1>10 DEF Backed, BackedAfterClear
<1> QED
    BY <1>6, <1>7, <1>8, <1>9, <1>11

LEMMA StutterStep ==
    ASSUME DataInv, UNCHANGED dataVars
    PROVE  DataInv'
<1> USE DEF dataVars
<1>1. DataTypeOK' /\ CidsApart' /\ AloneKept'
    BY DEF DataInv, DataTypeOK, CidsApart, AloneKept
<1>2. AloneInFlight'
    <2>1. PositionOf(NoCid)' = PositionOf(NoCid) /\ InFlight' = InFlight
        BY PositionOfSame DEF InFlight
    <2> QED
        BY <2>1 DEF DataInv, AloneInFlight, IdOf
<1>3. \A c : Taken(c)' = Taken(c) /\ FailedWith(c)' = FailedWith(c) /\ LiveWith(c)' = LiveWith(c)
    BY DEF Taken, FailedWith, LiveWith
<1>4. Backed' /\ BackedAfterClear'
    BY <1>3, BackedSame DEF DataInv, BackedAfterClear
<1> QED
    BY <1>1, <1>2, <1>4 DEF DataInv

(* DataInv is an inductive invariant of the data calls of this device,     *)
(* setupDataCall, setupDataCallResponse and deactivateDataCall, for every  *)
(* number of positions and of calls.                                       *)
THEOREM DataInductive == DataSpec => []DataInv
<1>1. DataInit => DataInv
    BY InitInv
<1>2. DataInv /\ [DataNext]_dataVars => DataInv'
    <2> SUFFICES ASSUME DataInv, [DataNext]_dataVars PROVE DataInv'
        OBVIOUS
    <2>1. CASE \E k \in Calls : SetupDataCall(k)
        BY <2>1, SetupDataCallStep
    <2>2. CASE \E k \in Calls, ok \in BOOLEAN, cid \in Cids \cup {NoCid} : FindPosition(k, ok, cid)
        BY <2>2, FindPositionStep
    <2>3. CASE \E k \in Calls : StoreCid(k)
        BY <2>3, StoreCidStep
    <2>4. CASE \E k \in Calls : ShortResponse(k)
        BY <2>4, ShortResponseStep
    <2>5. CASE \E k \in Calls : DeactivateDataCall(k)
        BY <2>5, DeactivateDataCallStep
    <2>6. CASE ClearCid
        BY <2>6, ClearCidStep
    <2>7. CASE UNCHANGED dataVars
        BY <2>7, StutterStep
    <2> QED
        BY <2>1, <2>2, <2>3, <2>4, <2>5, <2>6, <2>7 DEF DataNext
<1> QED
    BY <1>1, <1>2, PTL DEF DataSpec

(* However many positions the array has and however many calls there are:  *)
(* two calls whose set-ups met no other set-up and no deactivation have    *)
(* different interfaces (setupDataCall).                                   *)
THEOREM OwnInterfaces == DataSpec => []OwnInterface
<1>1. DataInv => OwnInterface
    <2> SUFFICES ASSUME DataInv, NEW j \in Asking, NEW k \in Asking, j # k,
                        calls[j].alone, calls[k].alone, calls[j].id # 0,
                        calls[j].id = calls[k].id
                 PROVE  FALSE
        BY DEF OwnInterface
    <2> USE DEF DataInv
    <2> DEFINE i == PositionOf(NoCid)
    <2>1. /\ j \in Calls /\ k \in Calls
          /\ j \in InFlight \/ calls[j].state = "live"
          /\ k \in InFlight \/ calls[k].state = "live"
        BY DEF Asking, InFlight
    <2>2. ~(j \in InFlight /\ k \in InFlight)
        BY <2>1 DEF AloneInFlight
    <2>3. ~(calls[j].state = "live" /\ calls[k].state = "live")
        BY <2>1 DEF AloneKept, CidsApart
    <2>4. ASSUME NEW x \in Calls, NEW y \in Calls, x \in InFlight, calls[x].alone,
                 calls[y].state = "live", calls[y].alone, calls[y].id = calls[x].id,
                 calls[y].id # 0
          PROVE  FALSE
        <3>1. calls[x].id = IdOf(i)
            BY <2>4 DEF AloneInFlight
        <3>2. i \in 0..Positions /\ (i = Positions \/ dataCallCids[i] = NoCid)
            BY PositionOfIs
        <3>3. dataCallCids[i] = NoCid /\ calls[y].id - 1 = i
            BY <2>4, <3>1, <3>2, DataCallsAssumption DEF IdOf
        <3>4. dataCallCids[i] \in Cids
            BY <2>4, <3>3 DEF AloneKept, CidsApart
        <3> QED
            BY <3>3, <3>4, DataCallsAssumption
    <2> QED
        BY <2>1, <2>2, <2>3, <2>4
<1> QED
    BY <1>1, DataInductive, PTL

(* A position of dataCallCids is taken only for a call that is set up, or  *)
(* for a failed set-up, however setupDataCallResponse and                  *)
(* deactivateDataCall interleave.                                          *)
THEOREM PositionsStayBacked == DataSpec => []PositionsBacked
<1>1. DataInv => PositionsBacked
    BY DEF DataInv, Backed, PositionsBacked, Taken, FailedWith, LiveWith
<1> QED
    BY <1>1, DataInductive, PTL

-----------------------------------------------------------------------------
(* InitialAttach *)

(* Every variable the proofs look at has its type; only the HIDL thread    *)
(* stores, and a vendor thread never takes s_lastIaMutex.                  *)
AttachTypeOK ==
    /\ s_lastIaMutex \in Threads \cup {NoOwner}
    /\ s_lastIaValid \in [Slots -> BOOLEAN]
    /\ s_lastIa \in [Slots -> Settings]
    /\ modemApn \in [Slots -> Settings]
    /\ pc \in [Threads -> {"idle", "lock", "store", "storeFlags", "copy", "copyFlags",
                           "convert", "send", "sent", "raise"}]
    /\ pc["hidl"] \notin {"copy", "copyFlags", "raise"}
    /\ pc["loop"] \notin {"store", "storeFlags", "raise"}
    /\ pc["vendor"] \in {"idle", "raise", "sent"}
    /\ slot \in [Threads -> Slots]
    /\ carried \in [Threads -> Settings]
    /\ apns \in 0 .. MaxApns

(* The code between the lock and the unlock of s_lastIaMutex.              *)
InIaSection(t) == pc[t] \in {"store", "storeFlags", "copy", "copyFlags"}

(* The thread in the section is the owner of the mutex.                    *)
IaOwner == \A t \in Threads : InIaSection(t) <=> s_lastIaMutex = t

Whole(a) == a[1] = a[2]

(* The kept settings are whole but for the slot that is being stored,      *)
(* whose first field is already the new one.                               *)
KeptWhole ==
    \A s \in Slots :
        IF pc["hidl"] = "storeFlags" /\ slot["hidl"] = s
          THEN s_lastIa[s][1] = carried["hidl"][1]
          ELSE Whole(s_lastIa[s])

(* What a thread carries is whole, but for the loop's half of a copy,      *)
(* which is the first field of the settings it is copying.                 *)
CarriedWhole ==
    \A t \in Threads :
        IF pc[t] = "copyFlags" THEN carried[t][1] = s_lastIa[slot[t]][1]
                               ELSE Whole(carried[t])

(* The HIDL thread carries the newest settings, and has stored them once   *)
(* it is through the section.                                              *)
NewestCarried ==
    apns > 0 =>
        /\ carried["hidl"] = <<apns, apns>>
        /\ pc["hidl"] = "storeFlags" => s_lastIa[slot["hidl"]][1] = apns
        /\ pc["hidl"] \notin {"lock", "store", "storeFlags"}
             => s_lastIa[slot["hidl"]] = <<apns, apns>>

AttachInv ==
    /\ AttachTypeOK
    /\ IaOwner
    /\ KeptWhole
    /\ CarriedWhole
    /\ NewestCarried
    /\ WholeApn

-----------------------------------------------------------------------------
USE DEF Threads, NoOwner, EmptyApn, Settings, Whole, InIaSection

(* Writing one field of a pair of settings keeps the other.                *)
LEMMA PairWrite ==
    ASSUME NEW a \in Settings, NEW x \in 0 .. MaxApns
    PROVE  /\ [a EXCEPT ![1] = x] = <<x, a[2]>>
           /\ [a EXCEPT ![2] = x] = <<a[1], x>>
           /\ <<x, a[2]>> \in Settings /\ <<a[1], x>> \in Settings
OBVIOUS

(* The initial state.                                                      *)
LEMMA AttachInitInv == AttachInit => AttachInv
<1> SUFFICES ASSUME AttachInit PROVE AttachInv
    OBVIOUS
<1>1. (CHOOSE s \in Slots : TRUE) \in Slots
    BY SlotsAssumption
<1>2. AttachTypeOK
    BY <1>1, AttachAssumption DEF AttachInit, AttachTypeOK
<1>3. IaOwner
    BY DEF AttachInit, IaOwner
<1>4. KeptWhole /\ CarriedWhole /\ WholeApn
    BY DEF AttachInit, KeptWhole, CarriedWhole, WholeApn
<1>5. ~(apns > 0)
    BY DEF AttachInit
<1>6. NewestCarried
    BY <1>5 DEF NewestCarried
<1> QED
    BY <1>2, <1>3, <1>4, <1>6 DEF AttachInv

(* The framework's new settings are carried whole.                         *)
LEMMA SetInitialAttachApnStep ==
    ASSUME AttachInv, NEW s \in Slots, SetInitialAttachApn(s)
    PROVE  AttachInv'
<1> USE DEF AttachInv, SetInitialAttachApn
<1>1. AttachTypeOK'
    BY AttachAssumption DEF AttachTypeOK
<1>2. IaOwner'
    BY DEF IaOwner
<1>3. KeptWhole' /\ CarriedWhole' /\ WholeApn'
    BY DEF KeptWhole, CarriedWhole, WholeApn
<1>4. NewestCarried'
    BY DEF AttachTypeOK, NewestCarried
<1> QED
    BY <1>1, <1>2, <1>3, <1>4

(* A thread enters the section when nobody is in it.                       *)
LEMMA LockIaStep ==
    ASSUME AttachInv, NEW t \in Threads, LockIa(t)
    PROVE  AttachInv'
<1> USE DEF AttachInv, LockIa
<1>1. AttachTypeOK'
    BY DEF AttachTypeOK
<1>2. IaOwner'
    BY DEF AttachTypeOK, IaOwner
<1>3. KeptWhole' /\ CarriedWhole' /\ WholeApn'
    BY DEF KeptWhole, CarriedWhole, WholeApn
<1>4. NewestCarried'
    BY DEF NewestCarried
<1> QED
    BY <1>1, <1>2, <1>3, <1>4

(* The two stores, and the unlock with the second.                         *)
LEMMA StoreIaStep ==
    ASSUME AttachInv, StoreIa
    PROVE  AttachInv'
<1> DEFINE s == slot["hidl"]
           x == carried["hidl"]
<1> USE DEF AttachInv
<1>1. s \in Slots /\ x \in Settings /\ x[1] \in 0 .. MaxApns /\ x[2] = x[1]
    BY DEF AttachTypeOK, CarriedWhole
<1>2. s_lastIa[s] \in Settings
    BY DEF AttachTypeOK
<1>3. CASE pc["hidl"] = "store"
    <2>1. s_lastIa' = [s_lastIa EXCEPT ![s] = <<x[1], s_lastIa[s][2]>>]
        BY <1>2, <1>3 DEF StoreIa
    <2>7. <<x[1], s_lastIa[s][2]>> \in Settings
        BY <1>1, <1>2
    <2>8. s_lastIa' \in [Slots -> Settings]
        BY <2>1 DEF AttachTypeOK
    <2>2. AttachTypeOK'
        BY <1>3, <2>8 DEF StoreIa, AttachTypeOK
    <2>3. IaOwner'
        BY DEF StoreIa, AttachTypeOK, IaOwner
    <2>4. KeptWhole' /\ CarriedWhole' /\ WholeApn'
        BY DEF StoreIa, AttachTypeOK, IaOwner, KeptWhole, CarriedWhole, WholeApn
    <2>5. NewestCarried'
        BY DEF StoreIa, AttachTypeOK, NewestCarried
    <2> QED
        BY <2>2, <2>3, <2>4, <2>5
<1>4. CASE pc["hidl"] = "storeFlags"
    <2>1. s_lastIa' = [s_lastIa EXCEPT ![s] = <<s_lastIa[s][1], x[2]>>]
        BY <1>2, <1>4 DEF StoreIa
    <2>7. <<s_lastIa[s][1], x[2]>> \in Settings
        BY <1>1, <1>2
    <2>8. s_lastIa' \in [Slots -> Settings]
        BY <2>1 DEF AttachTypeOK
    <2>9. /\ s_lastIaMutex' = NoOwner
          /\ s_lastIaValid' = [s_lastIaValid EXCEPT ![s] = TRUE]
          /\ pc' = [pc EXCEPT !["hidl"] = "convert"]
          /\ UNCHANGED <<modemApn, slot, carried, apns>>
        BY <1>4 DEF StoreIa
    <2>10. s_lastIaValid' \in [Slots -> BOOLEAN]
        BY <2>9 DEF AttachTypeOK
    <2>2. AttachTypeOK'
        BY <2>8, <2>9 DEF AttachTypeOK
    <2>3. IaOwner'
        BY DEF StoreIa, AttachTypeOK, IaOwner
    <2>4. s_lastIa[s][1] = x[1]
        BY <1>1, <1>4 DEF KeptWhole
    <2>5. KeptWhole' /\ CarriedWhole' /\ WholeApn'
        BY <2>1 DEF StoreIa, AttachTypeOK, KeptWhole, CarriedWhole, WholeApn
    <2>6. NewestCarried'
        BY DEF StoreIa, AttachTypeOK, NewestCarried
    <2> QED
        BY <2>2, <2>3, <2>5, <2>6
<1> QED
    BY <1>3, <1>4 DEF StoreIa

(* The two reads, and the unlock with the last.                            *)
LEMMA CopyIaStep ==
    ASSUME AttachInv, NEW t \in Threads, CopyIa(t)
    PROVE  AttachInv'
<1> DEFINE a == s_lastIa[slot[t]]
<1> USE DEF AttachInv
<1>1. a \in Settings /\ a[1] \in 0 .. MaxApns /\ a[2] \in 0 .. MaxApns
    BY DEF AttachTypeOK
<1>2. t # "hidl" /\ carried[t] \in Settings
    BY DEF CopyIa, AttachTypeOK
<1>3. AttachTypeOK'
    <2>1. CASE pc[t] = "copy" /\ ~s_lastIaValid[slot[t]]
        <3>1. /\ carried' = [carried EXCEPT ![t] = EmptyApn] /\ s_lastIaMutex' = NoOwner
              /\ pc' = [pc EXCEPT ![t] = "convert"]
            BY <2>1 DEF CopyIa
        <3>2. EmptyApn \in Settings
            BY AttachAssumption DEF EmptyApn, Settings
        <3> QED
            BY <3>1, <3>2 DEF CopyIa, AttachTypeOK
    <2>2. CASE pc[t] = "copy" /\ s_lastIaValid[slot[t]]
        <3>1. carried' = [carried EXCEPT ![t] = <<a[1], carried[t][2]>>]
            BY <1>2, <2>2 DEF CopyIa
        <3>2. <<a[1], carried[t][2]>> \in Settings
            BY <1>1, <1>2
        <3>3. carried' \in [Threads -> Settings]
            BY <3>1 DEF AttachTypeOK
        <3> QED
            BY <2>2 DEF CopyIa, AttachTypeOK
    <2>3. CASE pc[t] = "copyFlags"
        <3>1. carried' = [carried EXCEPT ![t] = <<carried[t][1], a[2]>>]
            BY <1>2, <2>3 DEF CopyIa
        <3>2. <<carried[t][1], a[2]>> \in Settings
            BY <1>1, <1>2
        <3>3. carried' \in [Threads -> Settings]
            BY <3>1 DEF AttachTypeOK
        <3> QED
            BY <2>3 DEF CopyIa, AttachTypeOK
    <2> QED
        BY <2>1, <2>2, <2>3 DEF CopyIa
<1>4. IaOwner'
    BY DEF CopyIa, AttachTypeOK, IaOwner
<1>5. KeptWhole' /\ CarriedWhole' /\ WholeApn'
    BY DEF CopyIa, AttachTypeOK, IaOwner, KeptWhole, CarriedWhole, WholeApn
<1>6. NewestCarried'
    BY DEF CopyIa, AttachTypeOK, NewestCarried
<1> QED
    BY <1>3, <1>4, <1>5, <1>6

(* Nothing is stored when the settings are sent again.                     *)
LEMMA ConvertStep ==
    ASSUME AttachInv, NEW t \in Threads, Convert(t)
    PROVE  AttachInv'
<1> USE DEF AttachInv, Convert
<1>1. AttachTypeOK'
    BY DEF AttachTypeOK
<1>2. IaOwner'
    BY DEF AttachTypeOK, IaOwner
<1>3. KeptWhole' /\ CarriedWhole' /\ WholeApn'
    BY DEF AttachTypeOK, KeptWhole, CarriedWhole, WholeApn
<1>4. NewestCarried'
    BY DEF AttachTypeOK, NewestCarried
<1> QED
    BY <1>1, <1>2, <1>3, <1>4

(* The modem is given what the thread carries.                             *)
LEMMA OnRequestStep ==
    ASSUME AttachInv, NEW t \in Threads, OnRequest(t)
    PROVE  AttachInv'
<1> USE DEF AttachInv, OnRequest
<1>1. AttachTypeOK'
    BY DEF AttachTypeOK
<1>2. IaOwner'
    BY DEF IaOwner
<1>3. KeptWhole' /\ CarriedWhole' /\ WholeApn'
    BY DEF KeptWhole, CarriedWhole, WholeApn
<1>4. NewestCarried'
    BY DEF NewestCarried
<1> QED
    BY <1>1, <1>2, <1>3, <1>4

(* The vendor RIL returns.                                                 *)
LEMMA OnRequestReturnsStep ==
    ASSUME AttachInv, NEW t \in Threads, OnRequestReturns(t)
    PROVE  AttachInv'
<1> USE DEF AttachInv, OnRequestReturns
<1>1. AttachTypeOK'
    BY DEF AttachTypeOK
<1>2. IaOwner'
    BY DEF IaOwner
<1>3. KeptWhole' /\ CarriedWhole' /\ WholeApn'
    BY DEF KeptWhole, CarriedWhole, WholeApn
<1>4. NewestCarried'
    BY DEF NewestCarried
<1> QED
    BY <1>1, <1>2, <1>3, <1>4

(* The vendor RIL raises the unsolicited response, ...                     *)
LEMMA OnAttachApnResetStep ==
    ASSUME AttachInv, NEW s \in Slots, OnAttachApnReset(s)
    PROVE  AttachInv'
<1> USE DEF AttachInv, OnAttachApnReset
<1>1. AttachTypeOK'
    BY DEF AttachTypeOK
<1>2. IaOwner'
    BY DEF IaOwner
<1>3. KeptWhole' /\ CarriedWhole' /\ WholeApn'
    BY DEF KeptWhole, CarriedWhole, WholeApn
<1>4. NewestCarried'
    BY DEF NewestCarried
<1> QED
    BY <1>1, <1>2, <1>3, <1>4

(* ... which requests a timed callback, ...                                *)
LEMMA SetAttachApnIndStep ==
    ASSUME AttachInv, SetAttachApnInd
    PROVE  AttachInv'
<1> USE DEF AttachInv, SetAttachApnInd
<1>1. AttachTypeOK'
    BY DEF AttachTypeOK
<1>2. IaOwner'
    BY DEF IaOwner
<1>3. KeptWhole' /\ CarriedWhole' /\ WholeApn'
    BY DEF KeptWhole, CarriedWhole, WholeApn
<1>4. NewestCarried'
    BY DEF NewestCarried
<1> QED
    BY <1>1, <1>2, <1>3, <1>4

(* ... which the event loop starts.                                        *)
LEMMA TimedCallbackStep ==
    ASSUME AttachInv, NEW s \in Slots, TimedCallback(s)
    PROVE  AttachInv'
<1> USE DEF AttachInv, TimedCallback
<1>1. AttachTypeOK'
    BY DEF AttachTypeOK
<1>2. IaOwner'
    BY DEF IaOwner
<1>3. KeptWhole' /\ CarriedWhole' /\ WholeApn'
    BY DEF KeptWhole, CarriedWhole, WholeApn
<1>4. NewestCarried'
    BY DEF NewestCarried
<1> QED
    BY <1>1, <1>2, <1>3, <1>4

(* A step that leaves every variable as it is.                             *)
LEMMA AttachStutterStep == AttachInv /\ UNCHANGED attachVars => AttachInv'
BY DEF AttachInv, AttachTypeOK, IaOwner, KeptWhole, CarriedWhole, NewestCarried, WholeApn, attachVars

(* Every step preserves the inductive invariant.                           *)
LEMMA AttachNextStep == AttachInv /\ [AttachNext]_attachVars => AttachInv'
<1> SUFFICES ASSUME AttachInv, [AttachNext]_attachVars PROVE AttachInv'
    OBVIOUS
<1>1. CASE \E s \in Slots : SetInitialAttachApn(s)
    BY <1>1, SetInitialAttachApnStep
<1>2. CASE StoreIa
    BY <1>2, StoreIaStep
<1>3. CASE \E t \in Threads : ThreadStep(t)
    BY <1>3, LockIaStep, CopyIaStep, ConvertStep, OnRequestStep, OnRequestReturnsStep
       DEF ThreadStep
<1>4. CASE \E s \in Slots : OnAttachApnReset(s)
    BY <1>4, OnAttachApnResetStep
<1>5. CASE SetAttachApnInd
    BY <1>5, SetAttachApnIndStep
<1>6. CASE \E s \in Slots : TimedCallback(s)
    BY <1>6, TimedCallbackStep
<1>7. CASE UNCHANGED attachVars
    BY <1>7, AttachStutterStep
<1> QED
    BY <1>1, <1>2, <1>3, <1>4, <1>5, <1>6, <1>7 DEF AttachNext

(* The inductive invariant holds in every reachable state.                 *)
THEOREM AttachInductive == AttachSpec => []AttachInv
<1>1. AttachInit => AttachInv
    BY AttachInitInv
<1>2. AttachInv /\ [AttachNext]_attachVars => AttachInv'
    BY AttachNextStep
<1> QED
    BY <1>1, <1>2, PTL DEF AttachSpec

(* The modem is given the profile and the flags of one setting, however    *)
(* sendInitialAttachApnAgain interleaves with setInitialAttachApn.         *)
THEOREM ModemGetsWholeApn == AttachSpec => []WholeApn
<1>1. AttachInv => WholeApn
    BY DEF AttachInv
<1> QED
    BY <1>1, AttachInductive, PTL

(* Outside of s_lastIaMutex the kept settings of the slot are the ones the *)
(* framework set last, however often they are sent again.                  *)
THEOREM NewestSettingsKept == AttachSpec => []NewestKept
<1>1. AttachInv => NewestKept
    BY DEF AttachInv, IaOwner, NewestCarried, NewestKept
<1> QED
    BY <1>1, AttachInductive, PTL
=============================================================================
