---------------------------- MODULE RilEventProofs ----------------------------
(***************************************************************************)
(* Proofs about RilEvent, for every number of timers and of threads that   *)
(* request them.                                                           *)
(***************************************************************************)
EXTENDS RilEvent, SequenceTheorems, NaturalsInduction, WellFoundedInduction, TLAPS

(* The lists, as predicates of their values: the clock n, the number of    *)
(* timers allocated k, the timer list tl, the deadlines to, the pending    *)
(* list pl and the fired timers fl.                                        *)
ListTypes(n, k, tl, to, pl, fl) ==
    /\ n \in Nat /\ k \in 0 .. MaxTimers
    /\ tl \in Seq(Timers) /\ to \in [Timers -> Nat]
    /\ pl \in Seq(Timers \cup {Wakeup}) /\ fl \in Seq(Timers)

(* The timer list is sorted by deadline.                                   *)
Sorted(tl, to) == \A i, j \in DOMAIN tl : i < j => to[tl[i]] <= to[tl[j]]

(* Only timers that were allocated are anywhere.                           *)
Allocated(k, tl, pl, fl) ==
    /\ \A i \in DOMAIN tl : tl[i] <= k
    /\ \A i \in DOMAIN pl : pl[i] <= k
    /\ \A i \in DOMAIN fl : fl[i] <= k

(* No list has an event twice, ...                                         *)
Distinct(s) == \A i, j \in DOMAIN s : s[i] = s[j] => i = j

(* ... and no two lists have one in common.                                *)
Disjoint(s, u) == \A i \in DOMAIN s, j \in DOMAIN u : s[i] # u[j]

(* The fired timers, the pending and the armed ones, in this order.        *)
FiredOrder(n, tl, to, fl) ==
    /\ \A i \in DOMAIN fl : to[fl[i]] < n
    /\ \A i, j \in DOMAIN fl : i < j => to[fl[i]] <= to[fl[j]]
    /\ \A i \in DOMAIN fl, j \in DOMAIN tl : to[fl[i]] <= to[tl[j]]

PendingOrder(n, tl, to, pl, fl) ==
    \A i \in DOMAIN pl : pl[i] # Wakeup =>
        /\ to[pl[i]] < n
        /\ \A j \in DOMAIN pl : i < j /\ pl[j] # Wakeup => to[pl[i]] <= to[pl[j]]
        /\ \A j \in DOMAIN fl : to[fl[j]] <= to[pl[i]]
        /\ \A j \in DOMAIN tl : to[pl[i]] <= to[tl[j]]

Lists(n, k, tl, to, pl, fl) ==
    /\ ListTypes(n, k, tl, to, pl, fl)
    /\ Sorted(tl, to)
    /\ Allocated(k, tl, pl, fl)
    /\ Distinct(tl) /\ Distinct(pl) /\ Distinct(fl)
    /\ Disjoint(tl, pl) /\ Disjoint(tl, fl) /\ Disjoint(pl, fl)
    /\ FiredOrder(n, tl, to, fl)
    /\ PendingOrder(n, tl, to, pl, fl)

(* What the loop has done when it is in a phase: it fires all that is      *)
(* pending before it goes round, and watches the pipe from then on.        *)
Phases ==
    /\ pc \notin {"reads", "fire"} => pending_list = <<>>
    /\ pc = "reads" => \A i \in DOMAIN pending_list : pending_list[i] # Wakeup
    /\ pc # "pipe" => piped
    /\ pc \notin {"pipe", "watch"} => watched
    /\ pc \in {"calc", "enter", "select"} => rfds

EventInv ==
    /\ TypeOK
    /\ Lists(now, nextTimer, timer_list, timeout, pending_list, fired)
    /\ Phases
    /\ NoLostWakeup

-----------------------------------------------------------------------------
(* Walks along a list *)

(* A walk stops at the first index in a set, or behind the end.            *)
LEMMA FirstIndex ==
    ASSUME NEW n \in Nat, NEW B \in SUBSET (1 .. n)
    PROVE  \E i \in 1 .. n + 1 : /\ i <= n => i \in B
                                 /\ \A j \in 1 .. i - 1 : j \notin B
<1> DEFINE T == B \cup {n + 1}
           R == OpToRel(<, Nat)
<1>1. T \subseteq Nat /\ T # {}
    OBVIOUS
<1>2. PICK i \in T : \A y \in T : ~(<<y, i>> \in R)
    <2> HIDE DEF T, R
    <2> QED
        BY <1>1, NatLessThanWellFounded, WFMin DEF R
<1>3. \A y \in T : ~(y < i)
    BY <1>1, <1>2 DEF OpToRel
<1>4. i \in 1 .. n + 1 /\ (i <= n => i \in B)
    OBVIOUS
<1>5. ASSUME NEW j \in 1 .. i - 1 PROVE j \notin B
    BY <1>3, <1>4, <1>5
<1> QED
    BY <1>4, <1>5

(* The index of a list at which a timer with deadline d keeps the order.   *)
FitsAt(i, q, to, d) ==
    /\ i \in 1 .. Len(q) + 1
    /\ i <= Len(q) => to[q[i]] >= d
    /\ \A j \in 1 .. i - 1 : to[q[j]] < d

(* Where ril_timer_add links a timer.                                      *)
LEMMA PositionIs ==
    ASSUME TypeOK, NEW d \in Nat
    PROVE  FitsAt(Position(timer_list, d), timer_list, timeout, d)
<1>1. PICK n \in Nat : n = Len(timer_list)
    BY LenProperties DEF TypeOK
<1>2. \A j \in 1 .. n : timer_list[j] \in Timers
    BY <1>1, ElementOfSeq DEF TypeOK
<1>3. \A j \in 1 .. n : timeout[timer_list[j]] \in Nat
    BY <1>2 DEF TypeOK
<1>4. PICK B \in SUBSET (1 .. n) : B = {j \in 1 .. n : timeout[timer_list[j]] >= d}
    OBVIOUS
<1>5. PICK i \in 1 .. n + 1 : (i <= n => i \in B) /\ \A j \in 1 .. i - 1 : j \notin B
    BY FirstIndex
<1>6. /\ i <= n => timeout[timer_list[i]] >= d
      /\ \A j \in 1 .. i - 1 : timeout[timer_list[j]] < d
    BY <1>3, <1>4, <1>5
<1> QED
    BY <1>1, <1>5, <1>6 DEF Position, FitsAt

(* How many timers processTimeouts unlinks.                                *)
LEMMA ExpiredIs ==
    ASSUME TypeOK
    PROVE  /\ Expired \in 0 .. Len(timer_list)
           /\ \A i \in 1 .. Expired : now > timeout[timer_list[i]]
<1>1. PICK n \in Nat : n = Len(timer_list)
    BY LenProperties DEF TypeOK
<1>2. PICK B \in SUBSET (1 .. n) : B = {j \in 1 .. n : ~(now > timeout[timer_list[j]])}
    OBVIOUS
<1>3. PICK i \in 1 .. n + 1 : (i <= n => i \in B) /\ \A j \in 1 .. i - 1 : j \notin B
    BY FirstIndex
<1>4. PICK m \in 0 .. n : m = i - 1
    BY <1>3
<1>5. /\ \A j \in 1 .. m : now > timeout[timer_list[j]]
      /\ m < n => ~(now > timeout[timer_list[m + 1]])
    BY <1>2, <1>3, <1>4
<1> QED
    BY <1>1, <1>5 DEF Expired

(* A list y that is q with t linked at index i.                            *)
InsertedAt(y, q, i, t) ==
    /\ Len(y) = Len(q) + 1
    /\ y[i] = t
    /\ \A j \in 1 .. i - 1 : y[j] = q[j]
    /\ \A j \in i .. Len(q) : y[j + 1] = q[j]

LEMMA InsertedIs ==
    ASSUME NEW S, NEW q \in Seq(S), NEW i \in 1 .. Len(q) + 1, NEW t \in S, NEW y,
           y = SubSeq(q, 1, i - 1) \o <<t>> \o SubSeq(q, i, Len(q))
    PROVE  y \in Seq(S) /\ InsertedAt(y, q, i, t)
<1>1. PICK n \in Nat : n = Len(q) /\ i \in 1 .. n + 1 /\ \A j \in 1 .. n : q[j] \in S
    BY LenProperties, ElementOfSeq
<1>2. /\ SubSeq(q, 1, i - 1) \in Seq(S) /\ Len(SubSeq(q, 1, i - 1)) = i - 1
      /\ \A j \in 1 .. i - 1 : SubSeq(q, 1, i - 1)[j] = q[j]
    BY <1>1
<1>3. /\ SubSeq(q, i, n) \in Seq(S) /\ Len(SubSeq(q, i, n)) = n - i + 1
      /\ \A j \in 1 .. n - i + 1 : SubSeq(q, i, n)[j] = q[i + j - 1]
    BY <1>1
<1>4. PICK a \in Seq(S), b \in Seq(S) : a = SubSeq(q, 1, i - 1) /\ b = SubSeq(q, i, n)
    BY <1>2, <1>3
<1>5. PICK c \in Seq(S) : c = <<t>> /\ Len(c) = 1 /\ c[1] = t
    <2>1. <<t>> \in Seq(S) /\ Len(<<t>>) = 1 /\ <<t>>[1] = t
        OBVIOUS
    <2> QED
        BY <2>1
<1>6. /\ Len(a) = i - 1 /\ \A j \in 1 .. i - 1 : a[j] = q[j]
      /\ Len(b) = n - i + 1 /\ \A j \in 1 .. n - i + 1 : b[j] = q[i + j - 1]
    BY <1>2, <1>3, <1>4
<1>7. /\ a \o c \in Seq(S) /\ Len(a \o c) = i
      /\ \A j \in 1 .. i - 1 : (a \o c)[j] = q[j]
      /\ (a \o c)[i] = t
    <2>1. /\ a \o c \in Seq(S) /\ Len(a \o c) = Len(a) + Len(c)
          /\ \A j \in 1 .. Len(a) + Len(c) :
                (a \o c)[j] = IF j <= Len(a) THEN a[j] ELSE c[j - Len(a)]
        BY ConcatProperties
    <2>2. Len(a \o c) = i /\ i - Len(a) = 1 /\ i \in 1 .. Len(a) + Len(c) /\ ~(i <= Len(a))
        BY <1>1, <1>5, <1>6, <2>1
    <2>3. (a \o c)[i] = t
        BY <1>5, <2>1, <2>2
    <2>4. ASSUME NEW j \in 1 .. i - 1 PROVE (a \o c)[j] = q[j]
        <3>1. j \in 1 .. Len(a) + Len(c) /\ j <= Len(a)
            BY <1>1, <1>5, <1>6
        <3> QED
            BY <1>6, <2>1, <3>1
    <2> QED
        BY <2>1, <2>2, <2>3, <2>4
<1>8. PICK e \in Seq(S) : e = a \o c
    BY <1>7
<1>9. /\ e \o b \in Seq(S) /\ Len(e \o b) = Len(e) + Len(b)
      /\ \A j \in 1 .. Len(e) + Len(b) :
            (e \o b)[j] = IF j <= Len(e) THEN e[j] ELSE b[j - Len(e)]
    BY ConcatProperties
<1>10. y = e \o b /\ Len(e) = i
    BY <1>1, <1>4, <1>5, <1>7, <1>8
<1>11. y \in Seq(S) /\ Len(y) = n + 1 /\ y[i] = t /\ \A j \in 1 .. i - 1 : y[j] = q[j]
    <2>1. y \in Seq(S) /\ Len(y) = n + 1
        <3>1. Len(e) + Len(b) = n + 1
            BY <1>1, <1>6, <1>10
        <3> QED
            BY <1>9, <1>10, <3>1
    <2>2. ASSUME NEW j \in 1 .. i PROVE y[j] = e[j]
        <3>1. j \in 1 .. Len(e) + Len(b) /\ j <= Len(e)
            BY <1>1, <1>6, <1>10
        <3> QED
            BY <1>9, <1>10, <3>1
    <2>3. i \in 1 .. i /\ \A j \in 1 .. i - 1 : j \in 1 .. i
        BY <1>1
    <2> QED
        BY <1>7, <1>8, <2>1, <2>2, <2>3
<1>12. ASSUME NEW j \in i .. n PROVE y[j + 1] = q[j]
    <2>1. (j + 1) - i \in 1 .. n - i + 1 /\ i + ((j + 1) - i) - 1 = j /\ j + 1 \in 1 .. n + 1
          /\ ~(j + 1 <= i)
        BY <1>1
    <2>2. y[j + 1] = b[(j + 1) - i]
        <3>1. j + 1 \in 1 .. Len(e) + Len(b) /\ ~(j + 1 <= Len(e))
            BY <1>1, <1>6, <1>10, <2>1
        <3> QED
            BY <1>9, <1>10, <3>1
    <2> QED
        BY <1>6, <2>1, <2>2
<1> QED
    BY <1>1, <1>11, <1>12 DEF InsertedAt

-----------------------------------------------------------------------------
(* What the operations do to the lists *)

(* A new timer k + 1 at index i of the timer list, where the order wants   *)
(* it.                                                                     *)
LEMMA TimerInserted ==
    ASSUME NEW n, NEW k, NEW tl, NEW to, NEW pl, NEW fl, Lists(n, k, tl, to, pl, fl),
           k < MaxTimers, NEW d \in Nat, NEW i, FitsAt(i, tl, to, n + d),
           NEW to2, to2 = [to EXCEPT ![k + 1] = n + d],
           NEW tl2 \in Seq(Timers), InsertedAt(tl2, tl, i, k + 1)
    PROVE  Lists(n, k + 1, tl2, to2, pl, fl)
<1> USE DEF FitsAt, InsertedAt
<1>0. PICK m \in Nat : m = Len(tl) /\ i \in 1 .. m + 1
    BY LenProperties DEF Lists, ListTypes
<1>1. ListTypes(n, k, tl, to, pl, fl) /\ Allocated(k, tl, pl, fl)
    BY DEF Lists
<1>2. DOMAIN tl = 1 .. m /\ DOMAIN tl2 = 1 .. m + 1
    BY <1>0, <1>1, LenProperties DEF ListTypes
<1>3. MaxTimers \in Nat /\ n \in Nat /\ k \in Nat /\ k + 1 \in Timers /\ k + 1 \in 0 .. MaxTimers
      /\ n + d \in Nat
    BY <1>1, TimeAssumption DEF ListTypes, Timers
<1>4. /\ to2 \in [Timers -> Nat] /\ to2[k + 1] = n + d
      /\ \A t \in Timers : t <= k => to2[t] = to[t] /\ to[t] \in Nat /\ t # k + 1
    <2>1. to \in [Timers -> Nat]
        BY <1>1 DEF ListTypes
    <2>2. to2 \in [Timers -> Nat] /\ to2[k + 1] = n + d
        BY <1>3, <2>1
    <2>3. \A t \in Timers : t <= k => t # k + 1
        BY <1>3 DEF Timers
    <2>4. \A t \in Timers : t # k + 1 => to2[t] = to[t] /\ to[t] \in Nat
        BY <2>1
    <2> QED
        BY <2>2, <2>3, <2>4
<1>5. \A j \in 1 .. m : /\ tl[j] \in Timers /\ tl[j] <= k /\ tl[j] # k + 1
                         /\ to2[tl[j]] = to[tl[j]] /\ to[tl[j]] \in Nat
    <2>1. \A j \in 1 .. m : tl[j] \in Timers
        BY <1>1, <1>2, ElementOfSeq DEF ListTypes
    <2>2. \A j \in 1 .. m : tl[j] <= k
        BY <1>1, <1>2 DEF Allocated
    <2> QED
        BY <1>4, <2>1, <2>2
<1>6. \A j \in DOMAIN fl : /\ fl[j] \in Timers /\ fl[j] <= k /\ fl[j] # k + 1
                            /\ to2[fl[j]] = to[fl[j]] /\ to[fl[j]] \in Nat
    <2>1. \A j \in DOMAIN fl : fl[j] \in Timers
        BY <1>1, ElementOfSeq DEF ListTypes
    <2>2. \A j \in DOMAIN fl : fl[j] <= k
        BY <1>1 DEF Allocated
    <2> QED
        BY <1>4, <2>1, <2>2
<1>7. ASSUME NEW j \in DOMAIN pl
      PROVE  /\ pl[j] \in Nat /\ pl[j] <= k /\ pl[j] # k + 1
             /\ pl[j] # Wakeup => to2[pl[j]] = to[pl[j]] /\ to[pl[j]] \in Nat
    <2>1. pl[j] \in Timers \cup {Wakeup}
        BY <1>1, ElementOfSeq DEF ListTypes
    <2>2. pl[j] <= k
        BY <1>1 DEF Allocated
    <2>3. pl[j] # k + 1 /\ pl[j] \in Nat
        BY <1>3, <2>1, <2>2 DEF Wakeup, Timers
    <2>4. pl[j] # Wakeup => to2[pl[j]] = to[pl[j]] /\ to[pl[j]] \in Nat
        BY <1>4, <2>1, <2>2
    <2> QED
        BY <2>2, <2>3, <2>4
<1>8. ASSUME NEW l \in 1 .. m + 1, l # i
      PROVE  \E s \in 1 .. m : /\ tl2[l] = tl[s] /\ to2[tl2[l]] = to[tl[s]]
                               /\ s = IF l < i THEN l ELSE l - 1
    <2>1. CASE l < i
        <3>1. l \in 1 .. i - 1 /\ l \in 1 .. m
            BY <1>0, <2>1
        <3> QED
            BY <1>5, <2>1, <3>1
    <2>2. CASE l > i
        <3>1. PICK s \in i .. m : s = l - 1 /\ s + 1 = l /\ s \in 1 .. m
            BY <2>2
        <3>2. tl2[l] = tl[s]
            BY <1>0, <3>1
        <3> QED
            BY <1>5, <2>2, <3>1, <3>2
    <2>3. l < i \/ l > i
        BY <1>8
    <2> QED
        BY <2>1, <2>2, <2>3
<1>9. /\ \A x, y \in 1 .. m : x < y => to[tl[x]] <= to[tl[y]]
      /\ \A x, y \in 1 .. m : tl[x] = tl[y] => x = y
    BY <1>2 DEF Lists, Sorted, Distinct
<1>10. ListTypes(n, k + 1, tl2, to2, pl, fl)
    BY <1>1, <1>3, <1>4 DEF ListTypes
<1>11. Sorted(tl2, to2)
    <2> SUFFICES ASSUME NEW a \in 1 .. m + 1, NEW b \in 1 .. m + 1, a < b
                 PROVE  to2[tl2[a]] <= to2[tl2[b]]
        BY <1>2 DEF Sorted
    <2>1. CASE a = i
        <3>1. PICK u \in 1 .. m : to2[tl2[b]] = to[tl[u]] /\ u = IF b < i THEN b ELSE b - 1
            BY <1>8, <2>1
        <3>2. i \in 1 .. m /\ (i = u \/ i < u) /\ i <= m
            BY <2>1, <3>1
        <3>3. to[tl[i]] <= to[tl[u]]
            BY <1>5, <1>9, <3>2
        <3>4. to[tl[i]] \in Nat /\ to[tl[u]] \in Nat /\ to[tl[i]] >= n + d
            BY <1>0, <1>5, <3>2
        <3> QED
            BY <1>3, <1>4, <2>1, <3>1, <3>3, <3>4
    <2>2. CASE b = i
        <3>1. PICK s \in 1 .. m : to2[tl2[a]] = to[tl[s]] /\ s = IF a < i THEN a ELSE a - 1
            BY <1>8, <2>2
        <3>2. s \in 1 .. i - 1 /\ to[tl[s]] \in Nat
            BY <1>5, <2>2, <3>1
        <3> QED
            BY <1>3, <1>4, <2>2, <3>1, <3>2
    <2>3. CASE a # i /\ b # i
        <3>1. PICK s \in 1 .. m : to2[tl2[a]] = to[tl[s]] /\ s = IF a < i THEN a ELSE a - 1
            BY <1>8, <2>3
        <3>2. PICK u \in 1 .. m : to2[tl2[b]] = to[tl[u]] /\ u = IF b < i THEN b ELSE b - 1
            BY <1>8, <2>3
        <3>3. s < u
            BY <2>3, <3>1, <3>2
        <3> QED
            BY <1>9, <3>1, <3>2, <3>3
    <2> QED
        BY <2>1, <2>2, <2>3
<1>12. Allocated(k + 1, tl2, pl, fl)
    <2>1. ASSUME NEW l \in 1 .. m + 1 PROVE tl2[l] <= k + 1
        <3>1. CASE l = i
            BY <1>3, <3>1
        <3>2. CASE l # i
            <4>1. PICK s \in 1 .. m : tl2[l] = tl[s]
                BY <1>8, <3>2
            <4>2. tl[s] \in Nat /\ tl[s] <= k
                BY <1>5 DEF Timers
            <4> QED
                BY <1>3, <4>1, <4>2
        <3> QED
            BY <3>1, <3>2
    <2>2. \A j \in DOMAIN fl : fl[j] <= k + 1
        BY <1>3, <1>6 DEF Timers
    <2>3. ASSUME NEW j \in DOMAIN pl PROVE pl[j] <= k + 1
        <3>1. pl[j] \in Nat /\ pl[j] <= k
            BY <1>7
        <3> QED
            BY <1>3, <3>1
    <2> QED
        BY <1>2, <2>1, <2>2, <2>3 DEF Allocated
<1>13. Distinct(tl2)
    <2> SUFFICES ASSUME NEW a \in 1 .. m + 1, NEW b \in 1 .. m + 1, tl2[a] = tl2[b]
                 PROVE  a = b
        BY <1>2 DEF Distinct
    <2>1. CASE a = i \/ b = i
        BY <1>5, <1>8, <2>1
    <2>2. CASE a # i /\ b # i
        <3>1. PICK s \in 1 .. m : tl2[a] = tl[s] /\ s = IF a < i THEN a ELSE a - 1
            BY <1>8, <2>2
        <3>2. PICK u \in 1 .. m : tl2[b] = tl[u] /\ u = IF b < i THEN b ELSE b - 1
            BY <1>8, <2>2
        <3>3. tl[s] = tl[u]
            BY <3>1, <3>2
        <3>4. s = u
            BY <1>9, <3>3
        <3> QED
            BY <2>2, <3>1, <3>2, <3>4
    <2> QED
        BY <2>1, <2>2
<1>14. ASSUME NEW l \in 1 .. m + 1
       PROVE  /\ \A j \in DOMAIN pl : tl2[l] # pl[j]
              /\ \A j \in DOMAIN fl : tl2[l] # fl[j]
              /\ \A j \in DOMAIN fl : to[fl[j]] <= to2[tl2[l]]
              /\ \A j \in DOMAIN pl : pl[j] # Wakeup => to[pl[j]] <= to2[tl2[l]]
    <2>1. CASE l = i
        <3>1. tl2[l] = k + 1 /\ to2[tl2[l]] = n + d
            BY <1>4, <2>1
        <3>2. /\ \A j \in DOMAIN fl : to[fl[j]] < n
              /\ \A j \in DOMAIN pl : pl[j] # Wakeup => to[pl[j]] < n
            BY DEF Lists, FiredOrder, PendingOrder
        <3>3. \A j \in DOMAIN fl : to[fl[j]] <= n + d
            BY <1>3, <1>6, <3>2
        <3>4. ASSUME NEW j \in DOMAIN pl, pl[j] # Wakeup PROVE to[pl[j]] <= n + d
            <4>1. to[pl[j]] \in Nat /\ to[pl[j]] < n
                BY <1>7, <3>2, <3>4
            <4> QED
                BY <1>3, <4>1
        <3> QED
            BY <1>6, <1>7, <3>1, <3>3, <3>4
    <2>2. CASE l # i
        <3>1. PICK s \in 1 .. m : tl2[l] = tl[s] /\ to2[tl2[l]] = to[tl[s]]
            BY <1>8, <2>2
        <3>2. s \in DOMAIN tl
            BY <1>2
        <3>3. /\ \A j \in DOMAIN fl : to[fl[j]] <= to[tl[s]]
              /\ \A j \in DOMAIN pl : pl[j] # Wakeup => to[pl[j]] <= to[tl[s]]
            BY <3>2 DEF Lists, FiredOrder, PendingOrder
        <3>4. /\ \A j \in DOMAIN pl : tl[s] # pl[j]
              /\ \A j \in DOMAIN fl : tl[s] # fl[j]
            BY <3>2 DEF Lists, Disjoint
        <3> QED
            BY <3>1, <3>3, <3>4
    <2> QED
        BY <2>1, <2>2
<1>15. Disjoint(tl2, pl) /\ Disjoint(tl2, fl)
    BY <1>2, <1>14 DEF Disjoint
<1>16. FiredOrder(n, tl2, to2, fl)
    BY <1>2, <1>6, <1>14 DEF Lists, FiredOrder
<1>17. PendingOrder(n, tl2, to2, pl, fl)
    BY <1>2, <1>6, <1>7, <1>14 DEF Lists, PendingOrder
<1> QED
    BY <1>10, <1>11, <1>12, <1>13, <1>15, <1>16, <1>17 DEF Lists

(* ril_timer_add: the clock, the lists and the deadlines are the state's,  *)
(* but for what is pending and what was fired.                             *)
LEMMA TimerAdded ==
    ASSUME TypeOK, NEW pl, NEW fl, Lists(now, nextTimer, timer_list, timeout, pl, fl),
           nextTimer < MaxTimers, NEW d \in Delays, ril_timer_add(nextTimer + 1, d)
    PROVE  Lists(now, nextTimer', timer_list', timeout', pl, fl)
<1>1. d \in Nat /\ now + d \in Nat
    BY TimeAssumption DEF TypeOK
<1>2. PICK i, n, k, to : /\ i = Position(timer_list, now + d)
                         /\ n = now /\ k = nextTimer /\ to = timeout
    OBVIOUS
<1>3. PICK q \in Seq(Timers) : q = timer_list
    BY DEF TypeOK
<1>4. FitsAt(i, q, to, n + d)
    BY <1>1, <1>2, <1>3, PositionIs
<1>5. k + 1 \in Timers
    BY <1>2, TimeAssumption DEF TypeOK, Timers
<1>6. PICK y, to2 : y = timer_list' /\ to2 = timeout'
    OBVIOUS
<1>7. y \in Seq(Timers) /\ InsertedAt(y, q, i, k + 1)
    <2>1. PICK S, t : S = Timers /\ t = k + 1 /\ t \in S
        BY <1>5
    <2>2. y = SubSeq(q, 1, i - 1) \o <<t>> \o SubSeq(q, i, Len(q))
        BY <1>2, <1>3, <1>6, <2>1 DEF ril_timer_add
    <2>3. q \in Seq(S) /\ t \in S /\ i \in 1 .. Len(q) + 1
        BY <1>4, <2>1 DEF FitsAt
    <2>4. y \in Seq(S) /\ InsertedAt(y, q, i, t)
        BY <2>2, <2>3, InsertedIs
    <2> QED
        BY <2>1, <2>4
<1>8. to2 = [to EXCEPT ![k + 1] = n + d] /\ nextTimer' = k + 1
    BY <1>2, <1>6 DEF ril_timer_add
<1>9. Lists(n, k, q, to, pl, fl) /\ k < MaxTimers
    BY <1>2, <1>3
<1>10. Lists(n, k + 1, y, to2, pl, fl)
    BY <1>1, <1>4, <1>7, <1>8, <1>9, TimerInserted
<1> QED
    BY <1>2, <1>6, <1>8, <1>10

(* processTimeouts moves the first e timers, which are overdue.            *)
LEMMA TimersExpire ==
    ASSUME NEW n, NEW k, NEW tl, NEW to, NEW fl, Lists(n, k, tl, to, <<>>, fl),
           NEW e \in 0 .. Len(tl), \A i \in 1 .. e : to[tl[i]] < n
    PROVE  LET pl == SubSeq(tl, 1, e)
           IN  /\ Lists(n, k, SubSeq(tl, e + 1, Len(tl)), to, pl, fl)
               /\ \A i \in DOMAIN pl : pl[i] # Wakeup
<1> USE DEF Lists
<1>1. PICK m \in Nat : m = Len(tl) /\ DOMAIN tl = 1 .. m /\ \A j \in 1 .. m : tl[j] \in Timers
    BY LenProperties, ElementOfSeq DEF ListTypes
<1>2. PICK pl, rl : pl = SubSeq(tl, 1, e) /\ rl = SubSeq(tl, e + 1, m)
    OBVIOUS
<1>3. /\ pl \in Seq(Timers) /\ DOMAIN pl = 1 .. e /\ \A j \in 1 .. e : pl[j] = tl[j]
      /\ \A j \in 1 .. e : j \in 1 .. m
    BY <1>1, <1>2 DEF ListTypes
<1>4. /\ rl \in Seq(Timers) /\ DOMAIN rl = 1 .. m - e
      /\ \A j \in 1 .. m - e : rl[j] = tl[j + e] /\ j + e \in 1 .. m /\ e < j + e
    BY <1>1, <1>2 DEF ListTypes
<1>5. \A j \in 1 .. e : pl[j] # Wakeup
    BY <1>1, <1>3, TimeAssumption DEF Timers, Wakeup
<1>6. ListTypes(n, k, rl, to, pl, fl)
    <2>1. pl \in Seq(Timers \cup {Wakeup})
        BY <1>3, SeqMonotonic
    <2> QED
        BY <1>4, <2>1 DEF ListTypes
<1>7. Sorted(rl, to) /\ Distinct(rl) /\ Distinct(pl)
    <2>1. \A x, y \in 1 .. m : x < y => to[tl[x]] <= to[tl[y]]
        BY <1>1 DEF Sorted
    <2>2. \A x, y \in 1 .. m : tl[x] = tl[y] => x = y
        BY <1>1 DEF Distinct
    <2> HIDE DEF Lists
    <2>3. \A x, y \in 1 .. m - e : /\ x < y => x + e < y + e
                                   /\ x + e = y + e => x = y
        BY <1>1
    <2>4. Sorted(rl, to)
        <3>1. ASSUME NEW x \in 1 .. m - e, NEW y \in 1 .. m - e, x < y
              PROVE  to[rl[x]] <= to[rl[y]]
            <4>1. /\ rl[x] = tl[x + e] /\ x + e \in 1 .. m
                  /\ rl[y] = tl[y + e] /\ y + e \in 1 .. m
                BY <1>4
            <4>2. to[tl[x + e]] <= to[tl[y + e]]
                BY <2>1, <2>3, <3>1, <4>1
            <4> QED
                BY <4>1, <4>2
        <3>2. DOMAIN rl = 1 .. m - e
            BY <1>4
        <3> QED
            BY <3>1, <3>2 DEF Sorted
    <2>5. ASSUME NEW x \in 1 .. m - e, NEW y \in 1 .. m - e, rl[x] = rl[y] PROVE x = y
        <3>1. x + e \in 1 .. m /\ y + e \in 1 .. m /\ tl[x + e] = tl[y + e]
            BY <1>4, <2>5
        <3>2. x + e = y + e
            BY <2>2, <3>1
        <3> QED
            BY <2>3, <3>2
    <2>6. ASSUME NEW x \in 1 .. e, NEW y \in 1 .. e, pl[x] = pl[y] PROVE x = y
        <3>1. x \in 1 .. m /\ y \in 1 .. m /\ tl[x] = tl[y]
            BY <1>3, <2>6
        <3> QED
            BY <2>2, <3>1
    <2> QED
        BY <1>3, <1>4, <2>4, <2>5, <2>6 DEF Distinct
<1>8. Allocated(k, rl, pl, fl)
    BY <1>1, <1>3, <1>4 DEF Allocated
<1>9. Disjoint(rl, pl) /\ Disjoint(rl, fl) /\ Disjoint(pl, fl)
    <2>1. \A x, y \in 1 .. m : tl[x] = tl[y] => x = y
        BY <1>1 DEF Distinct
    <2>2. \A x \in 1 .. m, y \in DOMAIN fl : tl[x] # fl[y]
        BY <1>1 DEF Disjoint
    <2> HIDE DEF Lists
    <2>3. \A x \in 1 .. m - e, y \in 1 .. e : x + e # y
        BY <1>1
    <2>4. ASSUME NEW x \in 1 .. m - e, NEW y \in 1 .. e PROVE rl[x] # pl[y]
        <3>1. x + e \in 1 .. m /\ y \in 1 .. m /\ rl[x] = tl[x + e] /\ pl[y] = tl[y]
            BY <1>3, <1>4
        <3> QED
            BY <2>1, <2>3, <3>1
    <2>5. DOMAIN rl = 1 .. m - e /\ DOMAIN pl = 1 .. e
        BY <1>3, <1>4
    <2>6. Disjoint(rl, pl)
        BY <2>4, <2>5 DEF Disjoint
    <2>7. ASSUME NEW x \in 1 .. m - e, NEW y \in DOMAIN fl PROVE rl[x] # fl[y]
        <3>1. rl[x] = tl[x + e] /\ x + e \in 1 .. m
            BY <1>4
        <3> QED
            BY <2>2, <3>1
    <2>8. ASSUME NEW x \in 1 .. e, NEW y \in DOMAIN fl PROVE pl[x] # fl[y]
        <3>1. pl[x] = tl[x] /\ x \in 1 .. m
            BY <1>3
        <3> QED
            BY <2>2, <3>1
    <2> QED
        BY <2>5, <2>6, <2>7, <2>8 DEF Disjoint
<1>10. FiredOrder(n, rl, to, fl)
    BY <1>1, <1>4 DEF FiredOrder
<1>11. PendingOrder(n, rl, to, pl, fl)
    <2>1. \A x, y \in 1 .. m : x < y => to[tl[x]] <= to[tl[y]]
        BY <1>1 DEF Sorted
    <2>2. \A x \in DOMAIN fl, y \in 1 .. m : to[fl[x]] <= to[tl[y]]
        BY <1>1 DEF FiredOrder
    <2> HIDE DEF Lists
    <2>3. \A x \in 1 .. e, y \in 1 .. m - e : x < y + e
        BY <1>1
    <2>4. ASSUME NEW i \in 1 .. e
          PROVE  /\ to[pl[i]] < n
                 /\ \A j \in 1 .. e : i < j => to[pl[i]] <= to[pl[j]]
                 /\ \A j \in DOMAIN fl : to[fl[j]] <= to[pl[i]]
                 /\ \A j \in 1 .. m - e : to[pl[i]] <= to[rl[j]]
        <3>1. pl[i] = tl[i] /\ i \in 1 .. m /\ to[tl[i]] < n
            BY <1>3
        <3>2. \A j \in 1 .. e : i < j => to[pl[i]] <= to[pl[j]]
            BY <1>3, <2>1, <3>1
        <3>3. \A j \in 1 .. m - e : to[pl[i]] <= to[rl[j]]
            BY <1>4, <2>1, <2>3, <3>1
        <3> QED
            BY <2>2, <3>1, <3>2, <3>3
    <2>5. DOMAIN rl = 1 .. m - e /\ DOMAIN pl = 1 .. e
        BY <1>3, <1>4
    <2> QED
        BY <2>4, <2>5 DEF PendingOrder
<1> QED
    BY <1>1, <1>2, <1>3, <1>5, <1>6, <1>7, <1>8, <1>9, <1>10, <1>11

(* processReadReadies appends the wakeup event.                            *)
LEMMA WakeupPends ==
    ASSUME NEW n, NEW k, NEW tl, NEW to, NEW pl, NEW fl, Lists(n, k, tl, to, pl, fl),
           \A i \in DOMAIN pl : pl[i] # Wakeup
    PROVE  Lists(n, k, tl, to, Append(pl, Wakeup), fl)
<1> USE DEF Lists
<1>1. PICK m \in Nat : m = Len(pl) /\ DOMAIN pl = 1 .. m
    BY LenProperties DEF ListTypes
<1>2. PICK q : q = Append(pl, Wakeup)
    OBVIOUS
<1>3. /\ q \in Seq(Timers \cup {Wakeup}) /\ DOMAIN q = 1 .. m + 1 /\ q[m + 1] = Wakeup
      /\ \A j \in 1 .. m : q[j] = pl[j]
      /\ \A j \in 1 .. m + 1 : j \in 1 .. m \/ j = m + 1
    <2>1. PICK S : S = Timers \cup {Wakeup}
        OBVIOUS
    <2>2. PICK p \in Seq(S) : p = pl /\ Wakeup \in S
        BY <2>1 DEF ListTypes
    <2>3. /\ Append(p, Wakeup) \in Seq(S) /\ Len(Append(p, Wakeup)) = Len(p) + 1
          /\ \A j \in 1 .. Len(p) : Append(p, Wakeup)[j] = p[j]
          /\ Append(p, Wakeup)[Len(p) + 1] = Wakeup
        BY <2>2, AppendProperties
    <2> QED
        BY <1>1, <1>2, <2>1, <2>2, <2>3
<1>4. \A j \in DOMAIN tl : tl[j] # Wakeup
    <2>1. \A j \in DOMAIN tl : tl[j] \in Timers
        BY ElementOfSeq DEF ListTypes
    <2> QED
        BY <2>1, TimeAssumption DEF Timers, Wakeup
<1>5. \A j \in DOMAIN fl : fl[j] # Wakeup
    <2>1. \A j \in DOMAIN fl : fl[j] \in Timers
        BY ElementOfSeq DEF ListTypes
    <2> QED
        BY <2>1, TimeAssumption DEF Timers, Wakeup
<1>6. ListTypes(n, k, tl, to, q, fl)
    BY <1>3 DEF ListTypes
<1>7. Allocated(k, tl, q, fl)
    <2>1. Wakeup <= k
        BY TimeAssumption DEF Wakeup, ListTypes
    <2> QED
        BY <1>1, <1>3, <2>1 DEF Allocated
<1>8. Distinct(q) /\ Disjoint(tl, q) /\ Disjoint(q, fl)
    BY <1>1, <1>3, <1>4, <1>5 DEF Distinct, Disjoint
<1>9. PendingOrder(n, tl, to, q, fl)
    BY <1>1, <1>3 DEF PendingOrder
<1> QED
    BY <1>2, <1>6, <1>7, <1>8, <1>9

(* firePending unlinks the first event.                                    *)
LEMMA HeadLeaves ==
    ASSUME NEW n, NEW k, NEW tl, NEW to, NEW pl, NEW fl, Lists(n, k, tl, to, pl, fl),
           pl # <<>>
    PROVE  Lists(n, k, tl, to, Tail(pl), fl)
<1> USE DEF Lists
<1>1. PICK m \in Nat : m = Len(pl) /\ DOMAIN pl = 1 .. m /\ m > 0
    BY LenProperties, EmptySeq DEF ListTypes
<1>2. PICK q : q = Tail(pl)
    OBVIOUS
<1>3. /\ q \in Seq(Timers \cup {Wakeup}) /\ DOMAIN q = 1 .. m - 1
      /\ \A j \in 1 .. m - 1 : q[j] = pl[j + 1] /\ j + 1 \in 1 .. m
    BY <1>1, <1>2 DEF ListTypes
<1>4. ListTypes(n, k, tl, to, q, fl)
    BY <1>3 DEF ListTypes
<1>5. Allocated(k, tl, q, fl) /\ Distinct(q) /\ Disjoint(tl, q) /\ Disjoint(q, fl)
    <2>1. Allocated(k, tl, q, fl)
        BY <1>1, <1>3 DEF Allocated
    <2>2. \A x, y \in 1 .. m : pl[x] = pl[y] => x = y
        BY <1>1 DEF Distinct
    <2>3. Disjoint(tl, q) /\ Disjoint(q, fl)
        <3>1. Disjoint(tl, pl) /\ Disjoint(pl, fl)
            OBVIOUS
        <3> HIDE DEF Lists
        <3>2. Disjoint(tl, q)
            BY <1>1, <1>3, <3>1 DEF Disjoint
        <3>3. Disjoint(q, fl)
            BY <1>1, <1>3, <3>1 DEF Disjoint
        <3> QED
            BY <3>2, <3>3
    <2> HIDE DEF Lists
    <2>4. \A x, y \in 1 .. m - 1 : x + 1 = y + 1 => x = y
        BY <1>1
    <2>5. Distinct(q)
        BY <1>3, <2>2, <2>4 DEF Distinct
    <2> QED
        BY <2>1, <2>3, <2>5
<1>6. PendingOrder(n, tl, to, q, fl)
    <2>1. \A x, y \in 1 .. m - 1 : x < y => x + 1 < y + 1
        BY <1>1
    <2>2. PendingOrder(n, tl, to, pl, fl)
        OBVIOUS
    <2> HIDE DEF Lists
    <2> QED
        BY <1>1, <1>3, <2>1, <2>2 DEF PendingOrder
<1> QED
    BY <1>2, <1>4, <1>5, <1>6

(* firePending fires a timer.                                              *)
LEMMA HeadFires ==
    ASSUME NEW n, NEW k, NEW tl, NEW to, NEW pl, NEW fl, Lists(n, k, tl, to, pl, fl),
           pl # <<>>, Head(pl) # Wakeup
    PROVE  Lists(n, k, tl, to, Tail(pl), Append(fl, Head(pl)))
<1>1. PICK m \in Nat : m = Len(pl) /\ DOMAIN pl = 1 .. m /\ m > 0
    BY LenProperties, EmptySeq DEF Lists, ListTypes
<1>2. PICK q : q = Tail(pl)
    OBVIOUS
<1>3. Lists(n, k, tl, to, q, fl)
    BY <1>2, HeadLeaves
<1> USE DEF Lists
<1>4. /\ DOMAIN q = 1 .. m - 1
      /\ \A j \in 1 .. m - 1 : q[j] = pl[j + 1] /\ j + 1 \in 1 .. m /\ 1 < j + 1
    BY <1>1, <1>2 DEF ListTypes
<1>5. 1 \in 1 .. m /\ pl[1] # Wakeup /\ pl[1] \in Timers
    <2>1. 1 \in 1 .. m /\ Head(pl) = pl[1]
        BY <1>1 DEF ListTypes
    <2>2. pl[1] \in Timers \cup {Wakeup}
        BY <1>1, <2>1, ElementOfSeq DEF ListTypes
    <2> QED
        BY <2>1, <2>2
<1>6. PICK h \in Timers : h = pl[1] /\ Head(pl) = h
    BY <1>1, <1>5 DEF ListTypes
<1>7. PICK l \in Nat : l = Len(fl) /\ DOMAIN fl = 1 .. l
    BY LenProperties DEF ListTypes
<1>8. PICK f : f = Append(fl, h)
    OBVIOUS
<1>9. /\ f \in Seq(Timers) /\ DOMAIN f = 1 .. l + 1 /\ f[l + 1] = h
      /\ \A j \in 1 .. l : f[j] = fl[j]
      /\ \A j \in 1 .. l + 1 : j \in 1 .. l \/ j = l + 1
    <2>1. PICK p \in Seq(Timers) : p = fl
        BY DEF ListTypes
    <2>2. /\ Append(p, h) \in Seq(Timers) /\ Len(Append(p, h)) = Len(p) + 1
          /\ \A j \in 1 .. Len(p) : Append(p, h)[j] = p[j]
          /\ Append(p, h)[Len(p) + 1] = h
        BY AppendProperties
    <2> QED
        BY <1>7, <1>8, <2>1, <2>2
<1>10. ListTypes(n, k, tl, to, q, f)
    BY <1>3, <1>9 DEF ListTypes
<1>11. Allocated(k, tl, q, f)
    BY <1>1, <1>3, <1>5, <1>6, <1>7, <1>9 DEF Allocated
<1>12. Distinct(f)
    BY <1>1, <1>5, <1>6, <1>7, <1>9 DEF Distinct, Disjoint
<1>13. Disjoint(tl, f) /\ Disjoint(q, f)
    <2>1. Disjoint(tl, f)
        BY <1>1, <1>5, <1>6, <1>7, <1>9 DEF Disjoint
    <2>2. \A j \in 1 .. m - 1 : q[j] # h
        <3> SUFFICES ASSUME NEW j \in 1 .. m - 1 PROVE pl[j + 1] # pl[1]
            BY <1>4, <1>6
        <3> QED
            BY <1>1, <1>4, <1>5 DEF Distinct
    <2>3. Disjoint(q, f)
        BY <1>3, <1>4, <1>7, <1>9, <2>2 DEF Disjoint
    <2> QED
        BY <2>1, <2>3
<1>14. FiredOrder(n, tl, to, f)
    <2>1. /\ to[h] < n /\ \A j \in 1 .. l : to[fl[j]] <= to[h]
          /\ \A j \in DOMAIN tl : to[h] <= to[tl[j]]
        BY <1>1, <1>5, <1>6, <1>7 DEF PendingOrder
    <2>2. \A i, j \in 1 .. l + 1 : i < j => i \in 1 .. l
        OBVIOUS
    <2> QED
        BY <1>7, <1>9, <2>1, <2>2 DEF FiredOrder
<1>15. PendingOrder(n, tl, to, q, f)
    <2>1. \A j \in 1 .. m - 1 : q[j] # Wakeup => to[h] <= to[q[j]]
        <3> SUFFICES ASSUME NEW j \in 1 .. m - 1, pl[j + 1] # Wakeup
                     PROVE  to[pl[1]] <= to[pl[j + 1]]
            BY <1>4, <1>6
        <3> QED
            BY <1>1, <1>4, <1>5 DEF PendingOrder
    <2> QED
        BY <1>3, <1>4, <1>7, <1>9, <2>1 DEF PendingOrder
<1> QED
    BY <1>2, <1>3, <1>6, <1>8, <1>10, <1>11, <1>12, <1>13, <1>14, <1>15

LEMMA TimePasses ==
    ASSUME NEW n, NEW k, NEW tl, NEW to, NEW pl, NEW fl, Lists(n, k, tl, to, pl, fl)
    PROVE  Lists(n + 1, k, tl, to, pl, fl)
<1> USE DEF Lists
<1>1. \A j \in DOMAIN fl : to[fl[j]] \in Nat
    <2>1. \A j \in DOMAIN fl : fl[j] \in Timers
        BY ElementOfSeq DEF ListTypes
    <2> QED
        BY <2>1 DEF ListTypes
<1>2. \A j \in DOMAIN pl : pl[j] # Wakeup => to[pl[j]] \in Nat
    <2>1. \A j \in DOMAIN pl : pl[j] \in Timers \cup {Wakeup}
        BY ElementOfSeq DEF ListTypes
    <2> QED
        BY <2>1 DEF ListTypes
<1>3. ListTypes(n + 1, k, tl, to, pl, fl) /\ n \in Nat
    BY DEF ListTypes
<1>4. FiredOrder(n + 1, tl, to, fl)
    BY <1>1, <1>3 DEF FiredOrder
<1>5. PendingOrder(n + 1, tl, to, pl, fl)
    BY <1>2, <1>3 DEF PendingOrder
<1> QED
    BY <1>3, <1>4, <1>5

-----------------------------------------------------------------------------
(* The steps *)

(* The lists are those of TypeOK.                                          *)
LEMMA ListsTyped ==
    ASSUME NEW n, NEW k, NEW tl, NEW to, NEW pl, NEW fl, Lists(n, k, tl, to, pl, fl)
    PROVE  /\ k \in 0 .. MaxTimers /\ tl \in Seq(Timers) /\ to \in [Timers -> Nat]
           /\ pl \in Seq(Timers \cup {Wakeup}) /\ fl \in Seq(Timers)
BY DEF Lists, ListTypes

LEMMA InitStep == Init => EventInv
<1> SUFFICES ASSUME Init PROVE EventInv
    OBVIOUS
<1> USE DEF Init
<1>1. TypeOK
    <2>1. timer_list \in Seq(Timers) /\ pending_list \in Seq(Timers \cup {Wakeup})
          /\ fired \in Seq(Timers) /\ timeout \in [Timers -> Nat]
        OBVIOUS
    <2>2. now \in 0 .. MaxTime /\ nextTimer \in 0 .. MaxTimers /\ signals \in 0 .. MaxSignals
          /\ bytes \in Nat
        BY TimeAssumption
    <2>3. {seen, tv, until} \subseteq Nat \cup {Forever}
        OBVIOUS
    <2> QED
        BY <2>1, <2>2, <2>3 DEF TypeOK
<1>2. Lists(now, nextTimer, timer_list, timeout, pending_list, fired)
    <2>1. ListTypes(now, nextTimer, timer_list, timeout, pending_list, fired)
        BY TimeAssumption DEF ListTypes
    <2> QED
        BY <2>1 DEF Lists, Sorted, Allocated, Distinct, Disjoint, FiredOrder, PendingOrder
<1>3. Phases /\ NoLostWakeup
    BY DEF Phases, NoLostWakeup
<1> QED
    BY <1>1, <1>2, <1>3 DEF EventInv

(* The steps of the loop that leave the lists alone.                       *)
LEMMA LoopTurnStep ==
    ASSUME EventInv, MakePipe \/ ril_event_add \/ CopyFds \/ EnterSelect \/ SelectReturns
                       \/ SelectInterrupted \/ FireDone
    PROVE  EventInv'
<1> USE DEF EventInv
<1>1. Lists(now, nextTimer, timer_list, timeout, pending_list, fired)'
    BY DEF MakePipe, ril_event_add, CopyFds, EnterSelect, SelectReturns, SelectInterrupted,
           FireDone, timerVars
<1> HIDE DEF EventInv
<1>2. TypeOK /\ Phases /\ NoLostWakeup
    BY DEF EventInv
<1>3. CASE MakePipe
    BY <1>1, <1>2, <1>3 DEF EventInv, MakePipe, TypeOK, Phases, NoLostWakeup, timerVars
<1>4. CASE ril_event_add
    BY <1>1, <1>2, <1>4 DEF EventInv, ril_event_add, TypeOK, Phases, NoLostWakeup, timerVars
<1>5. CASE CopyFds
    BY <1>1, <1>2, <1>5 DEF EventInv, CopyFds, TypeOK, Phases, NoLostWakeup, timerVars, pipeVars
<1>6. CASE EnterSelect
    <2>1. until' \in Nat \cup {Forever}
        BY <1>2, <1>6, TimeAssumption DEF EnterSelect, TypeOK, Forever
    <2>2. TypeOK'
        BY <1>2, <1>6, <2>1 DEF EnterSelect, TypeOK, timerVars, pipeVars
    <2>3. Phases' /\ NoLostWakeup'
        BY <1>2, <1>6 DEF EnterSelect, Phases, NoLostWakeup, timerVars, pipeVars
    <2> QED
        BY <1>1, <2>2, <2>3 DEF EventInv
<1>7. CASE SelectReturns
    <2>1. Readable \in BOOLEAN
        BY <1>2 DEF Readable, TypeOK
    <2>2. TypeOK'
        BY <1>2, <1>7, <2>1 DEF SelectReturns, TypeOK, timerVars, pipeVars
    <2>3. Phases' /\ NoLostWakeup'
        BY <1>2, <1>7 DEF SelectReturns, Phases, NoLostWakeup, timerVars, pipeVars
    <2> QED
        BY <1>1, <2>2, <2>3 DEF EventInv
<1>8. CASE SelectInterrupted
    <2>1. signals' \in 0 .. MaxSignals
        BY <1>2, <1>8, TimeAssumption DEF SelectInterrupted, TypeOK
    <2>2. TypeOK'
        BY <1>2, <1>8, <2>1 DEF SelectInterrupted, TypeOK, timerVars, pipeVars
    <2>3. Phases' /\ NoLostWakeup'
        BY <1>2, <1>8 DEF SelectInterrupted, Phases, NoLostWakeup, timerVars, pipeVars
    <2> QED
        BY <1>1, <2>2, <2>3 DEF EventInv
<1>9. CASE FireDone
    BY <1>1, <1>2, <1>9 DEF EventInv, FireDone, TypeOK, Phases, NoLostWakeup, timerVars, pipeVars
<1> QED
    BY <1>3, <1>4, <1>5, <1>6, <1>7, <1>8, <1>9

(* calcNextTimeout sees the first deadline, which is the earliest.         *)
LEMMA CalcNextTimeoutStep ==
    ASSUME EventInv, calcNextTimeout
    PROVE  EventInv'
<1>1. TypeOK /\ Phases /\ Lists(now, nextTimer, timer_list, timeout, pending_list, fired)
    BY DEF EventInv
<1>2. Lists(now, nextTimer, timer_list, timeout, pending_list, fired)'
    BY <1>1 DEF calcNextTimeout, timerVars
<1>3. PICK m \in Nat : m = Len(timer_list) /\ DOMAIN timer_list = 1 .. m
    BY <1>1, LenProperties DEF TypeOK
<1>4. \A i \in 1 .. m : timeout[timer_list[i]] \in Nat
    <2>1. \A i \in 1 .. m : timer_list[i] \in Timers
        BY <1>1, <1>3, ElementOfSeq DEF TypeOK
    <2> QED
        BY <1>1, <2>1 DEF TypeOK
<1>5. CASE timer_list = <<>>
    <2>1. m = 0 /\ seen' = Forever /\ tv' = Forever
        BY <1>3, <1>5 DEF calcNextTimeout
    <2>2. TypeOK'
        BY <1>1, <2>1 DEF calcNextTimeout, TypeOK, timerVars, pipeVars
    <2>3. Phases' /\ NoLostWakeup'
        BY <1>1, <1>5 DEF calcNextTimeout, Phases, NoLostWakeup, timerVars, pipeVars
    <2> QED
        BY <1>2, <2>2, <2>3 DEF EventInv
<1>6. CASE timer_list # <<>>
    <2>1. 1 \in 1 .. m /\ Head(timer_list) = timer_list[1]
        <3>1. m > 0
            BY <1>1, <1>3, <1>6, EmptySeq DEF TypeOK
        <3> QED
            BY <1>1, <1>3, <3>1 DEF TypeOK
    <2>2. seen' = timeout[timer_list[1]] /\ seen' \in Nat
        <3>1. seen' = timeout[Head(timer_list)]
            BY <1>6, Zenon DEF calcNextTimeout
        <3> QED
            BY <1>4, <2>1, <3>1
    <2>3. tv' \in Nat
        BY <1>1, <1>6, <2>2 DEF calcNextTimeout, TypeOK
    <2>4. TypeOK'
        BY <1>1, <2>2, <2>3 DEF calcNextTimeout, TypeOK, timerVars, pipeVars
    <2>5. \A i \in 1 .. m : timeout[timer_list[i]] >= seen'
        <3> SUFFICES ASSUME NEW i \in 1 .. m PROVE timeout[timer_list[1]] <= timeout[timer_list[i]]
            BY <1>4, <2>1, <2>2
        <3>1. CASE i = 1
            BY <1>4, <3>1
        <3>2. CASE i > 1
            BY <1>1, <1>3, <2>1, <3>2 DEF Lists, Sorted
        <3> QED
            BY <3>1, <3>2
    <2>6. Phases'
        BY <1>1 DEF calcNextTimeout, Phases, timerVars, pipeVars
    <2>7. NoLostWakeup'
        BY <1>3, <2>2, <2>5 DEF calcNextTimeout, NoLostWakeup, timerVars, Forever
    <2> QED
        BY <1>2, <2>4, <2>6, <2>7 DEF EventInv
<1> QED
    BY <1>5, <1>6

LEMMA ProcessTimeoutsStep ==
    ASSUME EventInv, processTimeouts
    PROVE  EventInv'
<1>1. TypeOK /\ Phases /\ Lists(now, nextTimer, timer_list, timeout, pending_list, fired)
    BY DEF EventInv
<1>2. pending_list = <<>>
    BY <1>1 DEF Phases, processTimeouts
<1>3. PICK e \in 0 .. Len(timer_list) :
          e = Expired /\ \A i \in 1 .. e : timeout[timer_list[i]] < now
    BY <1>1, ExpiredIs
<1>4. pending_list' = SubSeq(timer_list, 1, e)
    <2>1. SubSeq(timer_list, 1, e) \in Seq(Timers)
        BY <1>1 DEF TypeOK
    <2> QED
        BY <1>2, <1>3, <2>1, ConcatEmptySeq DEF processTimeouts
<1>5. timer_list' = SubSeq(timer_list, e + 1, Len(timer_list))
    BY <1>3 DEF processTimeouts
<1>6. /\ Lists(now, nextTimer, timer_list', timeout, pending_list', fired)
      /\ \A i \in DOMAIN pending_list' : pending_list'[i] # Wakeup
    BY <1>1, <1>2, <1>3, <1>4, <1>5, TimersExpire
<1>7. Lists(now, nextTimer, timer_list, timeout, pending_list, fired)'
    BY <1>6 DEF processTimeouts
<1>8. TypeOK'
    <2>1. timer_list' \in Seq(Timers) /\ pending_list' \in Seq(Timers \cup {Wakeup})
        BY <1>6, ListsTyped
    <2> QED
        BY <1>1, <2>1 DEF processTimeouts, TypeOK, pipeVars
<1>9. Phases' /\ NoLostWakeup'
    BY <1>1, <1>6 DEF processTimeouts, Phases, NoLostWakeup, pipeVars
<1> QED
    BY <1>7, <1>8, <1>9 DEF EventInv

LEMMA ProcessReadReadiesStep ==
    ASSUME EventInv, processReadReadies
    PROVE  EventInv'
<1>1. TypeOK /\ Phases /\ Lists(now, nextTimer, timer_list, timeout, pending_list, fired)
    BY DEF EventInv
<1>2. \A i \in DOMAIN pending_list : pending_list[i] # Wakeup
    BY <1>1 DEF Phases, processReadReadies
<1>3. Lists(now, nextTimer, timer_list, timeout, Append(pending_list, Wakeup), fired)
    BY <1>1, <1>2, WakeupPends
<1>4. Lists(now, nextTimer, timer_list, timeout, pending_list', fired)
    BY <1>1, <1>3 DEF processReadReadies
<1>5. Lists(now, nextTimer, timer_list, timeout, pending_list, fired)'
    BY <1>4 DEF processReadReadies, timerVars
<1>6. TypeOK'
    <2>1. pending_list' \in Seq(Timers \cup {Wakeup})
        BY <1>4, ListsTyped
    <2> QED
        BY <1>1, <2>1 DEF processReadReadies, TypeOK, timerVars, pipeVars
<1>7. Phases' /\ NoLostWakeup'
    BY <1>1 DEF processReadReadies, Phases, NoLostWakeup, pipeVars
<1> QED
    BY <1>5, <1>6, <1>7 DEF EventInv

LEMMA FireWakeupStep ==
    ASSUME EventInv, FireWakeup
    PROVE  EventInv'
<1>1. TypeOK /\ Phases /\ Lists(now, nextTimer, timer_list, timeout, pending_list, fired)
    BY DEF EventInv
<1>2. Lists(now, nextTimer, timer_list, timeout, pending_list', fired)
    BY <1>1, HeadLeaves DEF FireWakeup
<1>3. Lists(now, nextTimer, timer_list, timeout, pending_list, fired)'
    BY <1>2 DEF FireWakeup, timerVars
<1>4. TypeOK'
    <2>1. pending_list' \in Seq(Timers \cup {Wakeup})
        BY <1>2, ListsTyped
    <2> QED
        BY <1>1, <2>1 DEF FireWakeup, TypeOK, timerVars, loopVars
<1>5. Phases' /\ NoLostWakeup'
    BY <1>1 DEF FireWakeup, Phases, NoLostWakeup, loopVars
<1> QED
    BY <1>3, <1>4, <1>5 DEF EventInv

(* A timer fires, and its callback may arm another.                        *)
LEMMA FireTimerStep ==
    ASSUME EventInv, FireTimer \/ \E d \in Delays : FireTimerRearms(d)
    PROVE  EventInv'
<1>1. TypeOK /\ Phases /\ Lists(now, nextTimer, timer_list, timeout, pending_list, fired)
    BY DEF EventInv
<1>2. /\ pc = "fire" /\ pending_list # <<>> /\ Head(pending_list) # Wakeup
      /\ pending_list' = Tail(pending_list) /\ fired' = Append(fired, Head(pending_list))
      /\ UNCHANGED <<now, pipeVars, tpc, loopVars>>
    BY DEF FireTimer, FireTimerRearms
<1>3. Lists(now, nextTimer, timer_list, timeout, pending_list', fired')
    BY <1>1, <1>2, HeadFires
<1>4. Lists(now, nextTimer', timer_list', timeout', pending_list', fired')
    <2>1. CASE FireTimer
        BY <1>3, <2>1 DEF FireTimer, timerVars
    <2>2. ASSUME NEW d \in Delays, FireTimerRearms(d)
          PROVE  Lists(now, nextTimer', timer_list', timeout', pending_list', fired')
        <3>1. PICK pl, fl : pl = pending_list' /\ fl = fired'
            OBVIOUS
        <3>2. Lists(now, nextTimer, timer_list, timeout, pl, fl)
            BY <1>3, <3>1
        <3>3. nextTimer < MaxTimers /\ ril_timer_add(nextTimer + 1, d)
            BY <2>2 DEF FireTimerRearms
        <3>4. Lists(now, nextTimer', timer_list', timeout', pl, fl)
            BY <1>1, <3>2, <3>3, TimerAdded
        <3> QED
            BY <3>1, <3>4
    <2> QED
        BY <2>1, <2>2
<1>5. Lists(now, nextTimer, timer_list, timeout, pending_list, fired)'
    BY <1>2, <1>4
<1>6. TypeOK'
    <2>1. /\ nextTimer' \in 0 .. MaxTimers /\ timer_list' \in Seq(Timers)
          /\ timeout' \in [Timers -> Nat]
          /\ pending_list' \in Seq(Timers \cup {Wakeup}) /\ fired' \in Seq(Timers)
        BY <1>4, ListsTyped
    <2> QED
        BY <1>1, <1>2, <2>1 DEF TypeOK, loopVars, pipeVars
<1>7. Phases' /\ NoLostWakeup'
    BY <1>1, <1>2 DEF Phases, NoLostWakeup, loopVars, pipeVars
<1> QED
    BY <1>5, <1>6, <1>7 DEF EventInv

(* A thread arms a timer: it is about to write a byte.                     *)
LEMMA RequestTimedCallbackStep ==
    ASSUME EventInv, NEW th \in Threads, NEW d \in Delays, RequestTimedCallback(th, d)
    PROVE  EventInv'
<1>1. TypeOK /\ Phases /\ Lists(now, nextTimer, timer_list, timeout, pending_list, fired)
    BY DEF EventInv
<1>2. Lists(now, nextTimer', timer_list', timeout', pending_list, fired)
    <2>1. PICK pl, fl : pl = pending_list /\ fl = fired
        OBVIOUS
    <2>2. Lists(now, nextTimer', timer_list', timeout', pl, fl)
        BY <1>1, <2>1, TimerAdded DEF RequestTimedCallback
    <2> QED
        BY <2>1, <2>2
<1>3. Lists(now, nextTimer, timer_list, timeout, pending_list, fired)'
    BY <1>2 DEF RequestTimedCallback
<1>4. tpc' \in [Threads -> {"idle", "trigger"}] /\ tpc'[th] = "trigger"
    BY <1>1 DEF RequestTimedCallback, TypeOK
<1>5. TypeOK'
    <2>1. /\ nextTimer' \in 0 .. MaxTimers /\ timer_list' \in Seq(Timers)
          /\ timeout' \in [Timers -> Nat]
        BY <1>2, ListsTyped
    <2> QED
        BY <1>1, <1>4, <2>1 DEF RequestTimedCallback, TypeOK, loopVars, pipeVars
<1>6. Phases' /\ NoLostWakeup'
    BY <1>1, <1>4 DEF RequestTimedCallback, Phases, NoLostWakeup, loopVars, pipeVars
<1> QED
    BY <1>3, <1>5, <1>6 DEF EventInv

(* triggerEvLoop: while the loop sleeps the pipe is there and watched.     *)
LEMMA TriggerEvLoopStep ==
    ASSUME EventInv, NEW th \in Threads, triggerEvLoop(th)
    PROVE  EventInv'
<1>1. TypeOK /\ Phases /\ Lists(now, nextTimer, timer_list, timeout, pending_list, fired)
    BY DEF EventInv
<1>2. Lists(now, nextTimer, timer_list, timeout, pending_list, fired)'
    BY <1>1 DEF triggerEvLoop, timerVars
<1>3. bytes' \in Nat /\ (piped => bytes' > 0)
    BY <1>1 DEF triggerEvLoop, TypeOK
<1>4. tpc' \in [Threads -> {"idle", "trigger"}]
    BY <1>1 DEF triggerEvLoop, TypeOK
<1>5. TypeOK'
    BY <1>1, <1>3, <1>4 DEF triggerEvLoop, TypeOK, timerVars, loopVars
<1>6. Phases'
    BY <1>1 DEF triggerEvLoop, Phases, loopVars
<1>7. NoLostWakeup'
    BY <1>1, <1>3 DEF triggerEvLoop, Phases, NoLostWakeup, loopVars
<1> QED
    BY <1>2, <1>5, <1>6, <1>7 DEF EventInv

LEMMA TickStep ==
    ASSUME EventInv, Tick
    PROVE  EventInv'
<1>1. TypeOK /\ Phases /\ NoLostWakeup
      /\ Lists(now, nextTimer, timer_list, timeout, pending_list, fired)
    BY DEF EventInv
<1>2. Lists(now + 1, nextTimer, timer_list, timeout, pending_list, fired)
    BY <1>1, TimePasses
<1>3. Lists(now, nextTimer, timer_list, timeout, pending_list, fired)'
    BY <1>2 DEF Tick, timerVars
<1>4. now' \in 0 .. MaxTime
    BY <1>1, TimeAssumption DEF Tick, TypeOK
<1>5. TypeOK'
    BY <1>1, <1>4 DEF Tick, TypeOK, timerVars, pipeVars, loopVars
<1>6. Phases' /\ NoLostWakeup'
    BY <1>1 DEF Tick, Phases, NoLostWakeup, timerVars, pipeVars, loopVars
<1> QED
    BY <1>3, <1>5, <1>6 DEF EventInv

LEMMA StutterStep ==
    ASSUME EventInv, UNCHANGED vars
    PROVE  EventInv'
<1>1. Lists(now, nextTimer, timer_list, timeout, pending_list, fired)'
    BY DEF EventInv, vars, timerVars
<1>2. TypeOK' /\ Phases' /\ NoLostWakeup'
    BY DEF EventInv, vars, timerVars, pipeVars, loopVars, TypeOK, Phases, NoLostWakeup
<1> QED
    BY <1>1, <1>2 DEF EventInv

-----------------------------------------------------------------------------
(* Concatenated lists *)

(* The elements of a concatenation.                                        *)
LEMMA ConcatIs ==
    ASSUME NEW S, NEW a \in Seq(S), NEW b \in Seq(S), NEW l \in Nat, l = Len(a),
           NEW m \in Nat, m = Len(b)
    PROVE  /\ DOMAIN (a \o b) = 1 .. l + m
           /\ \A i \in 1 .. l + m : \/ i \in 1 .. l /\ (a \o b)[i] = a[i]
                                    \/ i > l /\ i - l \in 1 .. m /\ (a \o b)[i] = b[i - l]
<1>1. PICK c \in Seq(S) : c = a \o b
    BY ConcatProperties
<1>2. /\ Len(c) = Len(a) + Len(b)
      /\ \A i \in 1 .. Len(a) + Len(b) : c[i] = IF i <= Len(a) THEN a[i] ELSE b[i - Len(a)]
    BY <1>1, ConcatProperties
<1>3. DOMAIN c = 1 .. l + m
    BY <1>2, LenProperties
<1>4. ASSUME NEW i \in 1 .. l + m
      PROVE  \/ i \in 1 .. l /\ c[i] = a[i]
             \/ i > l /\ i - l \in 1 .. m /\ c[i] = b[i - l]
    <2>1. c[i] = IF i <= l THEN a[i] ELSE b[i - l]
        BY <1>2
    <2>2. CASE i <= l
        BY <2>1, <2>2
    <2>3. CASE i > l
        <3>1. i - l \in 1 .. m /\ ~(i <= l)
            BY <2>3
        <3> QED
            BY <2>1, <2>3, <3>1
    <2> QED
        BY <2>2, <2>3
<1> QED
    BY <1>1, <1>3, <1>4

LEMMA DistinctConcat ==
    ASSUME NEW S, NEW a \in Seq(S), NEW b \in Seq(S), Distinct(a), Distinct(b), Disjoint(a, b)
    PROVE  Distinct(a \o b)
<1>1. PICK l \in Nat, m \in Nat : /\ l = Len(a) /\ DOMAIN a = 1 .. l
                                  /\ m = Len(b) /\ DOMAIN b = 1 .. m
    BY LenProperties
<1>2. PICK c : c = a \o b
    OBVIOUS
<1>3. /\ DOMAIN c = 1 .. l + m
      /\ \A i \in 1 .. l + m : \/ i \in 1 .. l /\ c[i] = a[i]
                               \/ i > l /\ i - l \in 1 .. m /\ c[i] = b[i - l]
    BY <1>1, <1>2, ConcatIs
<1>4. ASSUME NEW i \in 1 .. l + m, NEW j \in 1 .. l + m, c[i] = c[j] PROVE i = j
    <2>1. CASE i \in 1 .. l /\ c[i] = a[i] /\ j \in 1 .. l /\ c[j] = a[j]
        BY <1>1, <1>4, <2>1 DEF Distinct
    <2>2. ASSUME NEW x \in 1 .. l, NEW y \in 1 .. m PROVE a[x] # b[y]
        BY <1>1 DEF Disjoint
    <2>3. CASE /\ i > l /\ i - l \in 1 .. m /\ c[i] = b[i - l]
               /\ j > l /\ j - l \in 1 .. m /\ c[j] = b[j - l]
        <3>1. i - l = j - l
            BY <1>1, <1>4, <2>3 DEF Distinct
        <3> QED
            BY <3>1
    <2> QED
        BY <1>3, <1>4, <2>1, <2>2, <2>3
<1> QED
    BY <1>2, <1>3, <1>4 DEF Distinct

LEMMA DisjointConcat ==
    ASSUME NEW S, NEW a \in Seq(S), NEW b \in Seq(S), NEW c, Disjoint(a, c), Disjoint(b, c)
    PROVE  Disjoint(a \o b, c)
<1>1. PICK l \in Nat, m \in Nat : /\ l = Len(a) /\ DOMAIN a = 1 .. l
                                  /\ m = Len(b) /\ DOMAIN b = 1 .. m
    BY LenProperties
<1>2. PICK d : d = a \o b
    OBVIOUS
<1>3. /\ DOMAIN d = 1 .. l + m
      /\ \A i \in 1 .. l + m : \/ i \in 1 .. l /\ d[i] = a[i]
                               \/ i > l /\ i - l \in 1 .. m /\ d[i] = b[i - l]
    BY <1>1, <1>2, ConcatIs
<1> QED
    BY <1>1, <1>2, <1>3 DEF Disjoint

-----------------------------------------------------------------------------
(* The theorems *)

(* The inductive invariant of the event loop.                              *)
THEOREM EventInductive == Spec => []EventInv
<1>1. Init => EventInv
    BY InitStep
<1>2. ASSUME EventInv, Next PROVE EventInv'
    <2>1. CASE LoopStep
        BY <1>2, <2>1, LoopTurnStep, CalcNextTimeoutStep, ProcessTimeoutsStep,
           ProcessReadReadiesStep, FireWakeupStep, FireTimerStep DEF LoopStep
    <2>2. CASE SelectInterrupted
        BY <1>2, <2>2, LoopTurnStep
    <2>3. CASE \E d \in Delays : FireTimerRearms(d)
        BY <1>2, <2>3, FireTimerStep
    <2>4. CASE \E th \in Threads, d \in Delays : RequestTimedCallback(th, d)
        BY <1>2, <2>4, RequestTimedCallbackStep
    <2>5. CASE \E th \in Threads : triggerEvLoop(th)
        BY <1>2, <2>5, TriggerEvLoopStep
    <2>6. CASE Tick
        BY <1>2, <2>6, TickStep
    <2> QED
        BY <1>2, <2>1, <2>2, <2>3, <2>4, <2>5, <2>6 DEF Next
<1>3. EventInv /\ [Next]_vars => EventInv'
    BY <1>2, StutterStep
<1> QED
    BY <1>1, <1>3, PTL DEF Spec

(* The event loop's variables keep their types.                            *)
THEOREM EventTypeCorrect == Spec => []TypeOK
<1>1. EventInv => TypeOK
    BY DEF EventInv
<1> QED
    BY <1>1, EventInductive, PTL

(* However the threads that arm timers interleave with the loop, which     *)
(* reads the first timer and readFds without listMutex, it never sleeps    *)
(* past a timer without a wakeup under way.                                *)
THEOREM WakeupsNotLost == Spec => []NoLostWakeup
<1>1. EventInv => NoLostWakeup
    BY DEF EventInv
<1> QED
    BY <1>1, EventInductive, PTL

(* No event is linked twice: ril_timer_add, processTimeouts and            *)
(* firePending only ever move one that is in no other list.                *)
THEOREM EventsLinkedOnce == Spec => []LinkedOnce
<1>1. ASSUME EventInv PROVE LinkedOnce
    <2>1. PICK S, a, b, c : /\ a \in Seq(S) /\ b \in Seq(S) /\ c \in Seq(S)
                            /\ a = timer_list /\ b = pending_list /\ c = fired
        <3>1. /\ timer_list \in Seq(Timers \cup {Wakeup}) /\ fired \in Seq(Timers \cup {Wakeup})
              /\ pending_list \in Seq(Timers \cup {Wakeup})
            BY <1>1, SeqMonotonic DEF EventInv, TypeOK
        <3> QED
            BY <3>1
    <2>2. /\ Distinct(a) /\ Distinct(b) /\ Distinct(c)
          /\ Disjoint(a, b) /\ Disjoint(a, c) /\ Disjoint(b, c)
        BY <1>1, <2>1 DEF EventInv, Lists
    <2>3. Distinct(a \o b) /\ Disjoint(a \o b, c) /\ a \o b \in Seq(S)
        BY <2>1, <2>2, DistinctConcat, DisjointConcat, ConcatProperties
    <2>4. Distinct((a \o b) \o c)
        BY <2>1, <2>2, <2>3, DistinctConcat
    <2> QED
        BY <2>1, <2>4 DEF LinkedOnce, Distinct
<1> QED
    BY <1>1, EventInductive, PTL

(* Timers fire in the order of their deadlines and after them, also when   *)
(* others are armed by the callbacks that are being fired.                 *)
THEOREM TimersFireInOrder == Spec => []FiresInOrder
<1>1. ASSUME EventInv PROVE FiresInOrder
    <2>1. PICK S, f, p : f \in Seq(S) /\ p \in Seq(S) /\ f = fired /\ p = pending_list
        <3>1. fired \in Seq(Timers \cup {Wakeup}) /\ pending_list \in Seq(Timers \cup {Wakeup})
            BY <1>1, SeqMonotonic DEF EventInv, TypeOK
        <3> QED
            BY <3>1
    <2>2. PICK l \in Nat, m \in Nat : /\ l = Len(f) /\ DOMAIN f = 1 .. l
                                       /\ m = Len(p) /\ DOMAIN p = 1 .. m
        BY <2>1, LenProperties
    <2>3. PICK due : due = f \o p
        OBVIOUS
    <2>4. /\ DOMAIN due = 1 .. l + m
          /\ \A i \in 1 .. l + m : \/ i \in 1 .. l /\ due[i] = f[i]
                                   \/ i > l /\ i - l \in 1 .. m /\ due[i] = p[i - l]
        BY <2>1, <2>2, <2>3, ConcatIs
    <2>5. FiredOrder(now, timer_list, timeout, f) /\ PendingOrder(now, timer_list, timeout, p, f)
        BY <1>1, <2>1 DEF EventInv, Lists
    <2>6. ASSUME NEW i \in 1 .. l + m, due[i] # Wakeup
          PROVE  timeout[due[i]] < now
                 /\ \A j \in DOMAIN timer_list : timeout[due[i]] <= timeout[timer_list[j]]
        <3>1. CASE i \in 1 .. l /\ due[i] = f[i]
            BY <2>2, <2>5, <3>1 DEF FiredOrder
        <3>2. CASE i > l /\ i - l \in 1 .. m /\ due[i] = p[i - l]
            BY <2>2, <2>5, <2>6, <3>2 DEF PendingOrder
        <3> QED
            BY <2>4, <3>1, <3>2
    <2>7. ASSUME NEW i \in 1 .. l + m, NEW j \in 1 .. l + m, i < j, due[i] # Wakeup, due[j] # Wakeup
          PROVE  timeout[due[i]] <= timeout[due[j]]
        <3>1. CASE j \in 1 .. l
            <4>1. i \in 1 .. l /\ due[i] = f[i] /\ due[j] = f[j]
                BY <2>4, <2>7, <3>1
            <4> QED
                BY <2>2, <2>5, <2>7, <3>1, <4>1 DEF FiredOrder
        <3>2. CASE j > l
            <4>1. PICK y \in 1 .. m : y = j - l /\ due[j] = p[y]
                BY <2>4, <3>2
            <4>2. CASE i \in 1 .. l /\ due[i] = f[i]
                BY <2>2, <2>5, <2>7, <4>1, <4>2 DEF PendingOrder
            <4>3. CASE i > l
                <5>1. PICK x \in 1 .. m : x = i - l /\ due[i] = p[x]
                    BY <2>4, <4>3
                <5>2. x < y
                    BY <2>7, <4>1, <5>1
                <5> QED
                    BY <2>2, <2>5, <2>7, <4>1, <5>1, <5>2 DEF PendingOrder
            <4> QED
                BY <2>4, <4>2, <4>3
        <3> QED
            BY <2>2, <3>1, <3>2
    <2> QED
        BY <2>1, <2>3, <2>4, <2>6, <2>7 DEF FiresInOrder
<1> QED
    BY <1>1, EventInductive, PTL
=============================================================================
