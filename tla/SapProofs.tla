------------------------------ MODULE SapProofs ------------------------------
(***************************************************************************)
(* Proofs about Sap, for every number of requests and of vendor threads.   *)
(***************************************************************************)
EXTENDS Sap, FiniteSetTheorems, SequenceTheorems, TLAPS

Blocks == {"msg", "command", "buffer", "payload", "entry", "message"}
Whats == {"none", "null callback", "null message", "no entry", "use after free"}
Troubles == [what : Whats, twins : BOOLEAN, early : BOOLEAN]
Answers == [success : BOOLEAN, true : BOOLEAN]

SapTypes ==
    /\ kind \in Seq(Kinds) /\ token \in Seq(Tokens) /\ Len(token) = Len(kind)
    /\ answers \in Seq(Seq(Answers)) /\ Len(answers) = Len(kind)
    /\ heap \subseteq (0 .. Len(kind)) \X Blocks
    /\ queue \in Seq(1 .. Len(kind))
    /\ hidl \in 0 .. Len(kind)
    /\ owed \subseteq 1 .. Len(kind)
    /\ vpc \in [Vendors -> {"idle", "response", "call", "callNull", "dequeue"}]
    /\ vreq \in [Vendors -> 0 .. Len(kind)]
    /\ dropped \subseteq 1 .. Len(kind)
    /\ trouble \in Troubles

InQueue(r) == \E i \in DOMAIN queue : queue[i] = r

(* An idle vendor thread has no request, one that is about to dequeue has. *)
Phases ==
    \A v \in Vendors : /\ vpc[v] = "idle" => vreq[v] = 0
                       /\ vpc[v] = "dequeue" => vreq[v] # 0

(* A request is with the vendor RIL or with one of its threads.            *)
OneHolder ==
    /\ \A v, w \in Vendors : vreq[v] = vreq[w] /\ vreq[v] # 0 => v = w
    /\ \A v \in Vendors : vreq[v] \notin owed

Pending(r) == r \in owed \/ \E v \in Vendors : vreq[v] = r

(* The requests in the queue are those under way, ...                      *)
QueueMatches == \A r \in 1 .. Len(kind) : InQueue(r) <=> Pending(r)

(* ... no two of which have the same id and token.                         *)
QueueApart ==
    \A i, j \in DOMAIN queue :
        kind[queue[i]] = kind[queue[j]] /\ token[queue[i]] = token[queue[j]] => i = j

(* Who owns the blocks.                                                    *)
BlocksOwned ==
    \A r \in 1 .. Len(kind) :
        /\ <<r, "msg">> \in heap <=> InQueue(r)
        /\ <<r, "entry">> \in heap <=> InQueue(r)
        /\ <<r, "payload">> \in heap \/ <<r, "buffer">> \in heap => r = hidl
        /\ <<r, "command">> \in heap => kind[r] = "apdu"

(* Unless it was completed early, a request is queued during its dispatch. *)
DispatchQueued == ~trouble.early /\ hidl # 0 => InQueue(hidl)

(* A request without an answer that has a way to get one.                  *)
Waiting(r) == \/ r \in owed
              \/ \E v \in Vendors : vreq[v] = r /\ vpc[v] \in {"response", "call", "callNull"}

Answered ==
    \A r \in 1 .. Len(kind) :
        IF Waiting(r) THEN answers[r] = <<>> /\ r \notin dropped
        ELSE Len(answers[r]) <= 1 /\ (Len(answers[r]) = 1 <=> r \notin dropped)

Truthful ==
    \A r \in 1 .. Len(kind) : \A i \in DOMAIN answers[r] :
        answers[r][i].success => answers[r][i].true

Untwinned == QueueMatches /\ QueueApart /\ BlocksOwned /\ DispatchQueued

SapInv ==
    /\ SapTypes
    /\ Phases
    /\ OneHolder
    /\ Answered
    /\ Truthful
    /\ Sound /\ ~trouble.twins => Untwinned
    /\ UseAfterFreeExplained

-----------------------------------------------------------------------------
(* The tables *)

(* Of a request that fails nothing is left but the command of an APDU.     *)
LEMMA StageFrees ==
    ASSUME NEW k \in Kinds, NEW stage \in DOMAIN Encodings(k) \cup DOMAIN DispatchStages
    PROVE  /\ HeldAt(k, stage) \ FreedAt(k, stage) \subseteq {"command"}
           /\ k # "apdu" => HeldAt(k, stage) \ FreedAt(k, stage) = {}
<1>1. k \in {"connect", "disconnect", "apdu", "transferAtr", "power", "resetSim",
             "transferCardReaderStatus", "setTransferProtocol"}
    BY KindsAssumption DEF ConnectRequests, ApduRequests, PowerRequests, ReaderRequests
<1>2. Encodings(k) = IF k = "apdu" THEN WithCommand ELSE Plain
    BY <1>1 DEF Encodings, ConnectRequests, ApduRequests, PowerRequests, ReaderRequests
<1>3. CASE stage \in DOMAIN DispatchStages
    <2>1. stage \in {"payload", "socket"}
        BY <1>3 DEF DispatchStages
    <2> QED
        BY <2>1 DEF HeldAt, FreedAt, DispatchStages
<1>4. CASE stage \notin DOMAIN DispatchStages /\ k = "apdu"
    <2>1. stage \in {"msg", "command", "size", "buffer", "encode"}
        BY <1>2, <1>4 DEF WithCommand
    <2> QED
        BY <1>2, <1>4, <2>1 DEF HeldAt, FreedAt, WithCommand, DispatchStages
<1>5. CASE stage \notin DOMAIN DispatchStages /\ k # "apdu"
    <2>1. stage \in {"msg", "size", "buffer", "encode"}
        BY <1>2, <1>5 DEF Plain
    <2> QED
        BY <1>2, <1>5, <2>1 DEF HeldAt, FreedAt, Plain, DispatchStages
<1> QED
    BY <1>3, <1>4, <1>5

(* No conversion makes a success of another result.                        *)
LEMMA ToldTruly ==
    ASSUME NEW k \in Kinds, NEW result \in Results, Told(k, result) = "SUCCESS"
    PROVE  result = "SUCCESS"
<1>1. k \in {"connect", "disconnect", "apdu", "transferAtr", "power", "resetSim",
             "transferCardReaderStatus", "setTransferProtocol"}
    BY KindsAssumption DEF ConnectRequests, ApduRequests, PowerRequests, ReaderRequests
<1>2. CASE k \in {"apdu", "transferAtr"}
    BY <1>2 DEF Told, Results, ApduResults, TransferAtrResults
<1>3. CASE k \in {"power", "resetSim"}
    BY <1>3 DEF Told, Results, PowerResults, ResetSimResults
<1>4. CASE k \in {"transferCardReaderStatus", "setTransferProtocol"}
    BY <1>4 DEF Told, Results, ReaderStatusResults
<1>5. CASE k \in {"connect", "disconnect"}
    BY <1>5 DEF Told
<1> QED
    BY <1>1, <1>2, <1>3, <1>4, <1>5

LEMMA FailedTruly == \A k : FailedResponse(k) # "SUCCESS"
BY DEF FailedResponse

LEMMA AnswerIs ==
    ASSUME NEW told, NEW result, told = "SUCCESS" => result = "SUCCESS"
    PROVE  /\ AnswerOf(told, result) \in Answers
           /\ AnswerOf(told, result).success => AnswerOf(told, result).true
BY DEF AnswerOf, Answers

(* The queue has no request that is still to be made.                     *)
LEMMA QueueElements ==
    ASSUME NEW n \in Nat, NEW q \in Seq(1 .. n)
    PROVE  \A i \in DOMAIN q : q[i] \in 1 .. n /\ q[i] # n + 1
<1> SUFFICES ASSUME NEW i \in DOMAIN q PROVE q[i] \in 1 .. n /\ q[i] # n + 1
    OBVIOUS
<1>1. PICK S : S = 1 .. n
    OBVIOUS
<1>2. q \in Seq(S) /\ i \in 1 .. Len(q)
    BY <1>1
<1>3. q[i] \in S
    BY <1>2, ElementOfSeq
<1> QED
    BY <1>1, <1>3

(* The writes to trouble.                                                  *)
LEMMA TroubleWrite ==
    ASSUME NEW x \in Troubles, NEW y
    PROVE  /\ \A w \in Whats : y = [x EXCEPT !.what = w]
                 => y \in Troubles /\ y.what = w /\ y.twins = x.twins /\ y.early = x.early
           /\ \A b \in BOOLEAN : y = [x EXCEPT !.twins = b]
                 => y \in Troubles /\ y.what = x.what /\ y.twins = b /\ y.early = x.early
           /\ \A b \in BOOLEAN : y = [x EXCEPT !.early = b]
                 => y \in Troubles /\ y.what = x.what /\ y.twins = x.twins /\ y.early = b
BY DEF Troubles

LEMMA BlockIs ==
    \A r, bs, b : b \in Block(r, bs) <=> \E x \in bs : b = <<r, x>>
BY DEF Block

(* The queue without its entry i.                                          *)
LEMMA RemoveAtIs ==
    ASSUME NEW S, NEW q \in Seq(S), NEW i \in 1 .. Len(q)
    PROVE  /\ RemoveAt(q, i) \in Seq(S)
           /\ Len(RemoveAt(q, i)) = Len(q) - 1
           /\ \A j \in 1 .. Len(q) - 1 : RemoveAt(q, i)[j] = IF j < i THEN q[j] ELSE q[j + 1]
<1>1. PICK n \in Nat : n = Len(q) /\ i \in 1 .. n /\ \A j \in 1 .. n : q[j] \in S
    BY LenProperties, ElementOfSeq
<1>2. /\ SubSeq(q, 1, i - 1) \in Seq(S) /\ Len(SubSeq(q, 1, i - 1)) = i - 1
      /\ \A j \in 1 .. i - 1 : SubSeq(q, 1, i - 1)[j] = q[j]
    BY <1>1
<1>3. /\ SubSeq(q, i + 1, n) \in Seq(S) /\ Len(SubSeq(q, i + 1, n)) = n - i
      /\ \A j \in 1 .. n - i : SubSeq(q, i + 1, n)[j] = q[i + j]
    BY <1>1
<1>4. PICK a \in Seq(S), b \in Seq(S) : a = SubSeq(q, 1, i - 1) /\ b = SubSeq(q, i + 1, n)
    BY <1>2, <1>3
<1>5. /\ a \o b \in Seq(S) /\ Len(a \o b) = Len(a) + Len(b)
      /\ \A j \in 1 .. Len(a) + Len(b) : (a \o b)[j] = IF j <= Len(a) THEN a[j] ELSE b[j - Len(a)]
    BY ConcatProperties
<1>6. /\ Len(a) = i - 1 /\ \A j \in 1 .. i - 1 : a[j] = q[j]
      /\ Len(b) = n - i /\ \A j \in 1 .. n - i : b[j] = q[i + j]
    BY <1>2, <1>3, <1>4
<1>7. RemoveAt(q, i) = a \o b
    BY <1>1, <1>4 DEF RemoveAt
<1>8. ASSUME NEW j \in 1 .. n - 1
      PROVE  (a \o b)[j] = IF j < i THEN q[j] ELSE q[j + 1]
    <2>1. CASE j < i
        BY <1>1, <1>5, <1>6, <2>1
    <2>2. CASE j >= i
        <3>1. j - Len(a) \in 1 .. n - i /\ i + (j - Len(a)) = j + 1
            BY <1>1, <1>6, <2>2
        <3>2. (a \o b)[j] = b[j - Len(a)]
            <4>1. j \in 1 .. Len(a) + Len(b) /\ ~(j <= Len(a))
                BY <1>1, <1>6, <2>2
            <4> QED
                BY <1>5, <4>1
        <3>3. b[j - Len(a)] = q[j + 1]
            BY <1>6, <3>1
        <3> QED
            BY <1>1, <2>2, <3>2, <3>3
    <2>3. j < i \/ j >= i
        BY <1>1
    <2> QED
        BY <2>1, <2>2, <2>3
<1>9. Len(a) + Len(b) = Len(q) - 1 /\ n = Len(q)
    BY <1>1, <1>6
<1> QED
    BY <1>5, <1>7, <1>8, <1>9

-----------------------------------------------------------------------------
(* What a step leaves alone *)

LEMMA AnsweredSame ==
    ASSUME Answered, Truthful, UNCHANGED <<kind, answers, dropped>>,
           \A r \in 1 .. Len(kind) : Waiting(r)' <=> Waiting(r)
    PROVE  Answered' /\ Truthful'
BY DEF Answered, Truthful

(* The step allocates messages at most.                                    *)
MessagesOnly ==
    /\ heap' \subseteq (0 .. Len(kind)) \X Blocks
    /\ \A r : \A b \in Blocks \ {"message"} : <<r, b>> \in heap' <=> <<r, b>> \in heap

LEMMA HeapSame ==
    ASSUME SapTypes, UNCHANGED heap
    PROVE  MessagesOnly
BY DEF SapTypes, MessagesOnly

LEMMA UntwinnedSame ==
    ASSUME Untwinned, UNCHANGED <<kind, token, queue, hidl, trouble>>, MessagesOnly,
           \A r \in 1 .. Len(kind) : Pending(r)' <=> Pending(r)
    PROVE  Untwinned'
<1>1. \A r : InQueue(r)' <=> InQueue(r)
    BY DEF InQueue
<1>2. QueueMatches'
    BY <1>1 DEF Untwinned, QueueMatches
<1>3. QueueApart'
    BY DEF Untwinned, QueueApart
<1>4. BlocksOwned'
    <2>1. \A r : \A b \in {"msg", "entry", "payload", "buffer", "command"} :
              <<r, b>> \in heap' <=> <<r, b>> \in heap
        BY DEF MessagesOnly, Blocks
    <2> QED
        BY <1>1, <2>1 DEF Untwinned, BlocksOwned
<1>5. DispatchQueued'
    BY <1>1 DEF Untwinned, DispatchQueued
<1> QED
    BY <1>2, <1>3, <1>4, <1>5 DEF Untwinned

(* A step into undefined behaviour.                                        *)
LEMMA FailStep ==
    ASSUME SapInv, NEW w \in Whats, w # "none", Fail(w), UNCHANGED answers,
           w = "use after free" => trouble.early \/ trouble.twins
    PROVE  SapInv'
<1> USE DEF SapInv
<1>1. trouble' \in Troubles /\ trouble'.what = w /\ trouble'.twins = trouble.twins
      /\ trouble'.early = trouble.early
    <2>1. PICK y : y = trouble'
        OBVIOUS
    <2>2. PICK x \in Troubles : x = trouble
        BY DEF SapTypes
    <2>3. y = [x EXCEPT !.what = w]
        BY <2>1, <2>2 DEF Fail
    <2>4. y \in Troubles /\ y.what = w /\ y.twins = x.twins /\ y.early = x.early
        BY <2>3, TroubleWrite
    <2> QED
        BY <2>1, <2>2, <2>4
<1>2. SapTypes'
    BY <1>1 DEF SapTypes, Fail, requestVars
<1>3. Phases' /\ OneHolder'
    BY DEF Phases, OneHolder, Fail
<1>4. Answered' /\ Truthful'
    BY AnsweredSame DEF Fail, Waiting, requestVars
<1>5. ~Sound' /\ UseAfterFreeExplained'
    BY <1>1 DEF Sound, UseAfterFreeExplained
<1> QED
    BY <1>2, <1>3, <1>4, <1>5

LEMMA StutterStep ==
    ASSUME SapInv, UNCHANGED vars
    PROVE  SapInv'
<1> USE DEF SapInv, vars
<1>1. SapTypes' /\ Phases' /\ OneHolder' /\ UseAfterFreeExplained'
    BY DEF SapTypes, Phases, OneHolder, UseAfterFreeExplained
<1>2. Answered' /\ Truthful'
    BY AnsweredSame DEF Waiting
<1>3. (Sound /\ ~trouble.twins => Untwinned)'
    BY HeapSame, UntwinnedSame DEF Sound, Pending
<1> QED
    BY <1>1, <1>2, <1>3

LEMMA InitInv == Init => SapInv
<1> SUFFICES ASSUME Init PROVE SapInv
    OBVIOUS
<1>1. Len(kind) = 0 /\ Len(token) = 0 /\ Len(answers) = 0 /\ DOMAIN queue = {}
    BY DEF Init
<1>2. /\ kind \in Seq(Kinds) /\ token \in Seq(Tokens) /\ answers \in Seq(Seq(Answers))
      /\ queue \in Seq(1 .. Len(kind))
    BY EmptySeq DEF Init
<1>3. NoTrouble \in Troubles /\ NoTrouble.what = "none"
    BY DEF NoTrouble, Troubles, Whats
<1>4. SapTypes
    BY <1>1, <1>2, <1>3 DEF Init, SapTypes
<1>5. Phases /\ OneHolder
    BY DEF Init, Phases, OneHolder
<1>6. Answered /\ Truthful /\ QueueMatches /\ BlocksOwned
    BY <1>1 DEF Answered, Truthful, QueueMatches, BlocksOwned
<1>7. QueueApart /\ DispatchQueued
    BY <1>1 DEF Init, QueueApart, DispatchQueued
<1>8. UseAfterFreeExplained
    BY <1>3 DEF Init, UseAfterFreeExplained
<1> QED
    BY <1>4, <1>5, <1>6, <1>7, <1>8 DEF SapInv, Untwinned

-----------------------------------------------------------------------------
(* The steps of the vendor RIL's threads *)

LEMMA SetCallbackStep ==
    ASSUME SapInv, SetCallback
    PROVE  SapInv'
<1> USE DEF SapInv
<1>1. UNCHANGED <<kind, token, heap, hidl, queue, owed, vpc, vreq, answers, dropped, trouble>>
    BY DEF SetCallback, requestVars
<1>2. SapTypes' /\ Phases' /\ OneHolder' /\ UseAfterFreeExplained'
    BY <1>1 DEF SapTypes, Phases, OneHolder, UseAfterFreeExplained
<1>3. Answered' /\ Truthful'
    BY <1>1, AnsweredSame DEF Waiting
<1>4. (Sound /\ ~trouble.twins => Untwinned)'
    BY <1>1, HeapSame, UntwinnedSame DEF Sound, Pending
<1> QED
    BY <1>2, <1>3, <1>4

(* onRequestComplete: the thread has the request from here on.             *)
LEMMA OnRequestCompleteStep ==
    ASSUME SapInv, NEW v \in Vendors, NEW r \in Requests, OnRequestComplete(v, r)
    PROVE  SapInv'
<1> USE DEF SapInv
<1>1. r \in 1 .. Len(kind) /\ r # 0 /\ vreq[v] = 0 /\ vpc[v] = "idle" /\ r \in owed /\ Sound
    <2>1. Sound /\ vpc[v] = "idle" /\ r \in owed
        BY DEF OnRequestComplete
    <2>2. r \in 1 .. Len(kind) /\ r # 0
        BY <2>1 DEF SapTypes
    <2> QED
        BY <2>1, <2>2 DEF Phases
<1>2. CASE ~(Block(r, {"entry", "msg"}) \subseteq heap) /\ Fail("use after free")
             /\ UNCHANGED answers
    <2>1. ASSUME ~trouble.twins PROVE FALSE
        <3>1. <<r, "msg">> \in heap /\ <<r, "entry">> \in heap
            BY <1>1, <2>1 DEF Untwinned, QueueMatches, BlocksOwned, Pending
        <3>2. ASSUME NEW b \in Block(r, {"entry", "msg"})
              PROVE  b \in heap
            <4>1. PICK x \in {"entry", "msg"} : b = <<r, x>>
                BY BlockIs
            <4> QED
                BY <3>1, <4>1
        <3> QED
            BY <1>2, <3>2
    <2> QED
        BY <1>2, <2>1, FailStep DEF Whats
<1>3. CASE /\ owed' = owed \ {r}
           /\ vpc' = [vpc EXCEPT ![v] = "response"]
           /\ vreq' = [vreq EXCEPT ![v] = r]
           /\ UNCHANGED <<kind, token, heap, hidl, queue, answers, dropped, trouble>>
    <2>1. /\ vpc'[v] = "response" /\ vreq'[v] = r
          /\ \A w \in Vendors : w # v => vpc'[w] = vpc[w] /\ vreq'[w] = vreq[w]
        BY <1>3 DEF SapTypes
    <2>2. SapTypes'
        BY <1>1, <1>3 DEF SapTypes
    <2>3. Phases' /\ OneHolder'
        BY <1>1, <1>3, <2>1 DEF Phases, OneHolder
    <2>4. \A x \in 1 .. Len(kind) : (Waiting(x)' <=> Waiting(x)) /\ (Pending(x)' <=> Pending(x))
        BY <1>1, <1>3, <2>1 DEF Waiting, Pending
    <2>5. Answered' /\ Truthful'
        BY <1>3, <2>4, AnsweredSame
    <2>6. (Sound /\ ~trouble.twins => Untwinned)' /\ UseAfterFreeExplained'
        BY <1>3, <2>4, HeapSame, UntwinnedSame DEF Sound, UseAfterFreeExplained
    <2> QED
        BY <2>2, <2>3, <2>5, <2>6
<1> QED
    BY <1>2, <1>3 DEF OnRequestComplete, requestVars

(* A thread goes on with the request it has, or ends an indication; the    *)
(* request that is not answered then is dropped.                           *)
LEMMA GoesOn ==
    ASSUME SapInv, NEW v \in Vendors, vpc[v] \in {"response", "call", "callNull"},
           NEW p \in {"idle", "response", "call", "callNull", "dequeue"},
           vpc' = [vpc EXCEPT ![v] = p],
           p = "idle" => vreq[v] = 0, p = "dequeue" => vreq[v] # 0,
           UNCHANGED <<kind, token, hidl, queue, owed, vreq, trouble>>, MessagesOnly
    PROVE  /\ vpc' \in [Vendors -> {"idle", "response", "call", "callNull", "dequeue"}]
           /\ Phases' /\ OneHolder' /\ (Sound /\ ~trouble.twins => Untwinned)'
           /\ UseAfterFreeExplained'
           /\ vreq[v] # 0 => Waiting(vreq[v])
           /\ p = "dequeue" => ~Waiting(vreq[v])'
           /\ \A x \in 1 .. Len(kind) : x # vreq[v] => (Waiting(x)' <=> Waiting(x))
           /\ p \in {"response", "call", "callNull"} => \A x \in 1 .. Len(kind) : Waiting(x)' <=> Waiting(x)
<1> USE DEF SapInv
<1>1. /\ vpc'[v] = p /\ \A w \in Vendors : w # v => vpc'[w] = vpc[w]
      /\ vpc' \in [Vendors -> {"idle", "response", "call", "callNull", "dequeue"}]
    BY DEF SapTypes
<1>2. Phases' /\ OneHolder' /\ UseAfterFreeExplained'
    <2>1. Phases'
        BY <1>1 DEF Phases
    <2>2. OneHolder' /\ UseAfterFreeExplained'
        BY DEF OneHolder, UseAfterFreeExplained
    <2> QED
        BY <2>1, <2>2
<1>3. (Sound /\ ~trouble.twins => Untwinned)'
    BY UntwinnedSame DEF Sound, Pending
<1>4. /\ vreq[v] # 0 => Waiting(vreq[v])
      /\ p = "dequeue" => ~Waiting(vreq[v])'
      /\ \A x \in 1 .. Len(kind) : x # vreq[v] => (Waiting(x)' <=> Waiting(x))
      /\ p \in {"response", "call", "callNull"} => \A x \in 1 .. Len(kind) : Waiting(x)' <=> Waiting(x)
    BY <1>1 DEF Waiting, OneHolder
<1> QED
    BY <1>1, <1>2, <1>3, <1>4

(* ... when the request is dropped.                                        *)
LEMMA DropStep ==
    ASSUME SapInv, NEW v \in Vendors, vpc[v] = "response", vreq[v] # 0,
           vpc' = [vpc EXCEPT ![v] = "dequeue"], dropped' = dropped \cup {vreq[v]},
           UNCHANGED <<kind, token, hidl, queue, owed, vreq, trouble, answers>>, MessagesOnly
    PROVE  SapInv'
<1> USE DEF SapInv
<1>1. /\ vpc' \in [Vendors -> {"idle", "response", "call", "callNull", "dequeue"}]
      /\ Phases' /\ OneHolder' /\ (Sound /\ ~trouble.twins => Untwinned)'
      /\ UseAfterFreeExplained'
      /\ Waiting(vreq[v]) /\ ~Waiting(vreq[v])'
      /\ \A x \in 1 .. Len(kind) : x # vreq[v] => (Waiting(x)' <=> Waiting(x))
    BY GoesOn
<1>2. vreq[v] \in 1 .. Len(kind)
    BY DEF SapTypes
<1>3. SapTypes'
    BY <1>1, <1>2 DEF SapTypes, MessagesOnly
<1>4. Answered' /\ Truthful'
    BY <1>1, <1>2 DEF Answered, Truthful
<1> QED
    BY <1>1, <1>3, <1>4

LEMMA ResponseOutOfMemoryStep ==
    ASSUME SapInv, NEW v \in Vendors, ResponseOutOfMemory(v)
    PROVE  SapInv'
<1>1. /\ vpc[v] = "response" /\ vreq[v] # 0 /\ vpc' = [vpc EXCEPT ![v] = "dequeue"]
      /\ dropped' = dropped \cup {vreq[v]}
      /\ UNCHANGED <<kind, token, heap, hidl, queue, owed, vreq, trouble, answers>>
    BY DEF ResponseOutOfMemory, requestVars
<1>2. MessagesOnly
    BY <1>1, HeapSame DEF SapInv
<1> QED
    BY <1>1, <1>2, DropStep

LEMMA ProcessResponseStep ==
    ASSUME SapInv, NEW v \in Vendors, NEW d \in Decodings, ProcessResponse(v, d)
    PROVE  SapInv'
<1> USE DEF SapInv
<1>1. /\ vpc[v] = "response"
      /\ UNCHANGED <<kind, token, hidl, queue, owed, vreq, trouble, answers>>
    BY DEF ProcessResponse, requestVars
<1>4. MessagesOnly
    <2>1. PICK M : M \subseteq {"message"} /\ heap' = heap \cup Block(vreq[v], M)
        BY DEF ProcessResponse
    <2>2. vreq[v] \in 0 .. Len(kind) /\ "message" \in Blocks
        BY DEF SapTypes, Blocks
    <2>3. Block(vreq[v], M) \subseteq (0 .. Len(kind)) \X Blocks
        BY <2>1, <2>2 DEF Block
    <2>4. \A r : \A b \in Blocks \ {"message"} : <<r, b>> \notin Block(vreq[v], M)
        BY <2>1 DEF Block
    <2> QED
        BY <2>1, <2>3, <2>4 DEF MessagesOnly, SapTypes
<1>2. CASE ~sapCallback /\ vreq[v] # 0
    <2>1. vpc' = [vpc EXCEPT ![v] = "dequeue"] /\ dropped' = dropped \cup {vreq[v]}
        BY <1>2 DEF ProcessResponse
    <2> QED
        BY <1>1, <1>2, <1>4, <2>1, DropStep
<1>3. CASE sapCallback \/ vreq[v] = 0
    <2>1. PICK p \in {"idle", "call", "callNull"} :
              /\ vpc' = [vpc EXCEPT ![v] = p] /\ dropped' = dropped
              /\ p = "idle" => vreq[v] = 0
        BY <1>3 DEF ProcessResponse
    <2>2. /\ vpc' \in [Vendors -> {"idle", "response", "call", "callNull", "dequeue"}]
          /\ Phases' /\ OneHolder' /\ (Sound /\ ~trouble.twins => Untwinned)'
          /\ UseAfterFreeExplained'
          /\ \A x \in 1 .. Len(kind) : x # vreq[v] => (Waiting(x)' <=> Waiting(x))
          /\ p # "idle" => \A x \in 1 .. Len(kind) : Waiting(x)' <=> Waiting(x)
        BY <1>1, <1>4, <2>1, GoesOn
    <2>3. Answered' /\ Truthful'
        BY <1>1, <2>1, <2>2, AnsweredSame
    <2>4. SapTypes'
        BY <1>1, <1>4, <2>1, <2>2 DEF SapTypes, MessagesOnly
    <2> QED
        BY <2>2, <2>3, <2>4
<1> QED
    BY <1>2, <1>3

(* The client is called with the answer to a request, ...                  *)
LEMMA AnswerClientStep ==
    ASSUME SapInv, NEW v \in Vendors, NEW e \in Results, AnswerClient(v, e)
    PROVE  SapInv'
<1> USE DEF SapInv
<1> DEFINE r == vreq[v]
           a == AnswerOf(Told(kind[r], e), e)
<1>1. r \in 1 .. Len(kind) /\ r # 0 /\ vpc[v] \in {"call", "callNull"} /\ Sound /\ kind[r] \in Kinds
    <2>1. r # 0 /\ vpc[v] \in {"call", "callNull"} /\ Sound
        BY DEF AnswerClient, CallClient
    <2>2. r \in 1 .. Len(kind)
        BY <2>1 DEF SapTypes
    <2> QED
        BY <2>1, <2>2, ElementOfSeq DEF SapTypes
<1>2. CASE \E w \in {"null callback", "null message"} : Fail(w)
    <2>1. PICK w \in {"null callback", "null message"} : Fail(w)
        BY <1>2
    <2>2. trouble' # trouble
        <3>1. trouble'.what = w /\ trouble.what = "none"
            BY <1>1, <2>1 DEF Fail, Sound, SapTypes, Troubles
        <3> QED
            BY <3>1
    <2>3. UNCHANGED answers
        BY <2>2 DEF AnswerClient
    <2> QED
        BY <2>1, <2>3, FailStep DEF Whats
<1>3. CASE /\ vpc' = [vpc EXCEPT ![v] = "dequeue"]
           /\ UNCHANGED <<kind, token, heap, hidl, queue, owed, vreq, dropped, trouble>>
    <2>1. answers' = [answers EXCEPT ![r] = Append(@, a)]
        BY <1>3 DEF AnswerClient
    <2>2. /\ vpc' \in [Vendors -> {"idle", "response", "call", "callNull", "dequeue"}]
          /\ Phases' /\ OneHolder' /\ (Sound /\ ~trouble.twins => Untwinned)'
          /\ UseAfterFreeExplained'
          /\ Waiting(r) /\ ~Waiting(r)'
          /\ \A x \in 1 .. Len(kind) : x # r => (Waiting(x)' <=> Waiting(x))
        BY <1>1, <1>3, HeapSame, GoesOn
    <2>3. a \in Answers /\ (a.success => a.true)
        BY <1>1, ToldTruly, AnswerIs
    <2>4. answers[r] = <<>> /\ r \notin dropped
        BY <1>1, <2>2 DEF Answered
    <2> HIDE DEF a
    <2>5. /\ Append(answers[r], a) \in Seq(Answers) /\ Len(Append(answers[r], a)) = 1
          /\ DOMAIN Append(answers[r], a) = {1} /\ Append(answers[r], a)[1] = a
        BY <2>3, <2>4
    <2>6. /\ answers' \in Seq(Seq(Answers)) /\ Len(answers') = Len(kind)
          /\ answers'[r] = Append(answers[r], a)
          /\ \A x \in 1 .. Len(kind) : x # r => answers'[x] = answers[x]
        <3>1. PICK b \in Seq(Answers) : b = Append(answers[r], a)
            BY <2>5
        <3>2. /\ answers' = [answers EXCEPT ![r] = b] /\ answers \in Seq(Seq(Answers))
              /\ r \in 1 .. Len(answers) /\ Len(answers) = Len(kind)
            BY <1>1, <2>1, <3>1 DEF SapTypes
        <3>3. /\ answers' \in Seq(Seq(Answers)) /\ Len(answers') = Len(answers)
              /\ \A x \in 1 .. Len(answers) : answers'[x] = IF x = r THEN b ELSE answers[x]
            BY <3>2, ExceptSeq
        <3> QED
            BY <1>1, <3>1, <3>2, <3>3
    <2>7. SapTypes'
        BY <1>3, <2>2, <2>6 DEF SapTypes
    <2>8. Answered'
        <3>1. Len(answers'[r]) = 1
            BY <2>5, <2>6
        <3>2. ~Waiting(r)' /\ r \notin dropped' /\ Len(kind') = Len(kind)
            BY <1>3, <2>2, <2>4
        <3>3. ASSUME NEW x \in 1 .. Len(kind)
              PROVE  IF Waiting(x)' THEN answers'[x] = <<>> /\ x \notin dropped'
                     ELSE Len(answers'[x]) <= 1 /\ (Len(answers'[x]) = 1 <=> x \notin dropped')
            <4>1. CASE x = r
                <5>1. ~Waiting(x)'
                    BY <1>3, <3>2, <4>1 DEF Waiting
                <5>2. Len(answers'[x]) = 1 /\ x \notin dropped'
                    BY <3>1, <3>2, <4>1
                <5>3. Len(answers'[x]) <= 1
                    BY <5>2
                <5> QED
                    BY <5>1, <5>2, <5>3
            <4>2. CASE x # r
                BY <1>3, <2>2, <2>6, <4>2 DEF Answered
            <4> QED
                BY <4>1, <4>2
        <3> QED
            BY <3>2, <3>3 DEF Answered
    <2>9. Truthful'
        <3>1. DOMAIN answers'[r] = {1} /\ (answers'[r][1].success => answers'[r][1].true)
            BY <2>3, <2>5, <2>6
        <3>2. \A x \in 1 .. Len(kind) : x # r =>
                 \A i \in DOMAIN answers'[x] : answers'[x][i].success => answers'[x][i].true
            BY <2>6 DEF Truthful
        <3> QED
            BY <1>3, <3>1, <3>2 DEF Truthful
    <2> QED
        BY <2>2, <2>7, <2>8, <2>9
<1> QED
    BY <1>1, <1>2, <1>3 DEF AnswerClient, CallClient, requestVars

(* ... or with an indication.                                              *)
LEMMA IndicateClientStep ==
    ASSUME SapInv, NEW v \in Vendors, NEW k, IndicateClient(v, k)
    PROVE  SapInv'
<1> USE DEF SapInv
<1>1. vreq[v] = 0 /\ vpc[v] \in {"call", "callNull"} /\ UNCHANGED answers
    BY DEF IndicateClient, CallClient
<1>2. CASE \E w \in {"null callback", "null message"} : Fail(w)
    BY <1>1, <1>2, FailStep DEF Whats
<1>3. CASE /\ vpc' = [vpc EXCEPT ![v] = "idle"]
           /\ UNCHANGED <<kind, token, heap, hidl, queue, owed, vreq, dropped, trouble>>
    <2>1. /\ vpc' \in [Vendors -> {"idle", "response", "call", "callNull", "dequeue"}]
          /\ Phases' /\ OneHolder' /\ (Sound /\ ~trouble.twins => Untwinned)'
          /\ UseAfterFreeExplained'
          /\ \A x \in 1 .. Len(kind) : x # vreq[v] => (Waiting(x)' <=> Waiting(x))
        BY <1>1, <1>3, HeapSame, GoesOn
    <2>2. Answered' /\ Truthful'
        BY <1>1, <1>3, <2>1, AnsweredSame
    <2>3. SapTypes'
        BY <1>1, <1>3, <2>1 DEF SapTypes
    <2> QED
        BY <2>1, <2>2, <2>3
<1> QED
    BY <1>1, <1>2, <1>3 DEF IndicateClient, CallClient, requestVars

LEMMA OnUnsolicitedResponseStep ==
    ASSUME SapInv, NEW v \in Vendors, OnUnsolicitedResponse(v)
    PROVE  SapInv'
<1> USE DEF SapInv
<1>1. /\ vpc[v] = "idle" /\ vreq[v] = 0 /\ vpc' = [vpc EXCEPT ![v] = "response"]
      /\ UNCHANGED <<kind, token, heap, hidl, queue, owed, vreq, answers, dropped, trouble>>
    BY DEF OnUnsolicitedResponse, Phases, requestVars
<1>2. vpc'[v] = "response" /\ \A w \in Vendors : w # v => vpc'[w] = vpc[w]
    BY <1>1 DEF SapTypes
<1>3. SapTypes' /\ Phases' /\ OneHolder' /\ UseAfterFreeExplained'
    BY <1>1, <1>2 DEF SapTypes, Phases, OneHolder, UseAfterFreeExplained
<1>4. Answered' /\ Truthful'
    <2>1. \A x \in 1 .. Len(kind) : Waiting(x)' <=> Waiting(x)
        BY <1>1, <1>2 DEF Waiting
    <2> QED
        BY <1>1, <2>1, AnsweredSame
<1>5. (Sound /\ ~trouble.twins => Untwinned)'
    BY <1>1, HeapSame, UntwinnedSame DEF Sound, Pending
<1> QED
    BY <1>3, <1>4, <1>5

(* checkAndDequeue: without twins the entry that is found is the request's *)
(* own, and every entry that is read is intact.                            *)
LEMMA CheckAndDequeueStep ==
    ASSUME SapInv, NEW v \in Vendors, CheckAndDequeue(v)
    PROVE  SapInv'
<1> USE DEF SapInv
<1>0. Sound /\ vpc[v] = "dequeue"
    BY DEF CheckAndDequeue
<1>1. PICK r \in 1 .. Len(kind) : r = vreq[v]
    BY <1>0 DEF SapTypes, Phases
<1> DEFINE found == {i \in Matches(r) : \A j \in Matches(r) : i <= j}
           read == {r} \cup {queue[i] : i \in {j \in DOMAIN queue : \A f \in found : j <= f}}
<1>2. Sound /\ vpc[v] = "dequeue" /\ r # 0
    BY <1>0
<1>3. CASE /\ ~((read \X {"msg"}) \subseteq heap)
           /\ Fail("use after free") /\ UNCHANGED answers
    <2>1. ASSUME ~trouble.twins PROVE FALSE
        <3>1. ASSUME NEW x \in read PROVE <<x, "msg">> \in heap
            <4>1. x \in 1 .. Len(kind) /\ (x = r \/ InQueue(x))
                BY ElementOfSeq DEF SapTypes, InQueue
            <4>2. InQueue(x)
                BY <1>1, <1>2, <2>1, <4>1 DEF Untwinned, QueueMatches, Pending
            <4> QED
                BY <1>2, <2>1, <4>1, <4>2 DEF Untwinned, BlocksOwned
        <3>2. ASSUME NEW b \in read \X {"msg"} PROVE b \in heap
            <4> HIDE DEF read
            <4>1. PICK x \in read : b = <<x, "msg">>
                OBVIOUS
            <4> QED
                BY <3>1, <4>1
        <3> QED
            BY <1>3, <3>2
    <2> QED
        BY <1>3, <2>1, FailStep DEF Whats
<1>4. CASE /\ heap' = heap \ (Block(r, {"msg"}) \cup {<<queue[i], "entry">> : i \in found})
           /\ queue' = IF found = {} THEN queue
                       ELSE RemoveAt(queue, CHOOSE i \in found : TRUE)
           /\ trouble' = [trouble EXCEPT !.early = @ \/ hidl = r]
           /\ vpc' = [vpc EXCEPT ![v] = "idle"]
           /\ vreq' = [vreq EXCEPT ![v] = 0]
           /\ UNCHANGED <<kind, token, hidl, owed, answers, dropped>>
    <2>1. /\ vpc'[v] = "idle" /\ vreq'[v] = 0
          /\ \A w \in Vendors : w # v => vpc'[w] = vpc[w] /\ vreq'[w] = vreq[w]
        BY <1>4 DEF SapTypes
    <2>2. /\ trouble' \in Troubles /\ trouble'.what = trouble.what
          /\ trouble'.twins = trouble.twins
          /\ trouble'.early <=> trouble.early \/ hidl = r
        <3>1. PICK y : y = trouble'
            OBVIOUS
        <3>2. PICK x \in Troubles : x = trouble
            BY DEF SapTypes
        <3>3. PICK b \in BOOLEAN : b = (trouble.early \/ hidl = r)
            OBVIOUS
        <3>4. y = [x EXCEPT !.early = b]
            BY <1>4, <3>1, <3>2, <3>3, Zenon
        <3>5. y \in Troubles /\ y.what = x.what /\ y.twins = x.twins /\ y.early = b
            BY <3>4, TroubleWrite
        <3> QED
            BY <3>1, <3>2, <3>3, <3>5
    <2>3. \/ found = {} /\ queue' = queue
          \/ \E i \in found : queue' = RemoveAt(queue, i)
        BY <1>4
    <2>4. /\ queue \in Seq(1 .. Len(kind)) /\ Len(queue) \in Nat
          /\ DOMAIN queue = 1 .. Len(queue) /\ found \subseteq 1 .. Len(queue)
        <3>1. queue \in Seq(1 .. Len(kind))
            BY DEF SapTypes
        <3>2. found \subseteq DOMAIN queue
            BY DEF Matches
        <3> QED
            BY <3>1, <3>2, LenProperties
    <2>5. queue' \in Seq(1 .. Len(kind))
        BY <2>3, <2>4, RemoveAtIs
    <2>6. SapTypes'
        BY <1>4, <2>1, <2>2, <2>5 DEF SapTypes
    <2>7. Phases' /\ OneHolder'
        BY <1>4, <2>1 DEF Phases, OneHolder, SapTypes
    <2>8. Answered' /\ Truthful'
        <3>1. \A x \in 1 .. Len(kind) : Waiting(x)' <=> Waiting(x)
            BY <1>2, <1>4, <2>1 DEF Waiting
        <3> QED
            BY <1>4, <3>1, AnsweredSame
    <2>9. UseAfterFreeExplained'
        BY <1>2, <2>2 DEF UseAfterFreeExplained, Sound
    <2>10. ASSUME ~trouble'.twins PROVE Untwinned'
        <3>1. Untwinned
            BY <1>2, <2>2, <2>10
        <3>2. PICK i \in DOMAIN queue : queue[i] = r
            BY <1>1, <1>2, <3>1 DEF Untwinned, QueueMatches, Pending, InQueue
        <3>3. Matches(r) = {i}
            BY <3>1, <3>2 DEF Untwinned, QueueApart, Matches
        <3>4. found = {i} /\ i \in 1 .. Len(queue)
            BY <2>4, <3>2, <3>3
        <3>5. /\ queue' = RemoveAt(queue, i) /\ Len(queue') = Len(queue) - 1
              /\ \A j \in 1 .. Len(queue) - 1 : queue'[j] = IF j < i THEN queue[j] ELSE queue[j + 1]
            <4>1. queue' = RemoveAt(queue, i)
                BY <2>3, <3>4
            <4>2. PICK S : S = 1 .. Len(kind)
                OBVIOUS
            <4>3. PICK q \in Seq(S) : q = queue
                BY <2>4, <4>2
            <4>4. /\ Len(RemoveAt(q, i)) = Len(q) - 1
                  /\ \A j \in 1 .. Len(q) - 1 :
                        RemoveAt(q, i)[j] = IF j < i THEN q[j] ELSE q[j + 1]
                BY <3>4, <4>3, RemoveAtIs
            <4> QED
                BY <4>1, <4>3, <4>4
        <3>6. DOMAIN queue' = 1 .. Len(queue) - 1
            BY <2>5, <3>5
        <3>7. ASSUME NEW j \in DOMAIN queue'
              PROVE  \E n \in DOMAIN queue : /\ queue'[j] = queue[n] /\ n # i
                                             /\ n = IF j < i THEN j ELSE j + 1
            <4>1. PICK m \in Nat : m = Len(queue) /\ DOMAIN queue = 1 .. m /\ i \in 1 .. m
                BY <2>4, <3>4
            <4>2. j \in 1 .. m - 1
                BY <3>6, <4>1
            <4>3. CASE j < i
                <5>1. j \in 1 .. m /\ queue'[j] = queue[j] /\ j # i
                    BY <3>5, <4>1, <4>2, <4>3
                <5> QED
                    BY <4>1, <4>3, <5>1
            <4>4. CASE ~(j < i)
                <5>1. j + 1 \in 1 .. m /\ queue'[j] = queue[j + 1] /\ j + 1 # i
                    BY <3>5, <4>1, <4>2, <4>4
                <5> QED
                    BY <4>1, <4>4, <5>1
            <4> QED
                BY <4>3, <4>4
        <3>8. ASSUME NEW n \in DOMAIN queue, n # i
              PROVE  \E j \in DOMAIN queue' : queue'[j] = queue[n]
            <4>1. CASE n < i
                <5>1. n \in 1 .. Len(queue) - 1
                    BY <2>4, <3>4, <4>1
                <5> QED
                    BY <3>5, <3>6, <4>1, <5>1
            <4>2. CASE n > i
                <5>1. n - 1 \in DOMAIN queue' /\ ~(n - 1 < i) /\ (n - 1) + 1 = n
                    <6>1. PICK m \in Nat : /\ m = Len(queue) /\ i \in 1 .. m /\ n \in 1 .. m
                                           /\ DOMAIN queue' = 1 .. m - 1
                        BY <2>4, <3>4, <3>6
                    <6> QED
                        BY <4>2, <6>1
                <5>2. queue'[n - 1] = queue[n]
                    BY <3>5, <3>6, <5>1
                <5> QED
                    BY <5>1, <5>2
            <4> QED
                BY <2>4, <3>4, <3>8, <4>1, <4>2
        <3>9. \A n \in DOMAIN queue : queue[n] = r => n = i
            BY <3>1, <3>2 DEF Untwinned, QueueApart
        <3>10. \A x : InQueue(x)' <=> InQueue(x) /\ x # r
            BY <3>2, <3>7, <3>8, <3>9 DEF InQueue
        <3>11. \A x \in 1 .. Len(kind) : Pending(x)' <=> Pending(x) /\ x # r
            BY <1>1, <1>2, <1>4, <2>1 DEF Pending, OneHolder
        <3>12. QueueMatches'
            BY <1>4, <3>1, <3>10, <3>11 DEF Untwinned, QueueMatches
        <3>13. QueueApart'
            <4>0. kind' = kind /\ token' = token
                BY <1>4
            <4> SUFFICES ASSUME NEW j \in DOMAIN queue', NEW l \in DOMAIN queue',
                                kind[queue'[j]] = kind[queue'[l]],
                                token[queue'[j]] = token[queue'[l]]
                         PROVE  j = l
                BY <4>0, Zenon DEF QueueApart
            <4>1. PICK n \in DOMAIN queue : /\ queue'[j] = queue[n]
                                            /\ n = IF j < i THEN j ELSE j + 1
                BY <3>7
            <4>2. PICK m \in DOMAIN queue : /\ queue'[l] = queue[m]
                                            /\ m = IF l < i THEN l ELSE l + 1
                BY <3>7
            <4>3. n = m
                BY <3>1, <4>1, <4>2 DEF Untwinned, QueueApart
            <4>4. j \in Int /\ l \in Int /\ i \in Int
                BY <2>4, <3>4, <3>6
            <4> QED
                BY <4>1, <4>2, <4>3, <4>4
        <3>14. \A x, b : <<x, b>> \in heap' <=>
                   <<x, b>> \in heap /\ ~(x = r /\ b \in {"msg", "entry"})
            BY <1>4, <3>2, <3>4 DEF Block
        <3>15. BlocksOwned'
            BY <1>4, <3>1, <3>10, <3>14 DEF Untwinned, BlocksOwned
        <3>16. DispatchQueued'
            BY <1>4, <2>2, <3>1, <3>10 DEF Untwinned, DispatchQueued
        <3> QED
            BY <3>12, <3>13, <3>15, <3>16 DEF Untwinned
    <2> QED
        BY <2>6, <2>7, <2>8, <2>9, <2>10
<1>5. UNCHANGED requestVars => UNCHANGED <<kind, token>>
    BY DEF requestVars
<1> QED
    BY <1>1, <1>3, <1>4, <1>5 DEF CheckAndDequeue

-----------------------------------------------------------------------------
(* The steps of the HIDL thread *)

LEMMA DispatchReturnsStep ==
    ASSUME SapInv, DispatchReturns
    PROVE  SapInv'
<1> USE DEF SapInv
<1>1. Sound /\ hidl # 0 /\ hidl \in 1 .. Len(kind)
    <2>1. Sound /\ hidl # 0
        BY DEF DispatchReturns
    <2> QED
        BY <2>1 DEF SapTypes
<1>2. CASE <<hidl, "msg">> \notin heap /\ Fail("use after free") /\ UNCHANGED answers
    <2>1. trouble.early \/ trouble.twins
        <3> SUFFICES ASSUME ~trouble.early, ~trouble.twins PROVE FALSE
            OBVIOUS
        <3>1. InQueue(hidl)
            BY <1>1 DEF Untwinned, DispatchQueued
        <3> QED
            BY <1>1, <1>2, <3>1 DEF Untwinned, BlocksOwned
    <2> QED
        BY <1>2, <2>1, FailStep DEF Whats
<1>3. CASE /\ <<hidl, "msg">> \in heap
           /\ heap' = heap \ Block(hidl, {"payload", "buffer"})
           /\ hidl' = 0
           /\ UNCHANGED <<kind, token, queue, owed, vpc, vreq, answers, dropped, trouble>>
    <2>1. SapTypes'
        BY <1>3 DEF SapTypes
    <2>2. Phases' /\ OneHolder' /\ UseAfterFreeExplained'
        BY <1>3 DEF Phases, OneHolder, UseAfterFreeExplained
    <2>3. Answered' /\ Truthful'
        BY <1>3, AnsweredSame DEF Waiting
    <2>4. ASSUME ~trouble'.twins PROVE Untwinned'
        <3>1. Untwinned
            BY <1>1, <1>3, <2>4
        <3>2. \A x : (InQueue(x)' <=> InQueue(x)) /\ (Pending(x)' <=> Pending(x))
            BY <1>3 DEF InQueue, Pending
        <3>3. \A x, b : <<x, b>> \in heap' <=>
                  <<x, b>> \in heap /\ ~(x = hidl /\ b \in {"payload", "buffer"})
            BY <1>3 DEF Block
        <3>4. QueueMatches' /\ DispatchQueued'
            BY <1>3, <3>1, <3>2 DEF Untwinned, QueueMatches, DispatchQueued
        <3>5. QueueApart'
            BY <1>3, <3>1 DEF Untwinned, QueueApart
        <3>6. BlocksOwned'
            BY <1>3, <3>1, <3>2, <3>3 DEF Untwinned, BlocksOwned
        <3> QED
            BY <3>4, <3>5, <3>6 DEF Untwinned
    <2> QED
        BY <2>1, <2>2, <2>3, <2>4
<1> QED
    BY <1>2, <1>3 DEF DispatchReturns, requestVars

LEMMA DispatchOutOfMemoryStep ==
    ASSUME SapInv, DispatchOutOfMemory
    PROVE  SapInv'
BY FailStep DEF DispatchOutOfMemory, Whats

(* The books of a new request.                                             *)
LEMMA RequestAdded ==
    ASSUME SapTypes, NEW k \in Kinds, NEW t \in Tokens, NEW a \in Seq(Answers),
           kind' = Append(kind, k), token' = Append(token, t), answers' = Append(answers, a)
    PROVE  /\ kind' \in Seq(Kinds) /\ token' \in Seq(Tokens)
           /\ answers' \in Seq(Seq(Answers)) /\ Len(kind) \in Nat
           /\ Len(kind') = Len(kind) + 1 /\ Len(token') = Len(kind) + 1
           /\ Len(answers') = Len(kind) + 1
           /\ kind'[Len(kind) + 1] = k /\ token'[Len(kind) + 1] = t
           /\ answers'[Len(kind) + 1] = a
           /\ \A r \in 1 .. Len(kind) : /\ kind'[r] = kind[r] /\ token'[r] = token[r]
                                        /\ answers'[r] = answers[r]
<1>1. /\ kind' \in Seq(Kinds) /\ Len(kind) \in Nat
      /\ Len(kind') = Len(kind) + 1 /\ kind'[Len(kind) + 1] = k
      /\ \A r \in 1 .. Len(kind) : kind'[r] = kind[r]
    BY DEF SapTypes
<1>2. /\ token' \in Seq(Tokens) /\ Len(token) = Len(kind)
      /\ Len(token') = Len(token) + 1 /\ token'[Len(token) + 1] = t
      /\ \A r \in 1 .. Len(token) : token'[r] = token[r]
    BY DEF SapTypes
<1>3. /\ answers' \in Seq(Seq(Answers)) /\ Len(answers) = Len(kind)
      /\ Len(answers') = Len(answers) + 1 /\ answers'[Len(answers) + 1] = a
      /\ \A r \in 1 .. Len(answers) : answers'[r] = answers[r]
    BY DEF SapTypes
<1> QED
    BY <1>1, <1>2, <1>3

(* A request that fails has its answer, and leaves nothing behind.         *)
LEMMA RequestFailsStep ==
    ASSUME SapInv, NEW k \in Kinds, NEW t \in Tokens, NEW stage \in Stages,
           RequestFails(k, t, stage)
    PROVE  SapInv'
<1> USE DEF SapInv
<1>1. CASE Fail("null callback") /\ UNCHANGED answers
    BY <1>1, FailStep DEF Whats
<1>2. PICK a : a = <<AnswerOf(FailedResponse(k), "none")>>
    OBVIOUS
<1>3. /\ a \in Seq(Answers) /\ Len(a) = 1
      /\ \A i \in DOMAIN a : a[i].success => a[i].true
    <2>1. PICK b : b = AnswerOf(FailedResponse(k), "none")
        OBVIOUS
    <2>2. b \in Answers /\ (b.success => b.true)
        BY <2>1, FailedTruly, AnswerIs
    <2>3. a = <<b>>
        BY <1>2, <2>1
    <2> QED
        BY <2>2, <2>3
<1>4. PICK H : H = HeldAt(k, stage) \ FreedAt(k, stage)
    OBVIOUS
<1>5. H \subseteq {"command"} /\ (k # "apdu" => H = {})
    <2>1. stage \in DOMAIN Encodings(k) \cup DOMAIN DispatchStages
        BY DEF RequestFails
    <2> QED
        BY <1>4, <2>1, StageFrees
<1>6. CASE /\ kind' = Append(kind, k) /\ token' = Append(token, t)
           /\ heap' = heap \cup Block(Len(kind) + 1, H)
           /\ answers' = Append(answers, a)
           /\ UNCHANGED <<hidl, queue, owed, vpc, vreq, dropped, trouble>>
    <2>1. PICK n : n = Len(kind)
        OBVIOUS
    <2>2. /\ kind' \in Seq(Kinds) /\ token' \in Seq(Tokens)
          /\ answers' \in Seq(Seq(Answers)) /\ n \in Nat
          /\ Len(kind') = n + 1 /\ Len(token') = n + 1 /\ Len(answers') = n + 1
          /\ kind'[n + 1] = k /\ answers'[n + 1] = a
          /\ \A r \in 1 .. n : /\ kind'[r] = kind[r] /\ token'[r] = token[r]
                               /\ answers'[r] = answers[r]
        BY <1>3, <1>6, <2>1, RequestAdded
    <2>3. \A x, b : <<x, b>> \in heap' <=> <<x, b>> \in heap \/ (x = n + 1 /\ b \in H)
        BY <1>6, <2>1 DEF Block
    <2>4. /\ queue \in Seq(1 .. n) /\ owed \subseteq 1 .. n /\ dropped \subseteq 1 .. n
          /\ hidl \in 0 .. n /\ vreq \in [Vendors -> 0 .. n] /\ heap \subseteq (0 .. n) \X Blocks
        BY <2>1 DEF SapTypes
    <2>5. 1 .. n \subseteq 1 .. n + 1 /\ 0 .. n \subseteq 0 .. n + 1 /\ n + 1 \in 1 .. n + 1
          /\ n + 1 \in 0 .. n + 1 /\ n + 1 \notin 0 .. n
        BY <2>2
    <2>6. heap' \subseteq (0 .. n + 1) \X Blocks
        <3>1. Block(n + 1, H) \subseteq (0 .. n + 1) \X Blocks
            BY <1>5, <2>5 DEF Block, Blocks
        <3> QED
            BY <1>6, <2>1, <2>4, <2>5, <3>1
    <2>7. SapTypes'
        <3>1. queue' \in Seq(1 .. n + 1)
            BY <1>6, <2>4, <2>5, SeqMonotonic
        <3>2. /\ owed' \subseteq 1 .. n + 1 /\ dropped' \subseteq 1 .. n + 1
              /\ hidl' \in 0 .. n + 1 /\ vreq' \in [Vendors -> 0 .. n + 1]
            BY <1>6, <2>4, <2>5
        <3>3. /\ vpc' \in [Vendors -> {"idle", "response", "call", "callNull", "dequeue"}]
              /\ trouble' \in Troubles
            BY <1>6 DEF SapTypes
        <3> QED
            BY <2>2, <2>6, <3>1, <3>2, <3>3 DEF SapTypes
    <2>8. Phases' /\ OneHolder' /\ UseAfterFreeExplained'
        BY <1>6 DEF Phases, OneHolder, UseAfterFreeExplained
    <2>9. \A x : /\ (Waiting(x)' <=> Waiting(x)) /\ (InQueue(x)' <=> InQueue(x))
                 /\ (Pending(x)' <=> Pending(x))
        BY <1>6 DEF Waiting, InQueue, Pending
    <2>10. ~Waiting(n + 1) /\ ~InQueue(n + 1) /\ ~Pending(n + 1) /\ n + 1 \notin dropped
           /\ n + 1 # hidl /\ \A b : <<n + 1, b>> \notin heap
        <3>1. ~InQueue(n + 1)
            BY <2>2, <2>4, QueueElements DEF InQueue
        <3>2. n + 1 \notin owed /\ n + 1 \notin dropped /\ n + 1 # hidl
            BY <2>2, <2>4
        <3>3. \A v \in Vendors : vreq[v] # n + 1
            BY <2>2, <2>4
        <3>4. \A b : <<n + 1, b>> \notin heap
            BY <2>2, <2>4
        <3> QED
            BY <3>1, <3>2, <3>3, <3>4 DEF Waiting, Pending
    <2>11. Answered'
        <3> SUFFICES ASSUME NEW r \in 1 .. n + 1
                     PROVE  IF Waiting(r)' THEN answers'[r] = <<>> /\ r \notin dropped'
                            ELSE /\ Len(answers'[r]) <= 1
                                 /\ Len(answers'[r]) = 1 <=> r \notin dropped'
            BY <2>2 DEF Answered
        <3>1. CASE r = n + 1
            <4>1. ~Waiting(r)' /\ r \notin dropped' /\ Len(answers'[r]) = 1
                BY <1>3, <1>6, <2>2, <2>9, <2>10, <3>1
            <4>2. Len(answers'[r]) <= 1
                BY <4>1
            <4> QED
                BY <4>1, <4>2
        <3>2. CASE r \in 1 .. n
            BY <1>6, <2>1, <2>2, <2>9, <3>2 DEF Answered
        <3> QED
            BY <2>2, <3>1, <3>2
    <2>12. Truthful'
        <3> SUFFICES ASSUME NEW r \in 1 .. n + 1
                     PROVE  \A i \in DOMAIN answers'[r] :
                                answers'[r][i].success => answers'[r][i].true
            BY <2>2 DEF Truthful
        <3>1. CASE r = n + 1
            BY <1>3, <2>2, <3>1
        <3>2. CASE r \in 1 .. n
            BY <2>1, <2>2, <3>2 DEF Truthful
        <3> QED
            BY <2>2, <3>1, <3>2
    <2>13. ASSUME Sound, ~trouble.twins PROVE Untwinned'
        <3>1. Untwinned /\ \A r \in 1 .. n + 1 : r \in 1 .. n \/ r = n + 1
            BY <2>2, <2>13
        <3>2. QueueMatches'
            BY <2>1, <2>2, <2>9, <2>10, <3>1 DEF Untwinned, QueueMatches
        <3>3. QueueApart'
            <4>1. \A i \in DOMAIN queue : queue[i] \in 1 .. n
                BY <2>2, <2>4, QueueElements
            <4> QED
                BY <1>6, <2>2, <3>1, <4>1 DEF Untwinned, QueueApart
        <3>4. BlocksOwned'
            <4> SUFFICES ASSUME NEW r \in 1 .. n + 1
                         PROVE  /\ <<r, "msg">> \in heap' <=> InQueue(r)'
                                /\ <<r, "entry">> \in heap' <=> InQueue(r)'
                                /\ <<r, "payload">> \in heap' \/ <<r, "buffer">> \in heap'
                                     => r = hidl'
                                /\ <<r, "command">> \in heap' => kind'[r] = "apdu"
                BY <2>2 DEF BlocksOwned
            <4>1. CASE r = n + 1
                BY <1>5, <2>2, <2>3, <2>9, <2>10, <4>1
            <4>2. CASE r \in 1 .. n
                <5>1. r # n + 1
                    BY <2>5, <4>2
                <5> QED
                    BY <1>6, <2>1, <2>2, <2>3, <2>9, <3>1, <4>2, <5>1 DEF Untwinned, BlocksOwned
            <4> QED
                BY <3>1, <4>1, <4>2
        <3>5. DispatchQueued'
            BY <1>6, <2>9, <3>1 DEF Untwinned, DispatchQueued
        <3> QED
            BY <3>2, <3>3, <3>4, <3>5 DEF Untwinned
    <2>14. Sound' => Sound
        BY <1>6 DEF Sound
    <2> QED
        BY <1>6, <2>7, <2>8, <2>11, <2>12, <2>13, <2>14
<1> QED
    BY <1>1, <1>2, <1>4, <1>6 DEF RequestFails, requestVars

(* A request that is dispatched is queued, and has all its blocks.         *)
LEMMA DispatchRequestStep ==
    ASSUME SapInv, NEW k \in Kinds, NEW t \in Tokens, DispatchRequest(k, t)
    PROVE  SapInv'
<1> USE DEF SapInv
<1>1. PICK n : n = Len(kind)
    OBVIOUS
<1>2. PICK H : H = HeldAt(k, "socket") \cup {"entry"}
    OBVIOUS
<1>3. /\ H \subseteq Blocks /\ {"msg", "entry"} \subseteq H
      /\ "command" \in H => k = "apdu"
    BY <1>2 DEF HeldAt, Blocks
<1>4. Sound /\ hidl = 0
    BY DEF DispatchRequest
<1>5. /\ kind' = Append(kind, k) /\ token' = Append(token, t)
      /\ heap' = heap \cup Block(n + 1, H)
      /\ queue' = <<n + 1>> \o queue
      /\ owed' = owed \cup {n + 1} /\ hidl' = n + 1
      /\ answers' = Append(answers, <<>>)
      /\ UNCHANGED <<vpc, vreq, dropped>>
    BY <1>1, <1>2 DEF DispatchRequest
<1>6. /\ trouble' \in Troubles /\ trouble'.what = trouble.what /\ trouble'.early = trouble.early
      /\ trouble'.twins <=> trouble.twins \/ \E i \in DOMAIN queue :
                              kind[queue[i]] = k /\ token[queue[i]] = t
    <2>1. PICK y : y = trouble'
        OBVIOUS
    <2>2. PICK x \in Troubles : x = trouble
        BY DEF SapTypes
    <2>3. PICK b \in BOOLEAN :
              b = (trouble.twins \/ \E i \in DOMAIN queue :
                                       kind[queue[i]] = k /\ token[queue[i]] = t)
        OBVIOUS
    <2>4. y = [x EXCEPT !.twins = b]
        BY <2>1, <2>2, <2>3, Zenon DEF DispatchRequest
    <2>5. y \in Troubles /\ y.what = x.what /\ y.early = x.early /\ y.twins = b
        BY <2>4, TroubleWrite
    <2> QED
        BY <2>1, <2>2, <2>3, <2>5
<1>7. /\ kind' \in Seq(Kinds) /\ token' \in Seq(Tokens)
      /\ answers' \in Seq(Seq(Answers)) /\ n \in Nat
      /\ Len(kind') = n + 1 /\ Len(token') = n + 1 /\ Len(answers') = n + 1
      /\ kind'[n + 1] = k /\ token'[n + 1] = t /\ answers'[n + 1] = <<>>
      /\ \A r \in 1 .. n : /\ kind'[r] = kind[r] /\ token'[r] = token[r]
                           /\ answers'[r] = answers[r]
    BY <1>1, <1>5, RequestAdded, EmptySeq
<1>8. \A x, b : <<x, b>> \in heap' <=> <<x, b>> \in heap \/ (x = n + 1 /\ b \in H)
    BY <1>5 DEF Block
<1>9. /\ queue \in Seq(1 .. n) /\ owed \subseteq 1 .. n /\ dropped \subseteq 1 .. n
      /\ vreq \in [Vendors -> 0 .. n] /\ heap \subseteq (0 .. n) \X Blocks
    BY <1>1 DEF SapTypes
<1>10. 1 .. n \subseteq 1 .. n + 1 /\ 0 .. n \subseteq 0 .. n + 1 /\ n + 1 \in 1 .. n + 1
       /\ n + 1 \notin 0 .. n /\ \A r \in 1 .. n + 1 : r \in 1 .. n \/ r = n + 1
    <2>1. n \in Nat
        BY <1>7
    <2> QED
        BY <2>1
<1>11. /\ queue' \in Seq(1 .. n + 1) /\ Len(queue) \in Nat /\ DOMAIN queue = 1 .. Len(queue)
       /\ DOMAIN queue' = 1 .. Len(queue) + 1
       /\ \A i \in 1 .. Len(queue) + 1 : queue'[i] = IF i = 1 THEN n + 1 ELSE queue[i - 1]
    <2>1. PICK S : S = 1 .. n + 1
        OBVIOUS
    <2>2. PICK q \in Seq(S) : q = queue
        BY <1>9, <1>10, <2>1, SeqMonotonic
    <2>3. PICK x \in S : x = n + 1
        BY <1>10, <2>1
    <2>4. /\ <<x>> \in Seq(S) /\ Len(<<x>>) = 1 /\ Len(q) \in Nat /\ DOMAIN q = 1 .. Len(q)
        OBVIOUS
    <2>5. /\ <<x>> \o q \in Seq(S) /\ DOMAIN (<<x>> \o q) = 1 .. Len(q) + 1
          /\ \A i \in 1 .. Len(q) + 1 : (<<x>> \o q)[i] = IF i = 1 THEN x ELSE q[i - 1]
        BY <2>4
    <2> QED
        BY <1>5, <2>1, <2>2, <2>3, <2>4, <2>5
<1>12. SapTypes'
    <2>1. heap' \subseteq (0 .. n + 1) \X Blocks
        <3>1. Block(n + 1, H) \subseteq (0 .. n + 1) \X Blocks
            BY <1>3, <1>10 DEF Block
        <3> QED
            BY <1>5, <1>9, <1>10, <3>1
    <2>2. /\ owed' \subseteq 1 .. n + 1 /\ dropped' \subseteq 1 .. n + 1
          /\ hidl' \in 0 .. n + 1 /\ vreq' \in [Vendors -> 0 .. n + 1]
        <3>1. owed' \subseteq 1 .. n + 1 /\ dropped' \subseteq 1 .. n + 1
            BY <1>5, <1>9, <1>10
        <3>2. hidl' \in 0 .. n + 1
            BY <1>5, <1>7
        <3>3. vreq' \in [Vendors -> 0 .. n + 1]
            BY <1>5, <1>9, <1>10
        <3> QED
            BY <3>1, <3>2, <3>3
    <2>3. vpc' \in [Vendors -> {"idle", "response", "call", "callNull", "dequeue"}]
        BY <1>5 DEF SapTypes
    <2> QED
        BY <1>6, <1>7, <1>11, <2>1, <2>2, <2>3 DEF SapTypes
<1>13. \A v \in Vendors : vreq[v] # n + 1
    BY <1>9, <1>10
<1>14. Phases' /\ OneHolder' /\ UseAfterFreeExplained'
    <2>1. Phases' /\ OneHolder'
        BY <1>5, <1>13 DEF Phases, OneHolder
    <2>2. UseAfterFreeExplained'
        BY <1>4, <1>6 DEF UseAfterFreeExplained, Sound
    <2> QED
        BY <2>1, <2>2
<1>15. \A x : x # n + 1 => /\ Waiting(x)' <=> Waiting(x)
                           /\ Pending(x)' <=> Pending(x)
    BY <1>5 DEF Waiting, Pending
<1>16. Waiting(n + 1)' /\ Pending(n + 1)'
    <2>1. n + 1 \in owed'
        BY <1>5
    <2>2. \A x : x \in owed' => Waiting(x)' /\ Pending(x)'
        BY DEF Waiting, Pending
    <2> QED
        BY <2>1, <2>2
<1>17. Answered'
    <2> SUFFICES ASSUME NEW r \in 1 .. n + 1
                 PROVE  IF Waiting(r)' THEN answers'[r] = <<>> /\ r \notin dropped'
                        ELSE /\ Len(answers'[r]) <= 1
                             /\ Len(answers'[r]) = 1 <=> r \notin dropped'
        BY <1>7 DEF Answered
    <2>1. CASE r = n + 1
        <3>1. Waiting(r)' /\ answers'[r] = <<>> /\ r \notin dropped'
            BY <1>5, <1>7, <1>9, <1>10, <1>16, <2>1
        <3> QED
            BY <3>1
    <2>2. CASE r \in 1 .. n
        <3>1. r # n + 1
            BY <1>10, <2>2
        <3> QED
            BY <1>1, <1>5, <1>7, <1>15, <2>2, <3>1 DEF Answered
    <2> QED
        BY <1>7, <2>1, <2>2
<1>18. Truthful'
    <2> SUFFICES ASSUME NEW r \in 1 .. n + 1
                 PROVE  \A i \in DOMAIN answers'[r] :
                            answers'[r][i].success => answers'[r][i].true
        BY <1>7 DEF Truthful
    <2>1. CASE r = n + 1
        BY <1>7, <2>1
    <2>2. CASE r \in 1 .. n
        BY <1>1, <1>7, <2>2 DEF Truthful
    <2>3. r = n + 1 \/ r \in 1 .. n
        BY <1>10
    <2> QED
        BY <2>1, <2>2, <2>3
<1>19. ASSUME ~trouble'.twins PROVE Untwinned'
    <2>1. /\ Untwinned /\ \A r \in 1 .. n + 1 : r \in 1 .. n \/ r = n + 1
          /\ \A i \in DOMAIN queue : kind[queue[i]] # k \/ token[queue[i]] # t
        BY <1>4, <1>6, <1>7, <1>19
    <2>2. \A i \in DOMAIN queue : queue[i] \in 1 .. n
        BY <1>7, <1>9, QueueElements
    <2>3. \A x : InQueue(x)' <=> x = n + 1 \/ InQueue(x)
        <3>1. ASSUME NEW i \in DOMAIN queue' PROVE queue'[i] = n + 1 \/ InQueue(queue'[i])
            BY <1>11 DEF InQueue
        <3>2. 1 \in DOMAIN queue' /\ queue'[1] = n + 1
            BY <1>11
        <3>3. ASSUME NEW i \in DOMAIN queue
              PROVE  i + 1 \in DOMAIN queue' /\ queue'[i + 1] = queue[i]
            BY <1>11
        <3> QED
            BY <3>1, <3>2, <3>3 DEF InQueue
    <2>4. QueueMatches'
        BY <1>1, <1>7, <1>15, <1>16, <2>1, <2>3 DEF Untwinned, QueueMatches
    <2>5. QueueApart'
        <3> SUFFICES ASSUME NEW i \in DOMAIN queue', NEW j \in DOMAIN queue',
                            kind'[queue'[i]] = kind'[queue'[j]],
                            token'[queue'[i]] = token'[queue'[j]]
                     PROVE  i = j
            BY DEF QueueApart
        <3>1. ASSUME NEW l \in DOMAIN queue', l # 1
              PROVE  /\ l - 1 \in DOMAIN queue /\ queue'[l] = queue[l - 1]
                     /\ kind'[queue'[l]] = kind[queue[l - 1]]
                     /\ token'[queue'[l]] = token[queue[l - 1]]
            <4>1. l - 1 \in DOMAIN queue /\ queue'[l] = queue[l - 1]
                BY <1>11, <3>1
            <4>2. queue[l - 1] \in 1 .. n
                BY <2>2, <4>1
            <4> QED
                BY <1>7, <4>1, <4>2
        <3>2. kind'[queue'[1]] = k /\ token'[queue'[1]] = t
            <4>1. queue'[1] = n + 1
                BY <1>11
            <4> QED
                BY <1>7, <4>1
        <3>3. CASE i = 1 \/ j = 1
            BY <2>1, <3>1, <3>2, <3>3
        <3>4. CASE i # 1 /\ j # 1
            <4>1. i - 1 = j - 1
                BY <2>1, <3>1, <3>4 DEF Untwinned, QueueApart
            <4> QED
                BY <1>11, <4>1
        <3> QED
            BY <3>3, <3>4
    <2>6. BlocksOwned'
        <3> SUFFICES ASSUME NEW r \in 1 .. n + 1
                     PROVE  /\ <<r, "msg">> \in heap' <=> InQueue(r)'
                            /\ <<r, "entry">> \in heap' <=> InQueue(r)'
                            /\ <<r, "payload">> \in heap' \/ <<r, "buffer">> \in heap'
                                 => r = hidl'
                            /\ <<r, "command">> \in heap' => kind'[r] = "apdu"
            BY <1>7 DEF BlocksOwned
        <3>1. CASE r = n + 1
            <4>1. \A b : <<n + 1, b>> \notin heap
                BY <1>9, <1>10
            <4> QED
                BY <1>3, <1>5, <1>7, <1>8, <2>3, <3>1, <4>1
        <3>2. CASE r \in 1 .. n
            <4>1. r # n + 1 /\ r # hidl
                BY <1>4, <1>10, <3>2
            <4> QED
                BY <1>1, <1>7, <1>8, <2>1, <2>3, <3>2, <4>1 DEF Untwinned, BlocksOwned
        <3> QED
            BY <2>1, <3>1, <3>2
    <2>7. DispatchQueued'
        BY <1>5, <2>3 DEF DispatchQueued
    <2> QED
        BY <2>4, <2>5, <2>6, <2>7 DEF Untwinned
<1> QED
    BY <1>12, <1>14, <1>17, <1>18, <1>19

-----------------------------------------------------------------------------
(* Theorems *)

(* SapInv is an inductive invariant of the SIM access profile: of the HIDL *)
(* thread's requests (addPayloadAndDispatchRequest) and of the vendor      *)
(* RIL's completions (onRequestComplete, checkAndDequeue).                 *)
THEOREM SapInductive == Spec => []SapInv
<1>1. SapInv /\ [Next]_vars => SapInv'
    <2> SUFFICES ASSUME SapInv, [Next]_vars PROVE SapInv'
        OBVIOUS
    <2>1. CASE SetCallback \/ DispatchOutOfMemory \/ DispatchReturns
        BY <2>1, SetCallbackStep, DispatchOutOfMemoryStep, DispatchReturnsStep
    <2>2. CASE \E k \in Kinds, t \in Tokens, s \in Stages : RequestFails(k, t, s)
        BY <2>2, RequestFailsStep
    <2>3. CASE \E k \in Kinds, t \in Tokens : DispatchRequest(k, t)
        BY <2>3, DispatchRequestStep
    <2>4. CASE \E v \in Vendors, r \in Requests : OnRequestComplete(v, r)
        BY <2>4, OnRequestCompleteStep
    <2>5. CASE \E v \in Vendors : \/ ResponseOutOfMemory(v) \/ CheckAndDequeue(v)
                                  \/ OnUnsolicitedResponse(v)
        BY <2>5, ResponseOutOfMemoryStep, CheckAndDequeueStep, OnUnsolicitedResponseStep
    <2>6. CASE \E v \in Vendors, d \in Decodings : ProcessResponse(v, d)
        BY <2>6, ProcessResponseStep
    <2>7. CASE \/ \E v \in Vendors, e \in Results : AnswerClient(v, e)
               \/ \E v \in Vendors, k \in {"status", "disconnectInd", "errorResp"} :
                     IndicateClient(v, k)
        BY <2>7, AnswerClientStep, IndicateClientStep
    <2>8. CASE UNCHANGED vars
        BY <2>8, StutterStep
    <2> QED
        BY <2>1, <2>2, <2>3, <2>4, <2>5, <2>6, <2>7, <2>8 DEF Next
<1> QED
    BY <1>1, InitInv, PTL DEF Spec

(* Memory is used after it was freed (checkAndDequeue,                     *)
(* addPayloadAndDispatchRequest) only after an early completion or after   *)
(* two requests with one id and token met.                                 *)
THEOREM UseAfterFreeOnlyThen == Spec => []UseAfterFreeExplained
<1>1. SapInv => UseAfterFreeExplained
    BY DEF SapInv
<1> QED
    BY <1>1, SapInductive, PTL

(* Every request is answered once, or dropped, and truthfully              *)
(* (processResponse, sendFailedResponse), whatever the number of requests. *)
THEOREM EachAnsweredOnce == Spec => []AnsweredOnce
<1>1. SapInv => AnsweredOnce
    <2> SUFFICES ASSUME SapInv, NEW r \in Requests
                 PROVE  /\ Len(answers[r]) <= 1
                        /\ Finished(r) => (Len(answers[r]) = 1 <=> r \notin dropped)
                        /\ \A i \in DOMAIN answers[r] :
                              answers[r][i].success => answers[r][i].true
        BY DEF AnsweredOnce
    <2>1. r \in 1 .. Len(kind)
        BY DEF SapInv, SapTypes, Requests
    <2>2. Finished(r) => ~Waiting(r)
        BY DEF Finished, Waiting
    <2>3. Len(<<>>) <= 1
        OBVIOUS
    <2>4. /\ Len(answers[r]) <= 1
          /\ Finished(r) => (Len(answers[r]) = 1 <=> r \notin dropped)
        BY <2>1, <2>2, <2>3 DEF SapInv, Answered
    <2> QED
        BY <2>1, <2>4 DEF SapInv, Truthful
<1> QED
    BY <1>1, SapInductive, PTL

(* Of a finished request nothing is left but what is never freed, the      *)
(* command of an APDU and the decoded message (sapDecodeMessage), as long  *)
(* as no two with one id and token met: sendFailedResponse,                *)
(* checkAndDequeue and addPayloadAndDispatchRequest free the rest.         *)
THEOREM FinishedLeavesNothing == Spec => []NothingLeft
<1>1. SapInv => NothingLeft
    <2> SUFFICES ASSUME SapInv, Sound, ~trouble.twins, NEW r \in Requests, Finished(r)
                 PROVE  /\ \A b \in heap : b[1] = r =>
                              \/ b[2] = "command" /\ kind[r] = "apdu"
                              \/ b[2] = "message"
                        /\ r \notin Range(queue)
        BY DEF NothingLeft
    <2>1. r \in 1 .. Len(kind) /\ Untwinned /\ r # hidl /\ ~Pending(r)
        BY DEF SapInv, SapTypes, Requests, Finished, Pending
    <2>2. ~InQueue(r)
        BY <2>1 DEF Untwinned, QueueMatches
    <2>3. r \notin Range(queue)
        BY <2>2 DEF InQueue, Range
    <2>4. ASSUME NEW b \in heap, b[1] = r
          PROVE  (b[2] = "command" /\ kind[r] = "apdu") \/ b[2] = "message"
        <3>1. PICK x \in Blocks : b = <<r, x>>
            BY <2>4 DEF SapInv, SapTypes
        <3> QED
            BY <2>1, <2>2, <3>1 DEF Untwinned, BlocksOwned, Blocks
    <2> QED
        BY <2>3, <2>4
<1> QED
    BY <1>1, SapInductive, PTL
=============================================================================
