-------------------------------- MODULE Sap --------------------------------
(***************************************************************************)
(* The SIM access profile of one slot: a request of the HIDL thread is     *)
(* encoded into blocks of memory, entered at the front of the socket's     *)
(* queue and given to the vendor RIL, whose threads complete it: they call *)
(* the client, take the first entry with the request's message id and      *)
(* token off the queue and free the request.  Who frees what, and when, is *)
(* the matter of this module: the blocks of a request are its `msg', the   *)
(* `command' of an APDU, the encoding `buffer', its copy in the `payload', *)
(* the `entry' of the queue, which is the vendor RIL's token, and the      *)
(* `message' that is decoded of its response; request 0 stands for the     *)
(* unsolicited responses.  The copy of a response is freed by the function *)
(* that makes it, on its one path, and is no block here.                   *)
(***************************************************************************)
EXTENDS Naturals, Sequences, FiniteSets, SequencesExt

CONSTANTS
    Kinds,         \* requests of the client, of DOMAIN Encodings
    Tokens,        \* tokens of the client
    Vendors,       \* threads of the vendor RIL
    MaxRequests,
    MaxIndications

ASSUME SapAssumption == MaxRequests \in Nat /\ MaxIndications \in Nat

-----------------------------------------------------------------------------
(* The requests: per stage that can fail, the blocks that are then freed.  *)

Plain == [msg |-> {}, size |-> {"msg"}, buffer |-> {"msg"}, encode |-> {"buffer", "msg"}]
WithCommand ==
    [msg |-> {}, command |-> {"msg"}, size |-> {"command", "msg"}, buffer |-> {"command", "msg"},
     encode |-> {"command", "buffer", "msg"}]
\* Seeded defect: the buffer of a failed encoding is forgotten.
PlainLeaks == [Plain EXCEPT !.encode = {"msg"}]
ConnectRequestsLeak == [connect |-> PlainLeaks, disconnect |-> PlainLeaks]

ConnectRequests == [connect |-> Plain, disconnect |-> Plain]
ApduRequests == [apdu |-> WithCommand, transferAtr |-> Plain]
PowerRequests == [power |-> Plain, resetSim |-> Plain]
ReaderRequests == [transferCardReaderStatus |-> Plain, setTransferProtocol |-> Plain]

Encodings(k) ==
    IF k \in DOMAIN ConnectRequests THEN ConnectRequests[k]
    ELSE IF k \in DOMAIN ApduRequests THEN ApduRequests[k]
    ELSE IF k \in DOMAIN PowerRequests THEN PowerRequests[k]
    ELSE ReaderRequests[k]

ASSUME KindsAssumption ==
    Kinds \subseteq DOMAIN ConnectRequests \cup DOMAIN ApduRequests \cup DOMAIN PowerRequests
                     \cup DOMAIN ReaderRequests

\* addPayloadAndDispatchRequest: the same for its stages, a payload and a socket.
DispatchStages == [payload |-> {"buffer", "msg"}, socket |-> {"payload", "buffer", "msg"}]

Stages == {"msg", "command", "size", "buffer", "encode", "payload", "socket"}
FreedAt(k, stage) ==
    IF stage \in DOMAIN DispatchStages THEN DispatchStages[stage] ELSE Encodings(k)[stage]

\* The blocks there are when a stage fails; an APDU may have no command.
HeldAt(k, stage) ==
    LET command == IF k = "apdu" THEN {"command"} ELSE {}
    IN  CASE stage = "msg" -> {}
          [] stage = "command" -> {"msg"}
          [] stage \in {"size", "buffer"} -> {"msg"} \cup command
          [] stage \in {"encode", "payload"} -> {"msg", "buffer"} \cup command
          [] stage = "socket" -> {"msg", "buffer", "payload"} \cup command

-----------------------------------------------------------------------------
(* The answers: what the client is told for the result of the vendor RIL.  *)

Results == {"SUCCESS", "GENERIC_FAILURE", "SIM_NOT_READY", "SIM_ALREADY_POWERED_OFF",
            "SIM_ALREADY_POWERED_ON", "SIM_ABSENT", "SIM_DATA_NOT_AVAILABLE"}

ApduResults ==
    [SUCCESS |-> "SUCCESS", SIM_NOT_READY |-> "CARD_NOT_ACCESSSIBLE",
     SIM_ALREADY_POWERED_OFF |-> "CARD_ALREADY_POWERED_OFF", SIM_ABSENT |-> "CARD_REMOVED"]
TransferAtrResults ==
    [SUCCESS |-> "SUCCESS", SIM_ALREADY_POWERED_OFF |-> "CARD_ALREADY_POWERED_OFF",
     SIM_ABSENT |-> "CARD_REMOVED", SIM_DATA_NOT_AVAILABLE |-> "DATA_NOT_AVAILABLE"]
PowerResults ==
    [SUCCESS |-> "SUCCESS", SIM_ABSENT |-> "CARD_REMOVED",
     SIM_ALREADY_POWERED_OFF |-> "CARD_ALREADY_POWERED_OFF",
     SIM_ALREADY_POWERED_ON |-> "CARD_ALREADY_POWERED_ON"]
ResetSimResults ==
    [SUCCESS |-> "SUCCESS", SIM_ABSENT |-> "CARD_REMOVED",
     SIM_NOT_READY |-> "CARD_NOT_ACCESSSIBLE",
     SIM_ALREADY_POWERED_OFF |-> "CARD_ALREADY_POWERED_OFF"]
ReaderStatusResults ==
    [SUCCESS |-> "SUCCESS", SIM_DATA_NOT_AVAILABLE |-> "DATA_NOT_AVAILABLE"]

\* Seeded defect: the default of a conversion is a success.
ToldSuccess(k, result) == IF result = "GENERIC_FAILURE" THEN result ELSE "SUCCESS"

\* connect's result is passed on as it is, disconnect has none.
Told(k, result) ==
    LET In(table) == IF result \in DOMAIN table THEN table[result] ELSE "GENERIC_FAILURE"
    IN  CASE k = "apdu" -> In(ApduResults)
          [] k = "transferAtr" -> In(TransferAtrResults)
          [] k = "power" -> In(PowerResults)
          [] k = "resetSim" -> In(ResetSimResults)
          [] k = "transferCardReaderStatus" -> In(ReaderStatusResults)
          [] k = "setTransferProtocol" ->
                IF result = "SUCCESS" THEN "SUCCESS" ELSE "NOT_SUPPORTED"
          [] k = "connect" -> result
          [] k = "disconnect" -> "none"

\* sendFailedResponse, for a request that does not reach the vendor RIL.
FailedResponse(k) ==
    CASE k = "connect" -> "CONNECT_FAILURE"
      [] k = "disconnect" -> "none"
      [] k = "setTransferProtocol" -> "NOT_SUPPORTED"
      [] OTHER -> "GENERIC_FAILURE"

\* Of an answer it is kept whether it tells of a success, and whether there was one.
AnswerOf(told, result) == [success |-> told = "SUCCESS", true |-> result = "SUCCESS"]

\* processResponse reads the decoded message of all but these.
ReadsMessage(k) == k \notin {"disconnect", "errorResp"}

-----------------------------------------------------------------------------
VARIABLES
    kind, token,   \* per request, once it is made
    heap,          \* the allocated blocks, pairs of a request and a block's name
    hidl,          \* the HIDL thread: 0, or the request it has given to the vendor RIL
    queue,         \* pendingResponseQueue, the front first
    owed,          \* requests the vendor RIL has not completed
    vpc, vreq,     \* per vendor thread where it is, and its request, 0 for an indication
    sapCallback,   \* whether a callback is set
    answers,       \* per request what the client was told
    dropped,       \* requests that ended without an answer
    indicated,
    trouble        \* what went wrong first: the program's next step is undefined

vars == <<kind, token, heap, hidl, queue, owed, vpc, vreq, sapCallback, answers, dropped,
          indicated, trouble>>
requestVars == <<kind, token>>

Requests == DOMAIN kind
Block(r, bs) == {r} \X bs

NoTrouble == [what |-> "none", twins |-> FALSE, early |-> FALSE]

Init ==
    /\ kind = <<>> /\ token = <<>>
    /\ heap = {}
    /\ hidl = 0
    /\ queue = <<>>
    /\ owed = {}
    /\ vpc = [v \in Vendors |-> "idle"] /\ vreq = [v \in Vendors |-> 0]
    /\ sapCallback = FALSE
    /\ answers = <<>>
    /\ dropped = {}
    /\ indicated = 0
    /\ trouble = NoTrouble

\* A step that uses memory it does not own, or NULL; after it nothing is known. It is
\* noted whether requests with one id and token had met, or the vendor RIL had completed
\* a request whose dispatch had not returned.
Fail(what) ==
    /\ trouble' = [trouble EXCEPT !.what = what]
    /\ UNCHANGED <<requestVars, heap, hidl, queue, owed, vpc, vreq, sapCallback, dropped,
                   indicated>>

Sound == trouble.what = "none"

\* setCallback, with a client's callbacks; a client that goes away shows when it is called.
SetCallback ==
    /\ Sound /\ hidl = 0 /\ ~sapCallback
    /\ sapCallback' = TRUE
    /\ UNCHANGED <<requestVars, heap, hidl, queue, owed, vpc, vreq, answers, dropped,
                   indicated, trouble>>

\* checkReturnStatus: the call failed, or not.
CheckReturnStatus == sapCallback' \in {TRUE, FALSE}

\* A request that fails before it has reached the vendor RIL: sendFailedResponse frees
\* the blocks it is given and calls the client without a test.
RequestFails(k, t, stage) ==
    /\ Sound /\ hidl = 0 /\ Len(kind) < MaxRequests
    /\ stage \in DOMAIN Encodings(k) \cup DOMAIN DispatchStages
    /\ \/ ~sapCallback /\ Fail("null callback") /\ UNCHANGED answers
       \/ /\ sapCallback
          /\ kind' = Append(kind, k) /\ token' = Append(token, t)
          /\ heap' = heap \cup Block(Len(kind) + 1, HeldAt(k, stage) \ FreedAt(k, stage))
          /\ answers' = Append(answers, <<AnswerOf(FailedResponse(k), "none")>>)
          /\ CheckReturnStatus
          /\ UNCHANGED <<hidl, queue, owed, vpc, vreq, dropped, indicated, trouble>>

\* dispatchRequest: the entry of the queue, then the vendor RIL.
DispatchRequest(k, t) ==
    LET r == Len(kind) + 1
    IN  /\ Sound /\ hidl = 0 /\ r <= MaxRequests
        /\ kind' = Append(kind, k) /\ token' = Append(token, t)
        /\ heap' = heap \cup Block(r, HeldAt(k, "socket") \cup {"entry"})
        /\ queue' = <<r>> \o queue
        /\ trouble' = [trouble EXCEPT !.twins = @ \/ \E i \in DOMAIN queue :
                            kind[queue[i]] = k /\ token[queue[i]] = t]
        /\ owed' = owed \cup {r}
        /\ hidl' = r
        /\ answers' = Append(answers, <<>>)
        /\ UNCHANGED <<vpc, vreq, sapCallback, dropped, indicated>>

\* No memory for the entry: dispatchRequest frees msg and tells nobody, and its caller
\* then looks for the payload in msg.
DispatchOutOfMemory ==
    /\ Sound /\ hidl = 0 /\ Len(kind) < MaxRequests
    /\ Fail("no entry") /\ UNCHANGED answers

\* The vendor RIL's onRequest has returned: free(msg->payload) and free(reqPtr).
DispatchReturns ==
    /\ Sound /\ hidl # 0
    /\ \/ <<hidl, "msg">> \notin heap /\ Fail("use after free") /\ UNCHANGED answers
       \/ /\ <<hidl, "msg">> \in heap
          /\ heap' = heap \ Block(hidl, {"payload", "buffer"})
          /\ hidl' = 0
          /\ UNCHANGED <<requestVars, queue, owed, vpc, vreq, sapCallback, answers, dropped,
                         indicated, trouble>>

-----------------------------------------------------------------------------
\* onRequestComplete: the token is the entry, which has the request's msg.
OnRequestComplete(v, r) ==
    /\ Sound /\ vpc[v] = "idle" /\ r \in owed
    /\ \/ ~(Block(r, {"entry", "msg"}) \subseteq heap) /\ Fail("use after free") /\ UNCHANGED answers
       \/ /\ Block(r, {"entry", "msg"}) \subseteq heap
          /\ owed' = owed \ {r}
          /\ vpc' = [vpc EXCEPT ![v] = "response"]
          /\ vreq' = [vreq EXCEPT ![v] = r]
          /\ UNCHANGED <<requestVars, heap, hidl, queue, sapCallback, answers, dropped,
                         indicated, trouble>>

\* No memory for the response: it goes on without one.
ResponseOutOfMemory(v) ==
    /\ Sound /\ vpc[v] = "response" /\ vreq[v] # 0
    /\ vpc' = [vpc EXCEPT ![v] = "dequeue"]
    /\ dropped' = dropped \cup {vreq[v]}
    /\ UNCHANGED <<requestVars, heap, hidl, queue, owed, vreq, sapCallback, answers,
                   indicated, trouble>>

\* What sapDecodeMessage makes of the payload: a message, or NULL because it cannot be
\* decoded, which forgets the block, or because there is no memory.
Decodings == {"decoded", "refused", "no memory"}

\* processResponse: sapDecodeMessage, then the test of the callback, ...
ProcessResponse(v, d) ==
    /\ Sound /\ vpc[v] = "response"
    /\ heap' = heap \cup Block(vreq[v], IF d = "no memory" THEN {} ELSE {"message"})
    /\ \/ /\ sapCallback
          /\ vpc' = [vpc EXCEPT ![v] = IF d = "decoded" THEN "call" ELSE "callNull"]
          /\ UNCHANGED dropped
       \/ /\ ~sapCallback
          /\ vpc' = [vpc EXCEPT ![v] = IF vreq[v] = 0 THEN "idle" ELSE "dequeue"]
          /\ dropped' = dropped \cup ({vreq[v]} \ {0})
    /\ UNCHANGED <<requestVars, hidl, queue, owed, vreq, sapCallback, answers,
                   indicated, trouble>>

\* ... then the call, with the message, which may be NULL and is never freed.
CallClient(v, k) ==
    /\ Sound /\ vpc[v] \in {"call", "callNull"}
    /\ \/ ~sapCallback /\ Fail("null callback")
       \/ sapCallback /\ vpc[v] = "callNull" /\ ReadsMessage(k) /\ Fail("null message")
       \/ /\ sapCallback /\ (vpc[v] = "call" \/ ~ReadsMessage(k))
          /\ vpc' = [vpc EXCEPT ![v] = IF vreq[v] = 0 THEN "idle" ELSE "dequeue"]
          /\ CheckReturnStatus
          /\ UNCHANGED <<requestVars, heap, hidl, queue, owed, vreq, dropped, indicated, trouble>>

AnswerClient(v, result) ==
    /\ vreq[v] # 0
    /\ CallClient(v, kind[vreq[v]])
    /\ answers' = IF trouble' = trouble
                  THEN [answers EXCEPT ![vreq[v]] =
                          Append(@, AnswerOf(Told(kind[vreq[v]], result), result))]
                  ELSE answers

IndicateClient(v, k) ==
    /\ vreq[v] = 0
    /\ CallClient(v, k)
    /\ UNCHANGED answers

\* Seeded defect: the token is not compared.
MatchesId(r) == {i \in DOMAIN queue : kind[queue[i]] = kind[r]}

\* The entries with the id and the token of a request.
Matches(r) == {i \in DOMAIN queue : kind[queue[i]] = kind[r] /\ token[queue[i]] = token[r]}

\* checkAndDequeue reads the entries, and through each its msg, up to the first that
\* matches, and frees that one; then free(hdr).
CheckAndDequeue(v) ==
    LET r == vreq[v]
        found == {i \in Matches(r) : \A j \in Matches(r) : i <= j}
        read == {r} \cup {queue[i] : i \in {j \in DOMAIN queue : \A f \in found : j <= f}}
        intact == (read \X {"msg"}) \subseteq heap
    IN  /\ Sound /\ vpc[v] = "dequeue"
        /\ \/ ~intact /\ Fail("use after free") /\ UNCHANGED answers
           \/ /\ intact
              /\ heap' = heap \ (Block(r, {"msg"}) \cup {<<queue[i], "entry">> : i \in found})
              /\ queue' = IF found = {} THEN queue
                          ELSE RemoveAt(queue, CHOOSE i \in found : TRUE)
              /\ trouble' = [trouble EXCEPT !.early = @ \/ hidl = r]
              /\ vpc' = [vpc EXCEPT ![v] = "idle"]
              /\ vreq' = [vreq EXCEPT ![v] = 0]
              /\ UNCHANGED <<requestVars, hidl, owed, sapCallback, answers, dropped, indicated>>

\* onUnsolicitedResponse with data; without memory or data nothing happens.
OnUnsolicitedResponse(v) ==
    /\ Sound /\ vpc[v] = "idle" /\ indicated < MaxIndications
    /\ indicated' = indicated + 1
    /\ vpc' = [vpc EXCEPT ![v] = "response"]
    /\ UNCHANGED <<requestVars, heap, hidl, queue, owed, vreq, sapCallback, answers, dropped,
                   trouble>>

Next ==
    \/ SetCallback
    \/ \E k \in Kinds, t \in Tokens, s \in Stages : RequestFails(k, t, s)
    \/ \E k \in Kinds, t \in Tokens : DispatchRequest(k, t)
    \/ DispatchOutOfMemory
    \/ DispatchReturns
    \/ \E v \in Vendors, r \in Requests : OnRequestComplete(v, r)
    \/ \E v \in Vendors : ResponseOutOfMemory(v)
    \/ \E v \in Vendors, d \in Decodings : ProcessResponse(v, d)
    \/ \E v \in Vendors, e \in Results : AnswerClient(v, e)
    \/ \E v \in Vendors, k \in {"status", "disconnectInd", "errorResp"} : IndicateClient(v, k)
    \/ \E v \in Vendors : CheckAndDequeue(v)
    \/ \E v \in Vendors : OnUnsolicitedResponse(v)

Spec == Init /\ [][Next]_vars

-----------------------------------------------------------------------------
(* Properties. *)

\* A request that neither the HIDL thread nor the vendor RIL has to do with any more.
Finished(r) == r # hidl /\ r \notin owed /\ \A v \in Vendors : vreq[v] # r

\* Memory is used after it was freed only if the vendor RIL completed a request before
\* its dispatch returned, or if requests with one id and one token met in the queue
\* (checkAndDequeue, addPayloadAndDispatchRequest); or in DispatchOutOfMemory, where it
\* is certain.
UseAfterFreeExplained ==
    trouble.what = "use after free" => trouble.early \/ trouble.twins

\* A request is answered once and once only, by the vendor RIL's result or by the failure
\* of the request, unless it was dropped for want of a client or of memory; and only
\* a success of the vendor RIL is told as one (processResponse, sendFailedResponse).
AnsweredOnce ==
    Sound => \A r \in Requests :
        /\ Len(answers[r]) <= 1
        /\ Finished(r) => (Len(answers[r]) = 1 <=> r \notin dropped)
        /\ \A i \in DOMAIN answers[r] :
              answers[r][i].success => answers[r][i].true

\* What a finished request leaves behind is what the code never frees, the command of an
\* APDU and the message decoded of the response, and nothing else, as long as no two
\* requests with one id and token met: its msg, buffer, payload and entry are freed, the
\* entry being its own (sendFailedResponse, checkAndDequeue, addPayloadAndDispatchRequest).
NothingLeft ==
    Sound /\ ~trouble.twins => \A r \in Requests :
        Finished(r) => /\ \A b \in heap : b[1] = r =>
                             \/ b[2] = "command" /\ kind[r] = "apdu"
                             \/ b[2] = "message"
                       /\ r \notin Range(queue)
=============================================================================
