---------------------------- MODULE RadioService ----------------------------
(***************************************************************************)
(* One slot's radio and OEM hook services between their clients and the    *)
(* vendor RIL: an operation becomes a request with a row of the command    *)
(* table, the completion of the request goes through the row's response    *)
(* function back to a callback of the client, an unsolicited response goes *)
(* through its indication function.  The radio capability is the one thing *)
(* kept between the two directions: an indication stores it, payload       *)
(* before flag, and getRadioCapability answers from it, flag before        *)
(* payload, without a lock.                                                *)
(*                                                                         *)
(* `event' is what a step told the client or the vendor RIL, until it has  *)
(* been heard.  Requests in flight at the same time are the matter of      *)
(* RilRequests; here there is one.                                         *)
(***************************************************************************)
EXTENDS RadioOperations, RadioIndications, FiniteSets

CONSTANTS
    Versions,         \* values of s_callbacksSocket.version
    MaxCapabilities   \* radio capability indications; the vendor RIL sends one

ASSUME ServiceAssumption ==
    /\ Versions \subseteq 0..(NoVersion - 1)
    /\ MaxCapabilities \in Nat

VARIABLES
    version,
    clients,    \* the services, "radio" and "oem", that have a client's callbacks
    call,       \* the request the vendor RIL works on, or NoCall
    event,      \* what the last step told, or Quiet
    s_lastRadioCapability, s_lastRadioCapabilityValid,
    ipc,        \* the thread with a radio capability indication
    indicated,  \* capability indications so far
    gpc,        \* the thread that answers getRadioCapability
    read        \* the parts of the capability that thread has read

capabilityVars == <<s_lastRadioCapability, s_lastRadioCapabilityValid, ipc, indicated, gpc, read>>
vars == <<version, clients, call, event, capabilityVars>>

Services == {"radio", "oem"}
NoCall == [op |-> "none", request |-> "none", row |-> Commands[1]]
Quiet == [kind |-> "none"]

\* A capability is two words; they are equal when they are of the same indication.
DefaultCapability == 0
Capabilities == 0..MaxCapabilities

Init ==
    /\ version \in Versions
    /\ clients = {}
    /\ call = NoCall
    /\ event = Quiet
    /\ s_lastRadioCapability = <<0, 0>>
    /\ s_lastRadioCapabilityValid = FALSE
    /\ ipc = "idle" /\ indicated = 0
    /\ gpc = "idle" /\ read = <<>>

\* setResponseFunctions with callbacks or with nullptr.
SetResponseFunctions(s) ==
    /\ event = Quiet
    /\ clients' \in {clients \cup {s}, clients \ {s}}
    /\ clients' # clients
    /\ UNCHANGED <<version, call, event, capabilityVars>>

-----------------------------------------------------------------------------
\* Seeded defect: a refused payload hides the vendor's own error.
ErrorHidden(s, e, p) ==
    IF Accepts(s, p) \/ s.refusal = "tolerated" THEN e ELSE "INVALID_RESPONSE"
\* What a response function of shape s tells its client of a completion with error e.
Error(s, e, p) ==
    IF Accepts(s, p) \/ s.refusal = "tolerated" \/ e # "NONE" THEN e ELSE "INVALID_RESPONSE"

Answer(op, f, e, p) ==
    LET s == ShapeOf(f, version)
        service == IF f \in DOMAIN OemHookResponses THEN "oem" ELSE "radio"
    IN  IF service \in clients
        THEN [kind |-> "answer", op |-> op, callback |-> CallbackOf(f), vendor |-> e,
              error |-> Error(s, e, p), data |-> Accepts(s, p),
              overread |-> ~p.null /\ UnitsRead(s, p) > p.count]
        ELSE Quiet

\* An operation that the vendor RIL gets as a request.
Invoke(op, w) ==
    /\ event = Quiet /\ call = NoCall /\ gpc = "idle"
    /\ w.error = "NONE"
    /\ call' = [op |-> op, request |-> w.request, row |-> CommandOf[w.request]]
    /\ UNCHANGED <<version, clients, event, capabilityVars>>

\* An operation that libril answers itself, through the same response function.
Refused(op, w) ==
    /\ event = Quiet /\ call = NoCall /\ gpc = "idle"
    /\ w.error # "NONE"
    /\ ShapeOf(ResponseOfRow(CommandOf[w.request]), version).refusal # "substituted"
    /\ event' = Answer(op, ResponseOfRow(CommandOf[w.request]), w.error,
                       IF w.own THEN OneUnit ELSE NullPayload)
    /\ UNCHANGED <<version, clients, call, capabilityVars>>

\* RIL_onRequestComplete with the vendor's error and payload.
Complete(e, p) ==
    /\ event = Quiet /\ call # NoCall
    /\ event' = Answer(call.op, ResponseOfRow(call.row), e, p)
    /\ call' = NoCall
    /\ UNCHANGED <<version, clients, capabilityVars>>

-----------------------------------------------------------------------------
(* The radio capability: radioCapabilityIndicationInd and, on another thread, *)
(* responseRadioCapability for the NULL answer of getRadioCapability.         *)

StoreCapability ==
    /\ event = Quiet
    /\ \/ /\ ipc = "idle" /\ indicated < MaxCapabilities
          /\ indicated' = indicated + 1
          /\ s_lastRadioCapability' = [s_lastRadioCapability EXCEPT ![1] = indicated + 1]
          /\ ipc' = "half"
       \/ /\ ipc = "half"
          /\ s_lastRadioCapability' = [s_lastRadioCapability EXCEPT ![2] = indicated]
          /\ ipc' = "stored"
          /\ UNCHANGED indicated
    /\ UNCHANGED <<version, clients, event, call, s_lastRadioCapabilityValid, gpc, read>>

\* Seeded defect: the flag may be set before all of the capability is stored.
ValidateCapabilityEarly ==
    /\ event = Quiet /\ ipc \in {"half", "stored"}
    /\ s_lastRadioCapabilityValid' = TRUE
    /\ ipc' = IF ipc = "stored" THEN "valid" ELSE ipc
    /\ UNCHANGED <<version, clients, event, call, s_lastRadioCapability, indicated, gpc, read>>
ValidateCapability ==
    /\ event = Quiet /\ ipc = "stored"
    /\ s_lastRadioCapabilityValid' = TRUE
    /\ ipc' = "valid"
    /\ UNCHANGED <<version, clients, event, call, s_lastRadioCapability, indicated, gpc, read>>

TellCapability ==
    /\ event = Quiet /\ ipc = "valid"
    /\ ipc' = "idle"
    /\ event' = IF "radio" \in clients
                THEN [kind |-> "indication", f |-> "radioCapabilityIndication",
                      callback |-> "radioCapabilityIndication", overread |-> FALSE,
                      requests |-> {}]
                ELSE Quiet
    /\ UNCHANGED <<version, clients, call, s_lastRadioCapability, s_lastRadioCapabilityValid,
                   indicated, gpc, read>>

\* getRadioCapability: the response function starts if there is a client.
GetRadioCapability ==
    /\ event = Quiet /\ call = NoCall /\ gpc = "idle"
    /\ "radio" \in clients
    /\ gpc' = IF s_lastRadioCapabilityValid THEN "copy" ELSE "default"
    /\ read' = <<>>
    /\ UNCHANGED <<version, clients, event, call, s_lastRadioCapability, s_lastRadioCapabilityValid,
                   ipc, indicated>>

\* One word after the other; the default is made without the shared state.
CopyCapability ==
    /\ event = Quiet /\ gpc \in {"copy", "default"} /\ Len(read) < 2
    /\ read' = Append(read, IF gpc = "copy" THEN s_lastRadioCapability[Len(read) + 1]
                            ELSE DefaultCapability)
    /\ UNCHANGED <<version, clients, event, call, s_lastRadioCapability, s_lastRadioCapabilityValid,
                   ipc, indicated, gpc>>

AnswerCapability ==
    /\ event = Quiet /\ Len(read) = 2
    /\ event' = [kind |-> "capability", value |-> read, indicated |-> gpc = "copy"]
    /\ gpc' = "idle" /\ read' = <<>>
    /\ UNCHANGED <<version, clients, call, s_lastRadioCapability, s_lastRadioCapabilityValid,
                   ipc, indicated>>

-----------------------------------------------------------------------------
(* Unsolicited responses: send_unsolResponse. They neither read nor change  *)
(* the request in flight, so they are explored while there is none.         *)

\* The functions of the tables other than the ones below; a payload they refuse is dropped.
Indicate(vendor, number, p) ==
    LET f == HandlerOf(vendor, number)
        s == Indications[f]
        service == IF f \in DOMAIN OemHookIndications THEN "oem" ELSE "radio"
    IN  /\ event = Quiet /\ call = NoCall
        /\ f \in DOMAIN Indications
        /\ f = "radioCapabilityIndication" => ~Accepts(s, p)
        /\ event' = IF service \in clients /\ Accepts(s, p)
                    THEN [kind |-> "indication", f |-> f,
                          callback |-> IF s.via = "own" THEN f ELSE s.via,
                          overread |-> ~p.null /\ UnitsRead(s, p) > p.count,
                          requests |-> IF f \in DOMAIN RequestOfIndication
                                       THEN {RequestOfIndication[f]} ELSE {}]
                    ELSE Quiet
        /\ UNCHANGED <<version, clients, call, capabilityVars>>

\* The vendor's call messages: mtkEcpiInd needs no client, callInfoInd does.
CallMessage(f, m) ==
    /\ event = Quiet /\ call = NoCall
    /\ event' = IF f = "callInfo" /\ "radio" \notin clients THEN Quiet
                ELSE [kind |-> "callMessage", f |-> f, message |-> m,
                      ack |-> IF f = "mtkEcpi" THEN mtkEcpiInd(m) ELSE callInfoInd(m),
                      tells |-> f = "callInfo" /\ TellsCallState(m),
                      overread |-> CallOverread(f, m)]
    /\ UNCHANGED <<version, clients, call, capabilityVars>>

\* The client's callback, or onRequest, has returned.
Heard ==
    /\ event # Quiet
    /\ event' = Quiet
    /\ UNCHANGED <<version, clients, call, capabilityVars>>

VendorErrors == {"NONE", "GENERIC_FAILURE"}
\* NULL may come with any length. The counts are those around the tests.
PayloadsOf(counts) == {p \in Payloads : p.count \in counts /\ (p.null => ~p.ragged /\ p.sane)}
CompletionPayloads == PayloadsOf({0, 1, 2, 3, 4, 5, 6, 11, 13, 14, 15})
IndicationPayloads == PayloadsOf({0, 1, 2, 4, 5})

\* The unsolicited responses that have a function.
UnsolicitedNumbers ==
    {u \in ({FALSE} \X (0..(Len(UnsolResponses) - 1))) \cup ({TRUE} \X (0..80)) :
        HandlerOf(u[1], u[2]) \in DOMAIN Indications}

Next ==
    \/ \E s \in Services : SetResponseFunctions(s)
    \/ \E op \in DOMAIN Operations : \E w \in WaysOf(op, version) : Invoke(op, w)
    \/ \E op \in DOMAIN Operations : \E w \in WaysOf(op, version) : Refused(op, w)
    \/ \E e \in VendorErrors, p \in CompletionPayloads : Complete(e, p)
    \/ StoreCapability
    \/ ValidateCapability
    \/ TellCapability
    \/ GetRadioCapability
    \/ CopyCapability
    \/ AnswerCapability
    \/ \E u \in UnsolicitedNumbers, p \in IndicationPayloads : Indicate(u[1], u[2], p)
    \/ \E f \in {"mtkEcpi", "callInfo"}, m \in CallMessages : CallMessage(f, m)
    \/ Heard

Spec == Init /\ [][Next]_vars

-----------------------------------------------------------------------------
(* Properties. *)

\* Every variable has its type.
TypeOK ==
    /\ version \in Versions
    /\ clients \subseteq Services
    /\ call = NoCall \/ call.op \in DOMAIN Operations
    /\ s_lastRadioCapability \in Capabilities \X Capabilities
    /\ s_lastRadioCapabilityValid \in BOOLEAN
    /\ ipc \in {"idle", "half", "stored", "valid"} /\ indicated \in 0..MaxCapabilities
    /\ gpc \in {"idle", "copy", "default"} /\ Len(read) \in 0..2

\* The callback the interface has for an operation: its own name, but for two.
InterfaceCallback(op) ==
    CASE op = "getImsiForApp" -> "getIMSIForApp"
      [] op = "hangup" -> "hangupConnection"
      [] OTHER -> op

\* hangupForegroundResumeBackground is answered with another operation's callback,
\* setSimCardPower through the row of another request: the
\* request has a vendor's number, and s_commands[mtk_command_start + 10] is DIAL's row,
\* [28] SIM_IO's, though "Index == requestNumber" (ril.cpp:403).
Misrouted == {"hangupForegroundResumeBackground", "setSimCardPower"}

\* The way from an operation over its request, the row of the command table and the
\* row's response function leads back to the operation's own callback, for all
\* operations but the two of Misrouted (addRequestToList, ril_commands.h).
OwnCallback ==
    event.kind = "answer" /\ event.op \notin Misrouted
      => event.callback = InterfaceCallback(event.op)

\* A client is told of success only together with a payload that the response
\* function accepted, and of an error of the vendor RIL always; only
\* getModemActivityInfo reports success without data (responseInfo.error).
ErrorFaithful ==
    event.kind = "answer"
      => /\ event.error = "NONE" => event.data \/ event.op = "getModemActivityInfo"
         /\ event.vendor # "NONE" => event.error = event.vendor

\* What the functions of call messages take on trust: a byte length that is no multiple
\* of the pointer's size is taken for a count by both; callInfoInd tests neither the
\* message nor its second string for NULL, and reads two strings of one pointer's bytes.
Trusted(f, m) ==
    \/ m.form = "ragged"
    \/ f = "callInfo" /\ (m.null \/ m.says = "nothing" \/ (m.form = "bytes" /\ m.fields = 1))

\* No response or indication function reads past the end of the payload that its
\* length test let through, but for the registration strings of versions up to 14,
\* of which getVoiceRegistrationStateResponse reads 14 from 5 on, and for the call
\* messages that mtkEcpiInd and callInfoInd trust (Trusted); a count that is taken for
\* a byte length makes them read less, never more.
ReadsFit ==
    /\ event.kind = "answer" /\ event.overread
         => event.op = "getVoiceRegistrationState" /\ version <= 14
    /\ event.kind = "indication" => ~event.overread
    /\ event.kind = "callMessage" /\ event.overread => Trusted(event.f, event.message)

\* A substituted capability is never half of an indication and half of the memory
\* before it, and never the zeroed memory itself: payload before flag, and flag
\* before payload (s_lastRadioCapability).
CapabilityWhole ==
    event.kind = "capability"
      => /\ event.value[1] = event.value[2]
         /\ event.indicated <=> event.value[1] # DefaultCapability

\* "responseLen is a count of string pointers in this function, not a byte length;
\* accept both" (callInfoInd, and mtkEcpiInd likewise): whichever of the two the length
\* is, an incoming call is acknowledged with its own sequence number, the last field,
\* for which the modem waits.
CallAcknowledged ==
    event.kind = "callMessage" /\ event.message.form \in {"count", "bytes"}
        /\ event.message.says = "incoming" /\ event.message.fields \in 10..32
      => event.ack = Ack(event.message.fields)
=============================================================================
