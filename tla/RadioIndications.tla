-------------------------- MODULE RadioIndications --------------------------
(***************************************************************************)
(* What each indication function makes of an unsolicited response of the   *)
(* vendor RIL: the payloads it passes on, the client's callback it calls,  *)
(* and the requests it sends back by itself; and the table that gives      *)
(* every unsolicited response its function.  Payloads and shapes are those *)
(* of the response functions.                                              *)
(***************************************************************************)
EXTENDS RadioResponses, TLC

\* A text or a block of bytes: not NULL and not empty, then read as it is.
SomeBytes == Shape("no", 1..MaxUnits, TRUE, Constantly(1))
\* callRing: nothing for GSM, else one signal record.
RingRecord == Shape("yes", {0, 1}, FALSE, [c \in 0..MaxUnits |-> c])
\* onUssd: the mode, and the message if there is a second string.
UssdStrings == Shape("no", 1..MaxUnits, TRUE, [c \in 0..MaxUnits |-> IF c > 1 THEN 2 ELSE c])

\* ril_service.cpp:7202-7251, nothing is read of the payload.
StateIndications ==
  [radioStateChanged |-> Ignored, callStateChanged |-> Ignored, networkStateChanged |-> Ignored]

\* ril_service.cpp:7253-7405, short messages as hexadecimal text; USSD.
MessageIndications ==
  [newSms |-> Parsed(SomeBytes), newSmsStatusReport |-> Parsed(SomeBytes),
   newSmsOnSim |-> Exact(1), onUssd |-> Parsed(UssdStrings)]

\* ril_service.cpp:7407-7502.
NetworkIndications == [nitzTimeReceived |-> SomeBytes, currentSignalStrength |-> AtLeast(1)]

\* ril_service.cpp:7552-7609; an empty list of data calls comes as NULL.
DataCallIndications ==
  [dataCallListChanged |-> OrEmpty(Each(1)), suppSvcNotify |-> Exact(1)]

\* ril_service.cpp:7611-7734.
ToolkitIndications ==
  [stkSessionEnd |-> Ignored, stkProactiveCommand |-> SomeBytes, stkEventNotify |-> SomeBytes,
   stkCallSetup |-> Exact(1), simSmsStorageFull |-> Ignored, simRefresh |-> Exact(1)]

\* ril_service.cpp:7744-7860.
RingIndications ==
  [callRing |-> RingRecord, simStatusChanged |-> Ignored, cdmaNewSms |-> Exact(1),
   newBroadcastSms |-> SomeBytes]

\* ril_service.cpp:7862-7975.
CdmaIndications ==
  [cdmaRuimSmsStorageFull |-> Ignored, restrictedStateChanged |-> Exact(1),
   enterEmergencyCallbackMode |-> Ignored, cdmaCallWaiting |-> Exact(1),
   cdmaOtaProvisionStatus |-> Exact(1)]

\* ril_service.cpp:7977-8153; one record the function refuses drops them all.
CdmaRecordIndications == [cdmaInfoRec |-> Parsed(Exact(1))]

\* ril_service.cpp:8155-8294.
ModeIndications ==
  [indicateRingbackTone |-> Exact(1), resendIncallMute |-> Ignored,
   cdmaSubscriptionSourceChanged |-> Exact(1), cdmaPrlChanged |-> Exact(1),
   exitEmergencyCallbackMode |-> Ignored, rilConnected |-> Ignored,
   voiceRadioTechChanged |-> Exact(1)]

\* ril_service.cpp:8456-8542.
CellIndications ==
  [cellInfoList |-> Each(1), imsNetworkStateChanged |-> Ignored,
   subscriptionStatusChanged |-> Exact(1), srvccStateNotify |-> Exact(1)]

\* ril_service.cpp:8577-8736; radioCapabilityIndication also keeps the capability.
ConfigIndications ==
  [hardwareConfigChanged |-> Each(1), radioCapabilityIndication |-> AtLeast(1),
   onSupplementaryServiceIndication |-> Exact(1)]

\* ril_service.cpp:8738-8841.
DataIndications ==
  [stkCallControlAlphaNotify |-> SomeBytes, lceData |-> Exact(1), pcoData |-> Exact(1),
   modemReset |-> SomeBytes]

\* ril_service.cpp:8881-8903, for the client of the OEM hook service.
OemHookIndications == [oemHookRaw |-> SomeBytes]

\* ril_service.cpp:8974-9047: the vendor reuses the incoming call for two integers,
\* which are too short for the five strings; a NULL string drops it too.
VendorCallIndications ==
  [registrationSuspend |-> Via("none", AtLeast(1)),
   incomingCall |-> Via("callStateChanged", Parsed(AtLeast(5)))]

\* ril_service.cpp:9137-9230: the packet network's state is passed on as any network
\* state; the attach APN is sent later, by a timed callback.
VendorAttachIndications ==
  [psNetworkStateChanged |-> Via("networkStateChanged", AtLeast(1)),
   setAttachApn |-> Via("none", Ignored)]

\* The requests that indication functions send by themselves; setAttachApnInd has the
\* event loop send its own (InitialAttach).
RequestOfIndication ==
  [registrationSuspend |-> "RESUME_REGISTRATION", incomingCall |-> "SET_CALL_INDICATION",
   setAttachApn |-> "SET_INITIAL_ATTACH_APN"]

Indications ==
  Merged(
    <<StateIndications, MessageIndications, NetworkIndications, DataCallIndications,
      ToolkitIndications, RingIndications, CdmaIndications, CdmaRecordIndications,
      ModeIndications, CellIndications, ConfigIndications, DataIndications,
      OemHookIndications, VendorCallIndications, VendorAttachIndications>>)

-----------------------------------------------------------------------------
\* ril_unsol_commands.h:21-68, the functions in the order of the table.
UnsolResponses ==
  <<"radioStateChanged", "callStateChanged", "networkStateChanged", "newSms",
    "newSmsStatusReport", "newSmsOnSim", "onUssd", "onUssd", "nitzTimeReceived",
    "currentSignalStrength", "dataCallListChanged", "suppSvcNotify", "stkSessionEnd",
    "stkProactiveCommand", "stkEventNotify", "stkCallSetup", "simSmsStorageFull",
    "simRefresh", "callRing", "simStatusChanged", "cdmaNewSms", "newBroadcastSms",
    "cdmaRuimSmsStorageFull", "restrictedStateChanged", "enterEmergencyCallbackMode",
    "cdmaCallWaiting", "cdmaOtaProvisionStatus", "cdmaInfoRec", "oemHookRaw",
    "indicateRingbackTone", "resendIncallMute", "cdmaSubscriptionSourceChanged",
    "cdmaPrlChanged", "exitEmergencyCallbackMode", "rilConnected", "voiceRadioTechChanged",
    "cellInfoList", "imsNetworkStateChanged", "subscriptionStatusChanged",
    "srvccStateNotify", "hardwareConfigChanged", "none", "radioCapabilityIndication",
    "onSupplementaryServiceIndication", "stkCallControlAlphaNotify", "lceData", "pcoData",
    "modemReset">>

\* mtk_ril_unsol_commands.h:37-117, by their offset from RIL_UNSOL_VENDOR_BASE.
VendorHandled ==
  15 :> "psNetworkStateChanged" @@ 24 :> "registrationSuspend" @@ 42 :> "incomingCall"
    @@ 43 :> "mtkEcpi" @@ 49 :> "callInfo" @@ 73 :> "setAttachApn"
VendorUnsolResponses ==
  [i \in 1..81 |-> IF i - 1 \in DOMAIN VendorHandled THEN VendorHandled[i - 1] ELSE "none"]

\* s_unsolResponses, the vendor's rows behind the others from mtk_unsol_start on.
AllUnsolResponses == UnsolResponses \o VendorUnsolResponses
MtkUnsolStart == Len(UnsolResponses)

\* RIL_onUnsolicitedResponseSocket returns at once for these vendor responses.
IgnoredVendor == {2, 6, 9, 23, 40, 41, 46, 48, 59, 74, 75}

\* An unsolicited response is `number' above RIL_UNSOL_RESPONSE_BASE, or above
\* RIL_UNSOL_VENDOR_BASE; the function send_unsolResponse calls for it, if any.
HandlerOf(vendor, number) ==
  IF vendor /\ (number > 80 \/ number \in IgnoredVendor) THEN "none"
  ELSE AllUnsolResponses[(IF vendor THEN number + MtkUnsolStart ELSE number) + 1]

-----------------------------------------------------------------------------
(* The call messages of the vendor are arrays of strings, or NULL: their    *)
(* number of fields; whether responseLen counts the fields, their bytes, or *)
(* bytes with a part of a field; what their second field says: "133", an    *)
(* incoming call with its number, "129", another call state, another text,  *)
(* or nothing, the pointer being NULL. A first field that is NULL makes an  *)
(* incoming call another text.                                              *)

\* The processor is a 32-bit one (BoardConfig.mk).
PointerSize == 4
\* Around every number of fields that a test tells apart.
FieldCounts == {0, 1, 2, 3, 4, 9, 10, 12, 32, 33, 40}

CallMessages ==
  {m \in [fields : FieldCounts, form : {"count", "bytes", "ragged"}, null : BOOLEAN,
          says : {"incoming", "state", "other", "nothing"}] :
      m.null => m.says = "nothing"}

ResponseLen(m) ==
  CASE m.form = "count" -> m.fields
    [] m.form = "bytes" -> m.fields * PointerSize
    [] m.form = "ragged" -> m.fields * PointerSize + 1

\* Seeded defect: the length is always taken for a count.
FieldsReadAsCount(m) == ResponseLen(m)
\* The number of fields mtkEcpiInd and callInfoInd make of the length.
FieldsRead(m) ==
  LET len == ResponseLen(m)
  IN  IF len >= PointerSize /\ len % PointerSize = 0 THEN len \div PointerSize ELSE len

\* The field with the sequence number, or 0 where the number 0 is sent instead.
NoAck == [sent |-> FALSE, seqField |-> 0]
Ack(n) == [sent |-> TRUE, seqField |-> n]

mtkEcpiInd(m) ==
  IF FieldsRead(m) \in 10..32 /\ m.says = "incoming" THEN Ack(FieldsRead(m)) ELSE NoAck

callInfoInd(m) ==
  IF m.says # "incoming" \/ FieldsRead(m) < 2 THEN NoAck
  ELSE Ack(IF FieldsRead(m) \in 10..32 THEN FieldsRead(m) ELSE 0)

\* callInfoInd then passes a call state on, whatever the length counts.
TellsCallState(m) == ResponseLen(m) >= 2 /\ m.says = "state"

\* The strings the functions read, up to the sequence number of an incoming call;
\* mtkEcpiInd tests the message for NULL, callInfoInd does not.
StringsRead(f, m) ==
  CASE f = "mtkEcpi" /\ (m.null \/ FieldsRead(m) \notin 10..32) -> 0
    [] f = "callInfo" /\ ResponseLen(m) < 2 -> 0
    [] OTHER -> IF m.says = "incoming" /\ FieldsRead(m) \in 10..32 THEN FieldsRead(m) ELSE 2

\* More strings are read than there are; callInfoInd compares a second one that is NULL.
CallOverread(f, m) ==
  \/ StringsRead(f, m) > IF m.null THEN 0 ELSE m.fields
  \/ f = "callInfo" /\ m.says = "nothing" /\ ResponseLen(m) >= 2
=============================================================================
