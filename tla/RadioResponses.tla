--------------------------- MODULE RadioResponses ---------------------------
(***************************************************************************)
(* What each response function makes of a completion of the vendor RIL:    *)
(* which payloads it accepts, how far into the payload it reads, what the  *)
(* client is told when it does not accept, and which of the client's       *)
(* callbacks it calls.                                                     *)
(*                                                                         *)
(* A payload is a pointer, possibly NULL, and a length. The length is kept *)
(* as a count of the units the function reads (integers, strings or        *)
(* structures) and whether a part of a unit is left over; `sane' is FALSE  *)
(* for contents the function itself refuses.                               *)
(***************************************************************************)
EXTENDS RadioTables

\* The longest payload that any length test or read tells apart.
MaxUnits == 15

Payloads == [null : BOOLEAN, count : 0..MaxUnits, ragged : BOOLEAN, sane : BOOLEAN]

NullPayload == [null |-> TRUE, count |-> 0, ragged |-> FALSE, sane |-> TRUE]
OneUnit == [NullPayload EXCEPT !.null = FALSE, !.count = 1]

(* A shape: whether NULL is accepted ("no", "empty": with length 0, "yes"), *)
(* the accepted counts, whether a ragged length is, the units it reads of a *)
(* payload of each accepted count, whether it can refuse the contents, what *)
(* a payload it does not accept leads to ("invalid": INVALID_RESPONSE in    *)
(* place of success, "tolerated": the error unchanged, "substituted": the   *)
(* last indicated capability), and the callback when it is not its own.     *)
Shape(null, counts, ragged, reads) ==
  [null |-> null, counts |-> counts, ragged |-> ragged, reads |-> reads,
   parsed |-> FALSE, refusal |-> "invalid", via |-> "own"]

Constantly(n) == [c \in 0..MaxUnits |-> n]

Ignored == Shape("yes", 0..MaxUnits, TRUE, Constantly(0))
\* A C string: its length is never looked at, and NULL is an empty one.
Text == Ignored
Exact(n) == Shape("no", {n}, FALSE, Constantly(n))
\* The length divided by the size of a unit is compared: a remainder passes.
Words(n) == Shape("no", {n}, TRUE, Constantly(n))
AtLeast(n) == Shape("no", n..MaxUnits, TRUE, Constantly(n))
Each(n) == Shape("no", {c \in 0..MaxUnits : c % n = 0}, FALSE, [c \in 0..MaxUnits |-> c])
NotNull == Shape("no", 0..MaxUnits, TRUE, Constantly(0))

OrEmpty(s) == [s EXCEPT !.null = "empty"]
OrNull(s) == [s EXCEPT !.null = "yes"]
Parsed(s) == [s EXCEPT !.parsed = TRUE]
Tolerated(s) == [s EXCEPT !.refusal = "tolerated"]
Substituted(s) == [s EXCEPT !.refusal = "substituted"]
Via(callback, s) == [s EXCEPT !.via = callback]

\* getLastCallFailCause: an integer, or a structure the size of two words or more.
OneOrTwo == Shape("no", {1, 2}, FALSE, [c \in 0..MaxUnits |-> c])
\* iccOpenLogicalChannel: the channel, then the select response; pInt[0] is read always.
ChannelIds == [Each(1) EXCEPT !.reads = [c \in 0..MaxUnits |-> IF c = 0 THEN 1 ELSE c]]

\* Up to version 14 the registration states are strings: see RegistrationShape.
RegistrationState == Exact(1)

VoiceStrings ==
  Shape("no", 4..MaxUnits, TRUE, [c \in 0..MaxUnits |-> IF c > 4 THEN 14 ELSE 4])
DataStrings ==
  Shape("no", {4, 6, 11}, TRUE, [c \in 0..MaxUnits |-> IF c > 4 THEN 6 ELSE 4])

-----------------------------------------------------------------------------
\* ril_service.cpp:3126-3276.
PinResponses ==
  [getIccCardStatus |-> Exact(1), supplyIccPinForApp |-> OrEmpty(Exact(1)),
   supplyIccPukForApp |-> OrEmpty(Exact(1)), supplyIccPin2ForApp |-> OrEmpty(Exact(1)),
   supplyIccPuk2ForApp |-> OrEmpty(Exact(1)), changeIccPinForApp |-> OrEmpty(Exact(1))]

\* ril_service.cpp:3278-3435.
CallListResponses ==
  [changeIccPin2ForApp |-> OrEmpty(Exact(1)),
   supplyNetworkDepersonalization |-> OrEmpty(Exact(1)), getCurrentCalls |-> Each(1),
   dial |-> Ignored, getIMSIForApp |-> Text, hangupConnection |-> Ignored]

\* ril_service.cpp:3437-3580.
CallControlResponses ==
  [hangupWaitingOrBackground |-> Ignored,
   hangupForegroundResumeBackground |-> Via("hangupWaitingOrBackground", Ignored),
   switchWaitingOrHoldingAndActive |-> Ignored, conference |-> Ignored,
   rejectCall |-> Ignored, getLastCallFailCause |-> OneOrTwo]

\* ril_service.cpp:3582-3609.
SignalResponses ==
  [getSignalStrength |-> AtLeast(1)]

\* ril_service.cpp:3860-3999.
RegistrationResponses ==
  [getVoiceRegistrationState |-> RegistrationState,
   getDataRegistrationState |-> RegistrationState]

\* ril_service.cpp:4010-4122.
OperatorResponses ==
  [getOperator |-> AtLeast(1), setRadioPower |-> Ignored, sendDtmf |-> Ignored]

\* Seeded defect: one function calls the callback of the other.
MessageResponsesSwapped ==
  [sendSms |-> Via("sendSMSExpectMore", Exact(1)), sendSMSExpectMore |-> Exact(1)]
\* ril_service.cpp:4124-4184.
MessageResponses ==
  [sendSms |-> Exact(1), sendSMSExpectMore |-> Exact(1)]

\* ril_service.cpp:4276-4347.
DataCallResponses ==
  [setupDataCall |-> AtLeast(1)]

\* ril_service.cpp:4453-4589.
CardFileResponses ==
  [iccIOForApp |-> Exact(1), sendUssd |-> Ignored, cancelPendingUssd |-> Ignored,
   getClir |-> Words(2), setClir |-> Ignored]

\* ril_service.cpp:4591-4722.
ForwardingResponses ==
  [getCallForwardStatus |-> Each(1), setCallForward |-> Ignored, getCallWaiting |-> Words(2),
   setCallWaiting |-> Ignored, acknowledgeLastIncomingGsmSms |-> Ignored]

\* ril_service.cpp:4724-4860.
FacilityResponses ==
  [acceptCall |-> Ignored, deactivateDataCall |-> Ignored,
   getFacilityLockForApp |-> Exact(1), setFacilityLockForApp |-> OrEmpty(Exact(1)),
   setBarringPassword |-> Ignored, getNetworkSelectionMode |-> Exact(1)]

\* ril_service.cpp:4862-4959.
SelectionResponses ==
  [setNetworkSelectionModeAutomatic |-> Ignored, setNetworkSelectionModeManual |-> Ignored,
   getAvailableNetworks |-> Parsed(Each(4))]

\* ril_service.cpp:4980-5129.
MuteResponses ==
  [startDtmf |-> Ignored, stopDtmf |-> Ignored, getBasebandVersion |-> Text,
   separateConnection |-> Ignored,
   setMute |-> Ignored, getMute |-> Exact(1), getClip |-> Exact(1)]

\* ril_service.cpp:5131-5240.
ServiceResponses ==
  [getDataCallList |-> Each(1), setSuppServiceNotifications |-> Ignored,
   deleteSmsOnSim |-> Ignored, setBandMode |-> Ignored, writeSmsToSim |-> Exact(1)]

\* ril_service.cpp:5242-5383.
ToolkitResponses ==
  [getAvailableBandModes |-> Each(1), sendEnvelope |-> Text,
   sendTerminalResponseToSim |-> Ignored, handleStkCallSetupRequestFromSim |-> Ignored,
   explicitCallTransfer |-> Ignored, setPreferredNetworkType |-> Ignored]

\* ril_service.cpp:5386-5530.
NetworkTypeResponses ==
  [getPreferredNetworkType |-> Exact(1), getNeighboringCids |-> Each(1),
   setLocationUpdates |-> Ignored, setCdmaSubscriptionSource |-> Ignored,
   setCdmaRoamingPreference |-> Ignored, getCdmaRoamingPreference |-> Exact(1)]

\* ril_service.cpp:5532-5665.
CdmaModeResponses ==
  [setTTYMode |-> Ignored, getTTYMode |-> Exact(1), setPreferredVoicePrivacy |-> Ignored,
   getPreferredVoicePrivacy |-> Words(1), sendCDMAFeatureCode |-> Ignored,
   sendBurstDtmf |-> Ignored]

\* ril_service.cpp:5667-5793.
CdmaMessageResponses ==
  [sendCdmaSms |-> Exact(1), acknowledgeLastIncomingCdmaSms |-> Ignored,
   getGsmBroadcastConfig |-> Each(1), setGsmBroadcastConfig |-> Ignored,
   setGsmBroadcastActivation |-> Ignored]

\* ril_service.cpp:5795-5936.
BroadcastResponses ==
  [getCdmaBroadcastConfig |-> Each(1), setCdmaBroadcastConfig |-> Ignored,
   setCdmaBroadcastActivation |-> Ignored, getCDMASubscription |-> Words(5),
   writeSmsToRuim |-> Exact(1)]

\* ril_service.cpp:5938-6077.
IdentityResponses ==
  [deleteSmsOnRuim |-> Ignored, getDeviceIdentity |-> Words(4),
   getImeiAsDeviceIdentity |-> Via("getDeviceIdentity", Exact(1)),
   exitEmergencyCallbackMode |-> Ignored, getSmscAddress |-> Text]

\* ril_service.cpp:6079-6231.
MessageCentreResponses ==
  [setSmscAddress |-> Ignored, reportSmsMemoryStatus |-> Ignored,
   reportStkServiceIsRunning |-> Ignored, getCdmaSubscriptionSource |-> Exact(1),
   requestIsimAuthentication |-> Text, acknowledgeIncomingGsmSmsWithPdu |-> Ignored,
   sendEnvelopeWithStatus |-> Exact(1)]

\* ril_service.cpp:6233-6382.
CellResponses ==
  [getVoiceRadioTechnology |-> Exact(1), getCellInfoList |-> Each(1),
   setCellInfoListRate |-> Ignored, setInitialAttachApn |-> Ignored,
   getImsRegistrationState |-> Words(2), sendImsSms |-> Exact(1)]

\* ril_service.cpp:6384-6529.
ChannelResponses ==
  [iccTransmitApduBasicChannel |-> Exact(1), iccOpenLogicalChannel |-> ChannelIds,
   iccCloseLogicalChannel |-> Ignored, iccTransmitApduLogicalChannel |-> Exact(1),
   nvReadItem |-> Text, nvWriteItem |-> Ignored]

\* ril_service.cpp:6531-6683.
ItemResponses ==
  [nvWriteCdmaPrl |-> Ignored, nvResetConfig |-> Ignored, setUiccSubscription |-> Ignored,
   setDataAllowed |-> Ignored, getHardwareConfig |-> Each(1),
   requestIccSimAuthentication |-> Exact(1), setDataProfile |-> Ignored]

\* ril_service.cpp:6685-6807.
CapabilityResponses ==
  [requestShutdown |-> Ignored, getRadioCapability |-> Substituted(AtLeast(1)),
   setRadioCapability |-> AtLeast(1)]

\* ril_service.cpp:6809-6947.
ActivityResponses ==
  [startLceService |-> Exact(1), stopLceService |-> Exact(1), pullLceData |-> Exact(1),
   getModemActivityInfo |-> Tolerated(Exact(1))]

\* ril_service.cpp:6949-7048.
CarrierResponses ==
  [setAllowedCarriers |-> Exact(1), getAllowedCarriers |-> OrNull(Exact(1)),
   sendDeviceState |-> Ignored]

\* ril_service.cpp:7077-7129.
FilterPowerResponses ==
  [setIndicationFilter |-> Ignored, setSimCardPower |-> Ignored]

\* ril_service.cpp:7131-7193.
OemHookResponses ==
  [sendRequestRaw |-> NotNull, sendRequestStrings |-> Each(1)]

RadioResponses ==
  Merged(
    <<PinResponses, CallListResponses, CallControlResponses, SignalResponses,
      RegistrationResponses, OperatorResponses, MessageResponses, DataCallResponses,
      CardFileResponses, ForwardingResponses, FacilityResponses, SelectionResponses,
      MuteResponses, ServiceResponses, ToolkitResponses, NetworkTypeResponses,
      CdmaModeResponses, CdmaMessageResponses, BroadcastResponses, IdentityResponses,
      MessageCentreResponses, CellResponses, ChannelResponses, ItemResponses,
      CapabilityResponses, ActivityResponses, CarrierResponses, FilterPowerResponses>>)

Responses == Merged(<<RadioResponses, OemHookResponses>>)

\* The shape a response function applies under a version of the vendor RIL.
ShapeOf(f, version) ==
  IF version <= 14 /\ f = "getVoiceRegistrationState" THEN VoiceStrings
  ELSE IF version <= 14 /\ f = "getDataRegistrationState" THEN DataStrings
  ELSE Responses[f]

\* The client's callback a response function calls.
CallbackOf(f) == IF Responses[f].via = "own" THEN f ELSE Responses[f].via

Accepts(s, p) ==
  IF p.null THEN s.null = "yes" \/ (s.null = "empty" /\ p.count = 0)
  ELSE p.count \in s.counts /\ (p.ragged => s.ragged) /\ (s.parsed => p.sane)

\* The units read of an accepted payload, and of one refused for its contents.
UnitsRead(s, p) == IF p.null \/ ~Accepts(s, [p EXCEPT !.sane = TRUE]) THEN 0 ELSE s.reads[p.count]
=============================================================================
