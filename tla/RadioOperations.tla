-------------------------- MODULE RadioOperations --------------------------
(***************************************************************************)
(* What each operation of the radio and OEM hook interfaces does with the  *)
(* request it makes: the request it sends to the vendor RIL, or the error  *)
(* it answers by itself.  Then the command table, which gives every        *)
(* request its response function, and the lookup that addRequestToList     *)
(* makes in it.                                                            *)
(*                                                                         *)
(* An operation is a set of ways: which one is taken depends on the        *)
(* version of the vendor RIL and on the client's arguments.                *)
(***************************************************************************)
EXTENDS RadioTables

\* The versions of the vendor RIL interface are below this bound.
NoVersion == 99

(* A way sends `request', or answers it with `error' instead, with NULL or,  *)
(* if `own', with the structure the client sent. It is open to the versions  *)
(* of the vendor RIL from `from' to `upto'.                                  *)
Way(r) == [request |-> r, error |-> "NONE", own |-> FALSE, from |-> 0, upto |-> NoVersion]

Sends(r) == {Way(r)}

\* sendErrorResponse instead of a request.
Refuse(r, e) == {[Way(r) EXCEPT !.error = e]}

\* Arguments that are copied to the heap first: copyHidlStringToRil or calloc may fail.
Copied(r) == Sends(r) \cup Refuse(r, "NO_MEMORY")

dispatchVoid(r) == Sends(r)
dispatchString(r) == Copied(r)
dispatchStrings(r) == Copied(r)
dispatchInts(r) == Copied(r)
dispatchCallForwardStatus(r) == Copied(r)
dispatchRaw(r) == Sends(r)
dispatchIccApdu(r) == Copied(r)

\* setRadioCapability answers with the client's own structure, its status failed.
Echo(r, e) == {[Way(r) EXCEPT !.error = e, !.own = TRUE]}

Since(v, ways) == {[w EXCEPT !.from = v] : w \in ways}
Until(v, ways) == {[w EXCEPT !.upto = v] : w \in ways}

-----------------------------------------------------------------------------
\* ril_service.cpp:875-951, entering and changing PIN and PUK codes.
CardLockOperations ==
  [getIccCardStatus |-> dispatchVoid("GET_SIM_STATUS"),
   supplyIccPinForApp |-> dispatchStrings("ENTER_SIM_PIN"),
   supplyIccPukForApp |-> dispatchStrings("ENTER_SIM_PUK"),
   supplyIccPin2ForApp |-> dispatchStrings("ENTER_SIM_PIN2"),
   supplyIccPuk2ForApp |-> dispatchStrings("ENTER_SIM_PUK2"),
   changeIccPinForApp |-> dispatchStrings("CHANGE_SIM_PIN"),
   changeIccPin2ForApp |-> dispatchStrings("CHANGE_SIM_PIN2"),
   supplyNetworkDepersonalization |-> dispatchStrings("ENTER_NETWORK_DEPERSONALIZATION")]

\* ril_service.cpp:953-1066, calls.
CallOperations ==
  [getCurrentCalls |-> dispatchVoid("GET_CURRENT_CALLS"),
   dial |-> Copied("DIAL"),
   getImsiForApp |-> dispatchStrings("GET_IMSI"), hangup |-> dispatchInts("HANGUP"),
   hangupWaitingOrBackground |-> dispatchVoid("HANGUP_WAITING_OR_BACKGROUND"),
   hangupForegroundResumeBackground |-> dispatchVoid("HANGUP_FOREGROUND_RESUME_BACKGROUND"),
   switchWaitingOrHoldingAndActive |-> dispatchVoid("SWITCH_WAITING_OR_HOLDING_AND_ACTIVE"),
   conference |-> dispatchVoid("CONFERENCE"), rejectCall |-> dispatchVoid("UDUB"),
   getLastCallFailCause |-> dispatchVoid("LAST_CALL_FAIL_CAUSE")]

\* ril_service.cpp:1068-1148, network state, radio power, sending short messages.
StateOperations ==
  [getSignalStrength |-> Refuse("SIGNAL_STRENGTH", "REQUEST_NOT_SUPPORTED"),
   getVoiceRegistrationState |-> dispatchVoid("VOICE_REGISTRATION_STATE"),
   getDataRegistrationState |-> dispatchVoid("DATA_REGISTRATION_STATE"),
   getOperator |-> dispatchVoid("OPERATOR"), setRadioPower |-> dispatchInts("RADIO_POWER"),
   sendDtmf |-> dispatchString("DTMF"), sendSms |-> dispatchStrings("SEND_SMS"),
   sendSMSExpectMore |-> dispatchStrings("SEND_SMS_EXPECT_MORE")]

\* ril_service.cpp:1150-1246, setting up a data call; the arguments depend on the version.
DataCallOperations ==
  [setupDataCall |-> Until(3, Refuse("SETUP_DATA_CALL", "REQUEST_NOT_SUPPORTED"))
     \cup Since(4, Until(14, dispatchStrings("SETUP_DATA_CALL")))
     \cup Since(15, dispatchStrings("SETUP_DATA_CALL"))
     \cup Since(15, Refuse("SETUP_DATA_CALL", "INVALID_ARGUMENTS"))]

\* ril_service.cpp:1248-1366, SIM files, USSD, caller identity, call forwarding.
CardFileOperations ==
  [iccIOForApp |-> Copied("SIM_IO"), sendUssd |-> dispatchString("SEND_USSD"),
   cancelPendingUssd |-> dispatchVoid("CANCEL_USSD"), getClir |-> dispatchVoid("GET_CLIR"),
   setClir |-> dispatchInts("SET_CLIR"),
   getCallForwardStatus |-> dispatchCallForwardStatus("QUERY_CALL_FORWARD_STATUS"),
   setCallForward |-> dispatchCallForwardStatus("SET_CALL_FORWARD")]

\* ril_service.cpp:1368-1506, call waiting, facility locks, network selection.
ServiceOperations ==
  [getCallWaiting |-> dispatchInts("QUERY_CALL_WAITING"),
   setCallWaiting |-> dispatchInts("SET_CALL_WAITING"),
   acknowledgeLastIncomingGsmSms |-> dispatchInts("SMS_ACKNOWLEDGE"),
   acceptCall |-> dispatchVoid("ANSWER"),
   deactivateDataCall |-> dispatchStrings("DEACTIVATE_DATA_CALL"),
   getFacilityLockForApp |-> dispatchStrings("QUERY_FACILITY_LOCK"),
   setFacilityLockForApp |-> dispatchStrings("SET_FACILITY_LOCK"),
   setBarringPassword |-> dispatchStrings("CHANGE_BARRING_PASSWORD"),
   getNetworkSelectionMode |-> dispatchVoid("QUERY_NETWORK_SELECTION_MODE"),
   setNetworkSelectionModeAutomatic |-> dispatchVoid("SET_NETWORK_SELECTION_AUTOMATIC"),
   setNetworkSelectionModeManual |-> dispatchString("SET_NETWORK_SELECTION_MANUAL"),
   getAvailableNetworks |-> dispatchVoid("QUERY_AVAILABLE_NETWORKS")]

\* ril_service.cpp:1508-1626, tones, mute, messages on the SIM.
ToneOperations ==
  [startDtmf |-> dispatchString("DTMF_START"), stopDtmf |-> dispatchVoid("DTMF_STOP"),
   getBasebandVersion |-> dispatchVoid("BASEBAND_VERSION"),
   separateConnection |-> dispatchInts("SEPARATE_CONNECTION"),
   setMute |-> dispatchInts("SET_MUTE"), getMute |-> dispatchVoid("GET_MUTE"),
   getClip |-> dispatchVoid("QUERY_CLIP"), getDataCallList |-> dispatchVoid("DATA_CALL_LIST"),
   setSuppServiceNotifications |-> dispatchInts("SET_SUPP_SVC_NOTIFICATION"),
   writeSmsToSim |-> Copied("WRITE_SMS_TO_SIM"),
   deleteSmsOnSim |-> dispatchInts("DELETE_SMS_ON_SIM"),
   setBandMode |-> dispatchInts("SET_BAND_MODE")]

\* ril_service.cpp:1628-1759, SIM toolkit, network type, CDMA and TTY modes.
ToolkitOperations ==
  [getAvailableBandModes |-> dispatchVoid("QUERY_AVAILABLE_BAND_MODE"),
   sendEnvelope |-> dispatchString("STK_SEND_ENVELOPE_COMMAND"),
   sendTerminalResponseToSim |-> dispatchString("STK_SEND_TERMINAL_RESPONSE"),
   handleStkCallSetupRequestFromSim |-> dispatchInts("STK_HANDLE_CALL_SETUP_REQUESTED_FROM_SIM"),
   explicitCallTransfer |-> dispatchVoid("EXPLICIT_CALL_TRANSFER"),
   setPreferredNetworkType |-> dispatchInts("SET_PREFERRED_NETWORK_TYPE"),
   getPreferredNetworkType |-> dispatchVoid("GET_PREFERRED_NETWORK_TYPE"),
   getNeighboringCids |-> dispatchVoid("GET_NEIGHBORING_CELL_IDS"),
   setLocationUpdates |-> dispatchInts("SET_LOCATION_UPDATES"),
   setCdmaSubscriptionSource |-> dispatchInts("CDMA_SET_SUBSCRIPTION_SOURCE"),
   setCdmaRoamingPreference |-> dispatchInts("CDMA_SET_ROAMING_PREFERENCE"),
   getCdmaRoamingPreference |-> dispatchVoid("CDMA_QUERY_ROAMING_PREFERENCE"),
   setTTYMode |-> dispatchInts("SET_TTY_MODE"),
   getTTYMode |-> Refuse("QUERY_TTY_MODE", "REQUEST_NOT_SUPPORTED"),
   setPreferredVoicePrivacy |-> dispatchInts("CDMA_SET_PREFERRED_VOICE_PRIVACY_MODE")]

\* ril_service.cpp:1761-1861, CDMA calls and messages.
CdmaOperations ==
  [getPreferredVoicePrivacy |-> dispatchVoid("CDMA_QUERY_PREFERRED_VOICE_PRIVACY_MODE"),
   sendCDMAFeatureCode |-> dispatchString("CDMA_FLASH"),
   sendBurstDtmf |-> dispatchStrings("CDMA_BURST_DTMF"),
   sendCdmaSms |-> Sends("CDMA_SEND_SMS"),
   acknowledgeLastIncomingCdmaSms |-> Sends("CDMA_SMS_ACKNOWLEDGE"),
   getGsmBroadcastConfig |-> dispatchVoid("GSM_GET_BROADCAST_SMS_CONFIG")]

\* ril_service.cpp:1863-2004, cell broadcast, CDMA subscription, device identity.
BroadcastOperations ==
  [setGsmBroadcastConfig |-> Sends("GSM_SET_BROADCAST_SMS_CONFIG"),
   setGsmBroadcastActivation |-> dispatchInts("GSM_SMS_BROADCAST_ACTIVATION"),
   getCdmaBroadcastConfig |-> dispatchVoid("CDMA_GET_BROADCAST_SMS_CONFIG"),
   setCdmaBroadcastConfig |-> Sends("CDMA_SET_BROADCAST_SMS_CONFIG"),
   setCdmaBroadcastActivation |-> dispatchInts("CDMA_SMS_BROADCAST_ACTIVATION"),
   getCDMASubscription |-> dispatchVoid("CDMA_SUBSCRIPTION"),
   writeSmsToRuim |-> Sends("CDMA_WRITE_SMS_TO_RUIM"),
   deleteSmsOnRuim |-> dispatchInts("CDMA_DELETE_SMS_ON_RUIM"),
   getDeviceIdentity |-> dispatchVoid("GET_IMEI")]

\* ril_service.cpp:2006-2111, message centre, toolkit status, cell information.
MessageCentreOperations ==
  [exitEmergencyCallbackMode |-> dispatchVoid("EXIT_EMERGENCY_CALLBACK_MODE"),
   getSmscAddress |-> dispatchVoid("GET_SMSC_ADDRESS"),
   setSmscAddress |-> dispatchString("SET_SMSC_ADDRESS"),
   reportSmsMemoryStatus |-> dispatchInts("REPORT_SMS_MEMORY_STATUS"),
   reportStkServiceIsRunning |-> dispatchVoid("REPORT_STK_SERVICE_IS_RUNNING"),
   getCdmaSubscriptionSource |-> Refuse("CDMA_GET_SUBSCRIPTION_SOURCE", "REQUEST_NOT_SUPPORTED"),
   requestIsimAuthentication |-> dispatchString("ISIM_AUTHENTICATION"),
   acknowledgeIncomingGsmSmsWithPdu |-> dispatchStrings("ACKNOWLEDGE_INCOMING_GSM_SMS_WITH_PDU"),
   sendEnvelopeWithStatus |-> dispatchString("STK_SEND_ENVELOPE_WITH_STATUS"),
   getVoiceRadioTechnology |-> dispatchVoid("VOICE_RADIO_TECH"),
   getCellInfoList |-> dispatchVoid("GET_CELL_INFO_LIST"),
   setCellInfoListRate |-> dispatchInts("SET_UNSOL_CELL_INFO_LIST_RATE")]

\* ril_service.cpp:2122-2274, the initial attach APN.
AttachOperations ==
  [setInitialAttachApn |-> Copied("SET_INITIAL_ATTACH_APN")
     \cup Since(15, Refuse("SET_INITIAL_ATTACH_APN", "INVALID_ARGUMENTS"))]

\* ril_service.cpp:2276-2434, IMS messages, APDU channels.
ImsOperations ==
  [getImsRegistrationState |-> dispatchVoid("IMS_REGISTRATION_STATE"),
   sendImsSms |-> Copied("IMS_SEND_SMS") \cup Refuse("IMS_SEND_SMS", "INVALID_ARGUMENTS"),
   iccTransmitApduBasicChannel |-> dispatchIccApdu("SIM_TRANSMIT_APDU_BASIC"),
   iccOpenLogicalChannel |-> Refuse("SIM_OPEN_CHANNEL", "REQUEST_NOT_SUPPORTED"),
   iccCloseLogicalChannel |-> dispatchInts("SIM_CLOSE_CHANNEL"),
   iccTransmitApduLogicalChannel |-> dispatchIccApdu("SIM_TRANSMIT_APDU_CHANNEL")]

\* ril_service.cpp:2436-2581, NV items, subscriptions, SIM authentication.
ItemOperations ==
  [nvReadItem |-> Sends("NV_READ_ITEM"),
   nvWriteItem |-> Copied("NV_WRITE_ITEM"),
   nvWriteCdmaPrl |-> dispatchRaw("NV_WRITE_CDMA_PRL"),
   nvResetConfig |-> dispatchInts("NV_RESET_CONFIG"),
   setUiccSubscription |-> Sends("SET_UICC_SUBSCRIPTION"),
   setDataAllowed |-> dispatchInts("ALLOW_DATA"),
   getHardwareConfig |-> Refuse("GET_HARDWARE_CONFIG", "REQUEST_NOT_SUPPORTED"),
   requestIccSimAuthentication |-> Copied("SIM_AUTHENTICATION")]

\* ril_service.cpp:2592-2778, data profiles.
ProfileOperations ==
  [setDataProfile |-> Copied("SET_DATA_PROFILE")
     \cup Since(15, Refuse("SET_DATA_PROFILE", "INVALID_ARGUMENTS"))]

\* ril_service.cpp:2780-2880, shutdown, radio capability, link capacity.
CapabilityOperations ==
  [requestShutdown |-> dispatchVoid("SHUTDOWN"),
   getRadioCapability |-> Refuse("GET_RADIO_CAPABILITY", "REQUEST_NOT_SUPPORTED"),
   setRadioCapability |-> Echo("SET_RADIO_CAPABILITY", "REQUEST_NOT_SUPPORTED"),
   startLceService |-> Refuse("START_LCE", "REQUEST_NOT_SUPPORTED"),
   stopLceService |-> dispatchVoid("STOP_LCE"), pullLceData |-> dispatchVoid("PULL_LCEDATA"),
   getModemActivityInfo |-> dispatchVoid("GET_ACTIVITY_INFO")]

\* ril_service.cpp:2882-3001, carrier restrictions, device state, SIM power.
PolicyOperations ==
  [setAllowedCarriers |-> Copied("SET_CARRIER_RESTRICTIONS"),
   getAllowedCarriers |-> dispatchVoid("GET_CARRIER_RESTRICTIONS"),
   sendDeviceState |-> Until(14, dispatchInts("SCREEN_STATE"))
     \cup Until(14, Refuse("SEND_DEVICE_STATE", "REQUEST_NOT_SUPPORTED"))
     \cup Since(15, dispatchInts("SEND_DEVICE_STATE")),
   setIndicationFilter |->
     Until(14, Refuse("SET_UNSOLICITED_RESPONSE_FILTER", "REQUEST_NOT_SUPPORTED"))
     \cup Since(15, dispatchInts("SET_UNSOLICITED_RESPONSE_FILTER")),
   setSimCardPower |-> dispatchVoid("MODEM_POWERON") \cup dispatchVoid("MODEM_POWEROFF")]

\* ril_service.cpp:3038-3053, the OEM hook interface.
OemHookOperations ==
  [sendRequestRaw |-> dispatchRaw("OEM_HOOK_RAW"),
   sendRequestStrings |-> dispatchStrings("OEM_HOOK_STRINGS")]

RadioOperations ==
  Merged(
    <<CardLockOperations, CallOperations, StateOperations, DataCallOperations,
      CardFileOperations, ServiceOperations, ToneOperations, ToolkitOperations,
      CdmaOperations, BroadcastOperations, MessageCentreOperations, AttachOperations,
      ImsOperations, ItemOperations, ProfileOperations, CapabilityOperations,
      PolicyOperations>>)

Operations == Merged(<<RadioOperations, OemHookOperations>>)

\* The ways open to an operation under a version of the vendor RIL.
WaysOf(op, version) ==
  {w \in Operations[op] : w.from <= version /\ version <= w.upto}

-----------------------------------------------------------------------------
(* The command table: the request of a row and its response function. *)

\* ril_commands.h:21-57.
CallCommands ==
  <<<<"none", "none">>, <<"GET_SIM_STATUS", "getIccCardStatus">>,
    <<"ENTER_SIM_PIN", "supplyIccPinForApp">>, <<"ENTER_SIM_PUK", "supplyIccPukForApp">>,
    <<"ENTER_SIM_PIN2", "supplyIccPin2ForApp">>,
    <<"ENTER_SIM_PUK2", "supplyIccPuk2ForApp">>,
    <<"CHANGE_SIM_PIN", "changeIccPinForApp">>,
    <<"CHANGE_SIM_PIN2", "changeIccPin2ForApp">>,
    <<"ENTER_NETWORK_DEPERSONALIZATION", "supplyNetworkDepersonalization">>,
    <<"GET_CURRENT_CALLS", "getCurrentCalls">>, <<"DIAL", "dial">>,
    <<"GET_IMSI", "getIMSIForApp">>, <<"HANGUP", "hangupConnection">>,
    <<"HANGUP_WAITING_OR_BACKGROUND", "hangupWaitingOrBackground">>,
    <<"HANGUP_FOREGROUND_RESUME_BACKGROUND", "hangupForegroundResumeBackground">>,
    <<"SWITCH_WAITING_OR_HOLDING_AND_ACTIVE", "switchWaitingOrHoldingAndActive">>,
    <<"CONFERENCE", "conference">>, <<"UDUB", "rejectCall">>,
    <<"LAST_CALL_FAIL_CAUSE", "getLastCallFailCause">>,
    <<"SIGNAL_STRENGTH", "getSignalStrength">>,
    <<"VOICE_REGISTRATION_STATE", "getVoiceRegistrationState">>,
    <<"DATA_REGISTRATION_STATE", "getDataRegistrationState">>,
    <<"OPERATOR", "getOperator">>, <<"RADIO_POWER", "setRadioPower">>,
    <<"DTMF", "sendDtmf">>, <<"SEND_SMS", "sendSms">>,
    <<"SEND_SMS_EXPECT_MORE", "sendSMSExpectMore">>,
    <<"SETUP_DATA_CALL", "setupDataCall">>, <<"SIM_IO", "iccIOForApp">>,
    <<"SEND_USSD", "sendUssd">>, <<"CANCEL_USSD", "cancelPendingUssd">>,
    <<"GET_CLIR", "getClir">>, <<"SET_CLIR", "setClir">>,
    <<"QUERY_CALL_FORWARD_STATUS", "getCallForwardStatus">>,
    <<"SET_CALL_FORWARD", "setCallForward">>, <<"QUERY_CALL_WAITING", "getCallWaiting">>,
    <<"SET_CALL_WAITING", "setCallWaiting">>>>

\* ril_commands.h:58-99.
NetworkCommands ==
  <<<<"SMS_ACKNOWLEDGE", "acknowledgeLastIncomingGsmSms">>,
    <<"GET_IMEI", "getImeiAsDeviceIdentity">>, <<"GET_IMEISV", "none">>,
    <<"ANSWER", "acceptCall">>, <<"DEACTIVATE_DATA_CALL", "deactivateDataCall">>,
    <<"QUERY_FACILITY_LOCK", "getFacilityLockForApp">>,
    <<"SET_FACILITY_LOCK", "setFacilityLockForApp">>,
    <<"CHANGE_BARRING_PASSWORD", "setBarringPassword">>,
    <<"QUERY_NETWORK_SELECTION_MODE", "getNetworkSelectionMode">>,
    <<"SET_NETWORK_SELECTION_AUTOMATIC", "setNetworkSelectionModeAutomatic">>,
    <<"SET_NETWORK_SELECTION_MANUAL", "setNetworkSelectionModeManual">>,
    <<"QUERY_AVAILABLE_NETWORKS", "getAvailableNetworks">>, <<"DTMF_START", "startDtmf">>,
    <<"DTMF_STOP", "stopDtmf">>, <<"BASEBAND_VERSION", "getBasebandVersion">>,
    <<"SEPARATE_CONNECTION", "separateConnection">>, <<"SET_MUTE", "setMute">>,
    <<"GET_MUTE", "getMute">>, <<"QUERY_CLIP", "getClip">>,
    <<"LAST_DATA_CALL_FAIL_CAUSE", "none">>, <<"DATA_CALL_LIST", "getDataCallList">>,
    <<"RESET_RADIO", "none">>, <<"OEM_HOOK_RAW", "sendRequestRaw">>,
    <<"OEM_HOOK_STRINGS", "sendRequestStrings">>, <<"SCREEN_STATE", "sendDeviceState">>,
    <<"SET_SUPP_SVC_NOTIFICATION", "setSuppServiceNotifications">>,
    <<"WRITE_SMS_TO_SIM", "writeSmsToSim">>, <<"DELETE_SMS_ON_SIM", "deleteSmsOnSim">>,
    <<"SET_BAND_MODE", "setBandMode">>,
    <<"QUERY_AVAILABLE_BAND_MODE", "getAvailableBandModes">>,
    <<"STK_GET_PROFILE", "none">>, <<"STK_SET_PROFILE", "none">>,
    <<"STK_SEND_ENVELOPE_COMMAND", "sendEnvelope">>,
    <<"STK_SEND_TERMINAL_RESPONSE", "sendTerminalResponseToSim">>,
    <<"STK_HANDLE_CALL_SETUP_REQUESTED_FROM_SIM", "handleStkCallSetupRequestFromSim">>,
    <<"EXPLICIT_CALL_TRANSFER", "explicitCallTransfer">>>>

\* ril_commands.h:100-129.
CdmaCommands ==
  <<<<"SET_PREFERRED_NETWORK_TYPE", "setPreferredNetworkType">>,
    <<"GET_PREFERRED_NETWORK_TYPE", "getPreferredNetworkType">>,
    <<"GET_NEIGHBORING_CELL_IDS", "getNeighboringCids">>,
    <<"SET_LOCATION_UPDATES", "setLocationUpdates">>,
    <<"CDMA_SET_SUBSCRIPTION_SOURCE", "setCdmaSubscriptionSource">>,
    <<"CDMA_SET_ROAMING_PREFERENCE", "setCdmaRoamingPreference">>,
    <<"CDMA_QUERY_ROAMING_PREFERENCE", "getCdmaRoamingPreference">>,
    <<"SET_TTY_MODE", "setTTYMode">>, <<"QUERY_TTY_MODE", "getTTYMode">>,
    <<"CDMA_SET_PREFERRED_VOICE_PRIVACY_MODE", "setPreferredVoicePrivacy">>,
    <<"CDMA_QUERY_PREFERRED_VOICE_PRIVACY_MODE", "getPreferredVoicePrivacy">>,
    <<"CDMA_FLASH", "sendCDMAFeatureCode">>, <<"CDMA_BURST_DTMF", "sendBurstDtmf">>,
    <<"CDMA_VALIDATE_AND_WRITE_AKEY", "none">>, <<"CDMA_SEND_SMS", "sendCdmaSms">>,
    <<"CDMA_SMS_ACKNOWLEDGE", "acknowledgeLastIncomingCdmaSms">>,
    <<"GSM_GET_BROADCAST_SMS_CONFIG", "getGsmBroadcastConfig">>,
    <<"GSM_SET_BROADCAST_SMS_CONFIG", "setGsmBroadcastConfig">>,
    <<"GSM_SMS_BROADCAST_ACTIVATION", "setGsmBroadcastActivation">>,
    <<"CDMA_GET_BROADCAST_SMS_CONFIG", "getCdmaBroadcastConfig">>,
    <<"CDMA_SET_BROADCAST_SMS_CONFIG", "setCdmaBroadcastConfig">>,
    <<"CDMA_SMS_BROADCAST_ACTIVATION", "setCdmaBroadcastActivation">>,
    <<"CDMA_SUBSCRIPTION", "getCDMASubscription">>,
    <<"CDMA_WRITE_SMS_TO_RUIM", "writeSmsToRuim">>,
    <<"CDMA_DELETE_SMS_ON_RUIM", "deleteSmsOnRuim">>,
    <<"DEVICE_IDENTITY", "getDeviceIdentity">>,
    <<"EXIT_EMERGENCY_CALLBACK_MODE", "exitEmergencyCallbackMode">>,
    <<"GET_SMSC_ADDRESS", "getSmscAddress">>, <<"SET_SMSC_ADDRESS", "setSmscAddress">>,
    <<"REPORT_SMS_MEMORY_STATUS", "reportSmsMemoryStatus">>>>

\* ril_commands.h:130-170.
LaterCommands ==
  <<<<"REPORT_STK_SERVICE_IS_RUNNING", "reportStkServiceIsRunning">>,
    <<"CDMA_GET_SUBSCRIPTION_SOURCE", "getCdmaSubscriptionSource">>,
    <<"ISIM_AUTHENTICATION", "requestIsimAuthentication">>,
    <<"ACKNOWLEDGE_INCOMING_GSM_SMS_WITH_PDU", "acknowledgeIncomingGsmSmsWithPdu">>,
    <<"STK_SEND_ENVELOPE_WITH_STATUS", "sendEnvelopeWithStatus">>,
    <<"VOICE_RADIO_TECH", "getVoiceRadioTechnology">>,
    <<"GET_CELL_INFO_LIST", "getCellInfoList">>,
    <<"SET_UNSOL_CELL_INFO_LIST_RATE", "setCellInfoListRate">>,
    <<"SET_INITIAL_ATTACH_APN", "setInitialAttachApn">>,
    <<"IMS_REGISTRATION_STATE", "getImsRegistrationState">>,
    <<"IMS_SEND_SMS", "sendImsSms">>,
    <<"SIM_TRANSMIT_APDU_BASIC", "iccTransmitApduBasicChannel">>,
    <<"SIM_OPEN_CHANNEL", "iccOpenLogicalChannel">>,
    <<"SIM_CLOSE_CHANNEL", "iccCloseLogicalChannel">>,
    <<"SIM_TRANSMIT_APDU_CHANNEL", "iccTransmitApduLogicalChannel">>,
    <<"NV_READ_ITEM", "nvReadItem">>, <<"NV_WRITE_ITEM", "nvWriteItem">>,
    <<"NV_WRITE_CDMA_PRL", "nvWriteCdmaPrl">>, <<"NV_RESET_CONFIG", "nvResetConfig">>,
    <<"SET_UICC_SUBSCRIPTION", "setUiccSubscription">>, <<"ALLOW_DATA", "setDataAllowed">>,
    <<"GET_HARDWARE_CONFIG", "getHardwareConfig">>,
    <<"SIM_AUTHENTICATION", "requestIccSimAuthentication">>, <<"GET_DC_RT_INFO", "none">>,
    <<"SET_DC_RT_INFO_RATE", "none">>, <<"SET_DATA_PROFILE", "setDataProfile">>,
    <<"SHUTDOWN", "requestShutdown">>, <<"GET_RADIO_CAPABILITY", "getRadioCapability">>,
    <<"SET_RADIO_CAPABILITY", "setRadioCapability">>, <<"START_LCE", "startLceService">>,
    <<"STOP_LCE", "stopLceService">>, <<"PULL_LCEDATA", "pullLceData">>,
    <<"GET_ACTIVITY_INFO", "getModemActivityInfo">>,
    <<"SET_CARRIER_RESTRICTIONS", "setAllowedCarriers">>,
    <<"GET_CARRIER_RESTRICTIONS", "getAllowedCarriers">>,
    <<"SEND_DEVICE_STATE", "sendDeviceState">>,
    <<"SET_UNSOLICITED_RESPONSE_FILTER", "setIndicationFilter">>,
    <<"SET_SIM_CARD_POWER", "setSimCardPower">>>>

\* "Index == requestNumber": row i + 1 of the sequence is s_commands[i].
Commands == CallCommands \o NetworkCommands \o CdmaCommands \o LaterCommands

\* The vendor's own requests are numbered from RIL_REQUEST_VENDOR_BASE; the rows
\* of the vendor's table, which s_commands does not include, are in this order.
VendorOffset ==
  [MODEM_POWEROFF |-> 10, MODEM_POWERON |-> 28, RESUME_REGISTRATION |-> 65,
   SET_CALL_INDICATION |-> 86]

\* mtk_command_start is set where the vendor's table would start; it stays 0.
MtkCommandStart == 0

Requests == {Commands[i][1] : i \in DOMAIN Commands} \cup DOMAIN VendorOffset

\* &(s_commands[index]) in addRequestToList.
CommandOf ==
  [r \in Requests |->
     Commands[IF r \in DOMAIN VendorOffset
              THEN VendorOffset[r] + MtkCommandStart + 1
              ELSE CHOOSE i \in DOMAIN Commands : Commands[i][1] = r]]

ResponseOfRow(row) == row[2]
=============================================================================
