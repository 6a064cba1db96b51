------------------------- MODULE RadioServiceProofs -------------------------
(***************************************************************************)
(* Theorems about the radio service: the radio capability that two threads *)
(* share, the acknowledgement of the vendor's calls, and the way from an   *)
(* operation over its request, row and response function back to the       *)
(* client, which is a matter of what the tables say.                       *)
(***************************************************************************)
EXTENDS RadioService, TLAPS

-----------------------------------------------------------------------------
(* Types and the radio capability. *)

(* The words of the capability are of indications made so far, or 0.        *)
CapabilityType ==
    /\ indicated \in 0..MaxCapabilities
    /\ s_lastRadioCapability \in (0..indicated) \X (0..indicated)
    /\ s_lastRadioCapabilityValid \in BOOLEAN
    /\ ipc \in {"idle", "half", "stored", "valid"}
    /\ gpc \in {"idle", "copy", "default"}
    /\ read \in Seq(0..indicated) /\ Len(read) \in 0..2

(* The flag, and an indication past its second word, have both words stored. *)
CapabilityStored ==
    /\ s_lastRadioCapabilityValid \/ ipc \in {"stored", "valid"} =>
         s_lastRadioCapability[1] # 0 /\ s_lastRadioCapability[2] # 0
    /\ ipc = "half" => s_lastRadioCapability[1] # 0

(* The thread that answers has words of indications only, or only defaults. *)
CapabilityRead ==
    /\ gpc = "idle" => read = <<>>
    /\ gpc = "copy" => s_lastRadioCapabilityValid /\ \A i \in 1..Len(read) : read[i] # 0
    /\ gpc = "default" => \A i \in 1..Len(read) : read[i] = 0

(* So has the client that is told.                                          *)
CapabilityTold ==
    event.kind = "capability" =>
      /\ event.value[1] \in 0..indicated /\ event.value[2] \in 0..indicated
      /\ \/ event.indicated = TRUE /\ event.value[1] # 0 /\ event.value[2] # 0
         \/ event.indicated = FALSE /\ event.value[1] = 0 /\ event.value[2] = 0

CapabilityInv == CapabilityType /\ CapabilityStored /\ CapabilityRead /\ CapabilityTold

LEMMA InitCapability == Init => CapabilityInv
<1> SUFFICES ASSUME Init PROVE CapabilityInv
    OBVIOUS
<1>1. CapabilityType
  <2>1. indicated \in 0..MaxCapabilities /\ 0 \in 0..indicated
    BY ServiceAssumption DEF Init
  <2>2. read \in Seq(0..indicated) /\ Len(read) \in 0..2
    BY DEF Init
  <2>3. s_lastRadioCapability \in (0..indicated) \X (0..indicated)
    BY <2>1 DEF Init
  <2>4. s_lastRadioCapabilityValid = FALSE /\ ipc = "idle" /\ gpc = "idle"
    BY DEF Init
  <2> QED
    BY <2>1, <2>2, <2>3, <2>4 DEF CapabilityType
<1>2. CapabilityStored /\ CapabilityRead
    BY DEF Init, CapabilityStored, CapabilityRead
<1>3. CapabilityTold
    BY DEF Init, CapabilityTold, Quiet
<1> QED
    BY <1>1, <1>2, <1>3 DEF CapabilityInv

(* Steps that neither touch the capability nor tell one.                    *)
LEMMA CapabilityUntouched ==
    ASSUME CapabilityInv, UNCHANGED capabilityVars, event' # event => event'.kind # "capability"
    PROVE  CapabilityInv'
<1>1. CASE event' = event
    BY <1>1 DEF CapabilityInv, CapabilityType, CapabilityStored, CapabilityRead, CapabilityTold,
                capabilityVars
<1>2. CASE event' # event
    BY <1>2 DEF CapabilityInv, CapabilityType, CapabilityStored, CapabilityRead, CapabilityTold,
                capabilityVars
<1> QED
    BY <1>1, <1>2

LEMMA AnswerKind ==
    ASSUME NEW op, NEW f, NEW e, NEW p
    PROVE  Answer(op, f, e, p).kind \in {"answer", "none"}
BY DEF Answer, Quiet

LEMMA IndicateKind ==
    ASSUME NEW v, NEW n, NEW p, Indicate(v, n, p)
    PROVE  event'.kind \in {"indication", "none"}
BY DEF Indicate, Quiet

LEMMA StoreKeeps == CapabilityInv /\ StoreCapability => CapabilityInv'
<1> SUFFICES ASSUME CapabilityInv, StoreCapability PROVE CapabilityInv'
    OBVIOUS
<1> USE DEF CapabilityInv
<1>0. event' = event /\ event = Quiet
    BY DEF StoreCapability
<1>1. CASE ipc = "idle"
  <2>1. /\ indicated' = indicated + 1 /\ indicated < MaxCapabilities
        /\ s_lastRadioCapability' = [s_lastRadioCapability EXCEPT ![1] = indicated + 1]
        /\ ipc' = "half" /\ UNCHANGED <<s_lastRadioCapabilityValid, gpc, read>>
    BY <1>1 DEF StoreCapability
  <2>2. indicated' \in 0..MaxCapabilities /\ 0..indicated \subseteq 0..indicated'
    BY <2>1, ServiceAssumption DEF CapabilityType
  <2>3. /\ s_lastRadioCapability' \in (0..indicated') \X (0..indicated')
        /\ s_lastRadioCapability'[1] # 0
        /\ s_lastRadioCapability'[2] = s_lastRadioCapability[2]
    BY <2>1, <2>2 DEF CapabilityType
  <2>4. read' \in Seq(0..indicated')
    BY <2>1, <2>2 DEF CapabilityType
  <2> QED
    BY <1>0, <2>1, <2>2, <2>3, <2>4
    DEF CapabilityType, CapabilityStored, CapabilityRead, CapabilityTold, Quiet
<1>2. CASE ipc = "half"
  <2>1. /\ s_lastRadioCapability' = [s_lastRadioCapability EXCEPT ![2] = indicated]
        /\ ipc' = "stored" /\ UNCHANGED <<s_lastRadioCapabilityValid, gpc, read, indicated>>
    BY <1>2 DEF StoreCapability
  <2>2. indicated # 0 /\ indicated \in Nat
    BY <1>2, ServiceAssumption DEF CapabilityType, CapabilityStored
  <2>3. /\ s_lastRadioCapability' \in (0..indicated) \X (0..indicated)
        /\ s_lastRadioCapability'[1] = s_lastRadioCapability[1]
        /\ s_lastRadioCapability'[2] # 0
    BY <2>1, <2>2 DEF CapabilityType
  <2> QED
    BY <1>0, <1>2, <2>1, <2>2, <2>3
    DEF CapabilityType, CapabilityStored, CapabilityRead, CapabilityTold, Quiet
<1> QED
    BY <1>1, <1>2 DEF StoreCapability

LEMMA CopyKeeps == CapabilityInv /\ CopyCapability => CapabilityInv'
<1> SUFFICES ASSUME CapabilityInv, CopyCapability PROVE CapabilityInv'
    OBVIOUS
<1> DEFINE word == IF gpc = "copy" THEN s_lastRadioCapability[Len(read) + 1] ELSE DefaultCapability
<1>1. /\ event' = event /\ event = Quiet /\ Len(read) < 2 /\ gpc \in {"copy", "default"}
      /\ read' = Append(read, word)
      /\ UNCHANGED <<s_lastRadioCapability, s_lastRadioCapabilityValid, ipc, indicated, gpc>>
    BY DEF CopyCapability
<1>2. Len(read) + 1 \in 1..2
    BY <1>1 DEF CapabilityInv, CapabilityType
<1>3. word \in 0..indicated
    BY <1>1, <1>2 DEF CapabilityInv, CapabilityType, DefaultCapability
<1>4. /\ gpc = "copy" => word # 0
      /\ gpc = "default" => word = 0
    BY <1>1, <1>2 DEF CapabilityInv, CapabilityStored, CapabilityRead, DefaultCapability
<1> HIDE DEF word
<1>5. /\ read' \in Seq(0..indicated) /\ Len(read') = Len(read) + 1
      /\ \A i \in 1..Len(read') : read'[i] = IF i = Len(read') THEN word ELSE read[i]
    BY <1>1, <1>3 DEF CapabilityInv, CapabilityType
<1>6. CapabilityType' /\ CapabilityStored' /\ CapabilityTold'
    BY <1>1, <1>2, <1>5
    DEF CapabilityInv, CapabilityType, CapabilityStored, CapabilityTold, Quiet
<1>7. CapabilityRead'
    BY <1>1, <1>4, <1>5 DEF CapabilityInv, CapabilityType, CapabilityRead
<1> QED
    BY <1>6, <1>7 DEF CapabilityInv

LEMMA AnswerKeeps == CapabilityInv /\ AnswerCapability => CapabilityInv'
<1> SUFFICES ASSUME CapabilityInv, AnswerCapability PROVE CapabilityInv'
    OBVIOUS
<1>1. /\ event' = [kind |-> "capability", value |-> read, indicated |-> gpc = "copy"]
      /\ Len(read) = 2 /\ gpc' = "idle" /\ read' = <<>>
      /\ UNCHANGED <<s_lastRadioCapability, s_lastRadioCapabilityValid, ipc, indicated>>
    BY DEF AnswerCapability
<1>2. read[1] \in 0..indicated /\ read[2] \in 0..indicated
  <2>1. read \in Seq(0..indicated) /\ indicated \in Nat
    BY ServiceAssumption DEF CapabilityInv, CapabilityType
  <2>2. \A i \in 1..Len(read) : read[i] \in 0..indicated
    BY <2>1
  <2>3. Len(read) = 2
    BY <1>1
  <2> QED
    BY <2>2, <2>3
<1>3. gpc # "idle"
  <2>1. Len(<<>>) = 0
    OBVIOUS
  <2> QED
    BY <1>1, <2>1 DEF CapabilityInv, CapabilityRead
<1>4. CapabilityTold'
  <2>1. gpc = "copy" => read[1] # 0 /\ read[2] # 0
    BY <1>1 DEF CapabilityInv, CapabilityRead
  <2>2. gpc # "copy" => read[1] = 0 /\ read[2] = 0
    BY <1>1, <1>3 DEF CapabilityInv, CapabilityType, CapabilityRead
  <2> QED
    BY <1>1, <1>2, <2>1, <2>2 DEF CapabilityTold
<1>5. CapabilityType' /\ CapabilityStored' /\ CapabilityRead'
    BY <1>1 DEF CapabilityInv, CapabilityType, CapabilityStored, CapabilityRead
<1> QED
    BY <1>4, <1>5 DEF CapabilityInv

LEMMA CapabilityNext == CapabilityInv /\ [Next]_vars => CapabilityInv'
<1> SUFFICES ASSUME CapabilityInv, [Next]_vars PROVE CapabilityInv'
    OBVIOUS
<1>1. ASSUME NEW s \in Services, SetResponseFunctions(s) PROVE CapabilityInv'
    BY <1>1, CapabilityUntouched DEF SetResponseFunctions
<1>2. ASSUME NEW op, NEW w, Invoke(op, w) PROVE CapabilityInv'
    BY <1>2, CapabilityUntouched DEF Invoke
<1>3. ASSUME NEW op, NEW w, Refused(op, w) PROVE CapabilityInv'
    BY <1>3, CapabilityUntouched, AnswerKind DEF Refused
<1>4. ASSUME NEW e, NEW p, Complete(e, p) PROVE CapabilityInv'
    BY <1>4, CapabilityUntouched, AnswerKind DEF Complete
<1>5. CASE StoreCapability
    BY <1>5, StoreKeeps
<1>6. CASE ValidateCapability
    BY <1>6 DEF ValidateCapability, CapabilityInv, CapabilityType, CapabilityStored,
                CapabilityRead, CapabilityTold
<1>7. CASE TellCapability
    BY <1>7 DEF TellCapability, Quiet, CapabilityInv, CapabilityType, CapabilityStored,
                CapabilityRead, CapabilityTold
<1>8. CASE GetRadioCapability
    BY <1>8 DEF GetRadioCapability, CapabilityInv, CapabilityType, CapabilityStored,
                CapabilityRead, CapabilityTold
<1>9. CASE CopyCapability
    BY <1>9, CopyKeeps
<1>10. CASE AnswerCapability
    BY <1>10, AnswerKeeps
<1>11. ASSUME NEW v, NEW n, NEW p, Indicate(v, n, p) PROVE CapabilityInv'
  <2>1. UNCHANGED capabilityVars
    BY <1>11 DEF Indicate
  <2> QED
    BY <1>11, <2>1, CapabilityUntouched, IndicateKind
<1>12. ASSUME NEW f, NEW m, CallMessage(f, m) PROVE CapabilityInv'
    BY <1>12, CapabilityUntouched DEF CallMessage
<1>13. CASE Heard
    BY <1>13, CapabilityUntouched DEF Heard, Quiet
<1>14. CASE UNCHANGED vars
    BY <1>14, CapabilityUntouched DEF vars
<1> QED
    BY <1>1, <1>2, <1>3, <1>4, <1>5, <1>6, <1>7, <1>8, <1>9, <1>10, <1>11, <1>12, <1>13, <1>14
    DEF Next

LEMMA CapabilityAlways == Spec => []CapabilityInv
BY InitCapability, CapabilityNext, PTL DEF Spec

\* A client that gets the substituted capability gets two words of indications the vendor
\* RIL has made, or the default twice, never a word of the zeroed memory behind the flag,
\* however many indications there are (s_lastRadioCapability).
THEOREM CapabilityIsIndicated == Spec => []CapabilityTold
BY CapabilityAlways, PTL DEF CapabilityInv

\* The two words are of one indication as long as there was one at most: payload before
\* flag and flag before payload need no lock then. A second indication may come between
\* the two words (radioCapabilityIndicationInd and responseRadioCapability).
THEOREM CapabilityIsWhole == Spec => [](indicated <= 1 => CapabilityWhole)
<1>1. CapabilityInv => (indicated <= 1 => CapabilityWhole)
    BY ServiceAssumption
    DEF CapabilityInv, CapabilityType, CapabilityTold, CapabilityWhole, DefaultCapability
<1> QED
    BY <1>1, CapabilityAlways, PTL

-----------------------------------------------------------------------------
(* The services' own state. *)

ServiceType ==
    /\ version \in Versions
    /\ clients \subseteq Services
    /\ call = NoCall \/ call.op \in DOMAIN Operations

LEMMA ServiceNext == ServiceType /\ [Next]_vars => ServiceType'
<1> SUFFICES ASSUME ServiceType, [Next]_vars PROVE ServiceType'
    OBVIOUS
<1>1. ASSUME NEW s \in Services, SetResponseFunctions(s) PROVE ServiceType'
    BY <1>1 DEF SetResponseFunctions, ServiceType
<1>2. ASSUME NEW op \in DOMAIN Operations, NEW w, Invoke(op, w) PROVE ServiceType'
    BY <1>2 DEF Invoke, ServiceType
<1>3. ASSUME NEW op, NEW w, Refused(op, w) PROVE ServiceType'
    BY <1>3 DEF Refused, ServiceType
<1>4. ASSUME NEW e, NEW p, Complete(e, p) PROVE ServiceType'
    BY <1>4 DEF Complete, ServiceType
<1>5. CASE \/ StoreCapability \/ ValidateCapability \/ TellCapability
           \/ GetRadioCapability \/ CopyCapability \/ AnswerCapability \/ Heard
    BY <1>5 DEF StoreCapability, ValidateCapability, TellCapability, GetRadioCapability,
                CopyCapability, AnswerCapability, Heard, ServiceType
<1>6. ASSUME NEW v, NEW n, NEW p, Indicate(v, n, p) PROVE ServiceType'
    BY <1>6 DEF Indicate, ServiceType
<1>7. ASSUME NEW f, NEW m, CallMessage(f, m) PROVE ServiceType'
    BY <1>7 DEF CallMessage, ServiceType
<1>8. CASE UNCHANGED vars
    BY <1>8 DEF vars, ServiceType
<1> QED
    BY <1>1, <1>2, <1>3, <1>4, <1>5, <1>6, <1>7, <1>8 DEF Next

\* Every variable of the radio service keeps its type, for all versions of the vendor
\* RIL and any number of capability indications.
THEOREM TypeCorrect == Spec => []TypeOK
<1>1. Init => ServiceType
    BY DEF Init, ServiceType
<1>2. CapabilityInv /\ ServiceType => TypeOK
  <2> SUFFICES ASSUME CapabilityInv, ServiceType PROVE TypeOK
    OBVIOUS
  <2>1. 0..indicated \subseteq Capabilities
    BY ServiceAssumption DEF CapabilityInv, CapabilityType, Capabilities
  <2> QED
    BY <2>1 DEF CapabilityInv, CapabilityType, ServiceType, TypeOK
<1> QED
    BY <1>1, <1>2, ServiceNext, CapabilityAlways, PTL DEF Spec

-----------------------------------------------------------------------------
(* The command table: addRequestToList finds a request's own row. *)

(* The rows of the four parts of the table, counted out.                    *)
CallRows ==
   {1, 2, 3, 4, 5, 6, 7, 8, 9, 10, 11, 12, 13, 14, 15, 16, 17, 18, 19, 20, 21, 22, 23,
    24, 25, 26, 27, 28, 29, 30, 31, 32, 33, 34, 35, 36, 37}
NetworkRows ==
   {1, 2, 3, 4, 5, 6, 7, 8, 9, 10, 11, 12, 13, 14, 15, 16, 17, 18, 19, 20, 21, 22, 23,
    24, 25, 26, 27, 28, 29, 30, 31, 32, 33, 34, 35, 36}
CdmaRows ==
   {1, 2, 3, 4, 5, 6, 7, 8, 9, 10, 11, 12, 13, 14, 15, 16, 17, 18, 19, 20, 21, 22, 23,
    24, 25, 26, 27, 28, 29, 30}
LaterRows ==
   {1, 2, 3, 4, 5, 6, 7, 8, 9, 10, 11, 12, 13, 14, 15, 16, 17, 18, 19, 20, 21, 22, 23,
    24, 25, 26, 27, 28, 29, 30, 31, 32, 33, 34, 35, 36, 37, 38}

LEMMA RowsCounted ==
    CallRows = 1..37 /\ NetworkRows = 1..36 /\ CdmaRows = 1..30 /\ LaterRows = 1..38
BY DEF CallRows, NetworkRows, CdmaRows, LaterRows

LEMMA CommandRows ==
    /\ DOMAIN Commands = 1..141
    /\ \A i \in 1..37 : Commands[i] = CallCommands[i]
    /\ \A i \in 1..36 : Commands[i + 37] = NetworkCommands[i]
    /\ \A i \in 1..30 : Commands[i + 73] = CdmaCommands[i]
    /\ \A i \in 1..38 : Commands[i + 103] = LaterCommands[i]
BY DEF Commands, CallCommands, NetworkCommands, CdmaCommands, LaterCommands

(* No two rows of a part have the same request, nor has one of them a request *)
(* of the vendor, ...                                                        *)
LEMMA CallRequestsDiffer ==
    /\ \A i, j \in CallRows : CallCommands[i][1] = CallCommands[j][1] => i = j
    /\ \A i \in CallRows : CallCommands[i][1] \notin DOMAIN VendorOffset
<1>1. \A i, j \in CallRows : CallCommands[i][1] = CallCommands[j][1] => i = j
    BY DEF CallRows, CallCommands
<1>2. \A i \in CallRows : CallCommands[i][1] \notin DOMAIN VendorOffset
    BY DEF CallRows, CallCommands, VendorOffset
<1> QED
    BY <1>1, <1>2

LEMMA NetworkRequestsDiffer ==
    /\ \A i, j \in NetworkRows : NetworkCommands[i][1] = NetworkCommands[j][1] => i = j
    /\ \A i \in NetworkRows : NetworkCommands[i][1] \notin DOMAIN VendorOffset
<1>1. \A i, j \in NetworkRows : NetworkCommands[i][1] = NetworkCommands[j][1] => i = j
    BY DEF NetworkRows, NetworkCommands
<1>2. \A i \in NetworkRows : NetworkCommands[i][1] \notin DOMAIN VendorOffset
    BY DEF NetworkRows, NetworkCommands, VendorOffset
<1> QED
    BY <1>1, <1>2

LEMMA CdmaRequestsDiffer ==
    /\ \A i, j \in CdmaRows : CdmaCommands[i][1] = CdmaCommands[j][1] => i = j
    /\ \A i \in CdmaRows : CdmaCommands[i][1] \notin DOMAIN VendorOffset
<1>1. \A i, j \in CdmaRows : CdmaCommands[i][1] = CdmaCommands[j][1] => i = j
    BY DEF CdmaRows, CdmaCommands
<1>2. \A i \in CdmaRows : CdmaCommands[i][1] \notin DOMAIN VendorOffset
    BY DEF CdmaRows, CdmaCommands, VendorOffset
<1> QED
    BY <1>1, <1>2

LEMMA LaterRequestsDiffer ==
    /\ \A i, j \in LaterRows : LaterCommands[i][1] = LaterCommands[j][1] => i = j
    /\ \A i \in LaterRows : LaterCommands[i][1] \notin DOMAIN VendorOffset
<1>1. \A i, j \in LaterRows : LaterCommands[i][1] = LaterCommands[j][1] => i = j
    BY DEF LaterRows, LaterCommands
<1>2. \A i \in LaterRows : LaterCommands[i][1] \notin DOMAIN VendorOffset
    BY DEF LaterRows, LaterCommands, VendorOffset
<1> QED
    BY <1>1, <1>2

(* ... nor have two parts one in common.                                     *)
LEMMA PartsDiffer ==
    /\ \A i \in CallRows, j \in NetworkRows : CallCommands[i][1] # NetworkCommands[j][1]
    /\ \A i \in CallRows, j \in CdmaRows : CallCommands[i][1] # CdmaCommands[j][1]
    /\ \A i \in CallRows, j \in LaterRows : CallCommands[i][1] # LaterCommands[j][1]
    /\ \A i \in NetworkRows, j \in CdmaRows : NetworkCommands[i][1] # CdmaCommands[j][1]
    /\ \A i \in NetworkRows, j \in LaterRows : NetworkCommands[i][1] # LaterCommands[j][1]
    /\ \A i \in CdmaRows, j \in LaterRows : CdmaCommands[i][1] # LaterCommands[j][1]
<1>1. \A i \in CallRows, j \in NetworkRows : CallCommands[i][1] # NetworkCommands[j][1]
    BY DEF CallRows, NetworkRows, CallCommands, NetworkCommands
<1>2. \A i \in CallRows, j \in CdmaRows : CallCommands[i][1] # CdmaCommands[j][1]
    BY DEF CallRows, CdmaRows, CallCommands, CdmaCommands
<1>3. \A i \in CallRows, j \in LaterRows : CallCommands[i][1] # LaterCommands[j][1]
    BY DEF CallRows, LaterRows, CallCommands, LaterCommands
<1>4. \A i \in NetworkRows, j \in CdmaRows : NetworkCommands[i][1] # CdmaCommands[j][1]
    BY DEF NetworkRows, CdmaRows, NetworkCommands, CdmaCommands
<1>5. \A i \in NetworkRows, j \in LaterRows : NetworkCommands[i][1] # LaterCommands[j][1]
    BY DEF NetworkRows, LaterRows, NetworkCommands, LaterCommands
<1>6. \A i \in CdmaRows, j \in LaterRows : CdmaCommands[i][1] # LaterCommands[j][1]
    BY DEF CdmaRows, LaterRows, CdmaCommands, LaterCommands
<1> QED
    BY <1>1, <1>2, <1>3, <1>4, <1>5, <1>6

LEMMA RequestsDiffer ==
    /\ \A i, j \in 1..141 : Commands[i][1] = Commands[j][1] => i = j
    /\ \A i \in 1..141 : Commands[i][1] \notin DOMAIN VendorOffset
<1> DEFINE In(i, c, rows, d) == \E k \in rows : i = k + d /\ Commands[i] = c[k]
           InCall(i) == In(i, CallCommands, CallRows, 0)
           InNetwork(i) == In(i, NetworkCommands, NetworkRows, 37)
           InCdma(i) == In(i, CdmaCommands, CdmaRows, 73)
           InLater(i) == In(i, LaterCommands, LaterRows, 103)
<1>1. \A i \in 1..141 : InCall(i) \/ InNetwork(i) \/ InCdma(i) \/ InLater(i)
  <2> SUFFICES ASSUME NEW i \in 1..141 PROVE InCall(i) \/ InNetwork(i) \/ InCdma(i) \/ InLater(i)
    OBVIOUS
  <2>1. CASE i \in 1..37
    <3>1. i \in CallRows /\ i = i + 0 /\ Commands[i] = CallCommands[i]
      BY <2>1, CommandRows, RowsCounted
    <3> QED
      BY <3>1
  <2>2. CASE i \in 38..73
    <3>1. PICK k \in 1..36 : i = k + 37
      <4>1. i - 37 \in 1..36 /\ i = (i - 37) + 37
        BY <2>2
      <4> QED
        BY <4>1
    <3>2. k \in NetworkRows /\ Commands[i] = NetworkCommands[k]
      BY <3>1, CommandRows, RowsCounted
    <3> QED
      BY <3>1, <3>2
  <2>3. CASE i \in 74..103
    <3>1. PICK k \in 1..30 : i = k + 73
      <4>1. i - 73 \in 1..30 /\ i = (i - 73) + 73
        BY <2>3
      <4> QED
        BY <4>1
    <3>2. k \in CdmaRows /\ Commands[i] = CdmaCommands[k]
      BY <3>1, CommandRows, RowsCounted
    <3> QED
      BY <3>1, <3>2
  <2>4. CASE i \in 104..141
    <3>1. PICK k \in 1..38 : i = k + 103
      <4>1. i - 103 \in 1..38 /\ i = (i - 103) + 103
        BY <2>4
      <4> QED
        BY <4>1
    <3>2. k \in LaterRows /\ Commands[i] = LaterCommands[k]
      BY <3>1, CommandRows, RowsCounted
    <3> QED
      BY <3>1, <3>2
  <2> QED
    BY <2>1, <2>2, <2>3, <2>4
<1>2. ASSUME NEW i \in 1..141, NEW j \in 1..141, Commands[i][1] = Commands[j][1] PROVE i = j
  <2>1. InCall(j) \/ InNetwork(j) \/ InCdma(j) \/ InLater(j)
    BY <1>1
  <2>2. CASE InCall(i)
    BY <1>2, <2>1, <2>2, CallRequestsDiffer, PartsDiffer
  <2>3. CASE InNetwork(i)
    BY <1>2, <2>1, <2>3, NetworkRequestsDiffer, PartsDiffer
  <2>4. CASE InCdma(i)
    BY <1>2, <2>1, <2>4, CdmaRequestsDiffer, PartsDiffer
  <2>5. CASE InLater(i)
    BY <1>2, <2>1, <2>5, LaterRequestsDiffer, PartsDiffer
  <2> QED
    BY <1>1, <2>2, <2>3, <2>4, <2>5
<1>3. ASSUME NEW i \in 1..141 PROVE Commands[i][1] \notin DOMAIN VendorOffset
  <2>1. CASE InCall(i)
    BY <2>1, CallRequestsDiffer
  <2>2. CASE InNetwork(i)
    BY <2>2, NetworkRequestsDiffer
  <2>3. CASE InCdma(i)
    BY <2>3, CdmaRequestsDiffer
  <2>4. CASE InLater(i)
    BY <2>4, LaterRequestsDiffer
  <2> QED
    BY <1>1, <2>1, <2>2, <2>3, <2>4
<1> QED
    BY <1>2, <1>3

(* So the row that addRequestToList looks up is the request's own.           *)
LEMMA OwnRow ==
    ASSUME NEW i \in 1..141
    PROVE  Commands[i][1] \in Requests /\ CommandOf[Commands[i][1]] = Commands[i]
<1> DEFINE r == Commands[i][1]
           k == CHOOSE j \in DOMAIN Commands : Commands[j][1] = r
<1>1. r \in Requests /\ r \notin DOMAIN VendorOffset
    BY CommandRows, RequestsDiffer DEF Requests
<1>2. k \in 1..141 /\ Commands[k][1] = r
    BY CommandRows
<1>3. k = i
    BY <1>2, RequestsDiffer
<1> QED
    BY <1>1, <1>3 DEF CommandOf

-----------------------------------------------------------------------------
(* The tables that are written in parts. *)

LEMMA MergedHas ==
    ASSUME NEW parts, NEW x \in DOMAIN Merged(parts)
    PROVE  \E i \in DOMAIN parts : x \in DOMAIN parts[i] /\ Merged(parts)[x] = parts[i][x]
BY DEF Merged

LEMMA ResponseDomains ==
    /\ DOMAIN PinResponses \subseteq DOMAIN Responses
    /\ DOMAIN CallListResponses \subseteq DOMAIN Responses
    /\ DOMAIN CallControlResponses \subseteq DOMAIN Responses
    /\ DOMAIN SignalResponses \subseteq DOMAIN Responses
    /\ DOMAIN RegistrationResponses \subseteq DOMAIN Responses
    /\ DOMAIN OperatorResponses \subseteq DOMAIN Responses
    /\ DOMAIN MessageResponses \subseteq DOMAIN Responses
    /\ DOMAIN DataCallResponses \subseteq DOMAIN Responses
    /\ DOMAIN CardFileResponses \subseteq DOMAIN Responses
    /\ DOMAIN ForwardingResponses \subseteq DOMAIN Responses
    /\ DOMAIN FacilityResponses \subseteq DOMAIN Responses
    /\ DOMAIN SelectionResponses \subseteq DOMAIN Responses
    /\ DOMAIN MuteResponses \subseteq DOMAIN Responses
    /\ DOMAIN ServiceResponses \subseteq DOMAIN Responses
    /\ DOMAIN ToolkitResponses \subseteq DOMAIN Responses
    /\ DOMAIN NetworkTypeResponses \subseteq DOMAIN Responses
    /\ DOMAIN CdmaModeResponses \subseteq DOMAIN Responses
    /\ DOMAIN CdmaMessageResponses \subseteq DOMAIN Responses
    /\ DOMAIN BroadcastResponses \subseteq DOMAIN Responses
    /\ DOMAIN IdentityResponses \subseteq DOMAIN Responses
    /\ DOMAIN MessageCentreResponses \subseteq DOMAIN Responses
    /\ DOMAIN CellResponses \subseteq DOMAIN Responses
    /\ DOMAIN ChannelResponses \subseteq DOMAIN Responses
    /\ DOMAIN ItemResponses \subseteq DOMAIN Responses
    /\ DOMAIN CapabilityResponses \subseteq DOMAIN Responses
    /\ DOMAIN ActivityResponses \subseteq DOMAIN Responses
    /\ DOMAIN CarrierResponses \subseteq DOMAIN Responses
    /\ DOMAIN FilterPowerResponses \subseteq DOMAIN Responses
    /\ DOMAIN OemHookResponses \subseteq DOMAIN Responses
<1>1. /\ DOMAIN RadioResponses \subseteq DOMAIN Responses
      /\ DOMAIN OemHookResponses \subseteq DOMAIN Responses
    BY DEF Responses, Merged
<1> QED
    BY <1>1 DEF RadioResponses, Merged

(* Every row names a response function there is, or none.                   *)
LEMMA FunctionsExist ==
    /\ \A i \in CallRows : CallCommands[i][2] \in DOMAIN Responses \cup {"none"}
    /\ \A i \in NetworkRows : NetworkCommands[i][2] \in DOMAIN Responses \cup {"none"}
    /\ \A i \in CdmaRows : CdmaCommands[i][2] \in DOMAIN Responses \cup {"none"}
    /\ \A i \in LaterRows : LaterCommands[i][2] \in DOMAIN Responses \cup {"none"}
<1>1. \A i \in CallRows : CallCommands[i][2] \in DOMAIN Responses \cup {"none"}
    BY ResponseDomains
    DEF CallRows, CallCommands, PinResponses, CallListResponses, CallControlResponses,
        SignalResponses, RegistrationResponses, OperatorResponses, MessageResponses,
        DataCallResponses, CardFileResponses, ForwardingResponses
<1>2. \A i \in NetworkRows : NetworkCommands[i][2] \in DOMAIN Responses \cup {"none"}
    BY ResponseDomains
    DEF NetworkRows, NetworkCommands, ForwardingResponses, FacilityResponses,
        SelectionResponses, MuteResponses, ServiceResponses, ToolkitResponses,
        IdentityResponses, CarrierResponses, OemHookResponses
<1>3. \A i \in CdmaRows : CdmaCommands[i][2] \in DOMAIN Responses \cup {"none"}
    BY ResponseDomains
    DEF CdmaRows, CdmaCommands, ToolkitResponses, NetworkTypeResponses, CdmaModeResponses,
        CdmaMessageResponses, BroadcastResponses, IdentityResponses, MessageCentreResponses
<1>4. \A i \in LaterRows : LaterCommands[i][2] \in DOMAIN Responses \cup {"none"}
    BY ResponseDomains
    DEF LaterRows, LaterCommands, MessageCentreResponses, CellResponses, ChannelResponses,
        ItemResponses, CapabilityResponses, ActivityResponses, CarrierResponses,
        FilterPowerResponses
<1> QED
    BY <1>1, <1>2, <1>3, <1>4

(* The request r has a row, with the response function f.                   *)
Answers(r, f) == r \in Requests /\ CommandOf[r][2] = f /\ f \in DOMAIN Responses \cup {"none"}

LEMMA PartAnswers ==
    ASSUME NEW rows, NEW part, NEW d, NEW i \in rows,
           i + d \in 1..141, Commands[i + d] = part[i],
           part[i][2] \in DOMAIN Responses \cup {"none"}
    PROVE  Answers(part[i][1], part[i][2])
<1>1. PICK j \in 1..141 : Commands[j] = part[i]
    OBVIOUS
<1> QED
    BY <1>1, OwnRow DEF Answers

LEMMA RowsAnswer ==
    /\ \A i \in CallRows : Answers(CallCommands[i][1], CallCommands[i][2])
    /\ \A i \in NetworkRows : Answers(NetworkCommands[i][1], NetworkCommands[i][2])
    /\ \A i \in CdmaRows : Answers(CdmaCommands[i][1], CdmaCommands[i][2])
    /\ \A i \in LaterRows : Answers(LaterCommands[i][1], LaterCommands[i][2])
<1>1. ASSUME NEW i \in CallRows PROVE Answers(CallCommands[i][1], CallCommands[i][2])
  <2>1. i + 0 \in 1..141 /\ Commands[i + 0] = CallCommands[i]
    BY RowsCounted, CommandRows
  <2> QED
    BY <2>1, FunctionsExist, PartAnswers
<1>2. ASSUME NEW i \in NetworkRows PROVE Answers(NetworkCommands[i][1], NetworkCommands[i][2])
  <2>1. i + 37 \in 1..141 /\ Commands[i + 37] = NetworkCommands[i]
    BY RowsCounted, CommandRows
  <2> QED
    BY <2>1, FunctionsExist, PartAnswers
<1>3. ASSUME NEW i \in CdmaRows PROVE Answers(CdmaCommands[i][1], CdmaCommands[i][2])
  <2>1. i + 73 \in 1..141 /\ Commands[i + 73] = CdmaCommands[i]
    BY RowsCounted, CommandRows
  <2> QED
    BY <2>1, FunctionsExist, PartAnswers
<1>4. ASSUME NEW i \in LaterRows PROVE Answers(LaterCommands[i][1], LaterCommands[i][2])
  <2>1. i + 103 \in 1..141 /\ Commands[i + 103] = LaterCommands[i]
    BY RowsCounted, CommandRows
  <2> QED
    BY <2>1, FunctionsExist, PartAnswers
<1> QED
    BY <1>1, <1>2, <1>3, <1>4

(* The two requests of setSimCardPower get the rows of DIAL and SIM_IO.      *)
LEMMA VendorAnswers == Answers("MODEM_POWEROFF", "dial") /\ Answers("MODEM_POWERON", "iccIOForApp")
<1>1. Commands[11] = <<"DIAL", "dial">> /\ Commands[29] = <<"SIM_IO", "iccIOForApp">>
    BY DEF Commands, CallCommands, NetworkCommands, CdmaCommands, LaterCommands
<1>2. CommandOf["MODEM_POWEROFF"] = Commands[11] /\ CommandOf["MODEM_POWERON"] = Commands[29]
    BY DEF CommandOf, Requests, VendorOffset, MtkCommandStart
<1>3. "dial" \in DOMAIN Responses /\ "iccIOForApp" \in DOMAIN Responses
    BY ResponseDomains DEF CallListResponses, CardFileResponses
<1>4. "MODEM_POWEROFF" \in Requests /\ "MODEM_POWERON" \in Requests
    BY DEF Requests, VendorOffset
<1> QED
    BY <1>1, <1>2, <1>3, <1>4 DEF Answers

-----------------------------------------------------------------------------
(* The operations: the request of each way has the operation's own function. *)

(* All of these ways ask for request r.                                     *)
Asks(ways, r) == \A w \in ways : "request" \in DOMAIN w /\ w.request = r

LEMMA SendsAsk ==
    ASSUME NEW r
    PROVE  Asks(Sends(r), r) /\ Asks(Copied(r), r)
<1>1. Asks(Sends(r), r)
    BY DEF Asks, Sends, Way
<1>2. Asks(Refuse(r, "NO_MEMORY"), r)
    BY DEF Asks, Refuse, Way
<1> QED
    BY <1>1, <1>2 DEF Asks, Copied

LEMMA RefuseAsks ==
    ASSUME NEW r, NEW e
    PROVE  Asks(Refuse(r, e), r) /\ Asks(Echo(r, e), r)
<1>1. Asks(Refuse(r, e), r)
    BY DEF Asks, Refuse, Way
<1>2. Asks(Echo(r, e), r)
    BY DEF Asks, Echo, Way
<1> QED
    BY <1>1, <1>2

LEMMA RefuseError ==
    ASSUME NEW r, NEW e
    PROVE  \A w \in Refuse(r, e) : w.error = e
BY DEF Refuse, Way

LEMMA DispatchAsks ==
    ASSUME NEW r
    PROVE  /\ Asks(dispatchVoid(r), r) /\ Asks(dispatchString(r), r)
           /\ Asks(dispatchStrings(r), r) /\ Asks(dispatchInts(r), r)
           /\ Asks(dispatchCallForwardStatus(r), r) /\ Asks(dispatchRaw(r), r)
           /\ Asks(dispatchIccApdu(r), r)
BY SendsAsk DEF dispatchVoid, dispatchString, dispatchStrings, dispatchInts,
                dispatchCallForwardStatus, dispatchRaw, dispatchIccApdu

LEMMA VersionedAsk ==
    ASSUME NEW r, NEW v, NEW ways, Asks(ways, r)
    PROVE  Asks(Since(v, ways), r) /\ Asks(Until(v, ways), r)
<1>1. Asks(Since(v, ways), r)
    BY DEF Asks, Since
<1>2. Asks(Until(v, ways), r)
    BY DEF Asks, Until
<1> QED
    BY <1>1, <1>2

LEMMA BothAsk ==
    ASSUME NEW r, NEW a, NEW b, Asks(a, r), Asks(b, r)
    PROVE  Asks(a \cup b, r)
BY DEF Asks

(* The response function of an operation.                                   *)
FunctionOf(op) ==
    CASE op = "getImsiForApp" -> "getIMSIForApp"
      [] op = "hangup" -> "hangupConnection"
      [] op = "getDeviceIdentity" -> "getImeiAsDeviceIdentity"
      [] OTHER -> op

(* A way of an operation leads to its function, but for setSimCardPower; one *)
(* operation sends no request at all.                                       *)
Sound(op, w) ==
    /\ op # "none" /\ op # "getImeiAsDeviceIdentity"
    /\ op # "setSimCardPower" => Answers(w.request, FunctionOf(op))
    /\ op = "setSimCardPower" => Answers(w.request, "dial") \/ Answers(w.request, "iccIOForApp")
    /\ op = "iccOpenLogicalChannel" => w.error # "NONE"

AllSound(operations) == \A op \in DOMAIN operations : \A w \in operations[op] : Sound(op, w)

LEMMA MergedSound ==
    ASSUME NEW parts, \A i \in DOMAIN parts : AllSound(parts[i])
    PROVE  AllSound(Merged(parts))
<1> SUFFICES ASSUME NEW op \in DOMAIN Merged(parts), NEW w \in Merged(parts)[op] PROVE Sound(op, w)
    BY DEF AllSound
<1>1. PICK i \in DOMAIN parts : op \in DOMAIN parts[i] /\ Merged(parts)[op] = parts[i][op]
    BY MergedHas
<1> QED
    BY <1>1 DEF AllSound

LEMMA OperationsSound == AllSound(Operations)
<1> USE DEF AllSound, Sound, FunctionOf
<1>1. AllSound(CardLockOperations)
    BY DispatchAsks, RowsAnswer DEF CardLockOperations, CallCommands, CallRows, Asks
<1>2. AllSound(CallOperations)
    BY SendsAsk, DispatchAsks, RowsAnswer DEF CallOperations, CallCommands, CallRows, Asks
<1>3. AllSound(StateOperations)
    BY RefuseAsks, DispatchAsks, RowsAnswer DEF StateOperations, CallCommands, CallRows, Asks
<1>4. AllSound(DataCallOperations)
  <2>1. Asks(DataCallOperations.setupDataCall, "SETUP_DATA_CALL")
    BY RefuseAsks, DispatchAsks, VersionedAsk, BothAsk DEF DataCallOperations
  <2> QED
    BY <2>1, RefuseAsks, DispatchAsks, RowsAnswer
    DEF DataCallOperations, CallCommands, CallRows, Asks
<1>5. AllSound(CardFileOperations)
    BY SendsAsk, DispatchAsks, RowsAnswer DEF CardFileOperations, CallCommands, CallRows, Asks
<1>6. AllSound(ServiceOperations)
    BY DispatchAsks, RowsAnswer
    DEF ServiceOperations, CallCommands, NetworkCommands, CallRows, NetworkRows, Asks
<1>7. AllSound(ToneOperations)
    BY SendsAsk, DispatchAsks, RowsAnswer
    DEF ToneOperations, NetworkCommands, NetworkRows, Asks
<1>8. AllSound(ToolkitOperations)
    BY RefuseAsks, DispatchAsks, RowsAnswer
    DEF ToolkitOperations, CdmaCommands, NetworkCommands, CdmaRows, NetworkRows, Asks
<1>9. AllSound(CdmaOperations)
    BY SendsAsk, DispatchAsks, RowsAnswer DEF CdmaOperations, CdmaCommands, CdmaRows, Asks
<1>10. AllSound(BroadcastOperations)
    BY SendsAsk, DispatchAsks, RowsAnswer
    DEF BroadcastOperations, CdmaCommands, NetworkCommands, CdmaRows, NetworkRows, Asks
<1>11. AllSound(MessageCentreOperations)
    BY RefuseAsks, DispatchAsks, RowsAnswer
    DEF MessageCentreOperations, CdmaCommands, LaterCommands, CdmaRows, LaterRows, Asks
<1>12. AllSound(AttachOperations)
  <2>1. Asks(AttachOperations.setInitialAttachApn, "SET_INITIAL_ATTACH_APN")
    BY SendsAsk, RefuseAsks, VersionedAsk, BothAsk DEF AttachOperations
  <2> QED
    BY <2>1, SendsAsk, RefuseAsks, RowsAnswer
    DEF AttachOperations, LaterCommands, LaterRows, Asks
<1>13. AllSound(ImsOperations)
    BY SendsAsk, RefuseAsks, DispatchAsks, RefuseError, RowsAnswer
    DEF ImsOperations, LaterCommands, LaterRows, Asks
<1>14. AllSound(ItemOperations)
    BY SendsAsk, RefuseAsks, DispatchAsks, RowsAnswer
    DEF ItemOperations, LaterCommands, LaterRows, Asks
<1>15. AllSound(ProfileOperations)
  <2>1. Asks(ProfileOperations.setDataProfile, "SET_DATA_PROFILE")
    BY SendsAsk, RefuseAsks, VersionedAsk, BothAsk DEF ProfileOperations
  <2> QED
    BY <2>1, SendsAsk, RefuseAsks, RowsAnswer
    DEF ProfileOperations, LaterCommands, LaterRows, Asks
<1>16. AllSound(CapabilityOperations)
    BY RefuseAsks, DispatchAsks, RowsAnswer
    DEF CapabilityOperations, LaterCommands, LaterRows, Asks
<1>17. AllSound(PolicyOperations)
  <2>1. Asks(PolicyOperations.setIndicationFilter, "SET_UNSOLICITED_RESPONSE_FILTER")
    BY SendsAsk, RefuseAsks, DispatchAsks, VersionedAsk, BothAsk DEF PolicyOperations
  <2>2. \A w \in PolicyOperations.sendDeviceState :
            w.request \in {"SCREEN_STATE", "SEND_DEVICE_STATE"}
    <3>1. Asks(Until(14, dispatchInts("SCREEN_STATE")), "SCREEN_STATE")
      BY DispatchAsks, VersionedAsk
    <3>2. Asks(Until(14, Refuse("SEND_DEVICE_STATE", "REQUEST_NOT_SUPPORTED")), "SEND_DEVICE_STATE")
      BY RefuseAsks, VersionedAsk
    <3>3. Asks(Since(15, dispatchInts("SEND_DEVICE_STATE")), "SEND_DEVICE_STATE")
      BY DispatchAsks, VersionedAsk
    <3> QED
      BY <3>1, <3>2, <3>3 DEF Asks, PolicyOperations
  <2> QED
    BY <2>1, <2>2, SendsAsk, RefuseAsks, DispatchAsks, VendorAnswers, RowsAnswer
    DEF PolicyOperations, LaterCommands, NetworkCommands, LaterRows, NetworkRows, Asks
<1>18. AllSound(OemHookOperations)
    BY DispatchAsks, RowsAnswer DEF OemHookOperations, NetworkCommands, NetworkRows, Asks
<1> HIDE DEF AllSound, Sound, FunctionOf
<1>19. AllSound(RadioOperations)
    BY <1>1, <1>2, <1>3, <1>4, <1>5, <1>6, <1>7, <1>8, <1>9, <1>10, <1>11, <1>12, <1>13, <1>14,
       <1>15, <1>16, <1>17, MergedSound
    DEF RadioOperations
<1> QED
    BY <1>18, <1>19, MergedSound DEF Operations

-----------------------------------------------------------------------------
(* The response and indication functions: what they read fits the payload. *)

(* Of a payload with an accepted count no more units are read.               *)
Fits(s) == \A c \in s.counts : c \in 0..MaxUnits /\ s.reads[c] \in 0..c
Plain(s) == Fits(s) /\ s.refusal = "invalid" /\ s.via = "own"

LEMMA PlainShapes ==
    /\ Plain(Ignored) /\ Plain(Text) /\ Plain(NotNull) /\ Plain(OneOrTwo)
    /\ Plain(RegistrationState)
    /\ \A n \in 1..5 : Plain(Exact(n)) /\ Plain(Words(n)) /\ Plain(AtLeast(n)) /\ Plain(Each(n))
<1> USE DEF Plain, Fits, Shape, Constantly, MaxUnits
<1>1. Plain(Ignored) /\ Plain(Text) /\ Plain(NotNull) /\ Plain(OneOrTwo)
    BY DEF Ignored, Text, NotNull, OneOrTwo
<1>2. ASSUME NEW n \in 1..5 PROVE Plain(Exact(n)) /\ Plain(Words(n))
    BY DEF Exact, Words
<1>3. ASSUME NEW n \in 1..5 PROVE Plain(AtLeast(n))
    BY DEF AtLeast
<1>4. ASSUME NEW n \in 1..5 PROVE Plain(Each(n))
    BY DEF Each
<1>5. Plain(RegistrationState)
    BY <1>2 DEF RegistrationState
<1> QED
    BY <1>1, <1>2, <1>3, <1>4, <1>5

LEMMA PlainVariants ==
    /\ Plain(OrEmpty(Exact(1))) /\ Plain(OrNull(Exact(1))) /\ Plain(Parsed(Each(4)))
    /\ Plain(OrEmpty(Each(1)))
<1> USE DEF Plain, Fits, Shape, Constantly, MaxUnits
<1>1. Plain(OrEmpty(Exact(1))) /\ Plain(OrNull(Exact(1)))
    BY DEF Exact, OrEmpty, OrNull, Parsed
<1>2. Plain(Parsed(Each(4))) /\ Plain(OrEmpty(Each(1)))
    BY DEF Each, OrEmpty, Parsed
<1> QED
    BY <1>1, <1>2

LEMMA OtherShapes ==
    /\ Fits(Via("hangupWaitingOrBackground", Ignored))
    /\ Via("hangupWaitingOrBackground", Ignored).refusal = "invalid"
    /\ Fits(Via("getDeviceIdentity", Exact(1)))
    /\ Via("getDeviceIdentity", Exact(1)).refusal = "invalid"
    /\ Via("getDeviceIdentity", Exact(1)).via = "getDeviceIdentity"
    /\ Fits(Substituted(AtLeast(1))) /\ Substituted(AtLeast(1)).via = "own"
    /\ Substituted(AtLeast(1)).refusal = "substituted"
    /\ Fits(Tolerated(Exact(1))) /\ Tolerated(Exact(1)).via = "own"
    /\ \A c \in ChannelIds.counts : c \in 0..MaxUnits /\ (c > 0 => ChannelIds.reads[c] \in 0..c)
    /\ ChannelIds.refusal = "invalid" /\ ChannelIds.via = "own"
    /\ \A c \in VoiceStrings.counts : c \in 4..MaxUnits
    /\ VoiceStrings.refusal = "invalid"
    /\ Fits(DataStrings) /\ DataStrings.refusal = "invalid"
<1> USE DEF Fits, Shape, Constantly, MaxUnits
<1>1. /\ Fits(Via("hangupWaitingOrBackground", Ignored))
      /\ Via("hangupWaitingOrBackground", Ignored).refusal = "invalid"
    BY DEF Via, Ignored
<1>2. /\ Fits(Via("getDeviceIdentity", Exact(1)))
      /\ Via("getDeviceIdentity", Exact(1)).refusal = "invalid"
      /\ Via("getDeviceIdentity", Exact(1)).via = "getDeviceIdentity"
    BY DEF Via, Exact
<1>3. /\ Fits(Substituted(AtLeast(1))) /\ Substituted(AtLeast(1)).via = "own"
      /\ Substituted(AtLeast(1)).refusal = "substituted"
    BY DEF Substituted, AtLeast
<1>4. Fits(Tolerated(Exact(1))) /\ Tolerated(Exact(1)).via = "own"
    BY DEF Tolerated, Exact
<1>5. /\ \A c \in ChannelIds.counts : c \in 0..MaxUnits /\ (c > 0 => ChannelIds.reads[c] \in 0..c)
      /\ ChannelIds.refusal = "invalid" /\ ChannelIds.via = "own"
    BY DEF ChannelIds, Each
<1>6. /\ \A c \in VoiceStrings.counts : c \in 4..MaxUnits
      /\ VoiceStrings.refusal = "invalid"
    BY DEF VoiceStrings
<1>7. Fits(DataStrings) /\ DataStrings.refusal = "invalid"
    BY DEF DataStrings
<1> QED
    BY <1>1, <1>2, <1>3, <1>4, <1>5, <1>6, <1>7

(* What makes the shape s of the response function f right.                 *)
Faithful(f, s) ==
    /\ f # "iccOpenLogicalChannel" => Fits(s)
    /\ 1 \in s.counts => s.reads[1] \in 0..1
    /\ s.refusal = "tolerated" => f = "getModemActivityInfo"
    /\ f = "getImeiAsDeviceIdentity" => s.via = "getDeviceIdentity"
    /\ f \notin {"hangupForegroundResumeBackground", "getImeiAsDeviceIdentity"} => s.via = "own"

AllFaithful(responses) == \A f \in DOMAIN responses : Faithful(f, responses[f])
AllFit(indications) == \A f \in DOMAIN indications : Fits(indications[f])

LEMMA PlainFaithful ==
    ASSUME NEW f, NEW s, Plain(s), f # "getImeiAsDeviceIdentity"
    PROVE  Faithful(f, s)
BY DEF Plain, Fits, Faithful

LEMMA SpecialFaithful ==
    /\ Faithful("hangupForegroundResumeBackground", Via("hangupWaitingOrBackground", Ignored))
    /\ Faithful("getImeiAsDeviceIdentity", Via("getDeviceIdentity", Exact(1)))
    /\ Faithful("getRadioCapability", Substituted(AtLeast(1)))
    /\ Faithful("getModemActivityInfo", Tolerated(Exact(1)))
    /\ Faithful("iccOpenLogicalChannel", ChannelIds)
BY OtherShapes DEF Faithful, Fits

LEMMA MergedFaithful ==
    ASSUME NEW parts, \A i \in DOMAIN parts : AllFaithful(parts[i])
    PROVE  AllFaithful(Merged(parts))
BY MergedHas DEF AllFaithful

LEMMA MergedFit ==
    ASSUME NEW parts, \A i \in DOMAIN parts : AllFit(parts[i])
    PROVE  AllFit(Merged(parts))
BY MergedHas DEF AllFit

LEMMA ResponsesFaithful == AllFaithful(Responses)
<1> USE DEF AllFaithful
<1>1. AllFaithful(PinResponses)
    BY PlainShapes, PlainVariants, PlainFaithful DEF PinResponses
<1>2. AllFaithful(CallListResponses)
    BY PlainShapes, PlainVariants, PlainFaithful DEF CallListResponses
<1>3. AllFaithful(CallControlResponses)
    BY PlainShapes, PlainFaithful, SpecialFaithful DEF CallControlResponses
<1>4. AllFaithful(SignalResponses)
    BY PlainShapes, PlainFaithful DEF SignalResponses
<1>5. AllFaithful(RegistrationResponses)
    BY PlainShapes, PlainFaithful DEF RegistrationResponses
<1>6. AllFaithful(OperatorResponses)
    BY PlainShapes, PlainFaithful DEF OperatorResponses
<1>7. AllFaithful(MessageResponses)
    BY PlainShapes, PlainFaithful DEF MessageResponses
<1>8. AllFaithful(DataCallResponses)
    BY PlainShapes, PlainFaithful DEF DataCallResponses
<1>9. AllFaithful(CardFileResponses)
    BY PlainShapes, PlainFaithful DEF CardFileResponses
<1>10. AllFaithful(ForwardingResponses)
    BY PlainShapes, PlainFaithful DEF ForwardingResponses
<1>11. AllFaithful(FacilityResponses)
    BY PlainShapes, PlainVariants, PlainFaithful DEF FacilityResponses
<1>12. AllFaithful(SelectionResponses)
    BY PlainShapes, PlainVariants, PlainFaithful DEF SelectionResponses
<1>13. AllFaithful(MuteResponses)
    BY PlainShapes, PlainFaithful DEF MuteResponses
<1>14. AllFaithful(ServiceResponses)
    BY PlainShapes, PlainFaithful DEF ServiceResponses
<1>15. AllFaithful(ToolkitResponses)
    BY PlainShapes, PlainFaithful DEF ToolkitResponses
<1>16. AllFaithful(NetworkTypeResponses)
    BY PlainShapes, PlainFaithful DEF NetworkTypeResponses
<1>17. AllFaithful(CdmaModeResponses)
    BY PlainShapes, PlainFaithful DEF CdmaModeResponses
<1>18. AllFaithful(CdmaMessageResponses)
    BY PlainShapes, PlainFaithful DEF CdmaMessageResponses
<1>19. AllFaithful(BroadcastResponses)
    BY PlainShapes, PlainFaithful DEF BroadcastResponses
<1>20. AllFaithful(IdentityResponses)
    BY PlainShapes, PlainFaithful, SpecialFaithful DEF IdentityResponses
<1>21. AllFaithful(MessageCentreResponses)
    BY PlainShapes, PlainFaithful DEF MessageCentreResponses
<1>22. AllFaithful(CellResponses)
    BY PlainShapes, PlainFaithful DEF CellResponses
<1>23. AllFaithful(ChannelResponses)
    BY PlainShapes, PlainFaithful, SpecialFaithful DEF ChannelResponses
<1>24. AllFaithful(ItemResponses)
    BY PlainShapes, PlainFaithful DEF ItemResponses
<1>25. AllFaithful(CapabilityResponses)
    BY PlainShapes, PlainFaithful, SpecialFaithful DEF CapabilityResponses
<1>26. AllFaithful(ActivityResponses)
    BY PlainShapes, PlainFaithful, SpecialFaithful DEF ActivityResponses
<1>27. AllFaithful(CarrierResponses)
    BY PlainShapes, PlainVariants, PlainFaithful DEF CarrierResponses
<1>28. AllFaithful(FilterPowerResponses)
    BY PlainShapes, PlainFaithful DEF FilterPowerResponses
<1>29. AllFaithful(OemHookResponses)
    BY PlainShapes, PlainFaithful DEF OemHookResponses
<1> HIDE DEF AllFaithful
<1>30. AllFaithful(RadioResponses)
    BY <1>1, <1>2, <1>3, <1>4, <1>5, <1>6, <1>7, <1>8, <1>9, <1>10, <1>11, <1>12, <1>13, <1>14,
       <1>15, <1>16, <1>17, <1>18, <1>19, <1>20, <1>21, <1>22, <1>23, <1>24, <1>25, <1>26,
       <1>27, <1>28, MergedFaithful
    DEF RadioResponses
<1> QED
    BY <1>29, <1>30, MergedFaithful DEF Responses

LEMMA IndicationShapes ==
    /\ Fits(SomeBytes) /\ Fits(Parsed(SomeBytes)) /\ Fits(RingRecord) /\ Fits(Parsed(UssdStrings))
    /\ Fits(Parsed(Exact(1)))
    /\ Fits(Via("none", AtLeast(1))) /\ Fits(Via("callStateChanged", Parsed(AtLeast(5))))
    /\ Fits(Via("networkStateChanged", AtLeast(1))) /\ Fits(Via("none", Ignored))
<1> USE DEF Fits, Shape, Constantly, MaxUnits
<1>1. Fits(SomeBytes) /\ Fits(Parsed(SomeBytes))
    BY DEF SomeBytes, Parsed
<1>2. Fits(RingRecord) /\ Fits(Parsed(UssdStrings))
    BY DEF RingRecord, UssdStrings, Parsed
<1>3. Fits(Parsed(Exact(1)))
    BY DEF Exact, Parsed
<1>4. Fits(Via("none", AtLeast(1))) /\ Fits(Via("networkStateChanged", AtLeast(1)))
    BY DEF AtLeast, Via
<1>5. Fits(Via("callStateChanged", Parsed(AtLeast(5)))) /\ Fits(Via("none", Ignored))
    BY DEF AtLeast, Ignored, Parsed, Via
<1> QED
    BY <1>1, <1>2, <1>3, <1>4, <1>5

LEMMA IndicationsFit == AllFit(Indications)
<1>0. \A s : Plain(s) => Fits(s)
    BY DEF Plain
<1> USE DEF AllFit
<1>1. AllFit(StateIndications)
    BY <1>0, PlainShapes DEF StateIndications
<1>2. AllFit(MessageIndications)
    BY <1>0, PlainShapes, IndicationShapes DEF MessageIndications
<1>3. AllFit(NetworkIndications)
    BY <1>0, PlainShapes, IndicationShapes DEF NetworkIndications
<1>4. AllFit(DataCallIndications)
    BY <1>0, PlainShapes, PlainVariants DEF DataCallIndications
<1>5. AllFit(ToolkitIndications)
    BY <1>0, PlainShapes, IndicationShapes DEF ToolkitIndications
<1>6. AllFit(RingIndications)
    BY <1>0, PlainShapes, IndicationShapes DEF RingIndications
<1>7. AllFit(CdmaIndications)
    BY <1>0, PlainShapes DEF CdmaIndications
<1>8. AllFit(CdmaRecordIndications)
    BY <1>0, PlainShapes, IndicationShapes DEF CdmaRecordIndications
<1>9. AllFit(ModeIndications)
    BY <1>0, PlainShapes, IndicationShapes DEF ModeIndications
<1>10. AllFit(CellIndications)
    BY <1>0, PlainShapes DEF CellIndications
<1>11. AllFit(ConfigIndications)
    BY <1>0, PlainShapes DEF ConfigIndications
<1>12. AllFit(DataIndications)
    BY <1>0, PlainShapes, IndicationShapes DEF DataIndications
<1>13. AllFit(OemHookIndications)
    BY <1>0, IndicationShapes DEF OemHookIndications
<1>14. AllFit(VendorCallIndications)
    BY <1>0, PlainShapes, IndicationShapes DEF VendorCallIndications
<1>15. AllFit(VendorAttachIndications)
    BY <1>0, PlainShapes, IndicationShapes DEF VendorAttachIndications
<1> HIDE DEF AllFit
<1> QED
    BY <1>1, <1>2, <1>3, <1>4, <1>5, <1>6, <1>7, <1>8, <1>9, <1>10, <1>11, <1>12, <1>13, <1>14,
       <1>15, MergedFit
    DEF Indications

-----------------------------------------------------------------------------
(* From the operation to the callback. *)

(* f is the response function that a request of op is completed through.    *)
Routed(op, f) ==
    /\ f \in DOMAIN Responses
    /\ op # "getImeiAsDeviceIdentity"
    /\ IF op = "setSimCardPower" THEN f \in {"dial", "iccIOForApp"} ELSE f = FunctionOf(op)

LEMMA WayRouted ==
    ASSUME NEW op \in DOMAIN Operations, NEW w \in WaysOf(op, version)
    PROVE  /\ Routed(op, ResponseOfRow(CommandOf[w.request]))
           /\ w.error = "NONE" => ResponseOfRow(CommandOf[w.request]) # "iccOpenLogicalChannel"
<1>1. Sound(op, w)
    BY OperationsSound DEF AllSound, WaysOf
<1>2. CASE op = "setSimCardPower"
    BY <1>1, <1>2 DEF Sound, Answers, Routed, ResponseOfRow
<1>3. CASE op # "setSimCardPower"
  <2>1. ResponseOfRow(CommandOf[w.request]) = FunctionOf(op) /\ FunctionOf(op) # "none"
    BY <1>1, <1>3 DEF Sound, Answers, FunctionOf, ResponseOfRow
  <2>2. FunctionOf(op) \in DOMAIN Responses
    BY <1>1, <1>3, <2>1 DEF Sound, Answers
  <2>3. FunctionOf(op) = "iccOpenLogicalChannel" => op = "iccOpenLogicalChannel"
    BY DEF FunctionOf
  <2> QED
    BY <1>1, <1>3, <2>1, <2>2, <2>3 DEF Sound, Routed
<1> QED
    BY <1>2, <1>3

LEMMA RoutedCallback ==
    ASSUME NEW op, NEW f, Routed(op, f), op \notin Misrouted
    PROVE  CallbackOf(f) = InterfaceCallback(op)
<1>1. f = FunctionOf(op) /\ Faithful(f, Responses[f])
    BY ResponsesFaithful DEF Routed, Misrouted, AllFaithful
<1>2. CASE op = "getDeviceIdentity"
    BY <1>1, <1>2 DEF FunctionOf, InterfaceCallback, CallbackOf, Faithful
<1>3. CASE op # "getDeviceIdentity"
  <2>1. f = InterfaceCallback(op)
    BY <1>1, <1>3 DEF FunctionOf, InterfaceCallback
  <2>2. f \notin {"hangupForegroundResumeBackground", "getImeiAsDeviceIdentity"}
    BY <2>1 DEF InterfaceCallback, Routed, Misrouted
  <2> QED
    BY <1>1, <2>1, <2>2 DEF CallbackOf, Faithful
<1> QED
    BY <1>2, <1>3

(* The registration strings of old versions are the only other shapes.      *)
LEMMA ShapeFaithful ==
    ASSUME NEW op, NEW f, Routed(op, f)
    PROVE  /\ \/ Fits(ShapeOf(f, version))
              \/ op = "iccOpenLogicalChannel" /\ f = op
              \/ op = "getVoiceRegistrationState" /\ version <= 14
           /\ 1 \in ShapeOf(f, version).counts => ShapeOf(f, version).reads[1] \in 0..1
           /\ ShapeOf(f, version).refusal = "tolerated" => op = "getModemActivityInfo"
<1>1. Faithful(f, Responses[f])
    BY ResponsesFaithful DEF Routed, AllFaithful
<1>2. \A g \in {"getVoiceRegistrationState", "iccOpenLogicalChannel", "getModemActivityInfo"} :
        f = g => op = g
    BY DEF Routed, FunctionOf
<1>3. CASE ShapeOf(f, version) = Responses[f]
    BY <1>1, <1>2, <1>3 DEF Faithful
<1>4. CASE ShapeOf(f, version) = VoiceStrings /\ f = "getVoiceRegistrationState" /\ version <= 14
  <2>1. 1 \notin VoiceStrings.counts
    BY OtherShapes DEF MaxUnits
  <2> QED
    BY <1>2, <1>4, <2>1, OtherShapes
<1>5. CASE ShapeOf(f, version) = DataStrings
    BY <1>5, OtherShapes DEF Fits
<1> QED
    BY <1>3, <1>4, <1>5 DEF ShapeOf

LEMMA FitsReads ==
    ASSUME NEW s, NEW p \in Payloads, ~p.null,
           p.count \in s.counts => s.reads[p.count] \in 0..p.count
    PROVE  ~(UnitsRead(s, p) > p.count)
<1>1. p.count \in Nat /\ [p EXCEPT !.sane = TRUE].count = p.count /\ ~[p EXCEPT !.sane = TRUE].null
    BY DEF Payloads, MaxUnits
<1>2. CASE Accepts(s, [p EXCEPT !.sane = TRUE])
  <2>1. p.count \in s.counts
    BY <1>1, <1>2 DEF Accepts
  <2> QED
    BY <1>1, <1>2, <2>1 DEF UnitsRead
<1>3. CASE ~Accepts(s, [p EXCEPT !.sane = TRUE])
    BY <1>1, <1>3 DEF UnitsRead
<1> QED
    BY <1>2, <1>3

(* What libril itself passes to a response function.                        *)
LEMMA OwnPayloads ==
    NullPayload \in Payloads /\ NullPayload.null /\ OneUnit \in Payloads /\ OneUnit.count = 1
<1>1. NullPayload \in Payloads /\ NullPayload.null
    BY DEF NullPayload, Payloads, MaxUnits
<1>2. \A q \in Payloads : [q EXCEPT !.null = FALSE] \in Payloads
    BY DEF Payloads
<1>3. \A q \in Payloads : LET u == [q EXCEPT !.count = 1] IN u \in Payloads /\ u.count = 1
    BY DEF Payloads, MaxUnits
<1>4. OneUnit = [[NullPayload EXCEPT !.null = FALSE] EXCEPT !.count = 1]
    BY DEF OneUnit
<1>5. [NullPayload EXCEPT !.null = FALSE] \in Payloads
    BY <1>1, <1>2
<1> QED
    BY <1>1, <1>3, <1>4, <1>5

Told == OwnCallback /\ ErrorFaithful /\ ReadsFit

(* The answer to an operation over a function it is routed to.              *)
LEMMA AnswerTold ==
    ASSUME NEW op, NEW f, NEW e, NEW p \in Payloads, Routed(op, f),
           f # "iccOpenLogicalChannel" \/ p.null \/ p.count = 1,
           event' = Answer(op, f, e, p), version' = version
    PROVE  Told'
<1> DEFINE s == ShapeOf(f, version)
           service == IF f \in DOMAIN OemHookResponses THEN "oem" ELSE "radio"
<1>1. CASE service \notin clients
  <2>1. event' = Quiet
    BY <1>1 DEF Answer
  <2> QED
    BY <2>1 DEF Quiet, Told, OwnCallback, ErrorFaithful, ReadsFit
<1>2. CASE service \in clients
  <2>1. event' = [kind |-> "answer", op |-> op, callback |-> CallbackOf(f), vendor |-> e,
                  error |-> Error(s, e, p), data |-> Accepts(s, p),
                  overread |-> ~p.null /\ UnitsRead(s, p) > p.count]
    BY <1>2 DEF Answer
  <2> HIDE DEF s
  <2>2. OwnCallback'
    BY <2>1, RoutedCallback DEF OwnCallback
  <2>3. ErrorFaithful'
    <3>1. /\ Error(s, e, p) = "NONE" => Accepts(s, p) \/ op = "getModemActivityInfo"
          /\ e # "NONE" => Error(s, e, p) = e
      BY ShapeFaithful DEF Error, s
    <3> QED
      BY <2>1, <3>1 DEF ErrorFaithful
  <2>4. ReadsFit'
    <3>1. ~p.null /\ UnitsRead(s, p) > p.count
            => op = "getVoiceRegistrationState" /\ version <= 14
      <4> SUFFICES ASSUME ~p.null, ~(op = "getVoiceRegistrationState" /\ version <= 14)
                   PROVE  ~(UnitsRead(s, p) > p.count)
        OBVIOUS
      <4>1. p.count \in s.counts => s.reads[p.count] \in 0..p.count
        BY ShapeFaithful DEF Fits, s
      <4> QED
        BY <4>1, FitsReads
    <3>2. event'.kind = "answer" /\ event'.op = op
      BY <2>1
    <3>3. event'.overread = (~p.null /\ UnitsRead(s, p) > p.count)
      BY <2>1
    <3> QED
      BY <3>1, <3>2, <3>3, Zenon DEF ReadsFit
  <2> QED
    BY <2>2, <2>3, <2>4 DEF Told
<1> QED
    BY <1>1, <1>2

(* An indication, which the function has accepted.                          *)
LEMMA IndicateTold ==
    ASSUME NEW v, NEW n, NEW p \in IndicationPayloads, Indicate(v, n, p)
    PROVE  Told'
<1> DEFINE f == HandlerOf(v, n)
           s == Indications[f]
<1>1. p \in Payloads
    BY DEF IndicationPayloads, PayloadsOf
<1>2. f \in DOMAIN Indications /\ Fits(s)
    BY IndicationsFit DEF Indicate, AllFit
<1>3. ~(~p.null /\ UnitsRead(s, p) > p.count)
    BY <1>1, <1>2, FitsReads DEF Fits
<1>4. event'.kind = "indication" => event'.overread = FALSE
    BY <1>3 DEF Indicate, Quiet
<1> QED
    BY <1>4, IndicateKind DEF Told, OwnCallback, ErrorFaithful, ReadsFit

(* Every other step.                                                        *)
LEMMA ElseTold ==
    ASSUME Told, version' = version,
           event' = event \/ event'.kind \notin {"answer", "indication", "callMessage"}
    PROVE  Told'
BY DEF Told, OwnCallback, ErrorFaithful, ReadsFit

(* The lengths of call messages that are not ragged: the fields that are    *)
(* made of them are never more than there are, and up to one pointer's      *)
(* bytes fewer than two are read.                                           *)
LEMMA FieldsReadFew ==
    ASSUME NEW m, m.fields \in Nat, m.form \in {"count", "bytes"}
    PROVE  /\ FieldsRead(m) \in Nat /\ FieldsRead(m) <= m.fields
           /\ ResponseLen(m) \in Nat
           /\ ResponseLen(m) >= 2 => m.fields >= 2 \/ (m.form = "bytes" /\ m.fields = 1)
<1>1. CASE m.form = "count"
  <2>1. ResponseLen(m) = m.fields
    BY <1>1 DEF ResponseLen
  <2> QED
    BY <1>1, <2>1 DEF FieldsRead, PointerSize
<1>2. CASE m.form = "bytes"
  <2>1. ResponseLen(m) = m.fields * 4
    BY <1>2 DEF ResponseLen, PointerSize
  <2>2. m.fields = 0 => FieldsRead(m) = 0
    BY <2>1 DEF FieldsRead, PointerSize
  <2>3. m.fields # 0 => FieldsRead(m) = m.fields
    BY <2>1 DEF FieldsRead, PointerSize
  <2> QED
    BY <1>2, <2>1, <2>2, <2>3
<1> QED
    BY <1>1, <1>2

(* However many fields a call message has: mtkEcpiInd and callInfoInd read  *)
(* past it only if they trust what they do not test.                        *)
LEMMA CallReadsTrusted ==
    ASSUME NEW f \in {"mtkEcpi", "callInfo"}, NEW m \in CallMessages, CallOverread(f, m)
    PROVE  Trusted(f, m)
<1>1. /\ m.fields \in Nat /\ m.form \in {"count", "bytes", "ragged"} /\ m.null \in BOOLEAN
      /\ m.null => m.says = "nothing"
    BY DEF CallMessages, FieldCounts
<1> SUFFICES ASSUME m.form \in {"count", "bytes"},
                    ~(f = "callInfo" /\ (m.null \/ m.says = "nothing"
                                            \/ (m.form = "bytes" /\ m.fields = 1)))
             PROVE  FALSE
    BY <1>1 DEF Trusted
<1>2. /\ FieldsRead(m) \in Nat /\ FieldsRead(m) <= m.fields /\ ResponseLen(m) \in Nat
      /\ ResponseLen(m) >= 2 => m.fields >= 2 \/ (m.form = "bytes" /\ m.fields = 1)
    BY <1>1, FieldsReadFew
<1>3. StringsRead(f, m) > IF m.null THEN 0 ELSE m.fields
    BY DEF CallOverread
<1>4. CASE f = "mtkEcpi"
  <2>1. CASE m.null \/ FieldsRead(m) \notin 10..32
    <3>1. StringsRead(f, m) = 0
      BY <1>4, <2>1 DEF StringsRead
    <3> QED
      BY <1>1, <1>3, <3>1
  <2>2. CASE ~m.null /\ FieldsRead(m) \in 10..32
    <3>1. StringsRead(f, m) \in {2, FieldsRead(m)}
      BY <1>4, <2>2 DEF StringsRead
    <3> QED
      BY <1>1, <1>2, <1>3, <2>2, <3>1
  <2> QED
    BY <2>1, <2>2
<1>5. CASE f = "callInfo"
  <2>1. CASE ResponseLen(m) < 2
    <3>1. StringsRead(f, m) = 0
      BY <1>5, <2>1 DEF StringsRead
    <3> QED
      BY <1>1, <1>3, <3>1
  <2>2. CASE ~(ResponseLen(m) < 2)
    <3>1. StringsRead(f, m) \in {2, FieldsRead(m)}
      BY <1>5, <2>2 DEF StringsRead
    <3>2. ~m.null /\ m.fields >= 2
      BY <1>2, <1>5, <2>2
    <3> QED
      BY <1>1, <1>2, <1>3, <3>1, <3>2
  <2> QED
    BY <2>1, <2>2
<1> QED
    BY <1>4, <1>5

(* The request in flight has a row with its operation's function.           *)
CallRouted ==
    call # NoCall => /\ Routed(call.op, ResponseOfRow(call.row))
                     /\ ResponseOfRow(call.row) # "iccOpenLogicalChannel"

LEMMA ToldNext == CallRouted /\ Told /\ [Next]_vars => CallRouted' /\ Told'
<1> SUFFICES ASSUME CallRouted, Told, [Next]_vars PROVE CallRouted' /\ Told'
    OBVIOUS
<1>1. ASSUME NEW s \in Services, SetResponseFunctions(s) PROVE CallRouted' /\ Told'
    BY <1>1, ElseTold DEF SetResponseFunctions, CallRouted
<1>2. ASSUME NEW op \in DOMAIN Operations, NEW w \in WaysOf(op, version), Invoke(op, w)
      PROVE  CallRouted' /\ Told'
  <2>1. /\ call' = [op |-> op, request |-> w.request, row |-> CommandOf[w.request]]
        /\ w.error = "NONE" /\ event' = event /\ version' = version
    BY <1>2 DEF Invoke
  <2>2. CallRouted'
    BY <2>1, WayRouted DEF CallRouted
  <2> QED
    BY <2>1, <2>2, ElseTold
<1>3. ASSUME NEW op \in DOMAIN Operations, NEW w \in WaysOf(op, version), Refused(op, w)
      PROVE  CallRouted' /\ Told'
  <2> DEFINE p == IF w.own THEN OneUnit ELSE NullPayload
  <2>1. /\ event' = Answer(op, ResponseOfRow(CommandOf[w.request]), w.error, p)
        /\ version' = version /\ call' = call
    BY <1>3 DEF Refused
  <2>2. p \in Payloads /\ (p.null \/ p.count = 1)
    BY OwnPayloads
  <2> HIDE DEF p
  <2> QED
    BY <2>1, <2>2, WayRouted, AnswerTold DEF CallRouted
<1>4. ASSUME NEW e, NEW p \in CompletionPayloads, Complete(e, p) PROVE CallRouted' /\ Told'
  <2>1. /\ event' = Answer(call.op, ResponseOfRow(call.row), e, p)
        /\ call # NoCall /\ call' = NoCall /\ version' = version
    BY <1>4 DEF Complete
  <2>2. p \in Payloads
    BY DEF CompletionPayloads, PayloadsOf
  <2>3. Told'
    BY <2>1, <2>2, AnswerTold DEF CallRouted
  <2> QED
    BY <2>1, <2>3 DEF CallRouted, NoCall
<1>5. CASE \/ StoreCapability \/ ValidateCapability \/ GetRadioCapability \/ CopyCapability
    BY <1>5, ElseTold
    DEF StoreCapability, ValidateCapability, GetRadioCapability, CopyCapability, CallRouted
<1>6. CASE TellCapability
  <2>1. Told'
    BY <1>6 DEF TellCapability, Quiet, Told, OwnCallback, ErrorFaithful, ReadsFit
  <2> QED
    BY <1>6, <2>1 DEF TellCapability, CallRouted
<1>7. CASE AnswerCapability
    BY <1>7, ElseTold DEF AnswerCapability, CallRouted
<1>8. ASSUME NEW u, NEW p \in IndicationPayloads, Indicate(u[1], u[2], p)
      PROVE  CallRouted' /\ Told'
  <2>1. call' = call
    BY <1>8 DEF Indicate
  <2> QED
    BY <1>8, <2>1, IndicateTold DEF CallRouted
<1>9. ASSUME NEW f \in {"mtkEcpi", "callInfo"}, NEW m \in CallMessages, CallMessage(f, m)
      PROVE  CallRouted' /\ Told'
  <2>1. call' = call /\ version' = version
    BY <1>9 DEF CallMessage
  <2>2. CASE event' = Quiet
    BY <2>1, <2>2, ElseTold DEF Quiet, CallRouted
  <2>3. CASE event' # Quiet
    <3>1. /\ event'.kind = "callMessage" /\ event'.f = f /\ event'.message = m
          /\ event'.overread = CallOverread(f, m)
      BY <1>9, <2>3 DEF CallMessage
    <3>2. event'.overread => Trusted(f, m)
      BY <3>1, CallReadsTrusted
    <3>3. Told'
      BY <3>1, <3>2 DEF Told, OwnCallback, ErrorFaithful, ReadsFit
    <3> QED
      BY <2>1, <3>3 DEF CallRouted
  <2> QED
    BY <2>2, <2>3
<1>10. CASE Heard
    BY <1>10, ElseTold DEF Heard, Quiet, CallRouted
<1>11. CASE UNCHANGED vars
    BY <1>11, ElseTold DEF vars, CallRouted
<1> QED
    BY <1>1, <1>2, <1>3, <1>4, <1>5, <1>6, <1>7, <1>8, <1>9, <1>10, <1>11 DEF Next

LEMMA ToldAlways == Spec => []Told
<1>1. Init => CallRouted /\ Told
    BY DEF Init, Quiet, CallRouted, Told, OwnCallback, ErrorFaithful, ReadsFit
<1> QED
    BY <1>1, ToldNext, PTL DEF Spec

\* Every operation but the two of Misrouted is answered through its own callback of the
\* interface, under every version of the vendor RIL: no two rows of the command table have
\* one request, and each row's function tells the callback that belongs to it.
THEOREM CallbacksAreOwn == Spec => []OwnCallback
BY ToldAlways, PTL DEF Told

\* A client hears success only with a payload the response function took, but for
\* getModemActivityInfo, and hears every error of the vendor RIL, whatever the payload.
THEOREM ErrorsAreFaithful == Spec => []ErrorFaithful
BY ToldAlways, PTL DEF Told

\* No response or indication function reads past the payload that its length test let
\* through, but for getVoiceRegistrationStateResponse up to version 14 and for the call
\* messages that mtkEcpiInd and callInfoInd take on trust (Trusted).
THEOREM ReadsAreFit == Spec => []ReadsFit
BY ToldAlways, PTL DEF Told
=============================================================================
