------------------------------- MODULE RDMPackets -------------------------------
(* RDM messages, the parameter data they carry, and their way through ArtRdm.   *)
EXTENDS ArtNetPackets

MaxParameterDataLength == 231
MinimumMessageLength == 26

FrameHead == <<U8("StartCode"), U8("SubStartCode"), Count(1)>>
FrameBody(class) ==
  <<Raw("DestinationUID", 6), Raw("SourceUID", 6), U8("TransactionNumber"),
    U8("PortIDOrResponseType"), U8("MessageCount"), BE("SubDevice", 2), U8(class),
    BE("ParameterID", 2), Count(1)>>

\* The sum of all bytes before it, which no other bytes are taken to have.
Checksum(b) == <<<<"sum", 1, b>>, <<"sum", 2, b>>>>

\* Parameter data past the maximum is cut off.
Clamped(data) == SubSeq(data, 1, IF Len(data) > MaxParameterDataLength THEN MaxParameterDataLength ELSE Len(data))

EncodeMessage(class, data) ==
  LET pd == Clamped(data)
      body == Write(FrameHead, 24 + Len(pd)) \o Write(FrameBody(class), Len(pd)) \o pd
  IN body \o Checksum(body)

CountAt(b, i) == b[i][2]
BadMessage == [ok |-> FALSE, fields |-> <<>>, data |-> <<>>]

DecodeMessage(b) ==
  IF Len(b) < MinimumMessageLength THEN BadMessage
  ELSE IF b[1] # <<"StartCode", 1>> \/ b[2] # <<"SubStartCode", 1>> THEN BadMessage
  ELSE LET pdl == CountAt(b, 24)
           end == 24 + pdl
       IN IF \/ pdl > MaxParameterDataLength
             \/ Len(b) < end + 2
             \/ CountAt(b, 3) # end
             \/ Checksum(SubSeq(b, 1, end)) # SubSeq(b, end + 1, end + 2)
             \/ b[21] # <<"CommandClass", 1>>
          THEN BadMessage
          ELSE [ok |-> TRUE, data |-> SubSeq(b, 25, end),
                fields |-> Read(b, ReaderAt(3), FrameBody("CommandClass"), <<>>).got]

\* ArtRdm leaves the start code out, unless the node is one that wants it.
EncodeRdmPacket(class, data, legacyStartCode) ==
  LET message == EncodeMessage(class, data) IN IF legacyStartCode THEN message ELSE Tail(message)

\* Nodes send it either way, and either way it is read.
DecodedRDMMessage(rdmData) ==
  IF rdmData # <<>> /\ Head(rdmData) = <<"StartCode", 1>> THEN DecodeMessage(rdmData)
  ELSE DecodeMessage(<<<<"StartCode", 1>>>> \o rdmData)
-------------------------------------------------------------------------------
(* Parameter data: fixed fields, then nothing, a text, one more byte or none, or *)
(* whole groups of fields.                                                       *)
AnyNumber == MaxParameterDataLength
Fixed(head) == [head |-> head, rest |-> "nothing", group |-> <<>>, most |-> 0]
WithText(head, most) == [head |-> head, rest |-> "text", group |-> <<>>, most |-> most]
GroupsOf(head, group, most) == [head |-> head, rest |-> "groups", group |-> group, most |-> most]

SensorDefinition == WithText(
  <<U8("SensorNumber"), U8("Type"), U8("Unit"), U8("Prefix"), BE("RangeMin", 2), BE("RangeMax", 2),
    BE("NormalMin", 2), BE("NormalMax", 2), U8("SupportsRecording")>>, 32)
SensorValue == Fixed(
  <<U8("SensorNumber"), BE("Present", 2), BE("Lowest", 2), BE("Highest", 2), BE("Recorded", 2)>>)
ParameterDescription == WithText(
  <<BE("PID", 2), U8("PDLSize"), U8("DataType"), U8("CommandClass"), U8("Type"), U8("Unit"), U8("Prefix"),
    BE("MinValue", 4), BE("MaxValue", 4), BE("DefaultValue", 4)>>, 32)
StatusMessages == GroupsOf(<<>>,
  <<BE("SubDevice", 2), U8("Type"), BE("MessageID", 2), BE("Value1", 2), BE("Value2", 2)>>, AnyNumber)
SlotInfo == GroupsOf(<<>>, <<BE("Offset", 2), U8("Type"), BE("Value", 2)>>, AnyNumber)
SlotDescription == WithText(<<BE("SlotOffset", 2)>>, AnyNumber)
IndexedChoice == Fixed(<<U8("Current"), U8("Count")>>)
IndexedDescription == WithText(<<U8("Index")>>, AnyNumber)
MinimumLevel == Fixed(<<BE("Increasing", 2), BE("Decreasing", 2), U8("OnBelowMin")>>)
ProxiedDeviceCount == Fixed(<<BE("Count", 2), U8("ListChanged")>>)
ProductDetailIDList == GroupsOf(<<>>, <<BE("ProductDetail", 2)>>, 6)
SupportedParameters == GroupsOf(<<>>, <<BE("ParameterID", 2)>>, AnyNumber)
Uint32Counter == Fixed(<<BE("Counter", 4)>>)
PresetPlayback == Fixed(<<BE("Mode", 2), U8("Level")>>)
SelfTestEnhanced == GroupsOf(<<BE("ManufacturerResultCodePID", 2)>>,
  <<U8("Number"), U8("Status"), BE("Capability", 2), BE("ResultCode", 2)>>, AnyNumber)
DeviceInfo == Fixed(
  <<U8("ProtocolVersionMajor"), U8("ProtocolVersionMinor"), BE("DeviceModelID", 2),
    BE("ProductCategory", 2), BE("SoftwareVersionID", 4), BE("DMXFootprint", 2), U8("CurrentPersonality"),
    U8("PersonalityCount"), BE("DMXStartAddress", 2), BE("SubDeviceCount", 2), U8("SensorCount")>>)
PersonalityDescription == WithText(<<U8("Index"), BE("DMXFootprint", 2)>>, 32)
InterfaceList == GroupsOf(<<>>, <<BE("ID", 4), BE("HardwareType", 2)>>, AnyNumber)
InterfaceLabel == WithText(<<BE("InterfaceID", 4)>>, AnyNumber)
IPv4Config == [Fixed(<<BE("InterfaceID", 4), Raw("IP", 4), U8("PrefixLen")>>) EXCEPT !.rest = "a byte"]

Data(name) ==
  CASE name = "SENSOR_DEFINITION" -> SensorDefinition     [] name = "SENSOR_VALUE" -> SensorValue
    [] name = "PARAMETER_DESCRIPTION" -> ParameterDescription
    [] name = "STATUS_MESSAGES" -> StatusMessages         [] name = "SLOT_INFO" -> SlotInfo
    [] name = "SLOT_DESCRIPTION" -> SlotDescription       [] name = "CURVE" -> IndexedChoice
    [] name = "CURVE_DESCRIPTION" -> IndexedDescription   [] name = "MINIMUM_LEVEL" -> MinimumLevel
    [] name = "PROXIED_DEVICE_COUNT" -> ProxiedDeviceCount
    [] name = "PRODUCT_DETAIL_ID_LIST" -> ProductDetailIDList
    [] name = "SUPPORTED_PARAMETERS" -> SupportedParameters
    [] name = "DEVICE_HOURS" -> Uint32Counter             [] name = "PRESET_PLAYBACK" -> PresetPlayback
    [] name = "SELFTEST_ENHANCED" -> SelfTestEnhanced     [] name = "DEVICE_INFO" -> DeviceInfo
    [] name = "DMX_PERSONALITY_DESCRIPTION" -> PersonalityDescription
    [] name = "LIST_INTERFACES" -> InterfaceList          [] name = "INTERFACE_LABEL" -> InterfaceLabel
    [] name = "IPV4_CURRENT_ADDRESS" -> IPv4Config

\* The rest of the data, n characters, groups or bytes of it.
Grouped(layout, n) == Run("group", n, Width(layout.group))
EncodeData(layout, n) ==
  LET kept == IF n > layout.most THEN layout.most ELSE n IN
  Write(layout.head, 0) \o
    CASE layout.rest = "nothing" -> <<>>
      [] layout.rest = "text"    -> ItemBytes(kept, 1)
      [] layout.rest = "groups"  -> Grouped(layout, kept)
      [] layout.rest = "a byte"  -> ItemBytes(n, 1)

FirstByte(bytes) == IF bytes = <<>> THEN <<>> ELSE <<Head(bytes)>>
BadData == [ok |-> FALSE, fields |-> <<>>, rest |-> <<>>]
DecodeData(layout, b) ==
  LET left == Len(b) - Width(layout.head)
      size == Width(layout.group)
      fits == CASE layout.rest = "nothing" -> left = 0
                [] layout.rest = "groups"  ->
                     left >= 0 /\ left % size = 0 /\ left \div size =< layout.most
                [] OTHER                   -> left >= 0
      rest == SubSeq(b, Width(layout.head) + 1, Len(b))
  IN IF ~fits THEN BadData
     ELSE [ok |-> TRUE, fields |-> Read(b, ReaderAt(0), layout.head, <<>>).got,
           rest |-> CASE layout.rest = "groups" -> Items(rest, left \div size, size)
                      [] layout.rest = "a byte" -> FirstByte(rest)
                      [] OTHER -> rest]
===============================================================================
