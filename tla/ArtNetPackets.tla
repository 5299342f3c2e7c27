----------------------------- MODULE ArtNetPackets -----------------------------
(* The Art-Net packets: what each encoder writes, what each decoder reads, and  *)
(* what becomes of a datagram that is cut short.                                *)
EXTENDS ByteFields

Kinds == {"Poll", "PollReply", "Dmx", "TodRequest", "TodData", "TodControl", "Rdm", "RdmSub",
          "TimeCode", "Address", "Input", "IpProg", "IpProgReply"}

\* ID and OpCode; every packet but the poll reply goes on with the protocol version.
Opening(kind) == <<Raw("ID", 8), LE(kind, 2)>>
Header(kind) == Opening(kind) \o <<BE("ProtocolVersion", 2)>>
Version == <<BE("ProtocolVersion", 2)>>

\* How the items of a packet are counted, and how many bytes an item has.
NoTail == [width |-> 1, take |-> "none"]
Following(width, take) == [width |-> width, take |-> take]

Layout(least, must, may, tail) == [least |-> least, must |-> must, may |-> may, tail |-> tail]
-------------------------------------------------------------------------------
PollWrites == Header("Poll") \o
  <<U8("Flags"), U8("DiagPriority"), BE("TargetTop", 2), BE("TargetBottom", 2), BE("Esta", 2), BE("Oem", 2)>>
PollReads == Layout(14, Version \o <<U8("Flags"), U8("DiagPriority")>>,
  <<BE("TargetTop", 2), BE("TargetBottom", 2), BE("Esta", 2), BE("Oem", 2)>>, NoTail)

PollReplyWrites == Opening("PollReply") \o
  <<Raw("IPAddress", 4), LE("Port", 2), U8("VersInfoHi"), U8("VersInfoLo"), U8("NetSwitch"),
    U8("SubSwitch"), BE("Oem", 2), U8("UbeaVersion"), U8("Status1"), LE("Esta", 2),
    Raw("ShortName", 18), Raw("LongName", 64), Raw("NodeReport", 64), BE("NumPorts", 2),
    Raw("PortTypes", 4), Raw("GoodInput", 4), Raw("GoodOutputA", 4), Raw("SwIn", 4), Raw("SwOut", 4),
    U8("AcnPriority"), U8("SwMacro"), U8("SwRemote"), Raw("Spare", 3), U8("Style"), Raw("MAC", 6),
    Raw("BindIP", 4), U8("BindIndex"), U8("Status2"), Raw("GoodOutputB", 4), U8("Status3"),
    Raw("DefaultRespUID", 6), BE("User", 2), BE("RefreshRate", 2), U8("BackgroundQueuePolicy"),
    Raw("Filler", 10)>>
PollReplyReads == Layout(207,
  <<Raw("IPAddress", 4), LE("Port", 2), U8("VersInfoHi"), U8("VersInfoLo"), U8("NetSwitch"),
    U8("SubSwitch"), BE("Oem", 2), U8("UbeaVersion"), U8("Status1"), LE("Esta", 2),
    Raw("ShortName", 18), Raw("LongName", 64), Raw("NodeReport", 64), BE("NumPorts", 2),
    Raw("PortTypes", 4), Raw("GoodInput", 4), Raw("GoodOutputA", 4), Raw("SwIn", 4), Raw("SwOut", 4),
    U8("AcnPriority"), U8("SwMacro"), U8("SwRemote"), Raw("Spare", 3), U8("Style"), Raw("MAC", 6)>>,
  <<Raw("BindIP", 4), U8("BindIndex"), U8("Status2"), Raw("GoodOutputB", 4), U8("Status3"),
    Raw("DefaultRespUID", 6), BE("User", 2), BE("RefreshRate", 2), U8("BackgroundQueuePolicy"),
    Raw("Filler", 10)>>, NoTail)

DmxWrites == Header("Dmx") \o <<U8("Sequence"), U8("Physical"), U8("SubUni"), U8("Net"), Count(2)>>
DmxReads == Layout(18, Version \o <<U8("Sequence"), U8("Physical"), U8("SubUni"), U8("Net"), Count(2)>>,
  <<>>, Following(1, "what is there"))

TodRequestWrites == Header("TodRequest") \o
  <<U8("Filler1"), U8("Filler2"), Raw("Spare", 7), U8("Net"), U8("Command"), Count(1)>>
TodRequestReads == Layout(24, Version \o
  <<U8("Filler1"), U8("Filler2"), Raw("Spare", 7), U8("Net"), U8("Command"), Count(1)>>,
  <<>>, Following(1, "all or none"))

TodDataWrites == Header("TodData") \o
  <<U8("RdmVersion"), U8("Port"), Raw("Spare", 7), U8("Net"), U8("CommandResponse"), U8("Address"),
    BE("UidTotal", 2), U8("BlockCount"), Count(1)>>
TodDataReads == Layout(28, Version \o
  <<U8("RdmVersion"), U8("Port"), Raw("Spare", 7), U8("Net"), U8("CommandResponse"), U8("Address"),
    BE("UidTotal", 2), U8("BlockCount"), Count(1)>>,
  <<>>, Following(6, "all or none"))

TodControlWrites == Header("TodControl") \o
  <<U8("Filler1"), U8("Filler2"), Raw("Spare", 7), U8("Net"), U8("Command"), U8("Address")>>
TodControlReads == Layout(24, Version \o
  <<U8("Filler1"), U8("Filler2"), Raw("Spare", 7), U8("Net"), U8("Command"), U8("Address")>>,
  <<>>, NoTail)

RdmWrites == Header("Rdm") \o
  <<U8("RdmVersion"), U8("Filler2"), Raw("Spare", 7), U8("Net"), U8("Command"), U8("Address")>>
RdmReads == Layout(24, Version \o
  <<U8("RdmVersion"), U8("Filler2"), Raw("Spare", 7), U8("Net"), U8("Command"), U8("Address")>>,
  <<>>, Following(1, "the rest"))

RdmSubWrites == Header("RdmSub") \o
  <<U8("RdmVersion"), U8("Filler2"), Raw("UID", 6), U8("Spare1"), U8("CommandClass"),
    BE("ParameterID", 2), BE("SubDevice", 2), Count(2), Raw("Spare2to5", 4)>>
RdmSubReads == Layout(32, Version \o
  <<U8("RdmVersion"), U8("Filler2"), Raw("UID", 6), U8("Spare1"), U8("CommandClass"),
    BE("ParameterID", 2), BE("SubDevice", 2), Count(2), Raw("Spare2to5", 4)>>,
  <<>>, Following(2, "all or none"))

TimeCodeWrites == Header("TimeCode") \o
  <<U8("Filler1"), U8("StreamId"), U8("Frames"), U8("Seconds"), U8("Minutes"), U8("Hours"), U8("Type")>>
TimeCodeReads == Layout(19, Version \o
  <<U8("Filler1"), U8("StreamId"), U8("Frames"), U8("Seconds"), U8("Minutes"), U8("Hours"), U8("Type")>>,
  <<>>, NoTail)

AddressWrites == Header("Address") \o
  <<U8("NetSwitch"), U8("BindIndex"), Raw("ShortName", 18), Raw("LongName", 64), Raw("SwIn", 4),
    Raw("SwOut", 4), U8("SubSwitch"), U8("AcnPriority"), U8("Command")>>
AddressReads == Layout(107, Version \o
  <<U8("NetSwitch"), U8("BindIndex"), Raw("ShortName", 18), Raw("LongName", 64), Raw("SwIn", 4),
    Raw("SwOut", 4), U8("SubSwitch"), U8("AcnPriority"), U8("Command")>>, <<>>, NoTail)

InputWrites == Header("Input") \o
  <<U8("Filler1"), U8("BindIndex"), BE("NumPorts", 2), Raw("InputStates", 4)>>
InputReads == Layout(20, Version \o
  <<U8("Filler1"), U8("BindIndex"), BE("NumPorts", 2), Raw("InputStates", 4)>>, <<>>, NoTail)

IpProgWrites == Header("IpProg") \o
  <<U8("Filler1"), U8("Filler2"), U8("Command"), U8("Filler4"), Raw("ProgIP", 4),
    Raw("ProgSubnetMask", 4), Pad(2), Raw("ProgGateway", 4), Raw("Spare", 4)>>
IpProgReads == Layout(34, Version \o
  <<U8("Filler1"), U8("Filler2"), U8("Command"), U8("Filler4"), Raw("ProgIP", 4),
    Raw("ProgSubnetMask", 4), Pad(2), Raw("ProgGateway", 4), Raw("Spare", 4)>>, <<>>, NoTail)

IpProgReplyWrites == Header("IpProgReply") \o
  <<Pad(4), Raw("CurrentIP", 4), Raw("CurrentSubnet", 4), BE("CurrentPort", 2), U8("Status"), Pad(1),
    Raw("CurrentGateway", 4), Pad(2)>>
IpProgReplyReads == Layout(34, Version \o
  <<Pad(4), Raw("CurrentIP", 4), Raw("CurrentSubnet", 4), BE("CurrentPort", 2), U8("Status"), Pad(1),
    Raw("CurrentGateway", 4)>>, <<>>, NoTail)
-------------------------------------------------------------------------------
\* encodeIpProg's neighbours in Encode: which table a packet is written with.
Writes(kind) ==
  CASE kind = "Poll" -> PollWrites             [] kind = "PollReply" -> PollReplyWrites
    [] kind = "Dmx" -> DmxWrites               [] kind = "TodRequest" -> TodRequestWrites
    [] kind = "TodData" -> TodDataWrites       [] kind = "TodControl" -> TodControlWrites
    [] kind = "Rdm" -> RdmWrites               [] kind = "RdmSub" -> RdmSubWrites
    [] kind = "TimeCode" -> TimeCodeWrites     [] kind = "Address" -> AddressWrites
    [] kind = "Input" -> InputWrites           [] kind = "IpProg" -> IpProgWrites
    [] kind = "IpProgReply" -> IpProgReplyWrites

Reads(kind) ==
  CASE kind = "Poll" -> PollReads              [] kind = "PollReply" -> PollReplyReads
    [] kind = "Dmx" -> DmxReads                [] kind = "TodRequest" -> TodRequestReads
    [] kind = "TodData" -> TodDataReads        [] kind = "TodControl" -> TodControlReads
    [] kind = "Rdm" -> RdmReads                [] kind = "RdmSub" -> RdmSubReads
    [] kind = "TimeCode" -> TimeCodeReads      [] kind = "Address" -> AddressReads
    [] kind = "Input" -> InputReads            [] kind = "IpProg" -> IpProgReads
    [] kind = "IpProgReply" -> IpProgReplyReads

\* ArtDmx data is sent in an even number of slots, the last one zero if need be.
EvenSlots(n) == n + (n % 2)
TailBytes(kind, n) ==
  IF kind = "Dmx" THEN ItemBytes(n, 1) \o Zeros(n % 2)
  ELSE IF Reads(kind).tail.take = "none" THEN <<>>
  ELSE ItemBytes(n, Reads(kind).tail.width)

EncodePacket(kind, n, tail) == Write(Writes(kind), IF kind = "Dmx" THEN EvenSlots(n) ELSE n) \o tail


\* The count as it was read, out of the token that carries it.
CountRead(r) ==
  LET at == CHOOSE i \in DOMAIN r.got : r.got[i][1] = "count" IN r.got[at][2][1][2]

TailRead(b, r, tail) ==
  LET left == SubSeq(b, r.at + 1, Len(b))
      take == tail.take
  IN CASE take = "none"     -> [ok |-> TRUE, items |-> <<>>]
       [] take = "the rest" -> [ok |-> TRUE, items |-> Items(left, Len(left), 1)]
       [] take = "what is there" ->
            [ok |-> TRUE, items |-> Items(left, IF CountRead(r) > Len(left) THEN Len(left) ELSE CountRead(r), 1)]
       [] take = "all or none" ->
            [ok |-> Len(left) >= CountRead(r) * tail.width,
             items |-> IF Len(left) >= CountRead(r) * tail.width
                       THEN Items(left, CountRead(r), tail.width) ELSE <<>>]

Decoded(kind, fields, items) == [ok |-> TRUE, kind |-> kind, fields |-> fields, items |-> items]
Unknown(payload) == Decoded("unknown", <<>>, payload)
Refused == [ok |-> FALSE, kind |-> "", fields |-> <<>>, items |-> <<>>]

DecodeAs(kind, b) ==
  LET layout == Reads(kind)
      r == Read(b, ReaderAt(10), layout.must, layout.may)
  IN IF Len(b) < layout.least \/ ~r.ok THEN Refused
     ELSE LET t == TailRead(b, r, layout.tail)
          IN IF t.ok THEN Decoded(kind, r.got, t.items) ELSE Refused

\* ID, then the OpCode, low byte first, decide who reads the datagram.
DecodePacket(b) ==
  IF Len(b) < 10 \/ SubSeq(b, 1, 8) # ValueOf("ID", 8) THEN Refused
  ELSE LET code == Reverse(SubSeq(b, 9, 10))
           kinds == {k \in Kinds : code = ValueOf(k, 2)}
       IN IF kinds = {} THEN Unknown(SubSeq(b, 11, Len(b)))
          ELSE DecodeAs(CHOOSE k \in kinds : TRUE, b)
===============================================================================
