-------------------------------- MODULE WirePath --------------------------------
(* A datagram between two codecs: it arrives whole, with bytes after it, or cut *)
(* short anywhere.                                                               *)
EXTENDS RDMPackets, FiniteSets

CONSTANTS Sizes,        \* how many items, characters or groups a packet is given
          Padding       \* how many bytes a node may leave after a packet

Parameters ==
  {"SENSOR_DEFINITION", "SENSOR_VALUE", "PARAMETER_DESCRIPTION", "STATUS_MESSAGES", "SLOT_INFO",
   "SLOT_DESCRIPTION", "CURVE", "CURVE_DESCRIPTION", "MINIMUM_LEVEL", "PROXIED_DEVICE_COUNT",
   "PRODUCT_DETAIL_ID_LIST", "SUPPORTED_PARAMETERS", "DEVICE_HOURS", "PRESET_PLAYBACK",
   "SELFTEST_ENHANCED", "DEVICE_INFO", "DMX_PERSONALITY_DESCRIPTION", "LIST_INTERFACES",
   "INTERFACE_LABEL", "IPV4_CURRENT_ADDRESS"}
Classes == {"CommandClass", "no class of RDM"}

VARIABLE wire

\* A packet of each kind; an ArtRdm that carries each parameter, in either framing.
Sent(w) ==
  IF w.of \in Kinds THEN EncodePacket(w.of, w.size, TailBytes(w.of, w.size))
  ELSE EncodePacket("Rdm", 0, EncodeRdmPacket(w.class, EncodeData(Data(w.of), w.size), w.legacyStartCode))

Arrived(w) == SubSeq(Sent(w) \o Zeros(Padding), 1, w.length)

Message(of, size, class, legacy, length) ==
  [of |-> of, size |-> size, class |-> class, legacyStartCode |-> legacy, length |-> length]

WireInit ==
  \E of \in Kinds \cup Parameters, size \in Sizes, class \in Classes, legacy \in BOOLEAN :
    /\ of \in Kinds => class = "CommandClass" /\ ~legacy
    /\ wire = Message(of, size, class, legacy, Len(Sent(Message(of, size, class, legacy, 0))) + Padding)

Shortened == wire.length > 0 /\ wire' = [wire EXCEPT !.length = @ - 1]
WireNext == Shortened

WireSpec == WireInit /\ [][WireNext]_wire
-------------------------------------------------------------------------------
WireTypeOK ==
  /\ wire.of \in Kinds \cup Parameters /\ wire.size \in Sizes
  /\ wire.class \in Classes /\ wire.legacyStartCode \in BOOLEAN /\ wire.length \in Nat

WholeLength(w) == Len(Sent(w))
ItemsSent(w) ==
  LET tail == TailBytes(w.of, w.size)
      width == Reads(w.of).tail.width
  IN Items(tail, Len(tail) \div width, width)
Expected(w) ==
  Decoded(w.of, Whole(SubSeq(Writes(w.of), 3, Len(Writes(w.of))),
                      IF w.of = "Dmx" THEN EvenSlots(w.size) ELSE w.size), ItemsSent(w))

\* A packet that arrives whole is read as what was sent, field for field.
RoundTrips ==
  wire.of \in Kinds /\ wire.length = WholeLength(wire) => DecodePacket(Arrived(wire)) = Expected(wire)

\* A field of what was read is the field that was sent, or zero.
OwnOrZero(fields) ==
  \A i \in DOMAIN fields : fields[i][1] = "count" \/ fields[i][2] \in
                             {ValueOf(fields[i][1], Len(fields[i][2])), Zeros(Len(fields[i][2]))}
Between(of) == {Width(SubSeq(Writes(of), 1, i)) : i \in DOMAIN Writes(of)}

\* Nothing is misread in a packet cut short, but in a poll reply cut inside a field.
ShortIsNotMisread ==
  wire.of \in Kinds /\ (wire.of # "PollReply" \/ wire.length \in Between(wire.of)) =>
    LET got == DecodePacket(Arrived(wire)) IN got.ok /\ got.kind # "unknown" => OwnOrZero(got.fields)

\* Parameter data comes back out of its message and its ArtRdm as it went in, in both
\* framings and with bytes after it; cut anywhere, or in no class of RDM, it is refused.
\* Only a group too many for one message does not come back.
Payload(w) == EncodeData(Data(w.of), w.size)
Delivered(w) ==
  LET packet == DecodePacket(Arrived(w))
  IN IF ~packet.ok THEN BadMessage ELSE DecodedRDMMessage(BytesOf(packet.items, 1))
ReadBack(w, data) ==
  LET layout == Data(w.of)
      value == DecodeData(layout, data)
      rest == SubSeq(Payload(w), Width(layout.head) + 1, Len(Payload(w)))
  IN /\ value.ok
     /\ value.fields = Whole(layout.head, 0)
     /\ CASE layout.rest = "groups" -> BytesOf(value.rest, Width(layout.group)) = rest
          [] layout.rest = "a byte" -> value.rest = FirstByte(rest)
          [] OTHER -> value.rest = rest
StackDelivers ==
  wire.of \in Parameters =>
    LET message == Delivered(wire)
    IN IF wire.length < WholeLength(wire) \/ wire.class # "CommandClass" THEN ~message.ok
       ELSE /\ message.ok
            /\ message.fields = Whole(FrameBody("CommandClass"), Len(message.data))
            /\ message.data = Clamped(Payload(wire))
            /\ Len(Payload(wire)) =< MaxParameterDataLength => ReadBack(wire, message.data)

\* What the codecs of the two protocols promise each other.
WireInvariant == WireTypeOK /\ RoundTrips /\ ShortIsNotMisread /\ StackDelivers

\* "fields from BindIP (offset 207) onward default to zero if the packet is shorter": a
\* poll reply that ends inside one field does not put those bytes into a later one.
ShortReplyReadsZero ==
  wire.of = "PollReply" =>
    LET got == DecodePacket(Arrived(wire)) IN got.ok /\ got.kind # "unknown" => OwnOrZero(got.fields)
===============================================================================
