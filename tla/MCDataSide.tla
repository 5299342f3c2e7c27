------------------------------- MODULE MCDataSide -------------------------------
(* One run for what is known of fixtures and how it gets here: each behaviour    *)
(* moves the library, one fixture's parameter model, the requests that ask a     *)
(* responder what it supports or what a parameter looks like, a value on its way *)
(* to the device and back, or one datagram.                                      *)
EXTENDS LibraryMerge, FixtureModel, ProbeGate, ParamDescriptors, WirePath, TLC

CONSTANTS spot, wash, h, z, x1, x2, y, r1, r2, own, u1

Makers == <<{}, {spot}, {wash}>>
Models == <<{}, {wash}, {wash, y}, {y}>>

(* A head, a module and two instances of its part, and one of another part, in every *)
(* geometry tree where the module hangs from the head at most, and the head from     *)
(* nothing that has a dimmer of the module's part.                                   *)
KeyOf == (h :> "head") @@ (z :> "pixel") @@ (x1 :> "pixel") @@ (x2 :> "pixel") @@ (y :> "ring")
Bodies == {"", "head"}
Leads(t) ==
  LET to(i) == IF i = Root THEN Root ELSE t[i]
  IN \A i \in Instances : to(to(to(to(t[i])))) = Root
AllTrees == {t \in [Instances -> Anywhere] :
  Leads(t) /\ t[h] \in {y, Root} /\ t[z] \in {h, Root} /\ t[y] \in {h, z, Root}}
OwnAttrs == {{"Dimmer"}, {"Colour"}, {"Dimmer", "Colour"}}
AllCarried ==
  {(h :> hs) @@ (z :> zs) @@ (x1 :> xs) @@ (x2 :> xt) @@ (y :> ys) @@ (Root :> {}) :
     hs \in {{}, {"Dimmer"}}, zs \in {{}, {"Dimmer"}}, xs \in OwnAttrs, xt \in OwnAttrs \cup {{}}, ys \in OwnAttrs \cup {{}}}
Plain == [attrs |-> [i \in Anywhere |-> {}], tree |-> NoTree]

OnePacket == Message("Poll", 0, "CommandClass", FALSE, 0)
Readers2 == Permutations({r1, r2})

\* Layouts of every numeric type with no range, the least, the whole of the type and one
\* too wide for it; a text with no size, a small and a large one; and what is not editable.
OneByte == [typed |-> TRUE, settable |-> TRUE, type |-> "UnsignedByte", pdl |-> 1, min |-> 0, max |-> 0]
Untyped == [OneByte EXCEPT !.typed = FALSE]
AsText == [OneByte EXCEPT !.type = "ASCII"]
Ranges(t) == {<<0, 0>>, <<0, 1>>, <<Lowest(t), Highest(t)>>, <<Lowest(t), Highest(t) + 1>>}
AllDescriptors ==
  UNION {{[OneByte EXCEPT !.type = t, !.min = r[1], !.max = r[2]] : r \in Ranges(t)} : t \in Numeric}
  \cup {[AsText EXCEPT !.pdl = n] : n \in {0, 2, 40}}
  \cup {[OneByte EXCEPT !.settable = FALSE], [OneByte EXCEPT !.type = "BitField"], Untyped}
FirstLayouts == {OneByte, AsText, Untyped}
Edges == {-129, -128, -9, -8, -3, -2, -1, 0, 1, 2, 3, 4, 7, 8, 15, 16, 127, 128, 255, 256}
AllInputs ==
  [form : {"number"}, hex : {FALSE}, n : Edges] \cup [form : {"text"}, hex : BOOLEAN, n : {0, 2, 36}]
  \cup [form : {"array"}, hex : {FALSE}, n : {0, 1, 2}]
NothingTyped == [typed |-> [form |-> "array", hex |-> FALSE, n |-> 0], read |-> Untyped, sent |-> Untyped, lost |-> 0]

VARIABLE part
dataVars == <<library, fixture, probeVars, wire>>
deviceVars == <<editorVars, exchange>>
allVars == <<dataVars, deviceVars, part>>

Parts == {"library", "fixture", "probes", "wire", "one device", "one parameter", "exchange"}

Init ==
  /\ part \in Parts
  /\ LibInit /\ ProbeInit /\ EditorInit
  /\ IF part = "fixture" THEN FixtureInit
     ELSE fixture = [profile |-> Plain, model |-> BuildFixtureModel(Plain)]
  /\ IF part = "wire" THEN WireInit ELSE wire = OnePacket
  /\ IF part = "exchange" THEN ExchangeInit ELSE exchange = NothingTyped

\* The editor, with walks and values set on every parameter of one device, and with values
\* read of one parameter of every device: each read asks as one of the others does.
OneDevice ==
  EditorNext /\ \A c \in Editors :
    editor'[c].uid = u1 /\ (editor'[c].for = "get" => editor'[c].at = "idle")
OneParameter ==
  EditorNext /\ \A c \in Editors :
    editor'[c].pid = own /\ editor'[c].for = "get"

DataNext ==
  \/ part = "library" /\ LibNext /\ UNCHANGED <<fixture, probeVars, wire>>
  \/ part = "fixture" /\ FixtureNext /\ UNCHANGED <<library, probeVars, wire>>
  \/ part = "probes" /\ ProbeNext /\ UNCHANGED <<library, fixture, wire>>
  \/ part = "wire" /\ WireNext /\ UNCHANGED <<library, fixture, probeVars>>

DeviceNext ==
  \/ part = "one device" /\ OneDevice /\ UNCHANGED exchange
  \/ part = "one parameter" /\ OneParameter /\ UNCHANGED exchange
  \/ part = "exchange" /\ ExchangeNext /\ UNCHANGED editorVars

Next ==
  \/ DataNext /\ UNCHANGED <<deviceVars, part>>
  \/ DeviceNext /\ UNCHANGED <<dataVars, part>>

Spec == Init /\ [][Next]_allVars

(* The library is one its own loader accepts, with every stamp on the data that *)
(* was verified, and putting the same record in again changes nothing; what a   *)
(* parameter looks like is asked once for all devices, and a value arrives as   *)
(* it was typed; what a datagram carries is read back as it was meant, however  *)
(* short it arrives.                                                            *)
DataSideInvariant ==
  /\ part = "library" => LoadsAgain /\ StampIsCurrent /\ UpsertSettles
  /\ part \in {"one device", "one parameter"} => EditorInvariant
  /\ part = "exchange" => ExchangeInvariant
  /\ part = "wire" => WireInvariant
=============================================================================
