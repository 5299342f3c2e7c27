------------------------------- MODULE MCShowSide -------------------------------
(* One run for what is stored and what the show says of its rig: each behaviour  *)
(* moves the files, the shows in memory, the programmer, the findings of a patch, *)
(* an entry and its devices, or the order of a walk, so that the states add up    *)
(* instead of multiplying.                                                       *)
EXTENDS ShowStore, ShowEdits, Programmer, PatchReview, TLC

CONSTANTS f1, f2, s1, s2, e1, e2, a, b, c1, c2, d1, d2, n1

AllAlike == [d \in {a, b} |-> 60]

(* The rig of the programmer: two fixtures -- a moving light with a mode master, a command and a raw byte, *)
(* and a bar of two cells on virtual dimmers with a strobe part and a software  *)
(* master -- and one edit of the show, which removes the bar, moves the light   *)
(* and changes its profile.  Offsets past LastSlot stand for parameters that    *)
(* have no byte.                                                                *)
Only(S, x, v) == [p \in S |-> IF p = x THEN v ELSE -1]

SpotParams == {"dim", "gobo", "index", "raw"}
Spot ==
  [type |-> "spot", params |-> SpotParams, raws |-> {"raw"}, cells |-> {},
   attr |-> ("dim" :> "Dimmer") @@ ("gobo" :> "Gobo") @@ ("index" :> "Index") @@ ("raw" :> ""),
   cell |-> [p \in SpotParams |-> ""],
   group |-> ("dim" :> "dimmer") @@ ("gobo" :> "beam") @@ ("index" :> "beam") @@ ("raw" :> "beam"),
   offset |-> ("dim" :> 1) @@ ("gobo" :> 2) @@ ("index" :> 3) @@ ("raw" :> 4),
   virtuals |-> {}, masters |-> {}, masterPart |-> {"body"},
   parts |-> ("body" :> [outer |-> {"dim"}, inner |-> {}]),
   rest |-> [p \in SpotParams |-> 0],
   high |-> Only(SpotParams, "dim", 2),
   locate |-> ("gobo" :> 0) @@ Only(SpotParams, "dim", 2),
   needs |-> {[param |-> "index", from |-> 1, master |-> "gobo", lo |-> 1, hi |-> 1]},
   slot |-> ("gobo" :> ((0 :> 0) @@ (1 :> 1) @@ (2 :> 1))),
   commands |-> {<<"gobo", 2>>}, opens |-> NoFrames]
SpotAgain == [Spot EXCEPT !.needs = {}, !.commands = {}]

BarParams == {"cell1", "cell2", "strobe", "master"}
Bar ==
  [type |-> "bar", params |-> BarParams, raws |-> {}, cells |-> {"c1", "c2"},
   attr |-> [p \in BarParams |-> "Dimmer"],
   cell |-> ("cell1" :> "c1") @@ ("cell2" :> "c2") @@ [p \in BarParams |-> ""],
   group |-> [p \in BarParams |-> "dimmer"],
   offset |-> ("strobe" :> 1) @@ ("cell1" :> 101) @@ ("cell2" :> 102) @@ ("master" :> 100),
   virtuals |-> {"cell1", "cell2", "master"}, masters |-> {"master"}, masterPart |-> {},
   parts |-> ("pixels" :> [outer |-> {"cell1"}, inner |-> {"cell2"}])
             @@ ("strobe" :> [outer |-> {"strobe"}, inner |-> {}]),
   rest |-> [p \in BarParams |-> 0], high |-> [p \in BarParams |-> 2],
   locate |-> [p \in BarParams |-> 2],
   needs |-> {}, slot |-> NoFrames, commands |-> {},
   opens |-> [c \in {"c1", "c2"} |-> {"master"}]]

AllProfiles == ("Spot" :> Spot) @@ ("SpotAgain" :> SpotAgain) @@ ("Bar" :> Bar)
At(profile, slot) == [profile |-> profile, at |-> slot]
OneGroup == "g" :> {<<"a", "">>, <<"b", "c2">>}
TwoFixtures == [order |-> <<"a", "b">>, groups |-> OneGroup,
                patch |-> ("a" :> At("Spot", 1)) @@ ("b" :> At("Bar", 5))]
OneLeft == [order |-> <<"a">>, groups |-> OneGroup, patch |-> ("a" :> At("SpotAgain", 7))]
BothShows == {TwoFixtures, OneLeft}
Stored(e, t, p, v) == [entry |-> e, type |-> t, param |-> p, value |-> v]
OnePreset == {<<Stored("a", "spot", "index", 2), Stored("x", "bar", "cell1", 1)>>}
Targets == {<< <<"b", "">>, <<"b", "c1">> >>}
Focuses == {{"select", "values"}, {"select", "highlight"}, {"faders"},
            {"faders", "arm"}, {"select", "commands", "arm"}}

\* Entries of two universes at both ends of one and on either side of each other.
Entries ==
  [universe : {0, 1}, start : {0, 2, 3, 511, 513}, footprint : {0, 2}, number : {unnumbered, n1}]
FittedIn == (d1 :> {"panInvert"}) @@ (d2 :> {})
FirstSetting == CHOOSE v \in SettingValues : TRUE
AtHome ==
  [uid |-> uncommitted, own |-> [f \in OwnFields |-> FirstSetting], foundUID |-> uncommitted,
   found |-> EmptyAsFound, intended |-> [f \in Optional |-> SettingUnknown]]

\* What is not known of a device is nought; no order compares both a port and when a device
\* was seen, so that one number may stand for the two.
Walks ==
  {w \in [uid : 1 .. 3, model : {1}, port : {1, 2}, address : {1, 2}, known : BOOLEAN,
          channels : {0, 3}, probed : BOOLEAN, seen : {1, 2}] :
     w.seen = w.port /\ (w.known \/ w.address = 1) /\ (w.probed \/ w.channels = 0)}

VARIABLE part
reviewVars == <<patch, diffVars, candidates>>
showVars == <<storeVars, editVars, progVars>>
allVars == <<showVars, reviewVars, part>>

\* The two settings are alike: an entry that has an address may as well have the first,
\* and so may the device that is never set.
DiffStarts ==
  /\ DiffInit
  /\ \A f \in OwnFields : entry.own[f] < 2
  /\ \A f \in Fields : device[d2][f] = FirstSetting

Init ==
  /\ part \in {"store", "edits", "programmer", "patch", "diff", "order"}
  /\ StoreInit /\ (part # "store" => store = "show")
  /\ EditInit
  /\ part # "edits" => \A d \in Devices : rig[d] = [addr |-> 1, setting |-> 1]
  /\ ProgrammerInit /\ (part # "programmer" => focus = {"faders"})
  /\ ReviewInit /\ WalkOrderInit
  /\ IF part = "diff" THEN DiffStarts
     ELSE /\ entry = AtHome /\ passes = [q \in Requests |-> NoPass] /\ since = {}
          /\ device = [d \in Rig |-> [f \in Fields |-> FirstSetting]]

ShowNext ==
  \/ part = "store" /\ StoreNext /\ UNCHANGED <<editVars, progVars>>
  \/ part = "edits" /\ EditNext /\ UNCHANGED <<storeVars, progVars>>
  \/ part = "programmer" /\ ProgrammerNext /\ UNCHANGED <<storeVars, editVars>>

\* The second device is there to be committed instead; the first alone is set.
RigNext ==
  \/ part = "patch" /\ ReviewNext /\ UNCHANGED <<diffVars, candidates>>
  \/ part = "diff" /\ DiffNext /\ device'[d2] = device[d2] /\ UNCHANGED <<patch, candidates>>
  \/ part = "order" /\ WalkOrderNext /\ UNCHANGED <<patch, diffVars>>

Next ==
  \/ ShowNext /\ UNCHANGED <<reviewVars, part>>
  \/ RigNext /\ UNCHANGED <<showVars, part>>

Spec == Init /\ [][Next]_allVars

Alike == Permutations({c1, c2}) \cup Permutations({s1, s2})
         \cup Permutations({a, b}) \cup Permutations({e1, e2})

(* The state has the shape the code gives it, a show that was saved can be       *)
(* opened again after a crash, from the file or from its backup, and what the    *)
(* patch says of itself, of its devices and of their order is so.                *)
ShowSideInvariant ==
  /\ StoreTypeOK /\ EditTypeOK /\ CanRecover
  /\ part = "patch" => OverlapsAreShared /\ CleanPatchIsSound
  /\ part = "diff" => NotFittedIsTrue /\ DiffIsTrue /\ ApplyIsHonoured
  /\ part = "order" => OneWalkOrder
=============================================================================
