------------------------------- MODULE MCBenchSide -------------------------------
(* Rig Check driven by every order of its own methods, the Tests layer that     *)
(* drives it, what its tests put on the wire, and the layout fixtures are       *)
(* picked from: a behaviour is one of them.                                     *)
EXTENDS TestsLayer, TestFades, ShowLayout, TLC

CONSTANTS a1, a2, b1, A, B, q1, x1, x2, x3, g1

Universes == (a1 :> 1) @@ (a2 :> 2) @@ (b1 :> 1)
Footprints == (a1 :> 2) @@ (a2 :> 1) @@ (b1 :> 1)
OfShow == (a1 :> A) @@ (a2 :> A) @@ (b1 :> B)
FirstPatches == (A :> {a1}) @@ (B :> {b1})
OwnEntries == {a1, a2}
Step(T, at, waits) == [tests |-> T, scope |-> at, auto |-> waits]
TwoSteps == { <<Step({1}, "all", TRUE), Step({2}, "selection", TRUE)>> }

\* A moving spot with a 16-bit dimmer; an RGB wash with a virtual dimmer, on
\* its own universe; a cell with a held part, on slots of the spot.
Fn(fam, what, i, at, default) ==
  [family |-> fam, part |-> what, n |-> i, offs |-> at, bytes |-> Len(at),
   default |-> default, sets |-> <<>>, open |-> -1]
Fixture(u, at, f) ==
  [universe |-> u, start |-> at, weight |-> 0, fns |-> f, virtual |-> <<>>,
   whites |-> <<>>, masters |-> <<>>, holds |-> <<>>]
Spot == [Fixture(1, 1, << Fn("Dimmer", "whole", 0, <<1, 2>>, 0),
                          [Fn("Gobo", "whole", 1, <<3>>, 0) EXCEPT !.sets = <<0, 2>>],
                          Fn("Pan", "whole", 0, <<4>>, -1),
                          [Fn("Shutter", "whole", 1, <<5>>, 0) EXCEPT !.open = 2] >>)
           EXCEPT !.whites = << <<"spot", "fill">> >>]
Wash == [Fixture(2, 1, << Fn("ColorAdd", "whole", 1, <<1>>, 0),
                          Fn("ColorAdd", "whole", 2, <<2>>, 0),
                          Fn("ColorAdd", "whole", 3, <<3>>, 0) >>)
           EXCEPT !.virtual = << <<"wash", "dim">> >>, !.masters = << <<4>> >>]
Cell == [Fixture(1, 1, << Fn("Dimmer", "whole", 0, <<6>>, -1),
                          [Fn("Prism", "whole", 1, <<3, 4>>, -1) EXCEPT !.sets = <<0, 3>>] >>)
           EXCEPT !.masters = << <<1, 2>> >>, !.holds = << <<6>> >>]
Rig == [t \in {"spot", "wash", "cell"} |->
          CASE t = "spot" -> Spot [] t = "wash" -> Wash [] t = "cell" -> Cell]
Test(k) == [kind |-> k, axis |-> "", extreme |-> "", n |-> 0, min |-> 0, max |-> 0,
            wave |-> "sine", ccw |-> FALSE, on |-> FALSE, offMin |-> 0, offMax |-> 0,
            value |-> 0]
Sine == [Test("dimmer_sine") EXCEPT !.offMax = 12]
Toggle == [Test("dimmer_toggle") EXCEPT !.on = TRUE]
PanMax == [Test("move_extreme") EXCEPT !.axis = "Pan", !.extreme = "max"]
Gobo1 == [Test("gobo_step") EXCEPT !.n = 1]
PatternTests == {Sine, Toggle, PanMax, Gobo1, Test("colour_fade"), Test("prism_in_out")}
Pick(at, T) == [scope |-> at, tests |-> T]
PatternPicks == { Pick(<<>>, {Sine}),
                  Pick(<<"spot", "wash">>, {Sine, Toggle}),
                  Pick(<<"spot">>, {PanMax, Gobo1}),
                  Pick(<<"cell", "wash">>, {Toggle, Test("colour_fade")}),
                  Pick(<<"cell", "spot">>, {Sine, Test("prism_in_out")}),
                  Pick(<<"spot", "cell", "wash">>, {Sine, PanMax}) }
LastTick == 3

(* Shows a server may open, each with a way into a corner of the layout: new,  *)
(* fresh from an import, of the first release, crowded around a position,      *)
(* without a free cell near one, with all its layers taken, and derived by the *)
(* server with hand work on top.                                               *)
ByFixture(a, b, c) == (x1 :> a) @@ (x2 :> b) @@ (x3 :> c)
PlanOf(order, a, b, c) == [order |-> order, at |-> ByFixture(a, b, c), groups |-> {g1}]

Rect(col, row, w, h) == [col |-> col, row |-> row, w |-> w, h |-> h]
ItemOf(id, kind, ref, layer, s, mode) == [ItemAt(id, kind, ref, layer, s, 0) EXCEPT !.mode = mode]
LayerOf(id, z) == [id |-> id, z |-> z]

TwoSpots == {Rect(0, 0, 1, 1), Rect(1, 0, 2, 1)}
TwoOutlines == {[shape |-> "line", from |-> <<1, 0>>, to |-> <<-1, 2>>],
                [shape |-> "rect", from |-> <<-1, -1>>, to |-> <<1, 2>>]}
TwoRanges == {<<>>, <<8, 10>>}
TwoCells == <<5, 3>>
TwoGaps == <<3, 9>>
TwoRelocations == {ByFixture(<<0, 0, 9>>, <<1, 3, 2>>, <<2, 0, 0>>), ByFixture(nowhere, nowhere, nowhere)}

NeverDerived(layers, items) ==
  [derived |-> FALSE, autoDerived |-> FALSE, autoLayers |-> {}, cell |-> 0, gap |-> 0, origin |-> <<0, 0>>,
   layers |-> layers, items |-> items]
DerivedAt(origin, layers, items) ==
  [NeverDerived(layers, items) EXCEPT !.derived = TRUE, !.cell = 5, !.gap = 3, !.origin = origin]

NewShow == [plan |-> [PlanOf(<<>>, nowhere, nowhere, nowhere) EXCEPT !.groups = {}], layout |-> NeverDerived(<<>>, <<>>)]

Imported == [plan |-> PlanOf(<<x1, x2, x3>>, <<0, 0, 0>>, <<2, 1, 1>>, nowhere), layout |-> NeverDerived(<<>>, <<>>)]

FirstRelease ==
  [plan |-> PlanOf(<<x1, x2>>, nowhere, nowhere, <<0, 5, 9>>),
   layout |-> NeverDerived(<<LayerOf(1, <<>>)>>, <<ItemOf(Numbered(2), "entry", x1, 1, Rect(0, 0, 1, 1), "")>>)]

Crowded ==
  [plan |-> PlanOf(<<x3, x1, x2>>, nowhere, <<1, 0, 0>>, <<2, 0, 1>>),
   layout |-> DerivedAt(<<0, 0>>, <<LayerOf(1, <<0, 2>>), LayerOf(Unplaced, <<>>)>>,
     <<ItemOf(Numbered(2), "group", g1, 1, Rect(-1, -1, 3, 2), "manual"),
       ItemOf(EntryItem(x1), "entry", x1, 1, Rect(0, 1, 2, 1), "manual")>>)]

Walled ==
  [plan |-> PlanOf(<<x1, x2>>, <<10, 0, 0>>, <<9, 2, 1>>, nowhere),
   layout |-> DerivedAt(<<0, 10>>, <<LayerOf(1, <<0, 2>>), LayerOf(Unplaced, <<>>)>>,
     <<ItemOf(Numbered(2), "group", g1, 1, Rect(0, 0, 3, 3), "manual")>>)]

AllLayers ==
  [plan |-> PlanOf(<<x1, x2>>, <<0, 0, 0>>, <<2, 1, 5>>, nowhere),
   layout |-> NeverDerived(<<LayerOf(1, <<>>), LayerOf(2, <<20, 30>>), LayerOf(3, <<>>), LayerOf(Unplaced, <<>>)>>,
     <<ItemOf(EntryItem(x2), "entry", x2, Unplaced, Rect(0, 0, 1, 1), "manual")>>)]

OnItsOwn ==
  [plan |-> PlanOf(<<x1, x2, x3>>, <<0, 0, 0>>, <<2, 1, 6>>, <<5, 1, 0>>),
   layout |-> [DerivedAt(<<0, 1>>, <<LayerOf(1, <<0, 0>>), LayerOf(2, <<6, 6>>), LayerOf(Unplaced, <<>>)>>,
     <<ItemOf(Numbered(4), "entry", x3, 1, Rect(2, 2, 1, 1), "manual"),
       Drawn(ObjectItem(Numbered(3), 2, 0), CHOOSE o \in TwoOutlines : o.shape = "line"),
       ItemOf(EntryItem(x1), "entry", x1, 1, Rect(0, 0, 1, 1), "auto"),
       ItemOf(EntryItem(x2), "entry", x2, 2, Rect(0, 0, 1, 1), "auto")>>)
     EXCEPT !.autoDerived = TRUE, !.autoLayers = {1, 2}]]

SomeShows == {NewShow, Imported, FirstRelease, Crowded, Walled, AllLayers, OnItsOwn}

VARIABLE part
allVars == <<layerVars, patternVars, layoutVars, part>>

(* Alone, the engine is handed entries by its caller, whatever the show holds. *)
SideInit ==
  \/ part = "layer" /\ LayerInit /\ PatternInit
  \/ /\ part = "engine" /\ RigInit /\ NothingChosen /\ PatternInit
     /\ show = A /\ patch = [s \in Shows |-> Entries]
     /\ stored = [s \in Shows |-> [q \in SeqIds |-> none]]
  \/ part \in {"patterns", "layout"} /\ PatternInit /\ rig = IdleRig(TRUE) /\ NothingChosen
     /\ show = A /\ patch = FirstPatches /\ stored = [s \in Shows |-> [q \in SeqIds |-> none]]

Init == SideInit /\ LayoutInit /\ (part # "layout" => plan = NewShow.plan)

Next ==
  \/ part = "layer" /\ LayerNext /\ UNCHANGED <<patternVars, layoutVars, part>>
  \/ part = "patterns" /\ PatternNext /\ UNCHANGED <<layerVars, layoutVars, part>>
  \/ part = "layout" /\ LayoutNext /\ UNCHANGED <<layerVars, patternVars, part>>
  \/ part = "engine" /\ RigNext
     /\ UNCHANGED <<show, patch, stored, picked, testsVars, req, patternVars, layoutVars, part>>

Spec == Init /\ [][Next]_allVars

(* The state has the shape the code gives it; a stopped engine holds nothing and *)
(* a running output always has a tick to come; every claimed slot lies in the    *)
(* scope; a channel walk lights the entry under the cursor; a running sequence   *)
(* is the stored one; and the layout shows every fixture in a cell of its own,   *)
(* the automatic ones nearest their positions.                                   *)
BenchInvariant ==
  /\ RigTypeOK /\ LayerTypeOK
  /\ StoppedOrTicking
  /\ ClaimsItsScope
  /\ WalkLightsCursor
  /\ RunsWhatIsStored
  /\ part = "layout" => LayoutInvariant
=============================================================================
