----------------------------- MODULE TestPatterns -----------------------------
(***************************************************************************)
(* What the tests put on the wire (patch/testpattern.go):                  *)
(* every selected test is resolved onto the functions of every fixture in  *)
(* scope, the tests are composed in one canonical order, and the base      *)
(* state fills what no test drives.  TestFades has what a change of the    *)
(* selection does to the frame, RigCheckEngine the life of the engine      *)
(* around it (which universes are started, which slots are claimed).       *)
(*                                                                         *)
(* Attributes are not strings: a function is [family, part, n], what the   *)
(* name matching reads from a GDTF name.  A byte is 0 .. Top and a 16-bit  *)
(* value is a pair of them, so that 257 becomes Top + 2.  A cycle has Cycle*)
(* steps, a tick Pace of them; every test runs at one cycle per Cycle      *)
(* steps.                                                                  *)
(***************************************************************************)
EXTENDS Integers, Sequences, FiniteSets

LOCAL SX == INSTANCE SequencesExt
LOCAL FX == INSTANCE FiniteSetsExt

CONSTANTS Targets,   \* what a scope may hold: whole fixtures and cells
          Target,    \* [Targets -> its address, functions, virtual dimmers]
          Specs,     \* the tests that may be selected
          Top,       \* the largest byte
          LastSlot,  \* the last slot of a universe
          Pace       \* steps of a cycle per tick

ASSUME PatternConstants == Top \in Nat /\ LastSlot \in Nat /\ Pace \in Nat

Cycle == 12
Word == Top * (Top + 2)
Half == (Top + 1) \div 2

-----------------------------------------------------------------------------
(* Kinds, identities and the canonical order.                               *)

KindOrder == << "dimmer_toggle", "dimmer_sine", "move_extreme", "ballyhoo",
                "colour_wheel_step", "colour_mix_sweep", "colour_fade", "frost",
                "gobo_step", "gobo_rotate", "prism_in_out", "prism_spin",
                "animation_spin", "manual_value", "shaper_individual",
                "shaper_all", "shaper_rotate" >>
KindRank(k) == CHOOSE i \in DOMAIN KindOrder : KindOrder[i] = k

StaticKinds == {"dimmer_toggle", "move_extreme", "manual_value"}
DimmerKinds == {"dimmer_toggle", "dimmer_sine"}
FocusAxes == {"Focus", "Zoom"}

GroupRank(s) ==
  CASE s.kind \in DimmerKinds -> 1
    [] s.kind = "move_extreme" -> IF s.axis \in FocusAxes THEN 5 ELSE 2
    [] s.kind = "ballyhoo" -> 2
    [] s.kind \in {"colour_wheel_step", "colour_mix_sweep", "colour_fade"} -> 3
    [] s.kind \in {"frost", "gobo_step", "gobo_rotate", "prism_in_out",
                   "prism_spin", "animation_spin"} -> 4
    [] s.kind = "manual_value" -> 5
    [] OTHER -> 6

\* One test per kind and target, whatever its other parameters.
TestID(s) == <<s.kind, s.axis, s.extreme, s.n>>

\* validatePatternSpec: a phase spread on a test without a cycle is refused.
ValidSpec(s) ==
  /\ s.kind \in StaticKinds => s.offMin = 0 /\ s.offMax = 0
  /\ s.kind = "move_extreme" =>
       s.extreme \in {"max", "min"} \cup (IF s.axis \in FocusAxes THEN {} ELSE {"centre"})
  /\ s.kind = "manual_value" => s.axis \in FocusAxes

\* An omitted maximum is the full range.
Normalized(s) == IF s.max = 0 THEN [s EXCEPT !.max = Top] ELSE s

Before(s, t) ==
  LET key(x) == <<GroupRank(x), KindRank(x.kind), x.n>> IN
  \E i \in 1 .. 3 : /\ key(s)[i] < key(t)[i]
                    /\ \A j \in 1 .. i - 1 : key(s)[j] = key(t)[j]

Canonical(T) == SX!SetToSortSeq(T, Before)

-----------------------------------------------------------------------------
(* Which functions of a fixture a test drives.                              *)

\* A value spans two bytes when the profile says so, or, silent, when two
\* slots share the function; one slot never holds two bytes.
ByteCount(f) ==
  LET stated == IF f.bytes > 0 THEN f.bytes
                ELSE IF Len(f.offs) >= 2 THEN 2 ELSE 1
  IN IF stated >= 2 /\ Len(f.offs) >= 2 THEN 2 ELSE 1

Functions(e, P(_)) == SelectSeq(Target[e].fns, P)

\* RGB when the fixture has all three, else CMY, else nothing.
MixFamily(e) ==
  LET whole(fam) == \A i \in 1 .. 3 : \E f \in SX!ToSet(Target[e].fns) :
                                       f.family = fam /\ f.n = i
  IN IF whole("ColorAdd") THEN "ColorAdd"
     ELSE IF whole("ColorSub") THEN "ColorSub" ELSE "none"

Drives(s, e, f) ==
  LET wanted == s.n = 0 \/ s.n = f.n IN
  CASE s.kind \in DimmerKinds -> f.family = "Dimmer"
    [] s.kind \in {"move_extreme", "manual_value"} -> f.family = s.axis /\ f.part = "whole"
    [] s.kind = "ballyhoo" -> f.family \in {"Pan", "Tilt"} /\ f.part = "whole"
    [] s.kind = "colour_wheel_step" -> f.family = "ColorWheel"
    [] s.kind \in {"colour_mix_sweep", "colour_fade"} -> f.family = MixFamily(e)
    [] s.kind = "frost" -> f.family = "Frost" /\ wanted
    [] s.kind = "gobo_step" -> f.family = "Gobo" /\ f.part = "whole" /\ wanted
    [] s.kind = "gobo_rotate" -> f.family = "Gobo" /\ f.part = "rotation" /\ wanted
    [] s.kind = "prism_in_out" -> f.family = "Prism" /\ f.part # "rotation"
    [] s.kind = "prism_spin" -> f.family = "Prism" /\ f.part = "rotation"
    [] s.kind = "animation_spin" -> f.family = "Animation"
    [] s.kind \in {"shaper_individual", "shaper_all"} ->
         f.family = "Blade" /\ f.part # "rotation"
    [] s.kind = "shaper_rotate" -> f.family = "Blade" /\ f.part = "rotation"

VirtualFn == [family |-> "Dimmer", part |-> "whole"]

\* A part dimmer the tests hold open is not driven: its first slot says which.
Held(e, f) == f.family = "Dimmer" /\ \E h \in SX!ToSet(Target[e].holds) : h[1] = f.offs[1]

\* A target of a test: a function of the fixture, or one of its virtual
\* dimmers, with its place among the functions the test drives.
Resolved(s, e) ==
  LET real == Functions(e, LAMBDA f : Drives(s, e, f))
      colours == s.kind \in {"colour_mix_sweep", "colour_fade"}
      role(i) == [fn |-> real[i], key |-> <<>>,
                  i |-> IF colours THEN real[i].n - 1 ELSE i - 1,
                  of |-> IF colours THEN 3 ELSE Len(real)]
      keys == IF s.kind \in DimmerKinds THEN Target[e].virtual ELSE <<>>
  IN [e |-> e, applied |-> real # <<>> \/ keys # <<>>,
      fns |-> SelectSeq([i \in DOMAIN real |-> role(i)], LAMBDA x : ~Held(e, x.fn)) \o
              [i \in DOMAIN keys |-> [fn |-> VirtualFn, i |-> 0, of |-> 1, key |-> keys[i]]]]

\* The tests a scope offers, each with the number of fixtures it drives: a
\* singleton kind when it resolves, a frost or a wheel by its own functions.
OfferedOn(e, virtual) ==
  LET fns == SX!ToSet(Target[e].fns)
      real(s) == \E f \in fns : Drives(s, e, f)
  IN {s \in Specs :
       CASE s.kind = "frost" -> \E f \in fns : f.family = "Frost" /\ f.n = s.n
         [] s.kind = "gobo_step" ->
              \E f \in fns : f.family = "Gobo" /\ f.part = "whole" /\ f.n = s.n
         [] s.kind = "gobo_rotate" ->
              \E f \in fns : f.family = "Gobo" /\ f.part = "rotation" /\ f.n = s.n
         [] OTHER -> real(s) \/ (virtual /\ s.kind \in DimmerKinds)}

-----------------------------------------------------------------------------
(* Waveforms: what a target is driven to, t ticks into the run.             *)

\* The raised cosine, in sixtieths of the span.
Cosine == <<0, 4, 15, 30, 45, 56, 60, 56, 45, 30, 15, 4>>

Steps60(shape, x) ==
  LET at == x % Cycle IN
  CASE shape = "snap" -> IF at < Cycle \div 2 THEN 60 ELSE 0
    [] shape = "cosine" -> Cosine[at + 1]
    [] shape = "saw" -> 5 * at
    [] shape = "triangle" -> 10 * (IF at < Cycle \div 2 THEN at ELSE Cycle - at)

Wave(s, native, x) == Steps60(IF s.wave = "snap" THEN "snap" ELSE native, x)

Scaled(b, bytes) == IF bytes >= 2 THEN b * (Top + 2) ELSE b
Full(bytes) == IF bytes >= 2 THEN Word ELSE Top

\* A wheel steps through its sets, one per cycle, and its phase picks which
\* set; a wheel without sets is swept raw.
WheelValue(sets, t, phase) ==
  IF sets = <<>> THEN (5 * ((t * Pace + phase) % Cycle) * Top) \div 60
  ELSE LET at == ((t * Pace + phase * Len(sets)) \div Cycle) % Len(sets) IN
       IF sets[at + 1] > Top THEN Top ELSE sets[at + 1]

Value(s, x, t, phase) ==
  LET f == x.fn
      bytes == IF x.key # <<>> THEN 1 ELSE ByteCount(f)
      a == Scaled(s.min, bytes)  b == Scaled(s.max, bytes)
      lo == IF b < a THEN b ELSE a
      hi == IF b < a THEN a ELSE b
      now == t * Pace + phase
      onto(sixtieths) == lo + (sixtieths * (hi - lo)) \div 60
      spun(sixtieths) == onto(IF s.ccw THEN 60 - sixtieths ELSE sixtieths)
      slice == (t * Pace + phase * x.of) % (Cycle * x.of)
  IN CASE s.kind = "move_extreme" ->
            (CASE s.extreme = "max" -> Full(bytes)
               [] s.extreme = "min" -> 0
               [] s.extreme = "centre" -> Full(bytes) \div 2)
       [] s.kind = "manual_value" -> Scaled(s.value, bytes)
       [] s.kind \in {"colour_wheel_step", "gobo_step"} ->
            Scaled(WheelValue(f.sets, t, phase), bytes)
       [] s.kind = "prism_in_out" ->
            LET inserted == Steps60("snap", now) = 60 IN
            IF Len(f.sets) >= 2 THEN f.sets[IF inserted THEN Len(f.sets) ELSE 1]
            ELSE IF inserted THEN hi ELSE lo
       [] s.kind = "ballyhoo" ->
            onto(Wave(s, "cosine", IF f.family = "Tilt" THEN now + Cycle \div 4 ELSE now))
       [] s.kind = "colour_fade" ->
            onto(Wave(s, "cosine", now + (x.i * Cycle) \div x.of))
       [] s.kind = "shaper_individual" ->
            IF slice \div Cycle = x.i THEN onto(5 * (slice % Cycle)) ELSE lo
       [] s.kind = "dimmer_toggle" -> IF s.on THEN hi ELSE lo
       [] s.kind \in {"prism_spin", "animation_spin", "gobo_rotate"} ->
            spun(Wave(s, "saw", now))
       [] s.kind = "shaper_rotate" -> onto(Wave(s, "triangle", now))
       [] OTHER -> onto(Wave(s, "cosine", now))

\* The phase spread: over the fixtures the test drives, by address or in the
\* scope's own order, the divisor being their number.
AssignPhases(s, targets, byScope) ==
  LET addressed(i, j) ==
        LET a == Target[targets[i].e]  b == Target[targets[j].e] IN
        \/ a.universe < b.universe
        \/ a.universe = b.universe /\ a.start < b.start
        \/ a.universe = b.universe /\ a.start = b.start /\ i < j
      weight(i) == IF Target[targets[i].e].weight < 1 THEN 1 ELSE Target[targets[i].e].weight
      earlier(i) == {j \in DOMAIN targets : IF byScope THEN j < i ELSE addressed(j, i)}
      sum(S) == FX!MapThenSumSet(weight, S)
  IN [i \in DOMAIN targets |->
        s.offMin + ((s.offMax - s.offMin) * sum(earlier(i))) \div sum(DOMAIN targets)]

\* A selected test, resolved over the scope (rebuild).
Built(s, scope, byScope) ==
  LET targets == SelectSeq([i \in DOMAIN scope |-> Resolved(s, scope[i])],
                           LAMBDA r : r.applied)
  IN [spec |-> s, targets |-> targets, phases |-> AssignPhases(s, targets, byScope)]

-----------------------------------------------------------------------------
(* Writes.  A write covers the slots of one function, coarse before fine,    *)
(* and knows its source: what must change for the slots to start a fade.     *)

TestSource(e, s, phase) == [e |-> e, spec |-> s, phase |-> phase, base |-> -1]
BaseSource(e, raw) == [e |-> e, spec |-> [kind |-> "none"], phase |-> 0, base |-> raw]
RemovedFrom(src) == [e |-> src.e, spec |-> [kind |-> "removed"], phase |-> 0, base |-> -1]

Continuous(f) ==
  /\ f.part = "whole"
  /\ f.family \in {"Dimmer", "Pan", "Tilt", "Focus", "Zoom", "Frost",
                   "ColorAdd", "ColorSub", "Blade"}

Write(e, f, offs, bytes, raw, src, test) ==
  [u |-> Target[e].universe, bytes |-> bytes, raw |-> raw, src |-> src, test |-> test,
   cont |-> Continuous(f),
   chs |-> [i \in DOMAIN offs |-> Target[e].start + offs[i] - 1]]

IsPair(w) == w.bytes >= 2 /\ Len(w.chs) >= 2
Written(w) ==
  {w.chs[i] : i \in IF IsPair(w) THEN {1, 2} ELSE DOMAIN w.chs} \cap (1 .. LastSlot)
Covers(w, u, ch) == w.u = u /\ ch \in Written(w)
ByteAt(w, ch) ==
  IF IsPair(w) /\ ch = w.chs[1] THEN (w.raw \div (Top + 1)) % (Top + 1)
  ELSE w.raw % (Top + 1)

TestWrites(built, t) ==
  SX!FlattenSeq([i \in DOMAIN built |->
    SX!FlattenSeq([j \in DOMAIN built[i].targets |->
      LET r == built[i].targets[j]
          phase == built[i].phases[j]
          s == built[i].spec
          reals == SelectSeq(r.fns, LAMBDA x : x.key = <<>>)
      IN [k \in DOMAIN reals |->
           Write(r.e, reals[k].fn, reals[k].fn.offs, ByteCount(reals[k].fn),
                 Value(s, reals[k], t, phase), TestSource(r.e, s, phase), TestID(s))]])])

\* The base state of a target: stated defaults, its dimmers full, its shutter
\* open, an unstated position centred; then the master of a cell and the part
\* dimmers its tests hold.  A write gives way whole when a test owns any slot.
Untaken(writes, taken) ==
  SelectSeq(writes, LAMBDA w : \A i \in DOMAIN w.chs : <<w.u, w.chs[i]>> \notin taken)

BaseWrite(e, f, raw) == Write(e, f, f.offs, ByteCount(f), raw, BaseSource(e, raw), "base")

Stated(e) ==
  LET fns == Functions(e, LAMBDA f : f.default >= 0) IN
  [i \in DOMAIN fns |-> BaseWrite(e, fns[i], fns[i].default)]

DimmersAt(e, full) ==
  LET fns == Functions(e, LAMBDA f : f.family = "Dimmer") IN
  [i \in DOMAIN fns |-> BaseWrite(e, fns[i], IF full THEN Full(ByteCount(fns[i])) ELSE 0)]

ShuttersOpen(e) ==
  LET fns == Functions(e, LAMBDA f : f.family = "Shutter" /\ f.open >= 0) IN
  [i \in DOMAIN fns |-> BaseWrite(e, fns[i], fns[i].open)]

Centred(e) ==
  LET fns == Functions(e, LAMBDA f : f.family \in {"Pan", "Tilt"} /\ f.part = "whole"
                                     /\ f.default < 0)
  IN [i \in DOMAIN fns |->
        BaseWrite(e, fns[i], IF ByteCount(fns[i]) >= 2 THEN Half * (Top + 1) ELSE Half)]

KeptOpen(e) ==
  LET kept == Target[e].masters \o Target[e].holds
      bytes(i) == IF Len(kept[i]) >= 2 THEN 2 ELSE 1
  IN [i \in DOMAIN kept |->
        Write(e, VirtualFn, kept[i], bytes(i), Full(bytes(i)), BaseSource(e, Full(bytes(i))),
              "opened")]

FirstOf(s) == SubSeq(s, 1, IF s = <<>> THEN 0 ELSE 1)

BaseOf(e, taken) ==
  Untaken(Stated(e), taken) \o FirstOf(Untaken(DimmersAt(e, TRUE), taken))
  \o Untaken(ShuttersOpen(e) \o Centred(e) \o KeptOpen(e), taken)

-----------------------------------------------------------------------------
(* One composed frame set, used by the wire and by the status alike.        *)

ScopeUniverses(scope) == {Target[scope[i]].universe : i \in DOMAIN scope}

LastCover(writes, u, ch) ==
  LET at == {i \in DOMAIN writes : Covers(writes[i], u, ch)} IN
  IF at = {} THEN 0 ELSE FX!Max(at)

\* The unit a write makes of its slots: one pair, or its slots one by one.
UnitKeys(w) ==
  {k \in (IF IsPair(w) THEN {<<w.u, w.chs[1], w.chs[2]>>}
          ELSE {<<w.u, w.chs[i], 0>> : i \in DOMAIN w.chs}) :
     k[2] \in 1 .. LastSlot /\ k[3] \in 0 .. LastSlot /\ k[3] # k[2]}

NotedBy(writes, u, ch) ==
  LET at == {i \in DOMAIN writes :
               \E k \in UnitKeys(writes[i]) : k[1] = u /\ ch \in {k[2], k[3]}} IN
  IF at = {} THEN 0 ELSE FX!Max(at)

\* A unit is whole when the last write on each of its slots is its own.
UnitsOf(writes) ==
  LET owns(i, k) == /\ NotedBy(writes, k[1], k[2]) = i
                    /\ k[3] # 0 => NotedBy(writes, k[1], k[3]) = i
      whole == {w \in UNION {{<<i, k>> : k \in UnitKeys(writes[i])} : i \in DOMAIN writes} :
                  owns(w[1], w[2])}
  IN [k \in {w[2] : w \in whole} |->
        LET i == CHOOSE j \in DOMAIN writes : <<j, k>> \in whole IN
        [src |-> writes[i].src, cont |-> writes[i].cont]]

FrameOf(writes, u) ==
  [ch \in 1 .. LastSlot |->
     LET i == LastCover(writes, u, ch) IN IF i = 0 THEN 0 ELSE ByteAt(writes[i], ch)]

\* Virtual dimmers: the tests' levels, later tests winning; a dimmer test also
\* shows the other colour scopes of its fixture white; the base state opens
\* what no test claims.
LevelClaims(built, t) ==
  LET levels(b, j) ==
        LET fns == SelectSeq(b.targets[j].fns, LAMBDA x : x.key # <<>>) IN
        [i \in DOMAIN fns |->
           [key |-> fns[i].key, kind |-> "level",
            level |-> Value(b.spec, fns[i], t, b.phases[j]) % (Top + 1),
            src |-> TestSource(b.targets[j].e, b.spec, b.phases[j])]]
  IN SX!FlattenSeq([i \in DOMAIN built |->
       SX!FlattenSeq([j \in DOMAIN built[i].targets |-> levels(built[i], j)])])

Claiming(e, keys, kind, base) ==
  [i \in DOMAIN keys |->
     [key |-> keys[i], kind |-> kind, level |-> Top, src |-> BaseSource(e, base)]]

WhiteClaims(built) ==
  SX!FlattenSeq([i \in DOMAIN built |->
    IF built[i].spec.kind \notin DimmerKinds THEN <<>>
    ELSE SX!FlattenSeq([j \in DOMAIN built[i].targets |->
           Claiming(built[i].targets[j].e, Target[built[i].targets[j].e].whites, "white", 0)])])

OpenClaims(scope) ==
  SX!FlattenSeq([i \in DOMAIN scope |->
    Claiming(scope[i], SelectSeq(Target[scope[i]].virtual \o Target[scope[i]].whites,
                                 LAMBDA k : k[2] = "dim"), "open", Top)])

\* A level replaces whatever claimed the key, the last one staying; white and
\* open only fill what nothing has set.
VirtualLevels(levels, fills) ==
  [k \in {levels[i].key : i \in DOMAIN levels} \cup {fills[i].key : i \in DOMAIN fills} |->
     LET set == {i \in DOMAIN levels : levels[i].key = k} IN
     IF set # {} THEN levels[FX!Max(set)]
     ELSE fills[FX!Min({i \in DOMAIN fills : fills[i].key = k})]]

TakenSlots(tested) ==
  UNION {{<<tested[i].u, ch>> : ch \in Written(tested[i])} : i \in DOMAIN tested}

BaseState(sel, taken) ==
  IF sel.isolate THEN <<>>
  ELSE SX!FlattenSeq([i \in DOMAIN sel.scope |-> BaseOf(sel.scope[i], taken)])

\* Where a fixture new to the scope starts: its defaults, its dimmers out.
StartFrame(scope, u) ==
  FrameOf(SX!FlattenSeq([i \in DOMAIN scope |->
            Stated(scope[i]) \o Centred(scope[i]) \o DimmersAt(scope[i], FALSE)]), u)

Noted(writes) == {s \in TakenSlots(writes) : NotedBy(writes, s[1], s[2]) # 0}

Frameset(scope, writes, tested, virtual) ==
  [frames |-> [u \in ScopeUniverses(scope) |-> FrameOf(writes, u)],
   starts |-> [u \in ScopeUniverses(scope) |-> StartFrame(scope, u)],
   units |-> UnitsOf(writes), noted |-> Noted(writes), tested |-> TakenSlots(tested),
   virtual |-> virtual]

ComposeBuilt(sel, built, t, tested) ==
  Frameset(sel.scope, tested \o BaseState(sel, TakenSlots(tested)), tested,
           VirtualLevels(LevelClaims(built, t),
                         WhiteClaims(built) \o
                           (IF sel.isolate THEN <<>> ELSE OpenClaims(sel.scope))))

ComposeTests(sel, built, t) == ComposeBuilt(sel, built, t, TestWrites(built, t))

BuildAll(order, sel) == [i \in DOMAIN order |-> Built(order[i], sel.scope, sel.byScope)]

ComposeAt(sel, t) == ComposeTests(sel, BuildAll(Canonical(sel.tests), sel), t)
=============================================================================
