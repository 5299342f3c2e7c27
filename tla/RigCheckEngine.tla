--------------------------- MODULE RigCheckEngine ---------------------------
(***************************************************************************)
(* Rig Check (patch/rigcheck.go, rigcheckout.go, testpattern.go): the one  *)
(* object that renders the Tests layer.  It has a SELECTION (scope, tests, *)
(* isolate) that survives a stop, an OUTPUT that a stop ends, the older    *)
(* channel walk (Start/Next/StepChannel), the universes it has started and *)
(* the slots it claims in the output engine, and a self-rearming tick      *)
(* whose callback may already wait for the lock when it is cancelled.      *)
(*                                                                         *)
(* Every method runs under RigCheck.mu, so it is one step; each is an      *)
(* operator from a rig to a rig, so that the web layer's module (TestsLayer)*)
(* composes the same definitions.  A slot is <<entry, offset>>; a waveform *)
(* value is abstracted to "may be lit", and so is what only changes values *)
(* (isolate, fade times, parameters, base state).                          *)
(***************************************************************************)
EXTENDS Integers, Sequences, FiniteSets

CONSTANTS Entries,     \* resolved copies of patch entries
          UniverseOf,  \* [Entries -> universes]
          Footprint,   \* [Entries -> Nat], 0 for an entry without channels
          Tests,       \* test identities (TestID)
          MaxLate,     \* bound: tick callbacks waiting for the lock
          Walked       \* bound: the entries the engine alone is driven with

ASSUME EngineConstants == /\ Footprint \in [Entries -> Nat]
                          /\ UniverseOf \in [Entries -> Nat]
                          /\ MaxLate \in Nat /\ Walked \subseteq Entries

Modes == {"all", "step", "highlight"}

Slots(e) == {e} \X (1 .. Footprint[e])
AllSlots == UNION {Slots(e) : e \in Entries}
UniversesOf(E) == {UniverseOf[e] : e \in E}
Members(s) == {s[i] : i \in DOMAIN s}

IdleRig(follows) ==
  [running |-> FALSE, output |-> FALSE, follow |-> follows, layer |-> FALSE,
   scope |-> {}, tests |-> {},
   live |-> {}, claim |-> {}, lit |-> {}, armed |-> FALSE, late |-> 0,
   entries |-> <<>>, mode |-> "highlight", level |-> 1, idx |-> 1, off |-> 0]

-----------------------------------------------------------------------------
(* rigcheckout.go and the stop path.                                        *)

\* setFrames: only slots of started universes are published and claimed.
Publish(r, slots, glowing) ==
  LET kept == {s \in slots : UniverseOf[s[1]] \in r.live} IN
  [r EXCEPT !.claim = kept, !.lit = kept \cap glowing]

BlackedOut(r) == Publish(r, r.claim, {})

\* stopAll: every started or claimed universe is released.
ReleasedAll(r) == [r EXCEPT !.live = {}, !.claim = {}, !.lit = {}]

CancelPatternOutput(r) == [r EXCEPT !.armed = FALSE, !.output = FALSE]

\* The choke point of every stop; the selection is left alone.
Halt(r) ==
  LET dark == IF r.layer THEN r ELSE BlackedOut(r) IN
  CancelPatternOutput([ReleasedAll(dark) EXCEPT !.running = FALSE])

ArmTick(r) == [r EXCEPT !.armed = TRUE]

\* A universe the scope covers must be started before it is published.
StartUniverses(r, E) == [r EXCEPT !.live = @ \cup UniversesOf(E)]

\* recomputePatternLocked: the whole scope is claimed, in one publication.
Compose(r) ==
  LET slots == UNION {Slots(e) : e \in r.scope} IN
  IF r.output THEN Publish(r, slots, slots) ELSE r

-----------------------------------------------------------------------------
(* Pattern output and the selection.                                        *)

StartOutput(r) ==
  IF r.scope = {} \/ r.output THEN r
  ELSE LET clean == StartUniverses(Halt(r), r.scope)
           on == [clean EXCEPT !.output = TRUE, !.running = TRUE]
       IN ArmTick(Compose(on))

PreparesNothing(r, E) == r  \* bug: a universe gained while live is not started

PreparePatternScope(r, E) == IF r.output THEN StartUniverses(r, E) ELSE r

Wanted(r) == r.tests # {} /\ r.scope # {}

\* With follow set, the selection itself switches the output.
AfterSelectionChange(r) ==
  IF r.follow /\ Wanted(r) /\ ~r.output THEN StartOutput(r)
  ELSE IF r.follow /\ ~Wanted(r) /\ r.output THEN Halt(r)
  ELSE Compose(r)

SetPatternScope(r, E) ==
  AfterSelectionChange([PreparePatternScope(r, E) EXCEPT !.scope = E, !.layer = FALSE])

SelectPatternTest(r, t, on) ==
  AfterSelectionChange([r EXCEPT !.layer = FALSE,
                                 !.tests = IF on THEN @ \cup {t} ELSE @ \ {t}])

SetPatternTests(r, E, T) ==
  AfterSelectionChange([PreparePatternScope(r, E) EXCEPT
                          !.scope = E, !.tests = T, !.layer = FALSE])

\* Isolate changes the values inside the claimed slots, not what is claimed.
SetPatternIsolate(r) == AfterSelectionChange(r)

\* AdjustPattern names no test: legal with exactly one selected; its target,
\* and so its identity, may change.
AdjustPattern(r, t) ==
  IF Cardinality(r.tests) = 1
  THEN AfterSelectionChange([r EXCEPT !.tests = {t}, !.layer = FALSE]) ELSE r

\* teststargets.go: the Tests API's whole-selection swap and its release.
SetTests(r, E, T) ==
  LET supersedes == r.running /\ ~r.output
      clean == IF supersedes THEN Halt(r) ELSE r
      owned == [clean EXCEPT !.layer = TRUE]
  IN AfterSelectionChange([PreparePatternScope(owned, E) EXCEPT
                             !.scope = E, !.tests = T])

ReleaseTests(r) ==
  Halt([r EXCEPT !.layer = TRUE, !.scope = {}, !.tests = {}])

ResetSelection(r) ==
  [Halt(r) EXCEPT !.scope = {}, !.tests = {}]

SetFollows(r, on) == AfterSelectionChange([r EXCEPT !.follow = on])

\* A panic button: live pattern output would relight its frame at the next
\* tick, so it is ended; a channel walk keeps its place.
Blackout(r) ==
  IF r.output THEN Halt(BlackedOut(r)) ELSE BlackedOut(r)

-----------------------------------------------------------------------------
(* The channel walk.                                                        *)

Classic(r) == r.running /\ ~r.output

LitSlots(r) ==
  LET cur == r.entries[r.idx] IN
  CASE r.mode = "all" -> UNION {Slots(e) : e \in Members(r.entries)}
    [] r.mode = "highlight" -> Slots(cur)
    [] r.mode = "step" -> {s \in Slots(cur) : s[2] = r.off + 1}

Relight(r) ==
  Publish(r, UNION {Slots(e) : e \in Members(r.entries)},
          IF r.level = 0 THEN {} ELSE LitSlots(r))

StartWalk(r, es, m, lvl) ==
  LET clean == StartUniverses(Halt(r), Members(es)) IN
  Relight([clean EXCEPT !.layer = FALSE, !.entries = es, !.mode = m,
             !.level = IF lvl = 0 THEN 1 ELSE lvl, !.idx = 1, !.off = 0, !.running = TRUE])

SetMode(r, m) == Relight([r EXCEPT !.mode = m, !.off = 0])
SetLevel(r, lvl) == Relight([r EXCEPT !.level = lvl])

Clamp(x, lo, hi) == IF x < lo THEN lo ELSE IF x > hi THEN hi ELSE x

StepEntry(r, d) ==
  LET next == Clamp(r.idx + d, 1, Len(r.entries)) IN
  IF next = r.idx THEN r ELSE Relight([r EXCEPT !.idx = next, !.off = 0])

Jump(r, i) ==
  IF i \in DOMAIN r.entries THEN Relight([r EXCEPT !.idx = i, !.off = 0]) ELSE r

StepChannel(r, d) ==
  LET f == Footprint[r.entries[r.idx]] IN
  IF f = 0 THEN r ELSE Relight([r EXCEPT !.off = Clamp(@ + d, 0, f - 1)])

-----------------------------------------------------------------------------
(* The tick: the timer fires, and its callback takes the lock later.        *)

TickFires(r) == [r EXCEPT !.armed = FALSE, !.late = @ + 1]

PatternTick(r) ==
  LET taken == [r EXCEPT !.late = @ - 1] IN
  IF r.output /\ r.running THEN ArmTick(Compose(taken)) ELSE taken

-----------------------------------------------------------------------------
(* The engine alone, driven by any sequence of its public methods.          *)

VARIABLE rig

RigInit == \E f \in BOOLEAN : rig = IdleRig(f)

Walks == {<<a, b>> : a, b \in Walked} \cup {<<a>> : a \in Walked}

ClassicStart == \E es \in Walks, m \in Modes, lvl \in {0, 1} :
                  rig' = StartWalk(rig, es, m, lvl)
ClassicStep ==
  /\ Classic(rig)
  /\ \/ \E m \in Modes : rig' = SetMode(rig, m)
     \/ \E lvl \in {0, 1} : rig' = SetLevel(rig, lvl)
     \/ \E d \in {-1, 1} : rig' = StepEntry(rig, d)
     \/ \E i \in 1 .. 2 : rig' = Jump(rig, i)
     \/ \E d \in {-1, 1} : rig' = StepChannel(rig, d)
Select ==
  \/ \E E \in (SUBSET Walked) \ {{}} : rig' = SetPatternScope(rig, E)
  \/ \E t \in Tests, on \in BOOLEAN : rig' = SelectPatternTest(rig, t, on)
  \/ \E E \in (SUBSET Walked) \ {{}}, T \in SUBSET Tests :
       rig' = SetPatternTests(rig, E, T)
  \/ rig' = SetPatternIsolate(rig)
  \/ \E t \in Tests : rig' = AdjustPattern(rig, t)
  \/ \E on \in BOOLEAN : rig' = SetFollows(rig, on)
SwapTests == \E E \in SUBSET Walked, T \in SUBSET Tests : rig' = SetTests(rig, E, T)
LetGo == rig' = ReleaseTests(rig)
Switch == rig' = ResetSelection(rig)
TurnOn == rig' = StartOutput(rig)
TurnOff == rig' = Halt(rig)
Panic == rig' = Blackout(rig)
Fire == rig.armed /\ rig.late < MaxLate /\ rig' = TickFires(rig)
RunTick == rig.late > 0 /\ rig' = PatternTick(rig)

RigNext == \/ ClassicStart \/ ClassicStep \/ Select \/ SwapTests \/ LetGo \/ Switch
           \/ TurnOn \/ TurnOff \/ Panic \/ Fire \/ RunTick

RigSpec == RigInit /\ [][RigNext]_rig

-----------------------------------------------------------------------------
RigTypeOK ==
  /\ rig \in [running : BOOLEAN, output : BOOLEAN, follow : BOOLEAN, layer : BOOLEAN,
              scope : SUBSET Entries, tests : SUBSET Tests,
              live : SUBSET UniversesOf(Entries), claim : SUBSET AllSlots,
              lit : SUBSET AllSlots, armed : BOOLEAN, late : 0 .. MaxLate,
              entries : Walks \cup {<<>>}, mode : Modes, level : {0, 1},
              idx : 1 .. 2, off : Nat]

\* Whatever ended it (Stop, a show switch, the last test deselected, a new run,
\* the panic button), a stopped engine claims no slot, has no universe started
\* and no tick armed; while output is on, a tick is armed or about to run, so
\* the waveforms never freeze (stopLocked, armPatternTickLocked, patternTick).
StoppedOrTicking ==
  IF rig.running THEN rig.output => rig.armed \/ rig.late > 0
  ELSE rig.live = {} /\ rig.claim = {} /\ rig.lit = {} /\ ~rig.armed /\ ~rig.output

\* While output is on, the claimed slots are exactly those of the CURRENT scope:
\* a universe the scope gained while output was on has been started, and a
\* fixture that left the scope is no longer held (preparePatternScopeLocked,
\* recomputePatternLocked, setFrames).
ClaimsItsScope ==
  rig.output => rig.claim = UNION {Slots(e) : e \in rig.scope}

\* In a channel walk, the lit slots belong to the entry under the cursor (all
\* entries in mode "all"), and the cursor is inside that entry (Jump, Next,
\* StepChannel, SetMode: a new entry or mode starts at its first channel).
WalkLightsCursor ==
  Classic(rig) => /\ rig.idx \in DOMAIN rig.entries
                  /\ rig.lit \subseteq LitSlots(rig)
                  /\ LET f == Footprint[rig.entries[rig.idx]] IN f > 0 => rig.off < f
=============================================================================
