------------------------------ MODULE TestFades ------------------------------
(***************************************************************************)
(* The tests on the wire over time (patch/patternfade.go and the frame     *)
(* side of testpattern.go): each tick and each change of the selection     *)
(* composes the frame anew; a unit (one slot, or a coarse and fine pair)   *)
(* whose source changed starts a fade from what the wire showed, and what  *)
(* left the composition fades out before it is let go.                     *)
(***************************************************************************)
EXTENDS TestPatterns

CONSTANTS Picks,       \* selections a user swaps in: [scope, tests]
          FadeTicks,   \* a fade time, in ticks
          MaxNow,      \* bound: ticks
          MaxEdits     \* bound: changes made by a user

ASSUME FadeIsTimed == FadeTicks \in Nat \ {0}

-----------------------------------------------------------------------------
(* Fades.  A unit whose source changed starts from what was on the wire; a   *)
(* fixture new to the scope starts from its defaults with its dimmers out.   *)

UnitValue(frames, k) ==
  IF k[1] \notin DOMAIN frames THEN 0
  ELSE LET f == frames[k[1]] IN
       IF k[3] = 0 THEN f[k[2]] ELSE f[k[2]] * (Top + 1) + f[k[3]]

\* The value of a fade that began at f.start, rounded to the nearest.
Faded(f, to, now) ==
  LET n == f.from * (FadeTicks - (now - f.start)) + to * (now - f.start) IN
  (2 * n + FadeTicks) \div (2 * FadeTicks)

Over(f, now) == now - f.start >= FadeTicks

\* What no test claims any more: a colour fill changes nothing, a virtual
\* dimmer rests at nought.
Untouched(k) == IF k[2] = "fill" THEN [level |-> Top, fill |-> 0] ELSE [level |-> 0, fill |-> 0]
VirtualGoal(k, u) ==
  CASE u.kind = "removed" -> Untouched(k)
    [] u.kind = "open" -> [level |-> Top, fill |-> 0]
    [] OTHER -> [level |-> u.level, fill |-> u.level]

SlotsOf(k) == {<<k[1], k[2]>>} \cup (IF k[3] = 0 THEN {} ELSE {<<k[1], k[3]>>})

-----------------------------------------------------------------------------
VARIABLES pat,     \* [on, since, sel, fade, live]: the selection and the run
          units,   \* what each unit on the wire is driven by
          fades,   \* the fades on their way: [unit -> [from, start]]
          frames,  \* the published frames
          shown,   \* the composition they were made from
          vunits, vfades, vlevels,  \* the same for the virtual dimmers
          clock,   \* ticks
          edits

wireVars == <<units, fades, frames, shown, vunits, vfades, vlevels>>
patternVars == <<pat, wireVars, clock, edits>>

\* Units: the composition's, and what left it for no other writer, until its
\* fade is over.
GoneUnderWriters(c) ==  \* bug: what another writer took over is faded out too
  {k \in DOMAIN units \ DOMAIN c.units :
     units[k].src.spec.kind # "removed" \/ k \in DOMAIN fades}

Gone(c) ==
  {k \in DOMAIN units \ DOMAIN c.units :
     /\ SlotsOf(k) \cap c.noted = {}
     /\ units[k].src.spec.kind # "removed" \/ k \in DOMAIN fades}

NextUnits(c) ==
  [k \in DOMAIN c.units \cup Gone(c) |->
     IF k \in DOMAIN c.units THEN c.units[k]
     ELSE [units[k] EXCEPT !.src = RemovedFrom(@)]]

\* A continuous unit of another source starts a fade from what the wire
\* shows, or from its start frame when its fixture is new.
FadesOnlyNewSpecs(k) ==  \* bug: a new phase of the same test does not fade
  IF k \notin DOMAIN units THEN TRUE
  ELSE [units[k].src EXCEPT !.phase = 0] # [units'[k].src EXCEPT !.phase = 0]

Changed(k) == IF k \notin DOMAIN units THEN TRUE ELSE units[k] # units'[k]

StartsFrom(c, k) ==
  IF \E j \in DOMAIN units : units[j].src.e = units'[k].src.e THEN UnitValue(frames, k)
  ELSE UnitValue(c.starts, k)

NextFades(c) ==
  LET starts == {k \in DOMAIN units' : Changed(k) /\ units'[k].cont /\ pat'.fade}
      lasts == {k \in DOMAIN units' \cap DOMAIN fades :
                  ~Changed(k) /\ ~Over(fades[k], clock')}
  IN [k \in starts \cup lasts |->
        IF k \in lasts THEN fades[k] ELSE [from |-> StartsFrom(c, k), start |-> clock']]

Dark == [ch \in 1 .. LastSlot |-> 0]
Composed(c, u) == IF u \in DOMAIN c.frames THEN c.frames[u] ELSE Dark

NextFrames(c) ==
  [u \in ScopeUniverses(pat'.sel.scope) \cup pat'.live |->
     [ch \in 1 .. LastSlot |->
        LET at == {k \in DOMAIN fades' : <<u, ch>> \in SlotsOf(k)}
            k == CHOOSE j \in at : TRUE
            v == Faded(fades'[k], UnitValue([w \in {u} |-> Composed(c, u)], k), clock')
        IN IF at = {} THEN Composed(c, u)[ch]
           ELSE IF k[3] # 0 /\ ch = k[2] THEN v \div (Top + 1) ELSE v % (Top + 1)]]

NextVirtual(c) ==
  LET gone == {k \in DOMAIN vunits \ DOMAIN c.virtual :
                 vunits[k].kind # "removed" \/ k \in DOMAIN vfades}
  IN [k \in DOMAIN c.virtual \cup gone |->
        IF k \in gone
        THEN [level |-> Top, kind |-> "removed", src |-> RemovedFrom(vunits[k].src)]
        ELSE c.virtual[k]]

NextVirtualFades ==
  LET changed(k) == IF k \notin DOMAIN vunits THEN TRUE
                    ELSE vunits[k].src # vunits'[k].src \/ vunits[k].kind # vunits'[k].kind
      lasts == {k \in DOMAIN vunits' \cap DOMAIN vfades :
                  ~changed(k) /\ ~Over(vfades[k], clock')}
      starts == {k \in DOMAIN vunits' : changed(k) /\ pat'.fade}
      was(k) == IF k \in DOMAIN vlevels THEN vlevels[k] ELSE Untouched(k)
  IN [k \in starts \cup lasts |->
        IF k \in lasts THEN vfades[k] ELSE [from |-> was(k), start |-> clock']]

NextVirtualLevels ==
  LET toward(k, part) ==
        Faded([from |-> vfades'[k].from[part], start |-> vfades'[k].start],
              VirtualGoal(k, vunits'[k])[part], clock')
  IN [k \in DOMAIN vunits' |->
        IF k \in DOMAIN vfades' THEN [level |-> toward(k, "level"), fill |-> toward(k, "fill")]
        ELSE VirtualGoal(k, vunits'[k])]

\* recomputePatternLocked, after every tick and every change of the selection.
Recompute(c) ==
  /\ units' = NextUnits(c)
  /\ fades' = NextFades(c)
  /\ frames' = NextFrames(c)
  /\ vunits' = NextVirtual(c)
  /\ vfades' = NextVirtualFades
  /\ vlevels' = NextVirtualLevels

NothingShown == [frames |-> <<>>, starts |-> <<>>, units |-> <<>>, noted |-> {},
                 tested |-> {}, virtual |-> <<>>]
Silent == /\ units = <<>> /\ fades = <<>> /\ frames = <<>> /\ shown = NothingShown
          /\ vunits = <<>> /\ vfades = <<>> /\ vlevels = <<>>
FallSilent == /\ units' = <<>> /\ fades' = <<>> /\ frames' = <<>> /\ shown' = NothingShown
              /\ vunits' = <<>> /\ vfades' = <<>> /\ vlevels' = <<>>

Render ==
  IF ~pat'.on THEN FallSilent
  ELSE shown' = ComposeAt(pat'.sel, clock' - pat'.since) /\ Recompute(shown')

-----------------------------------------------------------------------------
(* The engine, with its output following the selection.                     *)

Nothing == [scope |-> <<>>, tests |-> {}, isolate |-> FALSE, byScope |-> TRUE]

PatternInit ==
  /\ pat = [on |-> FALSE, since |-> 0, sel |-> Nothing, fade |-> FALSE, live |-> {}]
  /\ Silent
  /\ clock = 0 /\ edits = 0

Asked(sel) == sel.tests # {} /\ sel.scope # <<>>

Selected(p, sel) ==
  IF ~Asked(sel) THEN [p EXCEPT !.sel = sel, !.on = FALSE, !.live = {}]
  ELSE IF p.on
       THEN [p EXCEPT !.sel = sel, !.live = @ \cup ScopeUniverses(sel.scope)]
       ELSE [p EXCEPT !.sel = sel, !.on = TRUE, !.since = clock,
                      !.live = ScopeUniverses(sel.scope)]

Edit == edits < MaxEdits /\ edits' = edits + 1 /\ UNCHANGED clock

\* A later test of one identity replaces the earlier.
Distinct(T) == \A s, t \in T : TestID(s) = TestID(t) => s = t

SwapSelection ==
  \E k \in Picks, f \in BOOLEAN :
    /\ Distinct(k.tests) /\ \A s \in k.tests : ValidSpec(s)
    /\ pat' = Selected([pat EXCEPT !.fade = f],
                       [scope |-> k.scope, tests |-> {Normalized(s) : s \in k.tests},
                        isolate |-> FALSE, byScope |-> TRUE])

ToggleTest ==
  \E s \in Specs, on \in BOOLEAN :
    LET others == {x \in pat.sel.tests : TestID(x) # TestID(s)} IN
    /\ ValidSpec(s)
    /\ pat' = Selected(pat, [pat.sel EXCEPT !.tests =
                               others \cup (IF on THEN {Normalized(s)} ELSE {})])

SetIsolate == pat' = Selected(pat, [pat.sel EXCEPT !.isolate = ~@])

StopShowing == pat.on /\ pat' = [pat EXCEPT !.on = FALSE, !.live = {}]

ShowAgain ==
  /\ ~pat.on /\ pat.sel.scope # <<>>
  /\ pat' = [pat EXCEPT !.on = TRUE, !.since = clock, !.live = ScopeUniverses(pat.sel.scope)]

SetPatternFade ==
  /\ Edit
  /\ pat' = [pat EXCEPT !.fade = ~@]
  /\ UNCHANGED wireVars

ChangePattern ==
  /\ Edit
  /\ SwapSelection \/ ToggleTest \/ SetIsolate \/ StopShowing \/ ShowAgain
  /\ Render

Tick ==
  /\ pat.on /\ clock < MaxNow
  /\ clock' = clock + 1
  /\ UNCHANGED <<pat, edits>>
  /\ Render

PatternNext == ChangePattern \/ SetPatternFade \/ Tick

-----------------------------------------------------------------------------
Settled == pat.on /\ DOMAIN fades = {} /\ DOMAIN vfades = {}

\* Once no fade runs, the wire shows exactly what the selection composes to:
\* nothing a former selection put there is stranded, in any universe still
\* started (fadePatternLocked, fadeVirtualLocked).
SettledIsComposed ==
  Settled =>
    /\ \A u \in DOMAIN frames : frames[u] = Composed(shown, u)
    /\ \A k \in DOMAIN vlevels :
         vlevels[k] = IF k \in DOMAIN shown.virtual THEN VirtualGoal(k, shown.virtual[k])
                      ELSE Untouched(k)

\* With Isolate on, a settled frame is dark outside the tested slots.
IsolateIsDark ==
  Settled /\ pat.sel.isolate =>
    \A u \in DOMAIN frames, ch \in 1 .. LastSlot :
      frames[u][ch] > 0 => <<u, ch>> \in shown.tested

\* Every unit on the wire, fading or leaving, lies in a universe that is still
\* published, and no two of them share a slot (a coarse and a fine byte of
\* different functions are never faded as one value).
UnitsAreApart ==
  \A k, j \in DOMAIN units :
    /\ k[1] \in DOMAIN frames
    /\ k # j => SlotsOf(k) \cap SlotsOf(j) = {}

\* A test is offered for exactly the fixtures it drives: what a screen lists
\* (availableTests) is what selecting it does (resolveEntry).
OfferedIsDriven ==
  \A i \in DOMAIN pat.sel.scope :
    LET e == pat.sel.scope[i] IN
    OfferedOn(e, Target[e].virtual # <<>>) = {s \in Specs : Resolved(s, e).applied}

PatternInvariant ==
  SettledIsComposed /\ IsolateIsDark /\ UnitsAreApart /\ OfferedIsDriven

\* With a fade time, an edit moves nothing at the moment it is made: a
\* continuous function of a fixture already in the tests starts from what it
\* showed, in the middle of another fade too; and a virtual dimmer is let go
\* only from the level it rests at (never by way of full white).
EditsNeverJump ==
  [][ pat.on /\ pat'.on /\ pat'.since = pat.since =>
        /\ pat'.fade /\ clock' = clock =>
             /\ \A k \in DOMAIN units' :
                  units'[k].cont /\ (\E j \in DOMAIN units :
                                           units[j].src.e = units'[k].src.e)
                    => UnitValue(frames', k) = UnitValue(frames, k)
             /\ \A k \in DOMAIN vlevels' \cap DOMAIN vlevels :
                  vlevels'[k] = vlevels[k]
        /\ \A k \in DOMAIN vlevels \ DOMAIN vlevels' :
             vlevels[k] = Untouched(k) ]_patternVars
=============================================================================
