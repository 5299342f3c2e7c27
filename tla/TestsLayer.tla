----------------------------- MODULE TestsLayer -----------------------------
(***************************************************************************)
(* The Tests API (web/tests.go) over the Rig Check engine: ad-hoc tests, a *)
(* running test sequence with its auto-advance timer, the show guard's     *)
(* several steps around a show switch or a structural edit (showguard.go), *)
(* and the older way onto the same engine, loading a saved test preset     *)
(* (workspace.go).                                                         *)
(*                                                                         *)
(* Requests hold the guard's lock (showMu) from their first to their last  *)
(* step.  Two things do not wait for it: the auto-advance callback, which  *)
(* takes only the tests lock, and the takeover a preset request makes      *)
(* before it asks for the guard.  Where they may fall in between is fixed  *)
(* by TimerInGap and TakeoverInGap.                                        *)
(***************************************************************************)
EXTENDS RigCheckEngine

CONSTANTS Shows, SeqIds, none,
          ShowOf,        \* [Entries -> Shows]: whose patch a copy resolves
          FirstPatch,    \* [Shows -> SUBSET Entries]
          Programs,      \* the step lists a sequence may have
          MaxGen,        \* bound: tests timer generations
          TimerInGap,    \* may a callback run between the guard's two resets
          TakeoverInGap  \* may a takeover run while another request is served

Scopes == {"selection", "all"}

\* A step that is saved has at least one test (validateTestSteps).
TestSteps == [tests : (SUBSET Tests) \ {{}}, scope : Scopes, auto : BOOLEAN]

ASSUME LayerConstants ==
  /\ ShowOf \in [Entries -> Shows] /\ FirstPatch \in [Shows -> SUBSET Entries]
  /\ Programs \subseteq Seq(TestSteps) \ {<<>>}
  /\ MaxGen \in Nat /\ TimerInGap \in BOOLEAN /\ TakeoverInGap \in BOOLEAN

VARIABLES
  show, patch,  \* the active show, and every show's patch
  stored,       \* [Shows -> [SeqIds -> Programs or none]]
  picked,       \* the Console's selection has a fixture
  adHoc,        \* ad-hoc tests chosen by hand ({} none), on scope adScope
  adScope,
  run,          \* the running sequence, or none
  owns,         \* the Tests API drives the layer
  pushed,       \* what the last push was made for
  gen, due,     \* the timer's generation; the armed timer, or none
  fired,        \* callbacks waiting for the tests lock
  req           \* the request that holds the guard's lock, or none

testsVars == <<adHoc, adScope, run, owns, pushed, gen, due, fired>>
layerVars == <<rig, show, patch, stored, picked, testsVars, req>>

Edits == {"create", "reset", "recover", "edit"}

Runs == [id : SeqIds, steps : Programs, step : Nat, paused : BOOLEAN, visit : Nat]
Keys == [show : Shows, tests : (SUBSET Tests) \ {{}}, targets : SUBSET Entries, step : Nat]
Requests == [kind : Edits \cup {"refresh", "preset"},
             at : {"reset", "handler", "preset", "done"}]

\* none is not one of the records it stands beside.
ASSUME NoneIsApart == none \notin Runs /\ none \notin Keys /\ none \notin Requests

-----------------------------------------------------------------------------
(* What should be on the layer, and pushing it.                             *)

Steps(r) == r.steps[r.step]

ActiveTests(r, ad) == IF r # none THEN Steps(r).tests ELSE ad
ActiveScope(r, sc) == IF r # none THEN Steps(r).scope ELSE sc

Resolve(scope, p, sel) == IF scope = "selection" /\ ~sel THEN {} ELSE p

\* The key a push is compared by: the show token, the targets, the tests and
\* the run's step.
PushKey(r, ad, sc, s, p, sel) ==
  IF ActiveTests(r, ad) = {} THEN none
  ELSE [show |-> s, tests |-> ActiveTests(r, ad),
        targets |-> Resolve(ActiveScope(r, sc), p, sel),
        step |-> IF r = none THEN 0 ELSE r.step]

\* applyTestsLocked: engine, owns and pushed after a push of (r, ad, sc).
Apply(r, ad, sc, s, p, sel, force) ==
  LET key == PushKey(r, ad, sc, s, p, sel) IN
  IF ~force /\ key = pushed THEN UNCHANGED <<rig, owns, pushed>>
  ELSE /\ pushed' = key
       /\ IF key = none
          THEN /\ rig' = IF owns THEN ReleaseTests(rig) ELSE rig
               /\ owns' = owns
          ELSE /\ rig' = SetTests(rig, key.targets, key.tests)
               /\ owns' = TRUE

Push(r, ad) == Apply(r, ad, adScope', show, patch[show], picked, TRUE)

-----------------------------------------------------------------------------
(* The run and its timer.                                                   *)

StopTimer == gen' = gen + 1 /\ due' = none

\* enterStepLocked stops the timer and, on an automatic step, arms another (two
\* generations under one lock: one here).  The timer remembers which visit of
\* a step armed it.
EnterStep(r) ==
  /\ gen < MaxGen /\ gen' = gen + 1
  /\ run' = [r EXCEPT !.visit = gen + 1]
  /\ Push(r, {})
  /\ due' = IF Steps(r).auto /\ ~r.paused THEN [gen |-> gen + 1, visit |-> gen + 1] ELSE none

EndRun ==
  /\ gen < MaxGen /\ StopTimer
  /\ run' = none /\ adHoc' = {} /\ adScope' = adScope
  /\ Push(none, {})

TimerFires ==
  /\ due # none
  /\ due' = none /\ fired' = fired \cup {due}
  /\ UNCHANGED <<rig, show, patch, stored, picked, adHoc, adScope, run, owns, pushed, gen, req>>

InGap == req # none /\ req.at = "reset"

SupersededByEnd(c) == run = none \/ run.paused  \* bug: no generation check

Superseded(c) == c.gen # gen \/ run = none \/ run.paused

\* testsAutoAdvance: the next step or, after the last, the end of the run.
AutoAdvance ==
  \E c \in fired :
    /\ TimerInGap \/ ~InGap
    /\ fired' = fired \ {c}
    /\ UNCHANGED <<show, patch, stored, picked, req>>
    /\ IF Superseded(c) THEN UNCHANGED <<rig, adHoc, adScope, run, owns, pushed, gen, due>>
       ELSE IF run.step = Len(run.steps) THEN EndRun
       ELSE /\ UNCHANGED <<adHoc, adScope>>
            /\ EnterStep([run EXCEPT !.step = @ + 1])

-----------------------------------------------------------------------------
(* Requests that end in the handler's one locked section and the guard's    *)
(* refresh.  A request of another kind is being served otherwise.           *)

Free == req = none

Serve == req' = [kind |-> "refresh", at |-> "done"]

\* POST /api/tests/set and /clear.
SetAdHoc ==
  /\ Free /\ run = none
  /\ \E T \in SUBSET Tests, sc \in Scopes :
       /\ adHoc' = T /\ adScope' = sc
       /\ Push(none, T)
  /\ Serve
  /\ UNCHANGED <<show, patch, stored, picked, run, gen, due, fired>>

Clear ==
  /\ Free
  /\ IF run # none THEN EndRun
     ELSE /\ adHoc' = {} /\ adScope' = adScope
          /\ Push(none, {})
          /\ UNCHANGED <<run, gen, due>>
  /\ Serve
  /\ UNCHANGED <<show, patch, stored, picked, fired>>

\* POST /api/tests/run-start: the stored sequence is copied into the run.
RunStart ==
  /\ Free
  /\ \E q \in SeqIds : LET p == stored[show][q] IN
       /\ p # none
       /\ \E i \in DOMAIN p :
            EnterStep([id |-> q, steps |-> p, step |-> i, paused |-> FALSE, visit |-> 0])
  /\ adHoc' = {} /\ adScope' = adScope
  /\ Serve
  /\ UNCHANGED <<show, patch, stored, picked, fired>>

\* run-next, run-back (clamped) and run-jump (re-enters the step it is on).
RunMove ==
  /\ Free /\ run # none
  /\ \E i \in DOMAIN run.steps : EnterStep([run EXCEPT !.step = i])
  /\ Serve
  /\ UNCHANGED <<show, patch, stored, picked, adHoc, adScope, fired>>

RunPause ==
  /\ Free /\ run # none /\ ~run.paused /\ gen < MaxGen
  /\ StopTimer
  /\ run' = [run EXCEPT !.paused = TRUE]
  /\ Serve
  /\ UNCHANGED <<rig, show, patch, stored, picked, adHoc, adScope, owns, pushed, fired>>

RunResume ==
  /\ Free /\ run # none /\ run.paused /\ gen < MaxGen
  /\ run' = [run EXCEPT !.paused = FALSE]
  /\ IF Steps(run).auto
     THEN gen' = gen + 1 /\ due' = [gen |-> gen + 1, visit |-> run.visit]
     ELSE UNCHANGED <<gen, due>>
  /\ Serve
  /\ UNCHANGED <<rig, show, patch, stored, picked, adHoc, adScope, owns, pushed, fired>>

\* sequence-save reads which sequence runs under the tests lock, leaves it, and
\* then writes the show; sequence-delete likewise (one step: a callback that
\* ends the run in between only widens what may be written).
SequenceChangeable(q) == IF run = none THEN TRUE ELSE run.id # q

StoreSequence ==
  /\ Free
  /\ \E q \in SeqIds, p \in Programs \cup {none} :
       /\ SequenceChangeable(q)
       /\ stored' = [stored EXCEPT ![show][q] = p]
  /\ Serve
  /\ UNCHANGED <<rig, show, patch, picked, testsVars>>

\* Bug: the selection changes and the tests are not told.
SelectsQuietly ==
  /\ Free
  /\ picked' = ~picked
  /\ UNCHANGED <<rig, show, patch, stored, testsVars, req>>

\* A programmer selection; the tests on it follow.
SelectFixtures ==
  /\ Free
  /\ picked' = ~picked
  /\ Serve
  /\ UNCHANGED <<rig, show, patch, stored, testsVars>>

\* The guard's last step: syncProgrammer, then refreshTests.
Refresh ==
  /\ req # none /\ req.at = "done"
  /\ req' = none
  /\ IF owns THEN Apply(run, adHoc, adScope, show, patch[show], picked, FALSE)
     ELSE UNCHANGED <<rig, owns, pushed>>
  /\ UNCHANGED <<show, patch, stored, picked, adHoc, adScope, run, gen, due, fired>>

-----------------------------------------------------------------------------
(* The guard around a show switch and a structural edit.                    *)

\* First step, before the handler: a boundary always resets the engine's
\* selection, an edit only when the Tests API does not drive it.
ResetsOnSwitch(k) == k # "edit"  \* bug: an edit never resets a preset's tests

ResetsEngine(k) == k # "edit" \/ ~owns

Enter ==
  /\ Free
  /\ \E k \in Edits :
       /\ rig' = IF ResetsEngine(k) THEN ResetSelection(rig) ELSE rig
       /\ req' = [kind |-> k, at |-> IF k = "edit" THEN "handler" ELSE "reset"]
  /\ UNCHANGED <<show, patch, stored, picked, testsVars>>

\* testsShowBoundary: the tests state, not the engine.
ForgetTests ==
  /\ gen < MaxGen /\ StopTimer
  /\ run' = none /\ adHoc' = {} /\ owns' = FALSE /\ pushed' = none

Boundary ==
  /\ InGap
  /\ ForgetTests /\ adScope' = "selection"
  /\ req' = [req EXCEPT !.at = "handler"]
  /\ UNCHANGED <<rig, show, patch, stored, picked, fired>>

\* The handlers.  Creating or loading a show stops the engine first; reset and
\* recover of the active show do not.  The Console's selection is cleared with
\* the boundary (syncProgrammer).
Handle ==
  /\ req # none /\ req.at = "handler"
  /\ req' = [req EXCEPT !.at = "done"]
  /\ CASE req.kind = "create" ->
            /\ \E s \in Shows : show' = s
            /\ rig' = Halt(rig)
            /\ picked' = FALSE /\ UNCHANGED <<patch, stored>>
       [] req.kind \in {"reset", "recover"} ->
            /\ patch' = [patch EXCEPT ![show] =
                 IF req.kind = "reset" THEN {} ELSE FirstPatch[show]]
            /\ stored' = [stored EXCEPT ![show] = [q \in SeqIds |-> none]]
            /\ picked' = FALSE /\ UNCHANGED <<rig, show>>
       [] req.kind = "edit" ->
            /\ \E E \in SUBSET {e \in Entries : ShowOf[e] = show} :
                 patch' = [patch EXCEPT ![show] = E]
            /\ UNCHANGED <<rig, show, stored, picked>>
  /\ UNCHANGED testsVars

-----------------------------------------------------------------------------
(* Loading a saved test preset: the takeover happens before the guard's lock *)
(* and before the request can be refused (stale show, no such preset).       *)

Takeover ==
  /\ Free \/ TakeoverInGap
  /\ IF owns \/ run # none \/ adHoc # {} THEN ForgetTests
     ELSE UNCHANGED <<run, adHoc, owns, pushed, gen, due>>
  /\ UNCHANGED <<rig, show, patch, stored, picked, adScope, fired>>

LoadPreset ==
  \/ /\ Takeover /\ Free
     /\ req' = [kind |-> "preset", at |-> "preset"]
  \/ /\ TakeoverInGap /\ ~Free /\ Takeover
     /\ req' = req

\* A rehearsal stops the engine and goes no further.
RunPreset ==
  /\ req # none /\ req.at = "preset"
  /\ \/ rig' = Halt(rig)
     \/ \E T \in (SUBSET Tests) \ {{}}, E \in (SUBSET patch[show]) \ {{}} :
          rig' = SetPatternTests(Halt(rig), E, T)
  /\ req' = [req EXCEPT !.at = "done"]
  /\ UNCHANGED <<show, patch, stored, picked, testsVars>>

\* Refused by the guard (stale show token) or by the handler (no such preset).
RefusePreset ==
  /\ req # none /\ req.at = "preset"
  /\ req' = none
  /\ UNCHANGED <<rig, show, patch, stored, picked, testsVars>>

EngineTick ==
  /\ \/ rig.armed /\ rig.late < MaxLate /\ rig' = TickFires(rig)
     \/ rig.late > 0 /\ rig' = PatternTick(rig)
  /\ UNCHANGED <<show, patch, stored, picked, testsVars, req>>

-----------------------------------------------------------------------------
NothingChosen ==
  /\ picked = FALSE /\ adHoc = {} /\ adScope = "selection" /\ run = none
  /\ owns = FALSE /\ pushed = none /\ gen = 0 /\ due = none /\ fired = {}
  /\ req = none

LayerInit ==
  /\ rig = IdleRig(TRUE)
  /\ show \in Shows /\ patch = FirstPatch
  /\ stored \in [Shows -> [SeqIds -> Programs]]
  /\ NothingChosen

LayerNext ==
  \/ TimerFires \/ AutoAdvance \/ SetAdHoc \/ Clear \/ RunStart \/ RunMove
  \/ RunPause \/ RunResume \/ StoreSequence \/ SelectFixtures \/ Refresh
  \/ Enter \/ Boundary \/ Handle \/ LoadPreset \/ RunPreset \/ RefusePreset
  \/ EngineTick

LayerSpec == LayerInit /\ [][LayerNext]_layerVars

-----------------------------------------------------------------------------
LayerTypeOK ==
  /\ show \in Shows /\ patch \in [Shows -> SUBSET Entries]
  /\ stored \in [Shows -> [SeqIds -> Programs \cup {none}]]
  /\ picked \in BOOLEAN /\ owns \in BOOLEAN /\ gen \in 0 .. MaxGen
  /\ adHoc \subseteq Tests /\ adScope \in Scopes
  /\ run # none => /\ run.steps \in Programs /\ run.step \in DOMAIN run.steps
                   /\ run.visit \in 0 .. MaxGen /\ adHoc = {} /\ owns
  /\ fired \cup ({due} \ {none}) \subseteq [gen : 1 .. MaxGen, visit : 1 .. MaxGen]

\* Between requests, whatever the engine outputs is resolved from the ACTIVE
\* show's present patch: never a fixture of another show, never an entry that
\* was deleted or re-addressed (showguard.go, refreshTests).
OutputsActiveShow == Free /\ rig.output => rig.scope \subseteq patch[show]

\* Between requests, while the Tests API drives the layer the engine's selection
\* is what the API says is active -- through edits, selection changes, steps of
\* the run and their timers -- and is on exactly when that is not empty.
LayerShowsActive ==
  Free /\ owns =>
    LET T == ActiveTests(run, adHoc)
        E == Resolve(ActiveScope(run, adScope), patch[show], picked)
    IN IF T = {} THEN ~rig.output
       ELSE rig.tests = T /\ rig.scope = E /\ rig.output = (E # {})

\* A timer advances only the visit of the step it was armed for: not a step that
\* was jumped, paused or restarted meanwhile, and never another run
\* (testsAutoAdvance's generation check).
AdvancesOwnStep ==
  [][ \A c \in fired :
        fired' = fired \ {c} /\ run' # run => run # none /\ c.visit = run.visit ]_layerVars

\* The running sequence is the stored one: it is not changed or deleted under
\* the run, and a show switch ends it.
RunsWhatIsStored == Free /\ run # none => stored[show][run.id] = run.steps

=============================================================================
