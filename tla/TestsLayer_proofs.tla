--------------------------- MODULE TestsLayer_proofs ---------------------------
(* Theorems about RigCheckEngine and TestsLayer: what the Rig Check engine keeps *)
(* under any calls, what the Tests layer outputs between requests, and which     *)
(* step a timer advances.                                                        *)
EXTENDS TestsLayer, TLAPS

(* The engine's record, and the parts of it that an operation may leave alone.   *)
Rigs == [running : BOOLEAN, output : BOOLEAN, follow : BOOLEAN, layer : BOOLEAN,
         scope : SUBSET Entries, tests : SUBSET Tests,
         live : SUBSET UniversesOf(Entries), claim : SUBSET AllSlots,
         lit : SUBSET AllSlots, armed : BOOLEAN, late : 0 .. MaxLate,
         entries : Walks \cup {<<>>}, mode : Modes, level : {0, 1},
         idx : 1 .. 2, off : Nat]

SlotsOf(E) == UNION {Slots(e) : e \in E}

SameChoice(r, s) ==
  s.follow = r.follow /\ s.layer = r.layer /\ s.scope = r.scope /\ s.tests = r.tests
SameCursor(r, s) ==
  /\ s.entries = r.entries /\ s.mode = r.mode /\ s.level = r.level
  /\ s.idx = r.idx /\ s.off = r.off
SameSlots(r, s) == s.live = r.live /\ s.claim = r.claim /\ s.lit = r.lit
SameRun(r, s) == s.running = r.running /\ s.output = r.output

(* The invariants of the engine, of any record.                                  *)
Settled(r) ==
  IF r.running THEN r.output => r.armed \/ r.late > 0
  ELSE r.live = {} /\ r.claim = {} /\ r.lit = {} /\ ~r.armed /\ ~r.output
OnCursor(r) ==
  Classic(r) => /\ r.idx \in DOMAIN r.entries
                /\ r.lit \subseteq LitSlots(r)
                /\ Footprint[r.entries[r.idx]] > 0 => r.off < Footprint[r.entries[r.idx]]

\* A record whose selection may just have changed: its universes have started.
Prepared(r) ==
  /\ r \in Rigs /\ Settled(r) /\ OnCursor(r)
  /\ r.output => UniversesOf(r.scope) \subseteq r.live
EngineOK(r) == Prepared(r) /\ (r.output => r.claim = SlotsOf(r.scope))

-----------------------------------------------------------------------------
LEMMA SlotTypes ==
  /\ \A E \in SUBSET Entries : SlotsOf(E) \subseteq AllSlots
                                 /\ UniversesOf(E) \subseteq UniversesOf(Entries)
  /\ \A e \in Entries : \A s \in Slots(e) : s[1] = e
BY DEF SlotsOf, AllSlots, UniversesOf, Slots

\* What a publication leaves alone.
LEMMA PublishKeeps ==
  ASSUME NEW r \in Rigs, NEW slots \in SUBSET AllSlots, NEW glowing, NEW s,
         s = Publish(r, slots, glowing)
  PROVE  /\ s \in Rigs /\ SameChoice(r, s) /\ SameCursor(r, s) /\ SameRun(r, s)
         /\ s.live = r.live /\ s.armed = r.armed /\ s.late = r.late
<1> DEFINE kept == {x \in slots : UniverseOf[x[1]] \in r.live}
<1>1. s = [r EXCEPT !.claim = kept, !.lit = kept \cap glowing]
  BY DEF Publish
<1>2. kept \in SUBSET AllSlots /\ kept \cap glowing \in SUBSET AllSlots
  OBVIOUS
<1> HIDE DEF kept
<1>3. s \in Rigs
  BY <1>1, <1>2 DEF Rigs
<1>4. SameChoice(r, s) /\ SameCursor(r, s) /\ SameRun(r, s)
  BY <1>1 DEF Rigs, SameChoice, SameCursor, SameRun
<1>5. s.live = r.live /\ s.armed = r.armed /\ s.late = r.late
  BY <1>1 DEF Rigs
<1> QED BY <1>3, <1>4, <1>5

LEMMA PublishClaims ==
  ASSUME NEW r \in Rigs, NEW slots, NEW glowing, NEW s, s = Publish(r, slots, glowing)
  PROVE  /\ s.claim = {x \in slots : UniverseOf[x[1]] \in r.live}
         /\ s.lit \subseteq glowing
BY DEF Publish, Rigs

LEMMA HaltFacts ==
  ASSUME NEW r \in Rigs, NEW h, h = Halt(r)
  PROVE  /\ h \in Rigs /\ SameChoice(r, h) /\ SameCursor(r, h)
         /\ ~h.running /\ ~h.output /\ ~h.armed /\ h.late = r.late
         /\ h.live = {} /\ h.claim = {} /\ h.lit = {}
<1> DEFINE dark == IF r.layer THEN r ELSE BlackedOut(r)
<1>1. dark \in Rigs /\ SameChoice(r, dark) /\ SameCursor(r, dark) /\ dark.late = r.late
  <2>1. CASE r.layer
    BY <2>1 DEF SameChoice, SameCursor
  <2>2. CASE ~r.layer
    <3>1. r.claim \in SUBSET AllSlots
      BY DEF Rigs
    <3>2. dark = Publish(r, r.claim, {})
      BY <2>2 DEF BlackedOut
    <3> HIDE DEF dark
    <3> QED BY <3>1, <3>2, PublishKeeps
  <2>3. r.layer \in BOOLEAN
    BY DEF Rigs
  <2> QED BY <2>1, <2>2, <2>3
<1>2. h = CancelPatternOutput([ReleasedAll(dark) EXCEPT !.running = FALSE])
  BY DEF Halt
<1> HIDE DEF dark
<1> DEFINE a == [dark EXCEPT !.live = {}, !.claim = {}, !.lit = {}]
           b == [a EXCEPT !.running = FALSE]
<1>3. h = [b EXCEPT !.armed = FALSE, !.output = FALSE]
  BY <1>2 DEF CancelPatternOutput, ReleasedAll
<1>4. a \in Rigs /\ SameChoice(dark, a) /\ SameCursor(dark, a) /\ a.late = dark.late
      /\ a.live = {} /\ a.claim = {} /\ a.lit = {}
  BY <1>1 DEF Rigs, SameChoice, SameCursor
<1> HIDE DEF a
<1>5. b \in Rigs /\ SameChoice(a, b) /\ SameCursor(a, b) /\ b.late = a.late
      /\ b.live = {} /\ b.claim = {} /\ b.lit = {} /\ ~b.running
  BY <1>4 DEF Rigs, SameChoice, SameCursor
<1> HIDE DEF b
<1>6. h \in Rigs /\ SameChoice(b, h) /\ SameCursor(b, h) /\ h.late = b.late
      /\ h.live = {} /\ h.claim = {} /\ h.lit = {} /\ ~h.running /\ ~h.armed /\ ~h.output
  BY <1>3, <1>5 DEF Rigs, SameChoice, SameCursor
<1> QED BY <1>1, <1>4, <1>5, <1>6 DEF SameChoice, SameCursor

LEMMA HaltOK ==
  ASSUME NEW r \in Rigs, NEW h, h = Halt(r)
  PROVE  EngineOK(h)
BY HaltFacts DEF EngineOK, Prepared, Settled, OnCursor, Classic

\* While output is on, a composition claims the whole scope.
LEMMA ComposeFacts ==
  ASSUME NEW r \in Rigs, r.output => UniversesOf(r.scope) \subseteq r.live,
         NEW s, s = Compose(r)
  PROVE  /\ s \in Rigs /\ SameChoice(r, s) /\ SameCursor(r, s) /\ SameRun(r, s)
         /\ s.live = r.live /\ s.armed = r.armed /\ s.late = r.late
         /\ r.output => s.claim = SlotsOf(r.scope)
         /\ ~r.output => s = r
<1> DEFINE slots == SlotsOf(r.scope)
<1>1. r.output \in BOOLEAN /\ r.scope \in SUBSET Entries
  BY DEF Rigs
<1>2. CASE r.output
  <2>1. slots \in SUBSET AllSlots
    BY <1>1, SlotTypes
  <2>2. s = Publish(r, slots, slots)
    BY <1>2 DEF Compose, SlotsOf
  <2>3. ASSUME NEW x \in slots PROVE UniverseOf[x[1]] \in r.live
    <3>1. PICK e \in r.scope : x \in Slots(e)
      BY DEF SlotsOf
    <3>2. x[1] = e
      BY <1>1, <3>1, SlotTypes
    <3> QED BY <1>2, <3>2 DEF UniversesOf
  <2> HIDE DEF slots
  <2>4. {x \in slots : UniverseOf[x[1]] \in r.live} = slots
    BY <2>3
  <2>5. /\ s \in Rigs /\ SameChoice(r, s) /\ SameCursor(r, s) /\ SameRun(r, s)
        /\ s.live = r.live /\ s.armed = r.armed /\ s.late = r.late
    BY <2>1, <2>2, PublishKeeps
  <2>6. s.claim = {x \in slots : UniverseOf[x[1]] \in r.live}
    BY <2>2 DEF Publish, Rigs
  <2> QED BY <1>2, <2>4, <2>5, <2>6 DEF slots
<1>3. CASE ~r.output
  BY <1>3 DEF Compose, SameChoice, SameCursor, SameRun
<1> QED BY <1>1, <1>2, <1>3

LEMMA ComposeOK ==
  ASSUME NEW r, Prepared(r), NEW s, s = Compose(r)
  PROVE  EngineOK(s) /\ SameChoice(r, s) /\ SameRun(r, s)
<1>1. /\ s \in Rigs /\ SameChoice(r, s) /\ SameCursor(r, s) /\ SameRun(r, s)
      /\ s.live = r.live /\ s.armed = r.armed /\ s.late = r.late
      /\ r.output => s.claim = SlotsOf(r.scope)
      /\ ~r.output => s = r
  BY ComposeFacts DEF Prepared
<1>2. r.output \in BOOLEAN
  BY DEF Prepared, Rigs
<1>3. CASE r.output
  <2>1. r.running
    BY <1>3 DEF Prepared, Settled
  <2>2. Settled(s) /\ OnCursor(s)
    BY <1>1, <1>3, <2>1 DEF Prepared, Settled, OnCursor, Classic, SameRun
  <2> QED BY <1>1, <1>3, <2>2 DEF EngineOK, Prepared, SameRun, SameChoice
<1>4. CASE ~r.output
  BY <1>1, <1>4 DEF EngineOK
<1> QED BY <1>2, <1>3, <1>4

\* Output that starts claims its scope; otherwise nothing happens.
LEMMA StartOutputOK ==
  ASSUME NEW r \in Rigs, ~r.output, r.scope # {}, NEW s, s = StartOutput(r)
  PROVE  EngineOK(s) /\ SameChoice(r, s) /\ s.output
<1> DEFINE h == Halt(r)
<1>1. /\ h \in Rigs /\ SameChoice(r, h) /\ SameCursor(r, h)
      /\ h.live = {} /\ h.late = r.late
  BY HaltFacts
<1> DEFINE clean == StartUniverses(h, r.scope)
           on == [clean EXCEPT !.output = TRUE, !.running = TRUE]
           c == Compose(on)
<1>2. s = ArmTick(c)
  BY DEF StartOutput
<1> HIDE DEF h
<1>3. r.scope \in SUBSET Entries
  BY DEF Rigs
<1>4. UniversesOf(r.scope) \in SUBSET UniversesOf(Entries)
  BY <1>3, SlotTypes
<1>5. clean = [h EXCEPT !.live = UniversesOf(r.scope)]
  BY <1>1 DEF StartUniverses, Rigs
<1> HIDE DEF clean
<1>6. clean \in Rigs /\ SameChoice(r, clean) /\ clean.live = UniversesOf(r.scope)
  BY <1>1, <1>4, <1>5 DEF Rigs, SameChoice
<1>7. /\ on \in Rigs /\ SameChoice(r, on) /\ on.live = UniversesOf(r.scope)
      /\ on.output /\ on.running
  BY <1>6 DEF Rigs, SameChoice
<1> HIDE DEF on
<1>8. on.scope = r.scope
  BY <1>7 DEF SameChoice
<1>9. /\ c \in Rigs /\ SameChoice(on, c) /\ SameRun(on, c)
      /\ c.live = on.live /\ c.claim = SlotsOf(on.scope)
  BY <1>7, <1>8, ComposeFacts
<1> HIDE DEF c
<1>10. s = [c EXCEPT !.armed = TRUE]
  BY <1>2 DEF ArmTick
<1>11. /\ s \in Rigs /\ SameChoice(c, s) /\ SameRun(c, s) /\ s.armed
       /\ s.live = c.live /\ s.claim = c.claim
  BY <1>9, <1>10 DEF Rigs, SameChoice, SameRun
<1>12. SameChoice(r, s) /\ s.output /\ s.running /\ s.scope = r.scope
  BY <1>7, <1>9, <1>11 DEF SameChoice, SameRun
<1>13. s.live = UniversesOf(s.scope) /\ s.claim = SlotsOf(s.scope)
  BY <1>7, <1>8, <1>9, <1>11, <1>12
<1>14. Settled(s) /\ OnCursor(s)
  BY <1>11, <1>12 DEF Settled, OnCursor, Classic
<1> QED BY <1>11, <1>12, <1>13, <1>14 DEF EngineOK, Prepared

LEMMA AfterSelectionChangeOK ==
  ASSUME NEW r, Prepared(r), NEW s, s = AfterSelectionChange(r)
  PROVE  EngineOK(s) /\ SameChoice(r, s) /\ (r.follow => s.output = Wanted(r))
<1>1. r \in Rigs
  BY DEF Prepared
<1>2. r.output \in BOOLEAN /\ r.follow \in BOOLEAN /\ Wanted(r) \in BOOLEAN
  BY <1>1 DEF Rigs, Wanted
<1>3. CASE r.follow /\ Wanted(r) /\ ~r.output
  <2>1. s = StartOutput(r) /\ r.scope # {}
    BY <1>3 DEF AfterSelectionChange, Wanted
  <2>2. EngineOK(s) /\ SameChoice(r, s) /\ s.output
    BY <1>1, <1>3, <2>1, StartOutputOK
  <2>3. s.output = TRUE
    BY <2>2 DEF EngineOK, Prepared, Rigs
  <2> QED BY <1>2, <1>3, <2>2, <2>3
<1>4. CASE r.follow /\ ~Wanted(r) /\ r.output
  <2>1. s = Halt(r)
    BY <1>4 DEF AfterSelectionChange
  <2>2. EngineOK(s) /\ SameChoice(r, s) /\ ~s.output
    BY <1>1, <2>1, HaltOK, HaltFacts
  <2>3. s.output = FALSE
    BY <2>2 DEF EngineOK, Prepared, Rigs
  <2> QED BY <1>2, <1>4, <2>2, <2>3
<1>5. CASE ~(r.follow /\ Wanted(r) /\ ~r.output) /\ ~(r.follow /\ ~Wanted(r) /\ r.output)
  <2>1. s = Compose(r)
    BY <1>5 DEF AfterSelectionChange
  <2>2. EngineOK(s) /\ SameChoice(r, s) /\ s.output = r.output
    BY <2>1, ComposeOK DEF SameRun
  <2> QED BY <1>2, <1>5, <2>2
<1> QED BY <1>3, <1>4, <1>5

\* A change of the selection leaves a record prepared if the universes that
\* output needs have been started.
LEMMA Rechosen ==
  ASSUME NEW r, Prepared(r), NEW s \in Rigs, SameCursor(r, s), SameRun(r, s),
         s.claim = r.claim, s.lit = r.lit, s.armed = r.armed, s.late = r.late,
         ~r.output => s.live = r.live,
         r.output => UniversesOf(s.scope) \subseteq s.live
  PROVE  Prepared(s)
<1>1. LitSlots(s) = LitSlots(r)
  BY DEF LitSlots, SameCursor
<1>2. OnCursor(s)
  BY <1>1 DEF Prepared, OnCursor, Classic, SameCursor, SameRun
<1>3. Settled(s)
  BY DEF Prepared, Settled, SameRun
<1> QED BY <1>2, <1>3 DEF Prepared, SameRun

LEMMA PrepareFacts ==
  ASSUME NEW r, Prepared(r), NEW E \in SUBSET Entries, NEW p, p = PreparePatternScope(r, E)
  PROVE  /\ p \in Rigs /\ SameChoice(r, p) /\ SameCursor(r, p) /\ SameRun(r, p)
         /\ p.claim = r.claim /\ p.lit = r.lit /\ p.armed = r.armed /\ p.late = r.late
         /\ (~r.output => p.live = r.live)
         /\ (r.output => UniversesOf(E) \subseteq p.live)
<1>1. r \in Rigs /\ r.output \in BOOLEAN
  BY DEF Prepared, Rigs
<1>2. CASE r.output
  <2>1. UniversesOf(E) \in SUBSET UniversesOf(Entries)
    BY SlotTypes
  <2> DEFINE grown == r.live \cup UniversesOf(E)
  <2>2. p = [r EXCEPT !.live = grown]
    BY <1>1, <1>2 DEF PreparePatternScope, StartUniverses, Rigs
  <2>3. grown \in SUBSET UniversesOf(Entries) /\ UniversesOf(E) \subseteq grown
    BY <1>1, <2>1 DEF Rigs
  <2> HIDE DEF grown
  <2>4. p \in Rigs /\ p.live = grown
    BY <1>1, <2>2, <2>3 DEF Rigs
  <2>5. SameChoice(r, p) /\ SameCursor(r, p) /\ SameRun(r, p)
    BY <1>1, <2>2 DEF Rigs, SameChoice, SameCursor, SameRun
  <2>6. p.claim = r.claim /\ p.lit = r.lit /\ p.armed = r.armed /\ p.late = r.late
    BY <1>1, <2>2 DEF Rigs
  <2> QED BY <1>2, <2>3, <2>4, <2>5, <2>6
<1>3. CASE ~r.output
  BY <1>1, <1>3 DEF PreparePatternScope, SameChoice, SameCursor, SameRun
<1> QED BY <1>1, <1>2, <1>3

LEMMA ChosenPrepared ==
  ASSUME NEW r, Prepared(r), NEW E \in SUBSET Entries, NEW p, p = PreparePatternScope(r, E),
         NEW s \in Rigs, SameCursor(p, s), SameRun(p, s), SameSlots(p, s),
         s.armed = p.armed, s.late = p.late, s.scope = E
  PROVE  Prepared(s)
<1>1. /\ SameCursor(r, p) /\ SameRun(r, p)
      /\ p.claim = r.claim /\ p.lit = r.lit /\ p.armed = r.armed /\ p.late = r.late
      /\ (~r.output => p.live = r.live)
      /\ (r.output => UniversesOf(E) \subseteq p.live)
  BY PrepareFacts
<1>2. SameCursor(r, s) /\ SameRun(r, s)
  BY <1>1 DEF SameCursor, SameRun
<1> QED BY <1>1, <1>2, Rechosen DEF SameSlots

\* The two ways to set the whole selection at once.
LEMMA SetPatternTestsOK ==
  ASSUME NEW r, Prepared(r), NEW E \in SUBSET Entries, NEW T \in SUBSET Tests,
         NEW s, s = SetPatternTests(r, E, T)
  PROVE  /\ EngineOK(s) /\ s.tests = T /\ s.scope = E /\ s.follow = r.follow
         /\ (r.follow => s.output = (T # {} /\ E # {}))
<1> DEFINE p == PreparePatternScope(r, E)
           c == [p EXCEPT !.scope = E, !.tests = T, !.layer = FALSE]
<1>1. p \in Rigs /\ SameChoice(r, p)
  BY PrepareFacts
<1>2. s = AfterSelectionChange(c)
  BY DEF SetPatternTests
<1>3. p = PreparePatternScope(r, E)
  OBVIOUS
<1> HIDE DEF p
<1>4. /\ c \in Rigs /\ SameCursor(p, c) /\ SameRun(p, c) /\ SameSlots(p, c)
      /\ c.armed = p.armed /\ c.late = p.late /\ c.scope = E
  BY <1>1 DEF Rigs, SameCursor, SameRun, SameSlots
<1>5. c.tests = T /\ c.follow = r.follow
  BY <1>1 DEF Rigs, SameChoice
<1> HIDE DEF c
<1>6. Prepared(c)
  BY <1>3, <1>4, ChosenPrepared
<1>7. EngineOK(s) /\ SameChoice(c, s) /\ (c.follow => s.output = Wanted(c))
  BY <1>2, <1>6, AfterSelectionChangeOK
<1> QED BY <1>4, <1>5, <1>7 DEF SameChoice, Wanted

LEMMA SetTestsOK ==
  ASSUME NEW r, Prepared(r), NEW E \in SUBSET Entries, NEW T \in SUBSET Tests,
         NEW s, s = SetTests(r, E, T)
  PROVE  /\ EngineOK(s) /\ s.tests = T /\ s.scope = E /\ s.follow = r.follow
         /\ (r.follow => s.output = (T # {} /\ E # {}))
<1> DEFINE clean == IF r.running /\ ~r.output THEN Halt(r) ELSE r
           owned == [clean EXCEPT !.layer = TRUE]
           p == PreparePatternScope(owned, E)
           c == [p EXCEPT !.scope = E, !.tests = T]
<1>1. s = AfterSelectionChange(c)
  BY DEF SetTests
<1>2. r \in Rigs
  BY DEF Prepared
<1>3. Prepared(clean) /\ clean.follow = r.follow
  <2>1. CASE r.running /\ ~r.output
    BY <1>2, <2>1, HaltOK, HaltFacts DEF EngineOK, SameChoice
  <2>2. CASE ~(r.running /\ ~r.output)
    BY <2>2
  <2> QED BY <2>1, <2>2
<1> HIDE DEF clean
<1>4. clean \in Rigs /\ (clean.output => UniversesOf(clean.scope) \subseteq clean.live)
  BY <1>3 DEF Prepared
<1>5. /\ owned \in Rigs /\ SameCursor(clean, owned) /\ SameRun(clean, owned)
      /\ owned.claim = clean.claim /\ owned.lit = clean.lit /\ owned.live = clean.live
      /\ owned.armed = clean.armed /\ owned.late = clean.late
      /\ owned.scope = clean.scope
  BY <1>4 DEF Rigs, SameCursor, SameRun
<1>6. owned.follow = r.follow
  BY <1>3, <1>4 DEF Rigs
<1> HIDE DEF owned
<1>7. Prepared(owned)
  BY <1>3, <1>4, <1>5, Rechosen DEF SameRun
<1>8. p \in Rigs /\ SameChoice(owned, p) /\ p = PreparePatternScope(owned, E)
  BY <1>7, PrepareFacts
<1> HIDE DEF p
<1>9. /\ c \in Rigs /\ SameCursor(p, c) /\ SameRun(p, c) /\ SameSlots(p, c)
      /\ c.armed = p.armed /\ c.late = p.late /\ c.scope = E
  BY <1>8 DEF Rigs, SameCursor, SameRun, SameSlots
<1>10. c.tests = T /\ c.follow = r.follow
  BY <1>6, <1>8 DEF Rigs, SameChoice
<1> HIDE DEF c
<1>11. Prepared(c)
  BY <1>7, <1>8, <1>9, ChosenPrepared
<1>12. EngineOK(s) /\ SameChoice(c, s) /\ (c.follow => s.output = Wanted(c))
  BY <1>1, <1>11, AfterSelectionChangeOK
<1> QED BY <1>9, <1>10, <1>12 DEF SameChoice, Wanted

\* The selection emptied with the engine stopped.
LEMMA EmptiedOK ==
  ASSUME NEW r \in Rigs, NEW s, s = ReleaseTests(r) \/ s = ResetSelection(r)
  PROVE  EngineOK(s) /\ ~s.output /\ s.follow = r.follow
<1>1. CASE s = ReleaseTests(r)
  <2> DEFINE c == [r EXCEPT !.layer = TRUE, !.scope = {}, !.tests = {}]
  <2>1. c \in Rigs /\ c.follow = r.follow
    BY DEF Rigs
  <2>2. s = Halt(c)
    BY <1>1 DEF ReleaseTests
  <2> HIDE DEF c
  <2> QED BY <2>1, <2>2, HaltOK, HaltFacts DEF SameChoice
<1>2. CASE s = ResetSelection(r)
  <2> DEFINE h == Halt(r)
  <2>1. /\ h \in Rigs /\ SameChoice(r, h) /\ ~h.running /\ ~h.output /\ ~h.armed
        /\ h.live = {} /\ h.claim = {} /\ h.lit = {}
    BY HaltFacts
  <2>2. s = [h EXCEPT !.scope = {}, !.tests = {}]
    BY <1>2 DEF ResetSelection
  <2> HIDE DEF h
  <2>3. /\ s \in Rigs /\ s.follow = h.follow /\ ~s.running /\ ~s.output /\ ~s.armed
        /\ s.live = {} /\ s.claim = {} /\ s.lit = {}
    BY <2>1, <2>2 DEF Rigs
  <2>4. Settled(s) /\ OnCursor(s)
    BY <2>3 DEF Settled, OnCursor, Classic
  <2> QED BY <2>1, <2>3, <2>4 DEF EngineOK, Prepared, SameChoice
<1> QED BY <1>1, <1>2

-----------------------------------------------------------------------------
(* The tick, and the panic button.                                           *)

LEMMA TickFiresOK ==
  ASSUME NEW r, EngineOK(r), r.armed, r.late < MaxLate, NEW s, s = TickFires(r)
  PROVE  EngineOK(s) /\ SameChoice(r, s) /\ SameRun(r, s)
<1>1. r \in Rigs /\ MaxLate \in Nat
  BY EngineConstants DEF EngineOK, Prepared
<1>2. r.late \in 0 .. MaxLate
  BY <1>1 DEF Rigs
<1> DEFINE l == r.late + 1
<1>3. l \in 0 .. MaxLate /\ l > 0
  BY <1>1, <1>2
<1>4. s = [r EXCEPT !.armed = FALSE, !.late = l]
  BY <1>1 DEF TickFires, Rigs
<1> HIDE DEF l
<1>5. s \in Rigs /\ SameChoice(r, s) /\ SameCursor(r, s) /\ SameRun(r, s) /\ SameSlots(r, s)
  <2>1. s \in Rigs
    BY <1>1, <1>3, <1>4 DEF Rigs
  <2> QED BY <1>1, <1>4, <2>1 DEF Rigs, SameChoice, SameCursor, SameRun, SameSlots
<1>6. s.late > 0 /\ ~s.armed
  BY <1>1, <1>3, <1>4 DEF Rigs
<1>7. r.running
  <2>1. Settled(r)
    BY DEF EngineOK, Prepared
  <2> QED BY <1>1, <2>1 DEF Settled, Rigs
<1>8. LitSlots(s) = LitSlots(r)
  BY <1>5 DEF LitSlots, SameCursor
<1>9. Settled(s)
  BY <1>5, <1>6, <1>7 DEF Settled, SameRun
<1>10. OnCursor(s)
  BY <1>5, <1>8 DEF EngineOK, Prepared, OnCursor, Classic, SameCursor, SameRun, SameSlots
<1> QED BY <1>5, <1>9, <1>10 DEF EngineOK, Prepared, SameChoice, SameRun, SameSlots

LEMMA PatternTickOK ==
  ASSUME NEW r, EngineOK(r), r.late > 0, NEW s, s = PatternTick(r)
  PROVE  EngineOK(s) /\ SameChoice(r, s) /\ SameRun(r, s)
<1>1. r \in Rigs /\ MaxLate \in Nat
  BY EngineConstants DEF EngineOK, Prepared
<1>2. r.late \in 0 .. MaxLate
  BY <1>1 DEF Rigs
<1> DEFINE l == r.late - 1
           t == [r EXCEPT !.late = l]
<1>3. l \in 0 .. MaxLate
  BY <1>1, <1>2
<1>4. t = [r EXCEPT !.late = @ - 1]
  BY <1>1 DEF Rigs
<1> HIDE DEF l
<1>5. t \in Rigs /\ SameChoice(r, t) /\ SameCursor(r, t) /\ SameRun(r, t) /\ SameSlots(r, t)
      /\ t.armed = r.armed
  BY <1>1, <1>3 DEF Rigs, SameChoice, SameCursor, SameRun, SameSlots
<1> HIDE DEF t
<1>6. t.output => UniversesOf(t.scope) \subseteq t.live
  BY <1>5 DEF EngineOK, Prepared, SameChoice, SameRun, SameSlots
<1>7. CASE r.output /\ r.running
  <2> DEFINE c == Compose(t)
  <2>1. s = [c EXCEPT !.armed = TRUE]
    BY <1>4, <1>7 DEF PatternTick, ArmTick
  <2>2. /\ c \in Rigs /\ SameChoice(t, c) /\ SameRun(t, c) /\ c.live = t.live
        /\ t.output => c.claim = SlotsOf(t.scope)
    BY <1>5, <1>6, ComposeFacts
  <2> HIDE DEF c
  <2>3. /\ s \in Rigs /\ SameChoice(c, s) /\ SameRun(c, s) /\ s.armed
        /\ s.live = c.live /\ s.claim = c.claim
    BY <2>1, <2>2 DEF Rigs, SameChoice, SameRun
  <2>4. SameChoice(r, s) /\ SameRun(r, s)
    BY <1>5, <2>2, <2>3 DEF SameChoice, SameRun
  <2>5. Settled(s) /\ OnCursor(s)
    BY <1>7, <2>3, <2>4 DEF Settled, OnCursor, Classic, SameRun
  <2>6. s.live = t.live /\ s.claim = SlotsOf(t.scope) /\ s.scope = t.scope /\ t.output
    BY <1>5, <1>7, <2>2, <2>3, <2>4 DEF SameChoice, SameRun
  <2> QED BY <1>6, <2>3, <2>4, <2>5, <2>6 DEF EngineOK, Prepared
<1>8. CASE ~(r.output /\ r.running)
  <2>1. s = t
    BY <1>4, <1>8 DEF PatternTick
  <2>2. ~r.output
    BY <1>8 DEF EngineOK, Prepared, Settled
  <2>3. LitSlots(t) = LitSlots(r)
    BY <1>5 DEF LitSlots, SameCursor
  <2>4. Settled(t)
    BY <1>5, <2>2 DEF EngineOK, Prepared, Settled, SameRun, SameSlots
  <2>5. OnCursor(t)
    BY <1>5, <2>3 DEF EngineOK, Prepared, OnCursor, Classic, SameCursor, SameRun, SameSlots
  <2> QED BY <1>5, <1>6, <2>1, <2>2, <2>4, <2>5 DEF EngineOK, Prepared, SameRun
<1> QED BY <1>7, <1>8

LEMMA BlackoutOK ==
  ASSUME NEW r, EngineOK(r), NEW s, s = Blackout(r)
  PROVE  EngineOK(s)
<1> DEFINE b == BlackedOut(r)
<1>1. r \in Rigs /\ r.claim \in SUBSET AllSlots
  BY DEF EngineOK, Prepared, Rigs
<1>2. b = Publish(r, r.claim, {})
  BY DEF BlackedOut
<1>3. s = IF r.output THEN Halt(b) ELSE b
  BY DEF Blackout
<1> HIDE DEF b
<1>4. /\ b \in Rigs /\ SameChoice(r, b) /\ SameCursor(r, b) /\ SameRun(r, b)
      /\ b.live = r.live /\ b.armed = r.armed /\ b.late = r.late
  BY <1>1, <1>2, PublishKeeps
<1>5. b.claim = {x \in r.claim : UniverseOf[x[1]] \in r.live} /\ b.lit \subseteq {}
  BY <1>1, <1>2, PublishClaims
<1>6. CASE r.output
  BY <1>3, <1>4, <1>6, HaltOK
<1>7. CASE ~r.output
  <2>1. b.lit = {} /\ (r.claim = {} => b.claim = {}) /\ ~b.output
    BY <1>4, <1>5, <1>7 DEF SameRun
  <2>2. Settled(b)
    BY <1>4, <1>7, <2>1 DEF EngineOK, Prepared, Settled, SameRun
  <2>3. OnCursor(b)
    BY <1>4, <2>1 DEF EngineOK, Prepared, OnCursor, Classic, SameCursor, SameRun
  <2> QED BY <1>3, <1>4, <1>7, <2>1, <2>2, <2>3 DEF EngineOK, Prepared
<1> QED BY <1>6, <1>7

-----------------------------------------------------------------------------
(* The channel walk: a step puts the cursor on an entry, and lights it.      *)

OnEntry(r) == /\ r.idx \in DOMAIN r.entries
              /\ Footprint[r.entries[r.idx]] > 0 => r.off < Footprint[r.entries[r.idx]]

LEMMA RelightOK ==
  ASSUME NEW r \in Rigs, Classic(r), OnEntry(r), NEW s, s = Relight(r)
  PROVE  EngineOK(s)
<1> DEFINE slots == UNION {Slots(e) : e \in Members(r.entries)}
           glow == IF r.level = 0 THEN {} ELSE LitSlots(r)
<1>1. Members(r.entries) \in SUBSET Entries
  <2>1. r.entries \in Walks
    BY DEF OnEntry, Rigs
  <2>2. CASE \E a, b \in Walked : r.entries = <<a, b>>
    BY <2>2, EngineConstants DEF Members
  <2>3. CASE \E a \in Walked : r.entries = <<a>>
    BY <2>3, EngineConstants DEF Members
  <2> QED BY <2>1, <2>2, <2>3 DEF Walks
<1>2. slots \in SUBSET AllSlots
  <2>1. slots = SlotsOf(Members(r.entries))
    BY DEF SlotsOf
  <2> QED BY <1>1, <2>1, SlotTypes
<1>3. s = Publish(r, slots, glow)
  BY DEF Relight
<1>4. glow \subseteq LitSlots(r)
  OBVIOUS
<1> HIDE DEF slots, glow
<1>5. /\ s \in Rigs /\ SameChoice(r, s) /\ SameCursor(r, s) /\ SameRun(r, s)
  BY <1>2, <1>3, PublishKeeps
<1>6. s.lit \subseteq LitSlots(r)
  BY <1>3, <1>4, PublishClaims
<1>7. LitSlots(s) = LitSlots(r)
  BY <1>5 DEF LitSlots, SameCursor
<1>8. s.running /\ ~s.output
  BY <1>5 DEF Classic, SameRun
<1>9. OnCursor(s)
  BY <1>5, <1>6, <1>7 DEF OnCursor, OnEntry, SameCursor
<1>10. Settled(s)
  BY <1>8 DEF Settled
<1> QED BY <1>5, <1>8, <1>9, <1>10 DEF EngineOK, Prepared

\* A change of the cursor, the mode or the level, and its lights.
LEMMA MovedOK ==
  ASSUME NEW r, EngineOK(r), Classic(r), NEW m \in Rigs, SameRun(r, m), OnEntry(m),
         NEW s, s = Relight(m)
  PROVE  EngineOK(s)
BY RelightOK DEF Classic, SameRun

LEMMA WalkCursor ==
  ASSUME NEW r, EngineOK(r), Classic(r)
  PROVE  /\ r \in Rigs /\ OnEntry(r)
         /\ Footprint[r.entries[r.idx]] \in Nat /\ Len(r.entries) \in 1 .. 2
         /\ DOMAIN r.entries = 1 .. Len(r.entries)
         /\ \A i \in DOMAIN r.entries : Footprint[r.entries[i]] \in Nat
<1>1. r \in Rigs /\ OnEntry(r)
  BY DEF EngineOK, Prepared, OnCursor, OnEntry
<1>2. r.entries \in Walks
  BY <1>1 DEF OnEntry, Rigs
<1>3. /\ Len(r.entries) \in 1 .. 2 /\ DOMAIN r.entries = 1 .. Len(r.entries)
      /\ \A i \in DOMAIN r.entries : r.entries[i] \in Entries
  <2>1. CASE \E a, b \in Walked : r.entries = <<a, b>>
    BY <2>1, EngineConstants
  <2>2. CASE \E a \in Walked : r.entries = <<a>>
    BY <2>2, EngineConstants
  <2> QED BY <1>2, <2>1, <2>2 DEF Walks
<1>4. \A i \in DOMAIN r.entries : Footprint[r.entries[i]] \in Nat
  BY <1>3, EngineConstants
<1> QED BY <1>1, <1>3, <1>4 DEF OnEntry

LEMMA ClassicStepOK ==
  ASSUME EngineOK(rig), ClassicStep
  PROVE  EngineOK(rig')
<1> DEFINE r == rig
<1>1. Classic(r)
  BY DEF ClassicStep
<1>2. /\ r \in Rigs /\ OnEntry(r)
      /\ Footprint[r.entries[r.idx]] \in Nat /\ Len(r.entries) \in 1 .. 2
      /\ DOMAIN r.entries = 1 .. Len(r.entries)
      /\ \A i \in DOMAIN r.entries : Footprint[r.entries[i]] \in Nat
  BY <1>1, WalkCursor
<1>3. ASSUME NEW m \in Modes, rig' = SetMode(r, m) PROVE EngineOK(rig')
  <2> DEFINE c == [r EXCEPT !.mode = m, !.off = 0]
  <2>1. c \in Rigs /\ SameRun(r, c) /\ c.idx = r.idx /\ c.entries = r.entries /\ c.off = 0
    BY <1>2 DEF Rigs, SameRun
  <2>2. rig' = Relight(c)
    BY <1>3 DEF SetMode
  <2> HIDE DEF c
  <2>3. OnEntry(c)
    BY <1>2, <2>1 DEF OnEntry
  <2> QED BY <1>1, <2>1, <2>2, <2>3, MovedOK
<1>4. ASSUME NEW l \in {0, 1}, rig' = SetLevel(r, l) PROVE EngineOK(rig')
  <2> DEFINE c == [r EXCEPT !.level = l]
  <2>1. c \in Rigs /\ SameRun(r, c) /\ c.idx = r.idx /\ c.entries = r.entries /\ c.off = r.off
    BY <1>2 DEF Rigs, SameRun
  <2>2. rig' = Relight(c)
    BY <1>4 DEF SetLevel
  <2> HIDE DEF c
  <2>3. OnEntry(c)
    BY <1>2, <2>1 DEF OnEntry
  <2> QED BY <1>1, <2>1, <2>2, <2>3, MovedOK
<1>5. ASSUME NEW i \in DOMAIN r.entries, rig' = Relight([r EXCEPT !.idx = i, !.off = 0])
      PROVE  EngineOK(rig')
  <2> DEFINE c == [r EXCEPT !.idx = i, !.off = 0]
  <2>1. i \in 1 .. 2 /\ Footprint[r.entries[i]] \in Nat
    BY <1>2
  <2>2. c \in Rigs /\ SameRun(r, c) /\ c.idx = i /\ c.entries = r.entries /\ c.off = 0
    BY <1>2, <2>1 DEF Rigs, SameRun
  <2>3. rig' = Relight(c)
    BY <1>5
  <2> HIDE DEF c
  <2>4. OnEntry(c)
    BY <2>1, <2>2 DEF OnEntry
  <2> QED BY <1>1, <2>2, <2>3, <2>4, MovedOK
<1>6. ASSUME NEW d \in {-1, 1}, rig' = StepEntry(r, d) PROVE EngineOK(rig')
  <2> DEFINE next == Clamp(r.idx + d, 1, Len(r.entries))
  <2>1. r.idx \in Int /\ d \in Int /\ Len(r.entries) \in Int /\ 1 <= Len(r.entries)
    BY <1>2 DEF Rigs
  <2>2. r.idx + d \in Int
    BY <2>1
  <2>3. next \in 1 .. Len(r.entries)
    BY <2>1, <2>2 DEF Clamp
  <2>4. rig' = r \/ rig' = Relight([r EXCEPT !.idx = next, !.off = 0])
    BY <1>6 DEF StepEntry
  <2> HIDE DEF next
  <2> QED BY <1>2, <1>5, <2>3, <2>4
<1>7. ASSUME NEW i \in 1 .. 2, rig' = Jump(r, i) PROVE EngineOK(rig')
  <2>1. CASE i \in DOMAIN r.entries
    BY <1>5, <1>7, <2>1 DEF Jump
  <2>2. CASE i \notin DOMAIN r.entries
    BY <1>7, <2>2 DEF Jump
  <2> QED BY <2>1, <2>2
<1>8. ASSUME NEW d \in {-1, 1}, rig' = StepChannel(r, d) PROVE EngineOK(rig')
  <2> DEFINE f == Footprint[r.entries[r.idx]]
  <2>1. CASE f = 0
    BY <1>8, <2>1 DEF StepChannel
  <2>2. CASE f # 0
    <3> DEFINE o == Clamp(r.off + d, 0, f - 1)
               c == [r EXCEPT !.off = o]
    <3>1. r.off + d \in Int /\ f - 1 \in Int /\ 0 <= f - 1
      BY <1>2, <2>2 DEF Rigs
    <3>2. f \in Nat \ {0}
      BY <1>2, <2>2
    <3> HIDE DEF f
    <3>3. o \in Nat /\ o < f
      BY <3>1, <3>2 DEF Clamp
    <3> USE DEF f
    <3>4. [r EXCEPT !.off = Clamp(@ + d, 0, f - 1)] = c
      BY <1>2 DEF Rigs
    <3>5. rig' = Relight(c)
      BY <1>8, <2>2, <3>4 DEF StepChannel
    <3> HIDE DEF o
    <3>6. c \in Rigs /\ SameRun(r, c) /\ c.idx = r.idx /\ c.entries = r.entries /\ c.off = o
      BY <1>2, <3>3 DEF Rigs, SameRun
    <3> HIDE DEF c
    <3>7. OnEntry(c)
      BY <1>2, <3>3, <3>6 DEF OnEntry
    <3> QED BY <1>1, <3>5, <3>6, <3>7, MovedOK
  <2> QED BY <2>1, <2>2
<1> QED BY <1>3, <1>4, <1>6, <1>7, <1>8 DEF ClassicStep

LEMMA StartWalkOK ==
  ASSUME NEW r \in Rigs, NEW es \in Walks, NEW m \in Modes, NEW l \in {0, 1},
         NEW s, s = StartWalk(r, es, m, l)
  PROVE  EngineOK(s)
<1> DEFINE h == Halt(r)
           U == UniversesOf(Members(es))
           clean == [h EXCEPT !.live = @ \cup U]
           lit == IF l = 0 THEN 1 ELSE l
           placed == [clean EXCEPT !.layer = FALSE, !.entries = es, !.mode = m, !.level = lit]
           c == [placed EXCEPT !.idx = 1, !.off = 0, !.running = TRUE]
<1>1. h \in Rigs /\ ~h.output
  BY HaltFacts
<1>2. s = Relight(c)
  BY DEF StartWalk, StartUniverses
<1>3. /\ Members(es) \in SUBSET Entries
      /\ 1 \in DOMAIN es /\ es[1] \in Entries
  <2>1. CASE \E a, b \in Walked : es = <<a, b>>
    BY <2>1, EngineConstants DEF Members
  <2>2. CASE \E a \in Walked : es = <<a>>
    BY <2>2, EngineConstants DEF Members
  <2> QED BY <2>1, <2>2 DEF Walks
<1>4. U \in SUBSET UniversesOf(Entries)
  BY <1>3, SlotTypes
<1> HIDE DEF h, U
<1>5. clean \in Rigs /\ ~clean.output
  BY <1>1, <1>4 DEF Rigs
<1>6. lit \in {0, 1}
  OBVIOUS
<1> HIDE DEF clean, lit
<1>7. placed \in Rigs /\ ~placed.output /\ placed.entries = es
  BY <1>5, <1>6 DEF Rigs
<1> HIDE DEF placed
<1>8. /\ c \in Rigs /\ c.running /\ ~c.output /\ c.idx = 1 /\ c.entries = es
      /\ c.off = 0
  <2>1. 1 \in 1 .. 2 /\ 0 \in Nat /\ TRUE \in BOOLEAN
    OBVIOUS
  <2>2. c \in Rigs
    BY <1>7, <2>1 DEF Rigs
  <2> QED BY <1>7, <2>2 DEF Rigs
<1> HIDE DEF c
<1>9. OnEntry(c)
  BY <1>3, <1>8, EngineConstants DEF OnEntry
<1> QED BY <1>2, <1>8, <1>9, RelightOK DEF Classic

-----------------------------------------------------------------------------
(* The engine under any calls.                                               *)

LEMMA ReselectOK ==
  ASSUME NEW r, Prepared(r), NEW c \in Rigs, SameCursor(r, c), SameRun(r, c), SameSlots(r, c),
         c.armed = r.armed, c.late = r.late, c.scope = r.scope,
         NEW s, s = AfterSelectionChange(c)
  PROVE  EngineOK(s)
<1>1. Prepared(c)
  BY Rechosen DEF Prepared, SameSlots
<1> QED BY <1>1, AfterSelectionChangeOK

LEMMA SelectOK ==
  ASSUME EngineOK(rig), Select
  PROVE  EngineOK(rig')
<1> DEFINE r == rig
<1>1. Prepared(r) /\ r \in Rigs
  BY DEF EngineOK, Prepared
<1>2. Walked \subseteq Entries
  BY EngineConstants
<1>3. ASSUME NEW E \in SUBSET Walked, rig' = SetPatternScope(r, E) PROVE EngineOK(rig')
  <2> DEFINE p == PreparePatternScope(r, E)
             c == [p EXCEPT !.scope = E, !.layer = FALSE]
  <2>1. E \in SUBSET Entries
    BY <1>2
  <2>2. p \in Rigs /\ p = PreparePatternScope(r, E)
    BY <1>1, <2>1, PrepareFacts
  <2>3. rig' = AfterSelectionChange(c)
    BY <1>3 DEF SetPatternScope
  <2> HIDE DEF p
  <2>4. /\ c \in Rigs /\ SameCursor(p, c) /\ SameRun(p, c) /\ SameSlots(p, c)
        /\ c.armed = p.armed /\ c.late = p.late /\ c.scope = E
    BY <2>1, <2>2 DEF Rigs, SameCursor, SameRun, SameSlots
  <2> HIDE DEF c
  <2>5. Prepared(c)
    BY <1>1, <2>1, <2>2, <2>4, ChosenPrepared
  <2> QED BY <2>3, <2>5, AfterSelectionChangeOK
<1>4. ASSUME NEW T \in SUBSET Tests, rig' = AfterSelectionChange([r EXCEPT !.layer = FALSE, !.tests = T])
      PROVE  EngineOK(rig')
  <2> DEFINE c == [r EXCEPT !.layer = FALSE, !.tests = T]
  <2>1. /\ c \in Rigs /\ SameCursor(r, c) /\ SameRun(r, c) /\ SameSlots(r, c)
        /\ c.armed = r.armed /\ c.late = r.late /\ c.scope = r.scope
    BY <1>1 DEF Rigs, SameCursor, SameRun, SameSlots
  <2>2. rig' = AfterSelectionChange(c)
    BY <1>4
  <2> HIDE DEF c
  <2> QED BY <1>1, <2>1, <2>2, ReselectOK
<1>5. ASSUME NEW t \in Tests, NEW on \in BOOLEAN, rig' = SelectPatternTest(r, t, on)
      PROVE  EngineOK(rig')
  <2> DEFINE T == IF on THEN r.tests \cup {t} ELSE r.tests \ {t}
  <2>1. T \in SUBSET Tests
    BY <1>1 DEF Rigs
  <2>2. rig' = AfterSelectionChange([r EXCEPT !.layer = FALSE, !.tests = T])
    BY <1>1, <1>5 DEF SelectPatternTest, Rigs
  <2> HIDE DEF T
  <2> QED BY <1>4, <2>1, <2>2
<1>6. ASSUME NEW E \in SUBSET Walked, NEW T \in SUBSET Tests, rig' = SetPatternTests(r, E, T)
      PROVE  EngineOK(rig')
  <2>1. E \in SUBSET Entries
    BY <1>2
  <2> QED BY <1>1, <1>6, <2>1, SetPatternTestsOK
<1>7. CASE rig' = SetPatternIsolate(r)
  BY <1>1, <1>7, AfterSelectionChangeOK DEF SetPatternIsolate
<1>8. ASSUME NEW t \in Tests, rig' = AdjustPattern(r, t) PROVE EngineOK(rig')
  <2>1. CASE Cardinality(r.tests) = 1
    <3> DEFINE T == {t}
    <3>1. T \in SUBSET Tests
      OBVIOUS
    <3>2. rig' = AfterSelectionChange([r EXCEPT !.tests = T, !.layer = FALSE])
      BY <1>8, <2>1 DEF AdjustPattern
    <3> HIDE DEF T
    <3>3. [r EXCEPT !.tests = T, !.layer = FALSE] = [r EXCEPT !.layer = FALSE, !.tests = T]
      BY <1>1 DEF Rigs
    <3> QED BY <1>4, <3>1, <3>2, <3>3
  <2>2. CASE Cardinality(r.tests) # 1
    BY <1>8, <2>2 DEF AdjustPattern
  <2> QED BY <2>1, <2>2
<1>9. ASSUME NEW on \in BOOLEAN, rig' = SetFollows(r, on) PROVE EngineOK(rig')
  <2> DEFINE c == [r EXCEPT !.follow = on]
  <2>1. /\ c \in Rigs /\ SameCursor(r, c) /\ SameRun(r, c) /\ SameSlots(r, c)
        /\ c.armed = r.armed /\ c.late = r.late /\ c.scope = r.scope
    BY <1>1 DEF Rigs, SameCursor, SameRun, SameSlots
  <2>2. rig' = AfterSelectionChange(c)
    BY <1>9 DEF SetFollows
  <2> HIDE DEF c
  <2> QED BY <1>1, <2>1, <2>2, ReselectOK
<1> QED BY <1>3, <1>5, <1>6, <1>7, <1>8, <1>9 DEF Select

LEMMA IdleOK ==
  ASSUME NEW f \in BOOLEAN, NEW s, s = IdleRig(f)
  PROVE  EngineOK(s) /\ ~s.output /\ s.follow = f
<1>1. 0 \in 0 .. MaxLate
  BY EngineConstants
<1>2. s \in Rigs /\ ~s.output /\ s.follow = f /\ ~s.running
  BY <1>1 DEF IdleRig, Rigs, Modes
<1>3. Settled(s) /\ OnCursor(s)
  BY <1>2 DEF IdleRig, Settled, OnCursor, Classic
<1> QED BY <1>2, <1>3 DEF EngineOK, Prepared

LEMMA EngineStep == EngineOK(rig) /\ [RigNext]_rig => EngineOK(rig)'
<1> SUFFICES ASSUME EngineOK(rig), [RigNext]_rig PROVE EngineOK(rig')
  OBVIOUS
<1> DEFINE r == rig
<1>1. Prepared(r) /\ r \in Rigs
  BY DEF EngineOK, Prepared
<1>2. CASE ClassicStart
  BY <1>1, <1>2, StartWalkOK DEF ClassicStart
<1>3. CASE ClassicStep
  BY <1>3, ClassicStepOK
<1>4. CASE Select
  BY <1>4, SelectOK
<1>5. CASE SwapTests
  <2>1. PICK E \in SUBSET Walked, T \in SUBSET Tests : rig' = SetTests(r, E, T)
    BY <1>5 DEF SwapTests
  <2>2. E \in SUBSET Entries
    BY <2>1, EngineConstants
  <2> QED BY <1>1, <2>1, <2>2, SetTestsOK
<1>6. CASE LetGo \/ Switch
  BY <1>1, <1>6, EmptiedOK DEF LetGo, Switch
<1>7. CASE TurnOn
  <2>1. CASE r.scope = {} \/ r.output
    BY <1>7, <2>1 DEF TurnOn, StartOutput
  <2>2. CASE r.scope # {} /\ ~r.output
    BY <1>1, <1>7, <2>2, StartOutputOK DEF TurnOn
  <2> QED BY <2>1, <2>2
<1>8. CASE TurnOff
  BY <1>1, <1>8, HaltOK DEF TurnOff
<1>9. CASE Panic
  BY <1>9, BlackoutOK DEF Panic
<1>10. CASE Fire
  BY <1>10, TickFiresOK DEF Fire
<1>11. CASE RunTick
  BY <1>11, PatternTickOK DEF RunTick
<1>12. CASE UNCHANGED rig
  BY <1>12
<1> QED BY <1>2, <1>3, <1>4, <1>5, <1>6, <1>7, <1>8, <1>9, <1>10, <1>11, <1>12 DEF RigNext

EngineSound == RigTypeOK /\ StoppedOrTicking /\ ClaimsItsScope /\ WalkLightsCursor

LEMMA SoundEngine == EngineOK(rig) => EngineSound
<1> SUFFICES ASSUME EngineOK(rig) PROVE EngineSound
  OBVIOUS
<1>1. RigTypeOK
  BY DEF EngineOK, Prepared, Rigs, RigTypeOK
<1>2. StoppedOrTicking
  BY DEF EngineOK, Prepared, Settled, StoppedOrTicking
<1>3. ClaimsItsScope
  BY DEF EngineOK, SlotsOf, ClaimsItsScope
<1>4. WalkLightsCursor
  BY DEF EngineOK, Prepared, OnCursor, WalkLightsCursor
<1> QED BY <1>1, <1>2, <1>3, <1>4 DEF EngineSound

(* The engine alone, under any calls of its methods and with ticks that run      *)
(* late: stopped is stopped, output always has a tick to come, what it claims is *)
(* the scope it has now, and a channel walk lights only the fixture under its    *)
(* cursor (stopLocked, recomputePatternLocked, setFrames, patternTick).          *)
THEOREM EngineIsSound == RigSpec => []EngineSound
<1>1. ASSUME NEW f \in BOOLEAN, rig = IdleRig(f) PROVE EngineOK(rig)
  BY <1>1, IdleOK
<1>2. RigInit => EngineOK(rig)
  BY <1>1 DEF RigInit
<1> QED BY <1>2, EngineStep, SoundEngine, PTL DEF RigSpec

-----------------------------------------------------------------------------
(* The layer: what is typed, and what a push does.                           *)

OnStep(r) == r \in Runs /\ r.step \in DOMAIN r.steps
OnStepOrNone(r) == r # none => OnStep(r)

\* The engine shows what was pushed.
Shown(g, o, k) ==
  o => IF k = none THEN ~g.output
       ELSE g.tests = k.tests /\ g.scope = k.targets /\ g.output = (k.targets # {})

LEMMA StepFacts ==
  ASSUME NEW r, OnStep(r)
  PROVE  /\ r # none /\ Steps(r) \in TestSteps
         /\ r.id \in SeqIds /\ r.steps \in Programs /\ r.step \in Nat
         /\ DOMAIN r.steps = 1 .. Len(r.steps) /\ Len(r.steps) \in Nat
<1>1. r \in Runs /\ r.step \in DOMAIN r.steps
  BY DEF OnStep
<1>2. r # none
  BY <1>1, NoneIsApart
<1>3. r.id \in SeqIds /\ r.steps \in Programs /\ r.step \in Nat
  BY <1>1 DEF Runs
<1>4. r.steps \in Seq(TestSteps)
  BY <1>3, LayerConstants
<1> QED BY <1>1, <1>2, <1>3, <1>4 DEF Steps

\* What a key k says of what it was made for.
KeySays(k, r, ad, sc, p, sel) ==
  /\ k \in Keys \cup {none}
  /\ (k = none) <=> (ActiveTests(r, ad) = {})
  /\ r # none => k # none
  /\ k # none => /\ k \in Keys /\ k.tests = ActiveTests(r, ad)
                 /\ k.targets = Resolve(ActiveScope(r, sc), p, sel)
                 /\ k.targets \subseteq p

LEMMA KeyFacts ==
  ASSUME NEW r, OnStepOrNone(r), NEW ad \in SUBSET Tests, NEW sc \in Scopes,
         NEW s \in Shows, NEW p \in SUBSET Entries, NEW sel \in BOOLEAN
  PROVE  KeySays(PushKey(r, ad, sc, s, p, sel), r, ad, sc, p, sel)
<1> DEFINE k == PushKey(r, ad, sc, s, p, sel)
<1> SUFFICES KeySays(k, r, ad, sc, p, sel)
  OBVIOUS
<1> DEFINE T == ActiveTests(r, ad)
           R == Resolve(ActiveScope(r, sc), p, sel)
           n == IF r = none THEN 0 ELSE r.step
<1>1. r # none => Steps(r) \in TestSteps /\ r.step \in Nat
  BY StepFacts DEF OnStepOrNone
<1>2. r # none => Steps(r).tests \in (SUBSET Tests) \ {{}}
  BY <1>1 DEF TestSteps
<1>3. CASE T = {}
  <2>1. k = none
    BY <1>3 DEF PushKey
  <2>2. r = none
    BY <1>3, <1>2 DEF ActiveTests
  <2> HIDE DEF k
  <2> QED BY <1>3, <2>1, <2>2 DEF KeySays
<1>4. CASE T # {}
  <2>1. k = [show |-> s, tests |-> T, targets |-> R, step |-> n]
    BY <1>4 DEF PushKey
  <2>2. T \in (SUBSET Tests) \ {{}}
    BY <1>4, <1>2 DEF ActiveTests
  <2>3. R \in SUBSET Entries /\ R \subseteq p
    BY DEF Resolve
  <2>4. n \in Nat
    BY <1>1
  <2> HIDE DEF T, R, n, k
  <2>5. k \in Keys /\ k.tests = T /\ k.targets = R
    BY <2>1, <2>2, <2>3, <2>4 DEF Keys
  <2>7. k # none
    BY <2>5, NoneIsApart
  <2>8. (r # none => k # none) /\ k.targets \subseteq p
    BY <2>3, <2>5, <2>7
  <2> QED BY <1>4, <2>5, <2>7, <2>8 DEF T, R, KeySays
<1> QED BY <1>3, <1>4

LEMMA ApplyFacts ==
  ASSUME EngineOK(rig), rig.follow = TRUE, owns \in BOOLEAN, pushed \in Keys \cup {none},
         NEW r, OnStepOrNone(r), NEW ad \in SUBSET Tests, NEW sc \in Scopes,
         NEW s \in Shows, NEW p \in SUBSET Entries, NEW sel \in BOOLEAN,
         NEW force \in BOOLEAN, Apply(r, ad, sc, s, p, sel, force),
         force \/ Shown(rig, owns, pushed)
  PROVE  /\ EngineOK(rig') /\ rig'.follow = TRUE
         /\ owns' \in BOOLEAN /\ (owns => owns')
         /\ pushed' \in Keys \cup {none} /\ pushed' = PushKey(r, ad, sc, s, p, sel)
         /\ r # none /\ force => owns'
         /\ ~owns' => rig' = rig
         /\ Shown(rig', owns', pushed')
<1> DEFINE k == PushKey(r, ad, sc, s, p, sel)
<1> HIDE DEF k
<1>1. k = PushKey(r, ad, sc, s, p, sel)
  BY DEF k
<1>6. k \in Keys \cup {none} /\ (r # none => k # none)
  <2>1. KeySays(k, r, ad, sc, p, sel)
    BY <1>1, KeyFacts
  <2> QED BY <2>1 DEF KeySays
<1>2. rig \in Rigs /\ Prepared(rig)
  BY DEF EngineOK, Prepared
<1>3. CASE ~force /\ k = pushed
  <2>1. rig' = rig /\ owns' = owns /\ pushed' = pushed
    BY <1>1, <1>3 DEF Apply
  <2>2. Shown(rig', owns', pushed')
    BY <1>3, <2>1
  <2> QED BY <1>1, <1>3, <1>6, <2>1, <2>2
<1>4. CASE ~(~force /\ k = pushed) /\ k = none
  <2>1. pushed' = k /\ owns' = owns /\ rig' = IF owns THEN ReleaseTests(rig) ELSE rig
    BY <1>1, <1>4 DEF Apply
  <2>2. CASE owns
    <3>1. rig' = ReleaseTests(rig)
      BY <2>1, <2>2
    <3>2. EngineOK(rig') /\ ~rig'.output /\ rig'.follow = rig.follow
      BY <1>2, <3>1, EmptiedOK
    <3> QED BY <1>1, <1>6, <1>4, <2>1, <2>2, <3>2 DEF Shown
  <2>3. CASE ~owns
    BY <1>1, <1>6, <1>4, <2>1, <2>3 DEF Shown
  <2> QED BY <2>2, <2>3
<1>5. CASE ~(~force /\ k = pushed) /\ k # none
  <2>1. pushed' = k /\ owns' = TRUE /\ rig' = SetTests(rig, k.targets, k.tests)
    BY <1>1, <1>5 DEF Apply
  <2>2. k.targets \in SUBSET Entries /\ k.tests \in SUBSET Tests /\ k.tests # {}
    BY <1>6, <1>5 DEF Keys
  <2>3. /\ EngineOK(rig') /\ rig'.tests = k.tests /\ rig'.scope = k.targets
        /\ rig'.follow = rig.follow
        /\ (rig.follow => rig'.output = (k.tests # {} /\ k.targets # {}))
    BY <1>2, <2>1, <2>2, SetTestsOK
  <2>4. rig'.output = (k.targets # {})
    BY <2>2, <2>3
  <2>5. Shown(rig', owns', pushed')
    BY <1>5, <2>1, <2>3, <2>4 DEF Shown
  <2> QED BY <1>1, <1>6, <2>1, <2>3, <2>5
<1> QED BY <1>3, <1>4, <1>5

-----------------------------------------------------------------------------
(* The invariants of the layer.                                              *)

Typed ==
  /\ EngineOK(rig) /\ rig.follow = TRUE
  /\ show \in Shows /\ patch \in [Shows -> SUBSET Entries]
  /\ stored \in [Shows -> [SeqIds -> Programs \cup {none}]]
  /\ picked \in BOOLEAN /\ owns \in BOOLEAN /\ gen \in 0 .. MaxGen
  /\ adHoc \in SUBSET Tests /\ adScope \in Scopes
  /\ pushed \in Keys \cup {none} /\ req \in Requests \cup {none}

\* A running sequence is the stored one, on one of its steps, and owns the layer.
RunInv ==
  run # none => /\ OnStep(run) /\ run.visit \in 1 .. MaxGen
                /\ adHoc = {} /\ owns
                /\ stored[show][run.id] = run.steps

\* Once the tests state was forgotten, nothing drives the layer until the
\* request ends.
Boundaries == Edits \ {"edit"}
Forgotten ==
  /\ req # none
  /\ \/ req.at = "preset"
     \/ req.kind \in Boundaries /\ req.at \in {"handler", "done"}
ReqInv ==
  /\ req # none /\ req.at \in {"reset", "handler"} => req.kind \in Edits
  /\ req # none /\ req.at = "reset" => req.kind \in Boundaries
  /\ req # none /\ req.at = "preset" => req.kind = "preset"
  /\ Forgotten => ~owns

\* A timer of the current generation belongs to the step the run is on.
TimerOf(c, r, g) ==
  /\ c \in [gen : 1 .. MaxGen, visit : 1 .. MaxGen] /\ c.gen <= g
  /\ c.gen = g => r # none /\ ~r.paused /\ c.visit = r.visit
TimerInv ==
  /\ \A c \in fired : TimerOf(c, run, gen)
  /\ due # none => TimerOf(due, run, gen)

LayerInv == Typed /\ RunInv /\ ReqInv /\ TimerInv

\* What the engine shows, and what was pushed; an engine that the Tests API does
\* not drive shows entries of the present patch, and nothing where the patch is
\* about to change.
ShownInv ==
  /\ ~InGap => Shown(rig, owns, pushed)
  /\ Free /\ owns => pushed = PushKey(run, adHoc, adScope, show, patch[show], picked)
  /\ ~owns /\ rig.output => rig.scope \subseteq patch[show]
  /\ InGap => ~rig.output
  /\ req # none /\ req.kind \in Boundaries /\ req.at \in {"handler", "done"} => ~rig.output
  /\ req # none /\ req.kind = "edit" /\ req.at = "handler" /\ ~owns => ~rig.output

LEMMA ReqApart ==
  ASSUME NEW q \in Requests
  PROVE  q # none
BY NoneIsApart

LEMMA SameKey ==
  ASSUME NEW r, OnStep(r), NEW t, OnStep(t), t.steps = r.steps, t.step = r.step,
         NEW ad, NEW sc, NEW s, NEW p, NEW sel
  PROVE  PushKey(t, ad, sc, s, p, sel) = PushKey(r, ad, sc, s, p, sel)
<1>1. r # none /\ t # none
  BY StepFacts
<1> QED BY <1>1 DEF PushKey, ActiveTests, ActiveScope, Steps

\* Whatever a new generation makes of the run, earlier timers are superseded.
LEMMA NewGeneration ==
  ASSUME Typed, TimerInv, gen < MaxGen, gen' = gen + 1, fired' \subseteq fired,
         due' = none \/ TimerOf(due', run', gen')
  PROVE  gen' \in 0 .. MaxGen /\ TimerInv'
<1>1. gen \in 0 .. MaxGen /\ MaxGen \in Nat
  BY LayerConstants DEF Typed
<1>2. gen' \in 0 .. MaxGen /\ gen < gen'
  BY <1>1
<1>3. ASSUME NEW c \in fired' PROVE TimerOf(c, run', gen')
  <2>1. TimerOf(c, run, gen)
    BY <1>3 DEF TimerInv
  <2>2. c \in [gen : 1 .. MaxGen, visit : 1 .. MaxGen] /\ c.gen <= gen
    BY <2>1 DEF TimerOf
  <2>3. c.gen \in 1 .. MaxGen
    BY <2>2
  <2>4. c.gen <= gen' /\ c.gen # gen'
    BY <1>1, <1>2, <2>2, <2>3
  <2> QED BY <2>2, <2>4 DEF TimerOf
<1>4. TimerInv'
  BY <1>3 DEF TimerInv
<1> QED BY <1>2, <1>4

\* The timers when neither the run nor the generation changes.
LEMMA SameTimers ==
  ASSUME TimerInv, UNCHANGED <<run, gen, due>>, fired' \subseteq fired
  PROVE  TimerInv'
BY DEF TimerInv

LEMMA ForcedKeeps ==
  ASSUME Typed, NEW r, OnStepOrNone(r), NEW ad \in SUBSET Tests, NEW sc \in Scopes,
         Apply(r, ad, sc, show, patch[show], picked, TRUE)
  PROVE  /\ EngineOK(rig') /\ rig'.follow = TRUE
         /\ owns' \in BOOLEAN /\ (owns => owns') /\ (r # none => owns')
         /\ pushed' \in Keys \cup {none}
         /\ pushed' = PushKey(r, ad, sc, show, patch[show], picked)
         /\ ~owns' => rig' = rig
         /\ Shown(rig', owns', pushed')
<1> DEFINE p == patch[show]
<1>1. p \in SUBSET Entries /\ show \in Shows /\ picked \in BOOLEAN /\ sc \in Scopes
  BY DEF Typed
<1>2. Apply(r, ad, sc, show, p, picked, TRUE)
  OBVIOUS
<1>3. EngineOK(rig) /\ rig.follow = TRUE /\ owns \in BOOLEAN /\ pushed \in Keys \cup {none}
  BY DEF Typed
<1> HIDE DEF p
<1>4. TRUE \in BOOLEAN
  OBVIOUS
<1>5. /\ EngineOK(rig') /\ rig'.follow = TRUE
      /\ owns' \in BOOLEAN /\ (owns => owns')
      /\ pushed' \in Keys \cup {none} /\ pushed' = PushKey(r, ad, sc, show, p, picked)
      /\ (r # none /\ TRUE => owns')
      /\ (~owns' => rig' = rig)
      /\ Shown(rig', owns', pushed')
  BY <1>1, <1>2, <1>3, <1>4, ApplyFacts
<1> QED BY <1>5 DEF p

LEMMA PushKeeps ==
  ASSUME Typed, NEW r, OnStepOrNone(r), NEW ad \in SUBSET Tests, adScope' \in Scopes,
         Push(r, ad)
  PROVE  /\ EngineOK(rig') /\ rig'.follow = TRUE
         /\ owns' \in BOOLEAN /\ (owns => owns') /\ (r # none => owns')
         /\ pushed' \in Keys \cup {none}
         /\ pushed' = PushKey(r, ad, adScope', show, patch[show], picked)
         /\ ~owns' => rig' = rig
         /\ Shown(rig', owns', pushed')
BY ForcedKeeps DEF Push

LEMMA EnterStepKeeps ==
  ASSUME Typed, TimerInv, NEW r, OnStep(r), stored[show][r.id] = r.steps, EnterStep(r),
         adHoc' = {}, adScope' \in Scopes, fired' \subseteq fired,
         UNCHANGED <<show, patch, stored, picked>>
  PROVE  /\ EngineOK(rig') /\ rig'.follow = TRUE /\ gen' \in 0 .. MaxGen
         /\ owns' = TRUE /\ pushed' \in Keys \cup {none}
         /\ run' # none /\ RunInv' /\ TimerInv'
         /\ Shown(rig', owns', pushed')
         /\ pushed' = PushKey(run', adHoc', adScope', show', patch'[show'], picked')
<1>1. gen \in 0 .. MaxGen /\ gen < MaxGen /\ MaxGen \in Nat
  BY LayerConstants DEF Typed, EnterStep
<1> DEFINE v == gen + 1
<1>2. v \in 1 .. MaxGen /\ v \in Nat /\ v <= v
  BY <1>1
<1>3. /\ gen' = v /\ run' = [r EXCEPT !.visit = v] /\ Push(r, {})
      /\ due' = IF Steps(r).auto /\ ~r.paused THEN [gen |-> v, visit |-> v] ELSE none
  BY DEF EnterStep
<1> HIDE DEF v
<1>4. OnStep(run') /\ run'.visit = v /\ run'.paused = r.paused /\ run'.id = r.id
      /\ run'.steps = r.steps /\ run'.step = r.step
  BY <1>2, <1>3 DEF OnStep, Runs
<1>5. run' # none /\ r # none
  BY <1>4, StepFacts
<1>6. OnStepOrNone(r) /\ {} \in SUBSET Tests
  BY DEF OnStepOrNone
<1>7. /\ EngineOK(rig') /\ rig'.follow = TRUE
      /\ owns' \in BOOLEAN /\ (r # none => owns')
      /\ pushed' \in Keys \cup {none}
      /\ pushed' = PushKey(r, {}, adScope', show, patch[show], picked)
      /\ Shown(rig', owns', pushed')
  BY <1>3, <1>6, PushKeeps
<1>8. owns' = TRUE
  BY <1>5, <1>7
<1>9. due' = none \/ TimerOf(due', run', gen')
  <2>1. CASE Steps(r).auto /\ ~r.paused
    <3>1. due' = [gen |-> v, visit |-> v]
      BY <1>3, <2>1
    <3> QED BY <1>2, <1>3, <1>4, <1>5, <2>1, <3>1 DEF TimerOf
  <2>2. CASE ~(Steps(r).auto /\ ~r.paused)
    BY <1>3, <2>2
  <2> QED BY <2>1, <2>2
<1>10. gen' \in 0 .. MaxGen /\ TimerInv'
  BY <1>1, <1>3, <1>9, NewGeneration DEF v
<1>11. PushKey(run', {}, adScope', show, patch[show], picked)
         = PushKey(r, {}, adScope', show, patch[show], picked)
  BY <1>4, SameKey
<1>12. RunInv'
  BY <1>2, <1>4, <1>8 DEF RunInv
<1> QED BY <1>5, <1>7, <1>8, <1>10, <1>11, <1>12

LEMMA EndRunKeeps ==
  ASSUME Typed, TimerInv, EndRun, fired' \subseteq fired,
         UNCHANGED <<show, patch, stored, picked>>
  PROVE  /\ EngineOK(rig') /\ rig'.follow = TRUE /\ gen' \in 0 .. MaxGen
         /\ owns' \in BOOLEAN /\ (owns => owns') /\ (~owns' => rig' = rig)
         /\ pushed' \in Keys \cup {none} /\ adHoc' = {} /\ adScope' = adScope
         /\ RunInv' /\ TimerInv' /\ Shown(rig', owns', pushed')
         /\ pushed' = PushKey(run', adHoc', adScope', show', patch'[show'], picked')
<1>1. /\ gen < MaxGen /\ gen' = gen + 1 /\ due' = none /\ run' = none
      /\ adHoc' = {} /\ adScope' = adScope /\ Push(none, {})
  BY DEF EndRun, StopTimer
<1>2. OnStepOrNone(none) /\ {} \in SUBSET Tests /\ adScope' \in Scopes
  BY <1>1 DEF OnStepOrNone, Typed
<1>3. /\ EngineOK(rig') /\ rig'.follow = TRUE
      /\ owns' \in BOOLEAN /\ (owns => owns') /\ (~owns' => rig' = rig)
      /\ pushed' \in Keys \cup {none}
      /\ pushed' = PushKey(none, {}, adScope', show, patch[show], picked)
      /\ Shown(rig', owns', pushed')
  BY <1>1, <1>2, PushKeeps
<1>4. gen' \in 0 .. MaxGen /\ TimerInv'
  BY <1>1, NewGeneration
<1>5. RunInv'
  BY <1>1 DEF RunInv
<1> QED BY <1>1, <1>3, <1>4, <1>5

\* A served request: what is left for the guard's refresh.
LEMMA ServedKeeps ==
  ASSUME Serve
  PROVE  req' \in Requests /\ req' # none /\ req'.at = "done" /\ ReqInv'
<1>1. req' = [kind |-> "refresh", at |-> "done"]
  BY DEF Serve
<1>2. req' \in Requests
  BY <1>1 DEF Requests
<1>3. ReqInv'
  BY <1>1 DEF ReqInv, Forgotten, Boundaries, Edits
<1> QED BY <1>1, <1>2, <1>3, ReqApart

LEMMA ServedShown ==
  ASSUME ShownInv, Serve, Shown(rig', owns', pushed'),
         ~owns' => ~owns /\ rig' = rig /\ show' = show /\ patch' = patch
  PROVE  ShownInv'
<1>1. req' = [kind |-> "refresh", at |-> "done"] /\ req' # none
  BY ServedKeeps DEF Serve
<1>2. ~owns' /\ rig'.output => rig'.scope \subseteq patch'[show']
  BY DEF ShownInv
<1> QED BY <1>1, <1>2 DEF ShownInv, InGap, Free, Boundaries, Edits

Quiet == ~TimerInGap /\ ~TakeoverInGap
Keeps == LayerInv' /\ (Quiet /\ ShownInv => ShownInv')

LEMMA SetAdHocKeeps == LayerInv /\ SetAdHoc => Keeps
<1> SUFFICES ASSUME LayerInv, SetAdHoc PROVE Keeps
  OBVIOUS
<1>1. Typed /\ TimerInv
  BY DEF LayerInv
<1>2. PICK T \in SUBSET Tests, sc \in Scopes : adHoc' = T /\ adScope' = sc /\ Push(none, T)
  BY DEF SetAdHoc
<1>3. OnStepOrNone(none) /\ T \in SUBSET Tests /\ adScope' \in Scopes
  BY <1>2 DEF OnStepOrNone
<1>4. /\ EngineOK(rig') /\ rig'.follow = TRUE
      /\ owns' \in BOOLEAN /\ (owns => owns') /\ (~owns' => rig' = rig)
      /\ pushed' \in Keys \cup {none} /\ Shown(rig', owns', pushed')
  BY <1>1, <1>2, <1>3, PushKeeps
<1>5. Serve /\ UNCHANGED <<show, patch, stored, picked, run, gen, due, fired>> /\ run = none
  BY DEF SetAdHoc
<1>6. req' \in Requests /\ ReqInv'
  BY <1>5, ServedKeeps
<1>7. Typed'
  BY <1>1, <1>2, <1>3, <1>4, <1>5, <1>6 DEF Typed
<1>8. RunInv' /\ TimerInv'
  BY <1>1, <1>5, SameTimers DEF RunInv
<1>9. ShownInv => ShownInv'
  BY <1>4, <1>5, ServedShown
<1> QED BY <1>6, <1>7, <1>8, <1>9 DEF Keeps, LayerInv

LEMMA ClearKeeps == LayerInv /\ Clear => Keeps
<1> SUFFICES ASSUME LayerInv, Clear PROVE Keeps
  OBVIOUS
<1>1. Typed /\ TimerInv /\ RunInv
  BY DEF LayerInv
<1>2. Serve /\ UNCHANGED <<show, patch, stored, picked, fired>>
  BY DEF Clear
<1>3. /\ EngineOK(rig') /\ rig'.follow = TRUE /\ gen' \in 0 .. MaxGen
      /\ owns' \in BOOLEAN /\ (owns => owns') /\ (~owns' => rig' = rig)
      /\ pushed' \in Keys \cup {none} /\ adHoc' = {} /\ adScope' = adScope
      /\ RunInv' /\ TimerInv' /\ Shown(rig', owns', pushed')
  <2>1. CASE run # none
    <3>1. EndRun
      BY <2>1 DEF Clear
    <3> QED BY <1>1, <1>2, <3>1, EndRunKeeps
  <2>2. CASE run = none
    <3>1. /\ adHoc' = {} /\ adScope' = adScope /\ Push(none, {})
          /\ UNCHANGED <<run, gen, due>>
      BY <2>2 DEF Clear
    <3>2. OnStepOrNone(none) /\ {} \in SUBSET Tests /\ adScope' \in Scopes
      BY <1>1, <3>1 DEF OnStepOrNone, Typed
    <3>3. /\ EngineOK(rig') /\ rig'.follow = TRUE
          /\ owns' \in BOOLEAN /\ (owns => owns') /\ (~owns' => rig' = rig)
          /\ pushed' \in Keys \cup {none} /\ Shown(rig', owns', pushed')
      BY <1>1, <3>1, <3>2, PushKeeps
    <3>4. RunInv' /\ TimerInv' /\ gen' \in 0 .. MaxGen
      BY <1>1, <1>2, <2>2, <3>1, SameTimers DEF RunInv, Typed
    <3> QED BY <3>1, <3>3, <3>4
  <2> QED BY <2>1, <2>2
<1>4. req' \in Requests /\ ReqInv'
  BY <1>2, ServedKeeps
<1>5. Typed'
  BY <1>1, <1>2, <1>3, <1>4 DEF Typed
<1>6. ShownInv => ShownInv'
  BY <1>2, <1>3, ServedShown
<1> QED BY <1>3, <1>4, <1>5, <1>6 DEF Keeps, LayerInv

\* A step entered by a request.
LEMMA EnteredKeeps ==
  ASSUME LayerInv, NEW r, OnStep(r), stored[show][r.id] = r.steps, EnterStep(r),
         adHoc' = {}, adScope' = adScope, Serve,
         UNCHANGED <<show, patch, stored, picked, fired>>
  PROVE  Keeps
<1>1. Typed /\ TimerInv /\ adScope' \in Scopes
  BY DEF LayerInv, Typed
<1>2. /\ EngineOK(rig') /\ rig'.follow = TRUE /\ gen' \in 0 .. MaxGen
      /\ owns' = TRUE /\ pushed' \in Keys \cup {none}
      /\ RunInv' /\ TimerInv' /\ Shown(rig', owns', pushed')
  BY <1>1, EnterStepKeeps
<1>3. req' \in Requests /\ ReqInv'
  BY ServedKeeps
<1>4. Typed'
  BY <1>1, <1>2, <1>3 DEF Typed
<1>5. ShownInv => ShownInv'
  BY <1>2, ServedShown
<1> QED BY <1>2, <1>3, <1>4, <1>5 DEF Keeps, LayerInv

LEMMA RunStartKeeps == LayerInv /\ RunStart => Keeps
<1> SUFFICES ASSUME LayerInv, RunStart PROVE Keeps
  OBVIOUS
<1>1. PICK q \in SeqIds : LET p == stored[show][q] IN
        /\ p # none
        /\ \E i \in DOMAIN p :
             EnterStep([id |-> q, steps |-> p, step |-> i, paused |-> FALSE, visit |-> 0])
  BY DEF RunStart
<1> DEFINE p == stored[show][q]
<1>2. PICK i \in DOMAIN p :
        EnterStep([id |-> q, steps |-> p, step |-> i, paused |-> FALSE, visit |-> 0])
  BY <1>1
<1>3. p \in Programs
  BY <1>1 DEF LayerInv, Typed
<1>4. i \in Nat
  BY <1>2, <1>3, LayerConstants
<1> DEFINE r == [id |-> q, steps |-> p, step |-> i, paused |-> FALSE, visit |-> 0]
<1>5. OnStep(r) /\ r.id = q /\ r.steps = p
  BY <1>1, <1>2, <1>3, <1>4 DEF OnStep, Runs
<1>6. EnterStep(r) /\ stored[show][r.id] = r.steps
  BY <1>2, <1>5
<1> HIDE DEF r
<1>7. /\ adHoc' = {} /\ adScope' = adScope /\ Serve
      /\ UNCHANGED <<show, patch, stored, picked, fired>>
  BY DEF RunStart
<1> QED BY <1>5, <1>6, <1>7, EnteredKeeps

LEMMA RunMoveKeeps == LayerInv /\ RunMove => Keeps
<1> SUFFICES ASSUME LayerInv, RunMove PROVE Keeps
  OBVIOUS
<1>1. PICK i \in DOMAIN run.steps : EnterStep([run EXCEPT !.step = i])
  BY DEF RunMove
<1>2. OnStep(run) /\ adHoc = {} /\ stored[show][run.id] = run.steps
  BY DEF RunMove, LayerInv, RunInv
<1>3. i \in Nat
  BY <1>1, <1>2, StepFacts
<1> DEFINE r == [run EXCEPT !.step = i]
<1>4. OnStep(r) /\ r.id = run.id /\ r.steps = run.steps
  BY <1>1, <1>2, <1>3 DEF OnStep, Runs
<1>5. EnterStep(r) /\ stored[show][r.id] = r.steps
  BY <1>1, <1>2, <1>4
<1> HIDE DEF r
<1>6. /\ adHoc' = {} /\ adScope' = adScope /\ Serve
      /\ UNCHANGED <<show, patch, stored, picked, fired>>
  BY <1>2 DEF RunMove
<1> QED BY <1>4, <1>5, <1>6, EnteredKeeps

LEMMA RunPauseKeeps == LayerInv /\ RunPause => Keeps
<1> SUFFICES ASSUME LayerInv, RunPause PROVE Keeps
  OBVIOUS
<1>1. Typed /\ TimerInv /\ RunInv
  BY DEF LayerInv
<1>2. /\ run # none /\ Serve /\ gen < MaxGen /\ gen' = gen + 1 /\ due' = none
      /\ run' = [run EXCEPT !.paused = TRUE]
      /\ UNCHANGED <<rig, show, patch, stored, picked, adHoc, adScope, owns, pushed, fired>>
  BY DEF RunPause, StopTimer
<1>3. OnStep(run) /\ run.visit \in 1 .. MaxGen /\ adHoc = {} /\ owns
      /\ stored[show][run.id] = run.steps
  BY <1>1, <1>2 DEF RunInv
<1>4. OnStep(run') /\ run'.visit = run.visit /\ run'.id = run.id /\ run'.steps = run.steps
  BY <1>2, <1>3 DEF OnStep, Runs
<1>5. RunInv'
  BY <1>2, <1>3, <1>4 DEF RunInv
<1>6. gen' \in 0 .. MaxGen /\ TimerInv'
  BY <1>1, <1>2, NewGeneration
<1>7. req' \in Requests /\ ReqInv' /\ ~InGap
  BY <1>2, ServedKeeps DEF RunPause, Free, InGap
<1>8. Typed'
  BY <1>1, <1>2, <1>6, <1>7 DEF Typed
<1>9. ShownInv => ShownInv'
  <2>1. ShownInv => Shown(rig', owns', pushed')
    BY <1>2, <1>7 DEF ShownInv, Shown
  <2> QED BY <1>2, <1>3, <2>1, ServedShown
<1> QED BY <1>5, <1>6, <1>7, <1>8, <1>9 DEF Keeps, LayerInv

LEMMA RunResumeKeeps == LayerInv /\ RunResume => Keeps
<1> SUFFICES ASSUME LayerInv, RunResume PROVE Keeps
  OBVIOUS
<1>1. Typed /\ TimerInv /\ RunInv
  BY DEF LayerInv
<1>2. /\ run # none /\ run.paused /\ Serve /\ gen < MaxGen /\ ~InGap
      /\ run' = [run EXCEPT !.paused = FALSE]
      /\ UNCHANGED <<rig, show, patch, stored, picked, adHoc, adScope, owns, pushed, fired>>
  BY DEF RunResume, Free, InGap
<1>3. OnStep(run) /\ run.visit \in 1 .. MaxGen /\ adHoc = {} /\ owns
      /\ stored[show][run.id] = run.steps
  BY <1>1, <1>2 DEF RunInv
<1>4. OnStep(run') /\ run'.visit = run.visit /\ run'.id = run.id /\ run'.steps = run.steps
      /\ run'.paused = FALSE
  BY <1>2, <1>3 DEF OnStep, Runs
<1>5. RunInv'
  BY <1>2, <1>3, <1>4 DEF RunInv
<1>6. gen' \in 0 .. MaxGen /\ TimerInv'
  <2>1. CASE Steps(run).auto
    <3>1. gen' = gen + 1 /\ due' = [gen |-> gen + 1, visit |-> run.visit]
      BY <2>1 DEF RunResume
    <3>2. gen + 1 \in 1 .. MaxGen /\ gen + 1 <= gen + 1
      BY <1>1, <1>2, LayerConstants DEF Typed
    <3> DEFINE g == gen + 1
    <3>3. due' = [gen |-> g, visit |-> run.visit] /\ gen' = g /\ g \in 1 .. MaxGen /\ g <= g
      BY <3>1, <3>2
    <3> HIDE DEF g
    <3>4. run' # none
      BY <1>4, StepFacts
    <3>5. TimerOf(due', run', gen')
      BY <1>3, <1>4, <3>3, <3>4 DEF TimerOf
    <3> QED BY <1>1, <1>2, <3>1, <3>5, NewGeneration
  <2>2. CASE ~Steps(run).auto
    <3>1. gen' = gen /\ due' = due /\ fired' = fired
      BY <1>2, <2>2 DEF RunResume
    <3>2. ASSUME NEW c, TimerOf(c, run, gen) PROVE TimerOf(c, run', gen')
      BY <1>2, <3>1, <3>2 DEF TimerOf
    <3> QED BY <1>1, <3>1, <3>2 DEF TimerInv, Typed
  <2> QED BY <2>1, <2>2
<1>7. req' \in Requests /\ ReqInv'
  BY <1>2, ServedKeeps
<1>8. Typed'
  BY <1>1, <1>2, <1>6, <1>7 DEF Typed
<1>9. ShownInv => ShownInv'
  <2>1. ShownInv => Shown(rig', owns', pushed')
    BY <1>2 DEF ShownInv, Shown
  <2> QED BY <1>2, <1>3, <2>1, ServedShown
<1> QED BY <1>5, <1>6, <1>7, <1>8, <1>9 DEF Keeps, LayerInv

\* Requests that leave the engine and the tests state alone.
LEMMA OtherKeeps ==
  ASSUME LayerInv, Serve, UNCHANGED <<rig, show, patch, testsVars>>, Free,
         picked' \in BOOLEAN, stored' \in [Shows -> [SeqIds -> Programs \cup {none}]],
         run # none => stored'[show][run.id] = stored[show][run.id]
  PROVE  Keeps
<1>1. /\ UNCHANGED <<rig, show, patch>>
      /\ UNCHANGED <<adHoc, adScope, run, owns, pushed, gen, due, fired>>
  BY DEF testsVars
<1>2. req' \in Requests /\ ReqInv'
  BY ServedKeeps
<1>3. Typed'
  BY <1>1, <1>2 DEF LayerInv, Typed
<1>4. RunInv' /\ TimerInv'
  BY <1>1, SameTimers DEF LayerInv, RunInv
<1>5. ShownInv => ShownInv'
  <2>1. ShownInv => Shown(rig', owns', pushed')
    BY <1>1 DEF ShownInv, Shown, InGap, Free
  <2> QED BY <1>1, <2>1, ServedShown
<1> QED BY <1>2, <1>3, <1>4, <1>5 DEF Keeps, LayerInv

LEMMA StoreSequenceKeeps == LayerInv /\ StoreSequence => Keeps
<1> SUFFICES ASSUME LayerInv, StoreSequence PROVE Keeps
  OBVIOUS
<1>1. PICK q \in SeqIds, p \in Programs \cup {none} :
        SequenceChangeable(q) /\ stored' = [stored EXCEPT ![show][q] = p]
  BY DEF StoreSequence
<1>2. show \in Shows /\ stored \in [Shows -> [SeqIds -> Programs \cup {none}]]
  BY DEF LayerInv, Typed
<1>3. stored' = [stored EXCEPT ![show] = [stored[show] EXCEPT ![q] = p]]
  BY <1>1, <1>2
<1>4. [stored[show] EXCEPT ![q] = p] \in [SeqIds -> Programs \cup {none}]
  BY <1>1, <1>2
<1>5. stored' \in [Shows -> [SeqIds -> Programs \cup {none}]]
  BY <1>2, <1>3, <1>4
<1>6. stored'[show] = [stored[show] EXCEPT ![q] = p]
  BY <1>2, <1>3
<1>7. run # none => stored'[show][run.id] = stored[show][run.id]
  <2> SUFFICES ASSUME run # none PROVE stored'[show][run.id] = stored[show][run.id]
    OBVIOUS
  <2>1. run.id # q
    BY <1>1 DEF SequenceChangeable
  <2>2. run.id \in SeqIds
    BY StepFacts DEF LayerInv, RunInv
  <2> QED BY <1>2, <1>6, <2>1, <2>2
<1>8. /\ Serve /\ Free /\ picked' \in BOOLEAN
      /\ UNCHANGED <<rig, show, patch, testsVars>>
  BY DEF StoreSequence, LayerInv, Typed
<1> QED BY <1>5, <1>7, <1>8, OtherKeeps

LEMMA SelectFixturesKeeps == LayerInv /\ SelectFixtures => Keeps
<1> SUFFICES ASSUME LayerInv, SelectFixtures PROVE Keeps
  OBVIOUS
<1>1. /\ Serve /\ Free /\ picked' \in BOOLEAN /\ stored' = stored
      /\ UNCHANGED <<rig, show, patch, testsVars>>
  BY DEF SelectFixtures, LayerInv, Typed
<1>2. stored' \in [Shows -> [SeqIds -> Programs \cup {none}]]
  BY <1>1 DEF LayerInv, Typed
<1> QED BY <1>1, <1>2, OtherKeeps

\* The guard's refresh: after it, what was pushed is what is active.
LEMMA RefreshKeeps == LayerInv /\ Refresh => Keeps
<1> SUFFICES ASSUME LayerInv, Refresh PROVE Keeps
  OBVIOUS
<1>1. /\ req # none /\ req.at = "done" /\ req' = none
      /\ UNCHANGED <<show, patch, stored, picked, adHoc, adScope, run, gen, due, fired>>
  BY DEF Refresh
<1>2. Typed /\ RunInv /\ TimerInv
  BY DEF LayerInv
<1>3. TimerInv' /\ ReqInv'
  <2>1. run' = run /\ gen' = gen /\ due' = due /\ fired' = fired
    BY <1>1
  <2>3. TimerInv'
    BY <1>2, <2>1, SameTimers
  <2>2. ReqInv'
    BY <1>1 DEF ReqInv, Forgotten
  <2> QED BY <2>2, <2>3
<1>4. RunInv' /\ TimerInv' /\ ReqInv' /\ Typed' /\ (ShownInv => ShownInv')
  <2>1. CASE ~owns
    <3>1. UNCHANGED <<rig, owns, pushed>>
      BY <2>1 DEF Refresh
    <3>2. RunInv'
      BY <1>1, <1>2, <3>1 DEF RunInv
    <3>3. Typed'
      BY <1>1, <1>2, <3>1 DEF Typed
    <3>4. ShownInv => ShownInv'
      BY <1>1, <2>1, <3>1 DEF ShownInv, InGap, Free, Shown
    <3> QED BY <1>3, <3>2, <3>3, <3>4
  <2>2. CASE owns
    <3> DEFINE p == patch[show]
    <3>1. Apply(run, adHoc, adScope, show, p, picked, FALSE)
      BY <2>2 DEF Refresh
    <3>2. /\ EngineOK(rig) /\ rig.follow = TRUE /\ owns \in BOOLEAN
          /\ pushed \in Keys \cup {none} /\ adHoc \in SUBSET Tests /\ adScope \in Scopes
          /\ show \in Shows /\ p \in SUBSET Entries /\ picked \in BOOLEAN
      BY <1>2 DEF Typed
    <3>3. OnStepOrNone(run)
      BY <1>2 DEF OnStepOrNone, RunInv
    <3> DEFINE k == PushKey(run, adHoc, adScope, show, p, picked)
    <3>4. /\ EngineOK(rig') /\ rig'.follow = TRUE /\ owns' = TRUE
          /\ pushed' \in Keys \cup {none} /\ pushed' = k
          /\ ShownInv => Shown(rig', owns', pushed')
      <4>1. CASE k = pushed
        <5>1. rig' = rig /\ owns' = owns /\ pushed' = pushed
          BY <3>1, <4>1 DEF Apply
        <5>2. ShownInv => Shown(rig', owns', pushed')
          BY <1>1, <5>1 DEF ShownInv, InGap
        <5> QED BY <2>2, <3>2, <4>1, <5>1, <5>2
      <4>2. CASE k # pushed
        <5>1. Apply(run, adHoc, adScope, show, p, picked, TRUE)
          BY <3>1, <4>2 DEF Apply
        <5>2. /\ EngineOK(rig') /\ rig'.follow = TRUE
              /\ owns' \in BOOLEAN /\ (owns => owns')
              /\ pushed' \in Keys \cup {none} /\ pushed' = k
              /\ Shown(rig', owns', pushed')
          BY <1>2, <3>2, <3>3, <5>1, ForcedKeeps
        <5> QED BY <2>2, <5>2
      <4> QED BY <4>1, <4>2
    <3>5. RunInv'
      BY <1>1, <1>2, <3>4 DEF RunInv
    <3>6. Typed'
      BY <1>1, <1>2, <3>4 DEF Typed
    <3>7. pushed' = PushKey(run', adHoc', adScope', show', patch'[show'], picked')
      BY <1>1, <3>4
    <3>8. ShownInv => ShownInv'
      BY <1>1, <3>4, <3>7 DEF ShownInv, InGap, Free
    <3> QED BY <1>3, <3>5, <3>6, <3>8
  <2>3. owns \in BOOLEAN
    BY <1>2 DEF Typed
  <2> QED BY <2>1, <2>2, <2>3
<1> QED BY <1>4 DEF Keeps, LayerInv

\* Steps that touch only the timers.
LEMMA OnlyTimersKeep ==
  ASSUME LayerInv, TimerInv',
         UNCHANGED <<rig, show, patch, stored, picked, adHoc, adScope, run, owns, pushed, gen, req>>
  PROVE  Keeps
<1>1. Typed' /\ RunInv'
  BY DEF LayerInv, Typed, RunInv
<1>2. ReqInv'
  BY DEF LayerInv, ReqInv, Forgotten
<1>3. ShownInv => ShownInv'
  BY DEF ShownInv, InGap, Free
<1> QED BY <1>1, <1>2, <1>3 DEF Keeps, LayerInv

LEMMA TimerFiresKeeps == LayerInv /\ TimerFires => Keeps
<1> SUFFICES ASSUME LayerInv, TimerFires PROVE Keeps
  OBVIOUS
<1>1. /\ due # none /\ due' = none /\ fired' = fired \cup {due}
      /\ UNCHANGED <<rig, show, patch, stored, picked, adHoc, adScope, run, owns, pushed, gen, req>>
  BY DEF TimerFires
<1>2. TimerInv
  BY DEF LayerInv
<1>3. TimerInv'
  <2>1. ASSUME NEW c \in fired' PROVE TimerOf(c, run', gen')
    <3>1. TimerOf(c, run, gen)
      BY <1>1, <1>2, <2>1 DEF TimerInv
    <3> QED BY <1>1, <3>1
  <2> QED BY <1>1, <2>1 DEF TimerInv
<1> QED BY <1>1, <1>3, OnlyTimersKeep

\* The callback advances a run only if its timer is the run's own.
LEMMA OwnTimer ==
  ASSUME LayerInv, NEW c \in fired, ~Superseded(c)
  PROVE  run # none /\ c.visit = run.visit /\ owns /\ ~Forgotten
<1>1. c.gen = gen /\ run # none
  BY DEF Superseded
<1>2. TimerOf(c, run, gen)
  BY DEF LayerInv, TimerInv
<1> QED BY <1>1, <1>2 DEF TimerOf, LayerInv, RunInv, ReqInv

LEMMA AdvancedShown ==
  ASSUME owns' = TRUE, ~InGap, ~Forgotten, req' = req, Shown(rig', owns', pushed'),
         pushed' = PushKey(run', adHoc', adScope', show', patch'[show'], picked')
  PROVE  ShownInv'
BY DEF ShownInv, InGap, Free, Forgotten

LEMMA AutoAdvanceKeeps == LayerInv /\ AutoAdvance => Keeps
<1> SUFFICES ASSUME LayerInv, AutoAdvance PROVE Keeps
  OBVIOUS
<1>1. PICK c \in fired :
        /\ TimerInGap \/ ~InGap
        /\ fired' = fired \ {c}
        /\ UNCHANGED <<show, patch, stored, picked, req>>
        /\ IF Superseded(c) THEN UNCHANGED <<rig, adHoc, adScope, run, owns, pushed, gen, due>>
           ELSE IF run.step = Len(run.steps) THEN EndRun
           ELSE /\ UNCHANGED <<adHoc, adScope>>
                /\ EnterStep([run EXCEPT !.step = @ + 1])
  BY DEF AutoAdvance
<1>2. Typed /\ TimerInv /\ RunInv /\ ReqInv
  BY DEF LayerInv
<1>3. /\ fired' \subseteq fired
      /\ UNCHANGED <<show, patch, stored, picked>> /\ req' = req
  BY <1>1
<1>4. CASE Superseded(c)
  <2>1. UNCHANGED <<rig, adHoc, adScope, run, owns, pushed, gen, due>>
    BY <1>1, <1>4
  <2>2. TimerInv'
    BY <1>2, <1>3, <2>1, SameTimers
  <2> QED BY <1>3, <2>1, <2>2, OnlyTimersKeep
<1>5. CASE ~Superseded(c)
  <2>1. run # none /\ owns /\ ~Forgotten
    BY <1>5, OwnTimer
  <2>2. /\ EngineOK(rig') /\ rig'.follow = TRUE /\ gen' \in 0 .. MaxGen
        /\ owns' = TRUE /\ pushed' \in Keys \cup {none}
        /\ RunInv' /\ TimerInv' /\ Shown(rig', owns', pushed')
        /\ pushed' = PushKey(run', adHoc', adScope', show', patch'[show'], picked')
        /\ adHoc' = {} /\ adScope' = adScope
    <3>1. CASE run.step = Len(run.steps)
      <4>1. EndRun
        BY <1>1, <1>5, <3>1
      <4>2. /\ EngineOK(rig') /\ rig'.follow = TRUE /\ gen' \in 0 .. MaxGen
            /\ owns' \in BOOLEAN /\ (owns => owns')
            /\ pushed' \in Keys \cup {none} /\ adHoc' = {} /\ adScope' = adScope
            /\ RunInv' /\ TimerInv' /\ Shown(rig', owns', pushed')
            /\ pushed' = PushKey(run', adHoc', adScope', show', patch'[show'], picked')
        BY <1>2, <1>3, <4>1, EndRunKeeps
      <4> QED BY <2>1, <4>2
    <3>2. CASE run.step # Len(run.steps)
      <4>1. OnStep(run) /\ adHoc = {} /\ stored[show][run.id] = run.steps
        BY <1>2, <2>1 DEF RunInv
      <4> DEFINE n == run.step + 1
                 r == [run EXCEPT !.step = n]
      <4>2. n \in Nat /\ n \in DOMAIN run.steps
        BY <3>2, <4>1, StepFacts DEF OnStep
      <4>3. r = [run EXCEPT !.step = @ + 1]
        BY <4>1 DEF OnStep, Runs
      <4>4. EnterStep(r) /\ adHoc' = {} /\ adScope' = adScope
        BY <1>1, <1>5, <3>2, <4>1, <4>3
      <4> HIDE DEF n
      <4>5. OnStep(r) /\ r.id = run.id /\ r.steps = run.steps
        BY <4>1, <4>2 DEF OnStep, Runs
      <4> HIDE DEF r
      <4>6. stored[show][r.id] = r.steps /\ adScope' \in Scopes
        BY <1>2, <4>1, <4>4, <4>5 DEF Typed
      <4> QED BY <1>2, <1>3, <4>4, <4>5, <4>6, EnterStepKeeps
    <3> QED BY <3>1, <3>2
  <2>3. Typed'
    BY <1>2, <1>3, <2>2 DEF Typed
  <2>4. ReqInv'
    BY <1>2, <1>3, <2>1, <2>2 DEF ReqInv, Forgotten
  <2>5. Quiet => ~InGap
    BY <1>1 DEF Quiet
  <2>6. Quiet => ShownInv'
    BY <1>3, <2>1, <2>2, <2>5, AdvancedShown
  <2> QED BY <2>2, <2>3, <2>4, <2>6 DEF Keeps, LayerInv
<1> QED BY <1>4, <1>5

LEMMA EnterKeeps == LayerInv /\ Enter => Keeps
<1> SUFFICES ASSUME LayerInv, Enter PROVE Keeps
  OBVIOUS
<1>1. PICK k \in Edits :
        /\ rig' = IF ResetsEngine(k) THEN ResetSelection(rig) ELSE rig
        /\ req' = [kind |-> k, at |-> IF k = "edit" THEN "handler" ELSE "reset"]
  BY DEF Enter
<1>2. /\ req = none
      /\ UNCHANGED <<show, patch, stored, picked, adHoc, adScope, run, owns, pushed,
                     gen, due, fired>>
  BY DEF Enter, Free, testsVars
<1>3. Typed /\ RunInv /\ TimerInv /\ owns \in BOOLEAN
  BY DEF LayerInv, Typed
<1> DEFINE w == IF k = "edit" THEN "handler" ELSE "reset"
<1>4. req' = [kind |-> k, at |-> w]
  BY <1>1
<1>5. (w = "handler" /\ k = "edit") \/ (w = "reset" /\ k \in Boundaries)
  BY <1>1 DEF Boundaries
<1> HIDE DEF w
<1>6. req' \in Requests /\ req'.kind = k /\ req'.at = w
  <2>1. k \in Edits /\ w \in {"reset", "handler"}
    BY <1>1, <1>5
  <2> QED BY <1>4, <2>1 DEF Requests
<1>7. req' # none
  BY <1>6, ReqApart
<1>8. EngineOK(rig') /\ rig'.follow = TRUE /\ (ResetsEngine(k) => ~rig'.output)
  <2>1. CASE ResetsEngine(k)
    <3>1. rig' = ResetSelection(rig) /\ rig \in Rigs
      BY <1>1, <1>3, <2>1 DEF Typed, EngineOK, Prepared
    <3>2. EngineOK(rig') /\ ~rig'.output /\ rig'.follow = rig.follow
      BY <3>1, EmptiedOK
    <3> QED BY <1>3, <3>2 DEF Typed
  <2>2. CASE ~ResetsEngine(k)
    BY <1>1, <1>3, <2>2 DEF Typed
  <2> QED BY <2>1, <2>2
<1>9. Typed'
  BY <1>2, <1>3, <1>6, <1>8 DEF Typed
<1>10. RunInv' /\ TimerInv'
  <2>1. RunInv'
    BY <1>2, <1>3 DEF RunInv
  <2> QED BY <1>2, <1>3, <2>1, SameTimers
<1>11. ReqInv'
  BY <1>1, <1>5, <1>6 DEF ReqInv, Forgotten, Boundaries
<1>12. ShownInv => ShownInv'
  <2> SUFFICES ASSUME ShownInv PROVE ShownInv'
    OBVIOUS
  <2>1. CASE ResetsEngine(k)
    <3>1. ~rig'.output /\ (k # "edit" \/ ~owns)
      BY <1>8, <2>1 DEF ResetsEngine
    <3>2. ~InGap' => Shown(rig', owns', pushed')
      BY <1>2, <1>5, <1>6, <1>7, <3>1 DEF InGap, Shown, Boundaries
    <3> QED BY <1>7, <3>1, <3>2 DEF ShownInv, Free
  <2>2. CASE ~ResetsEngine(k)
    <3>1. rig' = rig /\ k = "edit" /\ owns /\ w = "handler"
      BY <1>1, <1>3, <1>5, <2>2 DEF ResetsEngine, Boundaries
    <3>2. Shown(rig', owns', pushed') /\ ~InGap'
      BY <1>2, <1>6, <3>1 DEF ShownInv, InGap, Free
    <3> QED BY <1>2, <1>6, <1>7, <3>1, <3>2 DEF ShownInv, Free, Boundaries
  <2> QED BY <2>1, <2>2
<1> QED BY <1>9, <1>10, <1>11, <1>12 DEF Keeps, LayerInv

\* The tests state forgotten: the timers with it.
LEMMA ForgetKeeps ==
  ASSUME Typed, TimerInv, ForgetTests, fired' \subseteq fired
  PROVE  /\ gen' \in 0 .. MaxGen /\ TimerInv' /\ RunInv' /\ run' = none
         /\ adHoc' = {} /\ owns' = FALSE /\ pushed' = none
<1>1. /\ gen < MaxGen /\ gen' = gen + 1 /\ due' = none /\ run' = none
      /\ adHoc' = {} /\ owns' = FALSE /\ pushed' = none
  BY DEF ForgetTests, StopTimer
<1>2. gen' \in 0 .. MaxGen /\ TimerInv'
  BY <1>1, NewGeneration
<1>3. RunInv'
  BY <1>1 DEF RunInv
<1> QED BY <1>1, <1>2, <1>3

LEMMA BoundaryKeeps == LayerInv /\ Boundary => Keeps
<1> SUFFICES ASSUME LayerInv, Boundary PROVE Keeps
  OBVIOUS
<1>1. /\ InGap /\ ForgetTests /\ adScope' = "selection"
      /\ req' = [req EXCEPT !.at = "handler"]
      /\ UNCHANGED <<rig, show, patch, stored, picked, fired>>
  BY DEF Boundary
<1>2. Typed /\ TimerInv /\ ReqInv
  BY DEF LayerInv
<1>3. /\ gen' \in 0 .. MaxGen /\ TimerInv' /\ RunInv'
      /\ adHoc' = {} /\ owns' = FALSE /\ pushed' = none
  BY <1>1, <1>2, ForgetKeeps
<1>4. req \in Requests /\ req.kind \in Boundaries /\ req.kind \in Edits
  BY <1>1, <1>2 DEF InGap, Typed, ReqInv, Boundaries
<1>5. req' \in Requests /\ req'.at = "handler" /\ req'.kind = req.kind
  BY <1>1, <1>4 DEF Requests
<1>6. req' # none
  BY <1>5, ReqApart
<1>7. Typed'
  BY <1>1, <1>2, <1>3, <1>5 DEF Typed, Scopes
<1>8. ReqInv'
  BY <1>3, <1>4, <1>5 DEF ReqInv, Forgotten
<1>9. ShownInv => ShownInv'
  BY <1>1, <1>3, <1>5, <1>6 DEF ShownInv, Shown, InGap, Free
<1> QED BY <1>3, <1>7, <1>8, <1>9 DEF Keeps, LayerInv

LEMMA HandleKeeps == LayerInv /\ Handle => Keeps
<1> SUFFICES ASSUME LayerInv, Handle PROVE Keeps
  OBVIOUS
<1>1. /\ req # none /\ req.at = "handler" /\ req' = [req EXCEPT !.at = "done"]
      /\ UNCHANGED <<adHoc, adScope, run, owns, pushed, gen, due, fired>>
  BY DEF Handle, testsVars
<1>2. Typed /\ TimerInv /\ ReqInv /\ RunInv
  BY DEF LayerInv
<1>3. req \in Requests /\ req.kind \in Edits
  BY <1>1, <1>2 DEF Typed, ReqInv
<1>4. req' \in Requests /\ req'.at = "done" /\ req'.kind = req.kind
  BY <1>1, <1>3 DEF Requests
<1>5. req' # none
  BY <1>4, ReqApart
<1>6. TimerInv'
  BY <1>1, <1>2, SameTimers
<1>7. ReqInv'
  BY <1>1, <1>2, <1>4 DEF ReqInv, Forgotten
<1>8. req.kind \in Boundaries => ~owns /\ run = none
  BY <1>1, <1>2 DEF ReqInv, Forgotten, RunInv
<1>9. rig \in Rigs /\ show \in Shows
  BY <1>2 DEF Typed, EngineOK, Prepared
<1>10. CASE req.kind = "create"
  <2>1. PICK s \in Shows : show' = s
    BY <1>10 DEF Handle
  <2>2. rig' = Halt(rig) /\ picked' = FALSE /\ UNCHANGED <<patch, stored>>
    BY <1>10 DEF Handle
  <2>3. EngineOK(rig') /\ ~rig'.output /\ rig'.follow = rig.follow
    BY <1>9, <2>2, HaltOK, HaltFacts DEF SameChoice
  <2>4. Typed'
    BY <1>1, <1>2, <1>4, <2>1, <2>2, <2>3 DEF Typed
  <2>5. run' = none /\ ~owns'
    BY <1>1, <1>8, <1>10 DEF Boundaries, Edits
  <2>6. RunInv' /\ ShownInv'
    BY <1>4, <1>5, <2>3, <2>5 DEF RunInv, ShownInv, Shown, InGap, Free
  <2> QED BY <1>6, <1>7, <2>4, <2>6 DEF Keeps, LayerInv
<1>11. CASE req.kind \in {"reset", "recover"}
  <2> DEFINE E == IF req.kind = "reset" THEN {} ELSE FirstPatch[show]
             Q == [q \in SeqIds |-> none]
  <2>1. /\ patch' = [patch EXCEPT ![show] = E] /\ stored' = [stored EXCEPT ![show] = Q]
        /\ picked' = FALSE /\ UNCHANGED <<rig, show>>
    BY <1>11 DEF Handle
  <2>2. E \in SUBSET Entries /\ Q \in [SeqIds -> Programs \cup {none}]
    BY <1>9, LayerConstants
  <2> HIDE DEF E, Q
  <2>3. Typed'
    BY <1>1, <1>2, <1>4, <2>1, <2>2 DEF Typed
  <2>4. run' = none /\ ~owns' /\ req.kind \in Boundaries
    BY <1>1, <1>8, <1>11 DEF Boundaries, Edits
  <2>5. RunInv'
    BY <2>4 DEF RunInv
  <2>6. ShownInv => ShownInv'
    BY <1>1, <1>4, <1>5, <2>1, <2>4 DEF ShownInv, Shown, InGap, Free
  <2> QED BY <1>6, <1>7, <2>3, <2>5, <2>6 DEF Keeps, LayerInv
<1>12. CASE req.kind = "edit"
  <2>1. PICK E \in SUBSET {e \in Entries : ShowOf[e] = show} :
          patch' = [patch EXCEPT ![show] = E]
    BY <1>12 DEF Handle
  <2>2. UNCHANGED <<rig, show, stored, picked>> /\ E \in SUBSET Entries
    BY <1>12, <2>1 DEF Handle
  <2>3. Typed'
    BY <1>1, <1>2, <1>4, <2>1, <2>2 DEF Typed
  <2>4. RunInv'
    BY <1>1, <1>2, <2>2 DEF RunInv
  <2>5. ShownInv => ShownInv'
    <3> SUFFICES ASSUME ShownInv PROVE ShownInv'
      OBVIOUS
    <3>1. Shown(rig', owns', pushed')
      BY <1>1, <2>2 DEF ShownInv, InGap
    <3>2. ~owns' => ~rig'.output
      BY <1>1, <1>12, <2>2 DEF ShownInv
    <3> QED BY <1>4, <1>5, <1>12, <3>1, <3>2 DEF ShownInv, InGap, Free, Boundaries
  <2> QED BY <1>6, <1>7, <2>3, <2>4, <2>5 DEF Keeps, LayerInv
<1> QED BY <1>3, <1>10, <1>11, <1>12 DEF Edits

\* What a driven engine outputs between requests is of the present patch.
LEMMA ActiveOutput ==
  ASSUME Typed, RunInv, ShownInv, Free, rig.output
  PROVE  rig.scope \subseteq patch[show]
<1> DEFINE k == PushKey(run, adHoc, adScope, show, patch[show], picked)
<1>1. CASE owns
  <2>1. pushed = k /\ Shown(rig, owns, pushed)
    BY <1>1 DEF ShownInv, InGap, Free
  <2>2. k # none /\ rig.scope = k.targets
    BY <1>1, <2>1 DEF Shown
  <2>3. OnStepOrNone(run)
    BY DEF OnStepOrNone, RunInv
  <2>4. /\ adHoc \in SUBSET Tests /\ adScope \in Scopes /\ show \in Shows
        /\ patch[show] \in SUBSET Entries /\ picked \in BOOLEAN
    BY DEF Typed
  <2>5. KeySays(k, run, adHoc, adScope, patch[show], picked)
    BY <2>3, <2>4, KeyFacts
  <2> QED BY <2>2, <2>5 DEF KeySays
<1>2. CASE ~owns
  BY <1>2 DEF ShownInv
<1>3. owns \in BOOLEAN
  BY DEF Typed
<1> QED BY <1>1, <1>2, <1>3

LEMMA LoadPresetKeeps == LayerInv /\ LoadPreset => Keeps
<1> SUFFICES ASSUME LayerInv, LoadPreset PROVE Keeps
  OBVIOUS
<1>1. /\ Takeover
      /\ \/ Free /\ req' = [kind |-> "preset", at |-> "preset"]
         \/ TakeoverInGap /\ req' = req
  BY LayerConstants DEF LoadPreset
<1>2. UNCHANGED <<rig, show, patch, stored, picked, adScope, fired>>
  BY <1>1 DEF Takeover
<1>3. Typed /\ TimerInv /\ ReqInv /\ RunInv
  BY DEF LayerInv
<1>4. /\ gen' \in 0 .. MaxGen /\ TimerInv' /\ RunInv' /\ adHoc' = {} /\ owns' = FALSE
      /\ pushed' \in Keys \cup {none}
  <2>1. CASE owns \/ run # none \/ adHoc # {}
    <3>1. ForgetTests
      BY <1>1, <2>1 DEF Takeover
    <3> QED BY <1>2, <1>3, <3>1, ForgetKeeps
  <2>2. CASE ~(owns \/ run # none \/ adHoc # {})
    <3>1. UNCHANGED <<run, adHoc, owns, pushed, gen, due>>
      BY <1>1, <2>2 DEF Takeover
    <3>2. TimerInv'
      BY <1>2, <1>3, <3>1, SameTimers
    <3> QED BY <1>3, <2>2, <3>1, <3>2 DEF Typed, RunInv
  <2> QED BY <2>1, <2>2
<1>5. req' \in Requests \cup {none} /\ ReqInv'
  <2>1. CASE req' = [kind |-> "preset", at |-> "preset"]
    <3>1. req' \in Requests
      BY <2>1 DEF Requests
    <3>2. req'.kind = "preset" /\ req'.at = "preset"
      BY <2>1
    <3> QED BY <1>4, <3>1, <3>2 DEF ReqInv, Edits, Boundaries
  <2>2. CASE req' = req
    BY <1>3, <1>4, <2>2 DEF ReqInv, Forgotten, Typed
  <2> QED BY <1>1, <2>1, <2>2
<1>6. Typed'
  BY <1>2, <1>3, <1>4, <1>5 DEF Typed
<1>7. Quiet /\ ShownInv => ShownInv'
  <2> SUFFICES ASSUME Quiet, ShownInv PROVE ShownInv'
    OBVIOUS
  <2>1. Free /\ req' = [kind |-> "preset", at |-> "preset"]
    BY <1>1 DEF Quiet
  <2>2. req' \in Requests
    BY <2>1 DEF Requests
  <2>3. req' # none /\ req'.kind = "preset" /\ req'.at = "preset"
    BY <2>1, <2>2, ReqApart
  <2>4. rig'.output => rig'.scope \subseteq patch'[show']
    BY <1>2, <1>3, <2>1, ActiveOutput
  <2> QED BY <1>4, <2>3, <2>4 DEF ShownInv, Shown, InGap, Free, Boundaries, Edits
<1> QED BY <1>4, <1>5, <1>6, <1>7 DEF Keeps, LayerInv

LEMMA RunPresetKeeps == LayerInv /\ RunPreset => Keeps
<1> SUFFICES ASSUME LayerInv, RunPreset PROVE Keeps
  OBVIOUS
<1>1. /\ req # none /\ req.at = "preset" /\ req' = [req EXCEPT !.at = "done"]
      /\ UNCHANGED <<show, patch, stored, picked>>
      /\ UNCHANGED <<adHoc, adScope, run, owns, pushed, gen, due, fired>>
  BY DEF RunPreset, testsVars
<1>2. Typed /\ TimerInv /\ ReqInv /\ RunInv /\ ~owns
  BY <1>1 DEF LayerInv, ReqInv, Forgotten
<1>3. rig \in Rigs /\ show \in Shows /\ patch[show] \in SUBSET Entries
  BY <1>2 DEF Typed, EngineOK, Prepared
<1> DEFINE h == Halt(rig)
<1>4. EngineOK(h) /\ h.follow = TRUE /\ ~h.output
  BY <1>2, <1>3, HaltOK, HaltFacts DEF SameChoice, Typed
<1>5. EngineOK(rig') /\ rig'.follow = TRUE /\ (rig'.output => rig'.scope \subseteq patch[show])
  <2>1. CASE rig' = h
    BY <1>4, <2>1
  <2>2. CASE \E T \in (SUBSET Tests) \ {{}}, E \in (SUBSET patch[show]) \ {{}} :
               rig' = SetPatternTests(h, E, T)
    <3>1. PICK T \in (SUBSET Tests) \ {{}}, E \in (SUBSET patch[show]) \ {{}} :
            rig' = SetPatternTests(h, E, T)
      BY <2>2
    <3>2. E \in SUBSET Entries /\ T \in SUBSET Tests /\ Prepared(h)
      BY <1>3, <1>4, <3>1 DEF EngineOK
    <3> HIDE DEF h
    <3>3. EngineOK(rig') /\ rig'.scope = E /\ rig'.follow = h.follow
      BY <3>1, <3>2, SetPatternTestsOK
    <3> QED BY <1>4, <3>1, <3>3
  <2> QED BY <2>1, <2>2 DEF RunPreset
<1>6. req \in Requests /\ req.kind = "preset"
  BY <1>1, <1>2 DEF ReqInv, Typed
<1>7. req' \in Requests /\ req'.at = "done" /\ req'.kind = "preset"
  BY <1>1, <1>6 DEF Requests
<1>8. req' # none
  BY <1>7, ReqApart
<1>9. Typed'
  BY <1>1, <1>2, <1>5, <1>7 DEF Typed
<1>10. RunInv' /\ TimerInv' /\ ReqInv'
  <2>1. RunInv' /\ ReqInv'
    BY <1>1, <1>2, <1>7 DEF RunInv, ReqInv, Forgotten, Boundaries, Edits
  <2> QED BY <1>1, <1>2, <2>1, SameTimers
<1>11. ShownInv => ShownInv'
  BY <1>1, <1>2, <1>5, <1>7, <1>8 DEF ShownInv, Shown, InGap, Free, Boundaries, Edits
<1> QED BY <1>9, <1>10, <1>11 DEF Keeps, LayerInv

LEMMA RefusePresetKeeps == LayerInv /\ RefusePreset => Keeps
<1> SUFFICES ASSUME LayerInv, RefusePreset PROVE Keeps
  OBVIOUS
<1>1. /\ req # none /\ req.at = "preset" /\ req' = none
      /\ UNCHANGED <<rig, show, patch, stored, picked>>
      /\ UNCHANGED <<adHoc, adScope, run, owns, pushed, gen, due, fired>>
  BY DEF RefusePreset, testsVars
<1>2. Typed /\ TimerInv /\ ReqInv /\ RunInv /\ ~owns
  BY <1>1 DEF LayerInv, ReqInv, Forgotten
<1>3. Typed' /\ ReqInv'
  BY <1>1, <1>2 DEF Typed, ReqInv, Forgotten
<1>4. RunInv' /\ TimerInv'
  <2>1. RunInv'
    BY <1>1, <1>2 DEF RunInv
  <2> QED BY <1>1, <1>2, <2>1, SameTimers
<1>5. ShownInv => ShownInv'
  BY <1>1, <1>2 DEF ShownInv, Shown, InGap, Free
<1> QED BY <1>3, <1>4, <1>5 DEF Keeps, LayerInv

LEMMA EngineTickKeeps == LayerInv /\ EngineTick => Keeps
<1> SUFFICES ASSUME LayerInv, EngineTick PROVE Keeps
  OBVIOUS
<1>1. /\ UNCHANGED <<show, patch, stored, picked, req>>
      /\ UNCHANGED <<adHoc, adScope, run, owns, pushed, gen, due, fired>>
  BY DEF EngineTick, testsVars
<1>2. Typed /\ TimerInv /\ ReqInv /\ RunInv
  BY DEF LayerInv
<1>3. EngineOK(rig') /\ SameChoice(rig, rig') /\ SameRun(rig, rig')
  BY <1>2, TickFiresOK, PatternTickOK DEF EngineTick, Typed
<1>4. Typed' /\ ReqInv'
  BY <1>1, <1>2, <1>3 DEF Typed, ReqInv, Forgotten, SameChoice
<1>5. RunInv' /\ TimerInv'
  <2>1. RunInv'
    BY <1>1, <1>2 DEF RunInv
  <2> QED BY <1>1, <1>2, <2>1, SameTimers
<1>6. ShownInv => ShownInv'
  BY <1>1, <1>3 DEF ShownInv, Shown, InGap, Free, SameChoice, SameRun
<1> QED BY <1>4, <1>5, <1>6 DEF Keeps, LayerInv

-----------------------------------------------------------------------------
(* The invariants hold, and what follows.                                    *)

LEMMA LayerStep == LayerInv /\ [LayerNext]_layerVars => Keeps
<1> SUFFICES ASSUME LayerInv, [LayerNext]_layerVars PROVE Keeps
  OBVIOUS
<1>1. CASE UNCHANGED layerVars
  <2>1. UNCHANGED <<rig, show, patch, stored, picked, adHoc, adScope, run, owns, pushed,
                    gen, due, fired, req>>
    BY <1>1 DEF layerVars, testsVars
  <2>2. TimerInv'
    BY <2>1, SameTimers DEF LayerInv
  <2> QED BY <2>1, <2>2, OnlyTimersKeep
<1> QED BY <1>1, TimerFiresKeeps, AutoAdvanceKeeps, SetAdHocKeeps, ClearKeeps, RunStartKeeps,
           RunMoveKeeps, RunPauseKeeps, RunResumeKeeps, StoreSequenceKeeps,
           SelectFixturesKeeps, RefreshKeeps, EnterKeeps, BoundaryKeeps, HandleKeeps,
           LoadPresetKeeps, RunPresetKeeps, RefusePresetKeeps, EngineTickKeeps
           DEF LayerNext

LEMMA LayerStart == LayerInit => LayerInv /\ ShownInv
<1> SUFFICES ASSUME LayerInit PROVE LayerInv /\ ShownInv
  OBVIOUS
<1>1. /\ rig = IdleRig(TRUE) /\ show \in Shows /\ patch = FirstPatch
      /\ stored \in [Shows -> [SeqIds -> Programs]]
      /\ picked = FALSE /\ adHoc = {} /\ adScope = "selection" /\ run = none
      /\ owns = FALSE /\ pushed = none /\ gen = 0 /\ due = none /\ fired = {}
      /\ req = none
  BY DEF LayerInit, NothingChosen
<1>2. EngineOK(rig) /\ ~rig.output /\ rig.follow = TRUE
  <2>1. TRUE \in BOOLEAN
    OBVIOUS
  <2> QED BY <1>1, <2>1, IdleOK
<1>3. stored \in [Shows -> [SeqIds -> Programs \cup {none}]]
  BY <1>1
<1>4. 0 \in 0 .. MaxGen
  BY LayerConstants
<1>5. Typed
  BY <1>1, <1>2, <1>3, <1>4, LayerConstants DEF Typed, Scopes
<1>6. RunInv /\ TimerInv /\ ReqInv
  BY <1>1 DEF RunInv, TimerInv, ReqInv, Forgotten
<1>7. ShownInv
  BY <1>1, <1>2 DEF ShownInv, Shown, InGap, Free
<1> QED BY <1>5, <1>6, <1>7 DEF LayerInv

LEMMA LayerAlways == LayerSpec => []LayerInv
<1>1. LayerInv /\ [LayerNext]_layerVars => LayerInv'
  BY LayerStep DEF Keeps
<1> QED BY <1>1, LayerStart, PTL DEF LayerSpec

LEMMA ShownAlways == Quiet => (LayerSpec => [](LayerInv /\ ShownInv))
<1> SUFFICES ASSUME Quiet PROVE LayerSpec => [](LayerInv /\ ShownInv)
  OBVIOUS
<1>1. (LayerInv /\ ShownInv) /\ [LayerNext]_layerVars => (LayerInv /\ ShownInv)'
  BY LayerStep DEF Keeps
<1> QED BY <1>1, LayerStart, PTL DEF LayerSpec

(* Driven by the Tests API and by presets, the engine keeps its promises too; a  *)
(* running sequence is the stored one, on one of its steps.                      *)
THEOREM LayerIsSound == LayerSpec => [](LayerTypeOK /\ RunsWhatIsStored /\ EngineSound)
<1>1. LayerInv => LayerTypeOK
  <2> SUFFICES ASSUME LayerInv PROVE LayerTypeOK
    OBVIOUS
  <2>1. Typed /\ RunInv /\ TimerInv
    BY DEF LayerInv
  <2>2. run # none => /\ run.steps \in Programs /\ run.step \in DOMAIN run.steps
                      /\ run.visit \in 0 .. MaxGen /\ adHoc = {} /\ owns
    BY <2>1, StepFacts, LayerConstants DEF RunInv, OnStep
  <2>3. fired \cup ({due} \ {none}) \subseteq [gen : 1 .. MaxGen, visit : 1 .. MaxGen]
    BY <2>1 DEF TimerInv, TimerOf
  <2> QED BY <2>1, <2>2, <2>3 DEF Typed, LayerTypeOK
<1>2. LayerInv => RunsWhatIsStored
  BY DEF LayerInv, RunInv, RunsWhatIsStored
<1>3. LayerInv => EngineSound
  BY SoundEngine DEF LayerInv, Typed
<1> QED BY <1>1, <1>2, <1>3, LayerAlways, PTL

(* Between requests the engine outputs nothing but the active show's present     *)
(* patch, through show switches, edits, presets, runs and timers, where no       *)
(* callback falls between the guard's two resets and no takeover into another    *)
(* request (showguard.go, refreshTests, applyTestsLocked).                       *)
THEOREM OutputFollowsShow ==
  ~TimerInGap /\ ~TakeoverInGap => (LayerSpec => []OutputsActiveShow)
<1>1. LayerInv /\ ShownInv => OutputsActiveShow
  BY ActiveOutput DEF OutputsActiveShow, LayerInv
<1> QED BY <1>1, ShownAlways, PTL DEF Quiet

(* Between requests, while the Tests API drives the engine, what it shows is     *)
(* what the API says is active, under the same two conditions                    *)
(* (applyTestsLocked, enterStepLocked, refreshTests).                            *)
THEOREM LayerFollowsTests ==
  ~TimerInGap /\ ~TakeoverInGap => (LayerSpec => []LayerShowsActive)
<1>1. LayerInv /\ ShownInv => LayerShowsActive
  <2> SUFFICES ASSUME LayerInv, ShownInv, Free, owns
               PROVE  LET T == ActiveTests(run, adHoc)
                          E == Resolve(ActiveScope(run, adScope), patch[show], picked)
                      IN IF T = {} THEN ~rig.output
                         ELSE rig.tests = T /\ rig.scope = E /\ rig.output = (E # {})
    BY DEF LayerShowsActive
  <2> DEFINE k == PushKey(run, adHoc, adScope, show, patch[show], picked)
             T == ActiveTests(run, adHoc)
             E == Resolve(ActiveScope(run, adScope), patch[show], picked)
  <2>1. pushed = k /\ Shown(rig, owns, pushed)
    BY DEF ShownInv, InGap, Free
  <2>2. OnStepOrNone(run)
    BY DEF OnStepOrNone, LayerInv, RunInv
  <2>3. /\ adHoc \in SUBSET Tests /\ adScope \in Scopes /\ show \in Shows
        /\ patch[show] \in SUBSET Entries /\ picked \in BOOLEAN
    BY DEF LayerInv, Typed
  <2>4. KeySays(k, run, adHoc, adScope, patch[show], picked)
    BY <2>2, <2>3, KeyFacts
  <2>5. /\ (k = none) <=> (T = {})
        /\ k # none => k.tests = T /\ k.targets = E
    BY <2>4 DEF KeySays
  <2> HIDE DEF k, T, E
  <2>6. IF k = none THEN ~rig.output
        ELSE rig.tests = k.tests /\ rig.scope = k.targets /\ rig.output = (k.targets # {})
    BY <2>1 DEF Shown
  <2>7. CASE T = {}
    BY <2>5, <2>6, <2>7 DEF T
  <2>8. CASE T # {}
    BY <2>5, <2>6, <2>8 DEF T, E
  <2> QED BY <2>7, <2>8
<1> QED BY <1>1, ShownAlways, PTL DEF Quiet

(* An auto-advance timer, however late its callback, advances only the visit of  *)
(* the step it was armed for (testsAutoAdvance's generation check).              *)
THEOREM TimersAdvanceOwn == LayerSpec => AdvancesOwnStep
<1> DEFINE Own == \A c \in fired :
             fired' = fired \ {c} /\ run' # run => run # none /\ c.visit = run.visit
<1>1. LayerInv /\ [LayerNext]_layerVars => [Own]_layerVars
  <2> SUFFICES ASSUME LayerInv, LayerNext, NEW c \in fired, fired' = fired \ {c}, run' # run
               PROVE  run # none /\ c.visit = run.visit
    OBVIOUS
  <2>1. fired' # fired /\ \A d : fired' # fired \cup {d}
    OBVIOUS
  <2>2. AutoAdvance
    <3>1. ~(SetAdHoc \/ Clear \/ RunStart \/ RunMove \/ RunPause \/ RunResume)
      BY <2>1 DEF SetAdHoc, Clear, RunStart, RunMove, RunPause, RunResume
    <3>2. ~(StoreSequence \/ SelectFixtures \/ Enter \/ Handle \/ RunPreset \/ RefusePreset
            \/ EngineTick)
      BY <2>1 DEF StoreSequence, SelectFixtures, Enter, Handle, RunPreset, RefusePreset,
                  EngineTick, testsVars
    <3>3. ~(Refresh \/ Boundary \/ LoadPreset \/ TimerFires)
      BY <2>1 DEF Refresh, Boundary, LoadPreset, Takeover, TimerFires
    <3> QED BY <3>1, <3>2, <3>3 DEF LayerNext
  <2>3. PICK d \in fired :
          /\ fired' = fired \ {d}
          /\ Superseded(d) => run' = run
    BY <2>2 DEF AutoAdvance
  <2>4. d = c
    BY <2>3
  <2> QED BY <2>3, <2>4, OwnTimer
<1>2. [](LayerInv) /\ [][LayerNext]_layerVars => [][Own]_layerVars
  BY <1>1, PTL
<1> QED BY <1>2, LayerAlways, PTL DEF LayerSpec, AdvancesOwnStep
=============================================================================
