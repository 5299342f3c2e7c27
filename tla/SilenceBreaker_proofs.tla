------------------------ MODULE SilenceBreaker_proofs ------------------------
(***************************************************************************)
(* Theorems about SilenceBreaker for every set of devices, every pair of   *)
(* thresholds and every cool-down schedule.                                *)
(***************************************************************************)
EXTENDS SilenceBreaker, DeviceHealth_proofs

USE DEF OpenStates, Causes, CollectModes

-----------------------------------------------------------------------------
(* Type correctness.                                                       *)

LEMMA InitType == Init => TypeOK
<1> SUFFICES ASSUME Init PROVE TypeOK
  OBVIOUS
<1>1. health \in [Devices -> Health] /\ strikes \in [Devices -> Nat]
  BY NoHealthType DEF Init
<1>2. answers \in 0..MaxAnswers /\ pending \subseteq Devices \X BOOLEAN
  BY PortAssumption DEF Init
<1> QED BY <1>1, <1>2 DEF Init, TypeOK

LEMMA NextType == TypeOK /\ [Next]_vars => TypeOK'
<1> SUFFICES ASSUME TypeOK, [Next]_vars PROVE TypeOK'
  OBVIOUS
<1> USE DEF TypeOK, port, slot
<1>n. answers \in Nat /\ \A d \in Devices : health[d] \in Health
  BY PortAssumption
<1>1. ASSUME NEW d \in Devices, NEW dr \in BOOLEAN, Submit(d, dr) PROVE TypeOK'
  BY <1>1 DEF Submit
<1>2. ASSUME NEW d \in Devices, NEW dr \in BOOLEAN, Start(d, dr) PROVE TypeOK'
  BY <1>2, <1>n, SmallStepTypes DEF Start
<1>3. ASSUME NEW d \in Devices, FailFast(d) PROVE TypeOK'
  BY <1>3 DEF FailFast
<1>4. ASSUME NEW d \in Devices, Answer(d) PROVE TypeOK'
  <2>1. answers' \in 0..MaxAnswers /\ answers' \in Nat
    BY <1>4, PortAssumption DEF Answer
  <2>2. health' \in [Devices -> Health]
    BY <1>4, <1>n, <2>1, SmallStepTypes DEF Answer
  <2> QED BY <1>4, <2>1, <2>2 DEF Answer, Free
<1>5. ASSUME NEW d \in Devices, TimeOutSilent(d) PROVE TypeOK'
  <2>1. Silent(health[d], answers, last = d) \in Health
    BY <1>n, SilentType
  <2>2. health' \in [Devices -> Health]
    BY <1>5, <2>1 DEF TimeOutSilent
  <2>3. strikes' \in [Devices -> Nat]
    BY <1>5 DEF TimeOutSilent
  <2> QED BY <1>5, <2>2, <2>3 DEF TimeOutSilent, Free
<1>6. ASSUME NEW d \in Devices, GiveUpRefused(d) PROVE TypeOK'
  BY <1>6, <1>n, RefusedType DEF GiveUpRefused, Free
<1>7. ASSUME NEW d \in Devices, FinishInconclusive(d) PROVE TypeOK'
  BY <1>7 DEF FinishInconclusive, Free
<1>8. ASSUME NEW d \in Devices, LearnCollect(d) PROVE TypeOK'
  BY <1>8, <1>n, SmallStepTypes DEF LearnCollect
<1>9. ASSUME NEW d \in Devices, CooldownElapses(d) PROVE TypeOK'
  BY <1>9, <1>n, SmallStepTypes DEF CooldownElapses
<1>10. ASSUME NEW d \in Devices, NEW b \in BOOLEAN, SilenceProbeDue(d, b)
       PROVE  TypeOK'
  <2> DEFINE again == ProbeWanted(health[d]) /\ (Queued(d) \/ inflight = d \/ ~b)
  <2>1. [health[d] EXCEPT !.probeTimer = again] \in Health
    BY <1>n, SmallStepTypes
  <2>2. health' = [health EXCEPT ![d].probeTimer = again]
    BY <1>10 DEF SilenceProbeDue
  <2> HIDE DEF again
  <2>3. health' \in [Devices -> Health]
    BY <2>1, <2>2
  <2>4. pending' \subseteq Devices \X BOOLEAN
    <3>1. pending' \in {pending, pending \cup {<<d, FALSE>>}}
      BY <1>10 DEF SilenceProbeDue
    <3>2. <<d, FALSE>> \in Devices \X BOOLEAN
      OBVIOUS
    <3> QED BY <3>1, <3>2
  <2> QED BY <1>10, <2>3, <2>4 DEF SilenceProbeDue
<1>11. ASSUME NEW ds \in SUBSET Devices, TableOfDevices(ds) PROVE TypeOK'
  BY <1>11, <1>n, SmallStepTypes DEF TableOfDevices
<1>12. CASE UNCHANGED vars
  BY <1>12 DEF vars
<1> QED BY <1>1, <1>2, <1>3, <1>4, <1>5, <1>6, <1>7, <1>8, <1>9, <1>10, <1>11,
           <1>12 DEF Next

\* Every variable keeps its type: in particular the saturating counters and
\* the escalating cool-down of armBreakerLocked stay within their bounds.
THEOREM TypeCorrect == Spec => []TypeOK
BY InitType, NextType, PTL DEF Spec

-----------------------------------------------------------------------------
(* The outage invariant.  OutageStrikesOnce alone is not inductive: that a *)
(* second strike cannot count follows from where the two marks stand, and  *)
(* the mark that matters depends on whether the command that went silent   *)
(* was a half-open probe.                                                  *)

\* A command that the breaker judges (not a drain) is in flight only while
\* nothing is held.
JudgedOnlyWhenClosed ==
  \A d \in Devices :
    (inflight = d /\ ~drain) => health[d].openUntil = "closed"

\* After a strike the marks stand at the port's present answer count: the
\* strike mark always, the opening mark too once the breaker has opened for
\* silence and is holding or half-open.
MarksCurrent ==
  \A d \in Devices :
    strikes[d] = 1 =>
      /\ health[d].known
      /\ health[d].silenceMark = answers
      /\ (/\ health[d].cause = "noResponse"
          /\ health[d].probing \/ health[d].openUntil # "closed")
           => health[d].openAnswers = answers

OutageInv == OutageStrikesOnce /\ JudgedOnlyWhenClosed /\ MarksCurrent

LEMMA OutageInit == Init => OutageInv
BY DEF Init, OutageInv, OutageStrikesOnce, JudgedOnlyWhenClosed, MarksCurrent,
       NoHealth, Idle

\* What each transition does to the fields the invariant reads.
LEMMA ArmedFields ==
  ASSUME NEW h \in Health, NEW n \in Nat, NEW g \in BOOLEAN
  PROVE  LET a == Armed(h, n, g) IN
         /\ a.openUntil = "open" /\ ~a.probing /\ a.openAnswers = n
         /\ a.silenceMark = h.silenceMark /\ a.known = h.known
         /\ a.cause = h.cause /\ a.silences = h.silences
         /\ a.probeTimer = (h.cause = "noResponse")
         /\ a.lastCooldown \in {h.lastCooldown, h.cooldown}
         /\ a.lastCooldown > 0
BY HealthAssumption DEF Armed, Health

LEMMA ProbedNowFields ==
  ASSUME NEW h \in Health
  PROVE  LET a == ProbedNow(h) IN
         /\ a.known = h.known /\ a.silenceMark = h.silenceMark
         /\ a.cause = h.cause /\ a.openAnswers = h.openAnswers
         /\ a.probing = h.probing
         /\ (a.openUntil = "closed") <=> (h.openUntil = "closed")
<1>1. CASE ProbeWanted(h)
  <2>1. ProbedNow(h) = [h EXCEPT !.openUntil = "due", !.probeTimer = TRUE]
    BY <1>1 DEF ProbedNow
  <2>2. h.openUntil # "closed"
    BY <1>1 DEF ProbeWanted
  <2> QED BY <2>1, <2>2 DEF Health
<1>2. CASE ~ProbeWanted(h)
  BY <1>2 DEF ProbedNow
<1> QED BY <1>1, <1>2

LEMMA RefusedFields ==
  ASSUME NEW h \in Health, NEW n \in Nat
  PROVE  LET a == Refused(h, n) IN
         /\ a.known /\ a.silenceMark = h.silenceMark
         /\ \/ a.openUntil = "open" /\ a.openAnswers = n /\ ~a.probing
               /\ a.cause = "proxyRefusal" /\ ~a.probeTimer
               /\ a.lastCooldown > 0
            \/ a.openUntil = h.openUntil /\ a.openAnswers = h.openAnswers
               /\ a.probing = h.probing /\ a.cause = h.cause
               /\ a.probeTimer = h.probeTimer /\ a.silences = h.silences
               /\ a.lastCooldown = h.lastCooldown
<1> DEFINE g == [Known(h) EXCEPT !.refusals = Lesser(@ + 1, ProxyBreakerTrip)]
           c == [g EXCEPT !.cause = "proxyRefusal"]
<1>1. /\ g \in Health /\ g.known /\ g.silenceMark = h.silenceMark
      /\ g.openUntil = h.openUntil /\ g.openAnswers = h.openAnswers
      /\ g.probing = h.probing /\ g.cause = h.cause
      /\ g.probeTimer = h.probeTimer /\ g.silences = h.silences
      /\ g.lastCooldown = h.lastCooldown
  BY SaturatingCount, HealthAssumption DEF Health, Known
<1> HIDE DEF g
<1>2. /\ c \in Health /\ c.known /\ c.silenceMark = h.silenceMark
      /\ c.cause = "proxyRefusal"
  BY <1>1 DEF Health
<1>3. Refused(h, n) = IF RefusalOpens(h) THEN Armed(c, n, TRUE) ELSE g
  BY DEF Refused, g
<1> HIDE DEF c
<1>4. LET a == Armed(c, n, TRUE) IN
      /\ a.known /\ a.silenceMark = h.silenceMark /\ a.openUntil = "open"
      /\ a.openAnswers = n /\ ~a.probing /\ a.cause = "proxyRefusal"
      /\ ~a.probeTimer /\ a.lastCooldown > 0
  BY <1>2, ArmedFields
<1> QED BY <1>1, <1>3, <1>4

LEMMA EntryFields ==
  ASSUME NEW h0 \in Health, NEW n \in Nat, NEW l \in BOOLEAN
  PROVE  LET h == SilenceEntry(h0, n, l) IN
         /\ h \in Health /\ h.known
         /\ h.openUntil = h0.openUntil /\ h.probing = h0.probing
         /\ h.cause = h0.cause /\ h.openAnswers = h0.openAnswers
         /\ h.silences = h0.silences /\ h.probeTimer = h0.probeTimer
         /\ h.lastCooldown = h0.lastCooldown
         /\ h0.known => h = h0
BY DEF SilenceEntry, Known, Health

LEMMA SilentFields ==
  ASSUME NEW h0 \in Health, NEW n \in Nat, NEW l \in BOOLEAN
  PROVE  LET h == SilenceEntry(h0, n, l)
             a == Silent(h0, n, l)
         IN /\ a.known
            /\ a.silenceMark = IF Strikes(h, n) THEN n ELSE h.silenceMark
            /\ \/ /\ a.openUntil = "open" /\ ~a.probing
                  /\ a.openAnswers = n /\ a.cause = "noResponse"
                  /\ a.lastCooldown > 0
                  /\ ~SilentProbe(h) => a.silences = SilenceBreakerTrip
                  /\ h.silences = SilenceBreakerTrip
                       => a.silences = SilenceBreakerTrip
               \/ /\ ~SilentProbe(h)
                  /\ a.openUntil = h.openUntil /\ a.probing = h.probing
                  /\ a.openAnswers = h.openAnswers /\ a.cause = h.cause
                  /\ a.probeTimer = h.probeTimer
                  /\ a.lastCooldown = h.lastCooldown
                  /\ h.silences = SilenceBreakerTrip
                       => a.silences = SilenceBreakerTrip
<1> DEFINE h == SilenceEntry(h0, n, l)
           g == IF Strikes(h, n)
                THEN [h EXCEPT !.silences = Lesser(@ + 1, SilenceBreakerTrip),
                               !.silenceMark = n]
                ELSE h
           c == [g EXCEPT !.cause = "noResponse"]
<1>1. h \in Health /\ h.known
  BY EntryFields
<1> HIDE DEF h
<1>2. /\ g \in Health /\ g.known
      /\ g.silenceMark = IF Strikes(h, n) THEN n ELSE h.silenceMark
      /\ g.openUntil = h.openUntil /\ g.probing = h.probing
      /\ g.openAnswers = h.openAnswers /\ g.cause = h.cause
      /\ g.probeTimer = h.probeTimer /\ g.lastCooldown = h.lastCooldown
      /\ h.silences = SilenceBreakerTrip => g.silences = SilenceBreakerTrip
      /\ (Strikes(h, n) /\ h.silences + 1 >= SilenceBreakerTrip)
           => g.silences = SilenceBreakerTrip
      /\ ~Strikes(h, n) => g.silences = h.silences
  <2>1. h.silences \in 0..SilenceBreakerTrip
    BY <1>1 DEF Health
  <2>2. /\ Lesser(h.silences + 1, SilenceBreakerTrip) \in 0..SilenceBreakerTrip
        /\ h.silences + 1 >= SilenceBreakerTrip
             => Lesser(h.silences + 1, SilenceBreakerTrip) = SilenceBreakerTrip
    BY <2>1, SaturatingCount, HealthAssumption
  <2>3. CASE Strikes(h, n)
    <3> DEFINE k == Lesser(h.silences + 1, SilenceBreakerTrip)
    <3>1. g = [h EXCEPT !.silences = k, !.silenceMark = n]
      BY <2>3
    <3>2. /\ k \in 0..SilenceBreakerTrip
          /\ h.silences + 1 >= SilenceBreakerTrip => k = SilenceBreakerTrip
          /\ h.silences = SilenceBreakerTrip => k = SilenceBreakerTrip
      BY <2>1, <2>2, HealthAssumption
    <3> HIDE DEF g, k
    <3>3. g \in Health /\ g.silences = k /\ g.silenceMark = n
      BY <1>1, <3>1, <3>2 DEF Health
    <3>4. /\ g.known = h.known
          /\ g.openUntil = h.openUntil /\ g.probing = h.probing
          /\ g.openAnswers = h.openAnswers /\ g.cause = h.cause
          /\ g.probeTimer = h.probeTimer /\ g.lastCooldown = h.lastCooldown
      BY <1>1, <3>1 DEF Health
    <3> QED BY <1>1, <2>3, <3>2, <3>3, <3>4
  <2>4. CASE ~Strikes(h, n)
    BY <1>1, <2>4
  <2> QED BY <2>3, <2>4
<1> HIDE DEF g
<1>3. /\ c \in Health /\ c.known /\ c.cause = "noResponse"
      /\ c.silenceMark = g.silenceMark /\ c.silences = g.silences
  BY <1>2 DEF Health
<1>4. Strikes(h, n) \in BOOLEAN
  <2>1. CASE SilentProbe(h)
    BY <2>1, <1>1 DEF Strikes, Health
  <2>2. CASE ~SilentProbe(h)
    BY <2>2, <1>1 DEF Strikes, Health
  <2> QED BY <2>1, <2>2
<1>5. Silent(h0, n, l) =
        IF SilentProbe(h) THEN Armed(g, n, Strikes(h, n))
        ELSE IF Strikes(h, n) /\ h.silences + 1 >= SilenceBreakerTrip
        THEN Armed(c, n, TRUE)
        ELSE g
  BY DEF Silent, g, h
<1> HIDE DEF c
<1>6. CASE SilentProbe(h)
  <2>1. Silent(h0, n, l) = Armed(g, n, Strikes(h, n))
    BY <1>5, <1>6
  <2>2. g.cause = "noResponse"
    BY <1>2, <1>6 DEF SilentProbe
  <2>3. LET a == Armed(g, n, Strikes(h, n)) IN
        /\ a.known /\ a.silenceMark = g.silenceMark
        /\ a.openUntil = "open" /\ ~a.probing /\ a.openAnswers = n
        /\ a.cause = "noResponse" /\ a.lastCooldown > 0
        /\ a.silences = g.silences
    BY <1>2, <1>4, <2>2, ArmedFields
  <2> QED BY <1>2, <1>6, <2>1, <2>3 DEF h
<1>7. CASE ~SilentProbe(h) /\ Strikes(h, n)
           /\ h.silences + 1 >= SilenceBreakerTrip
  <2>1. Silent(h0, n, l) = Armed(c, n, TRUE)
    BY <1>5, <1>7
  <2>0. c.silences = SilenceBreakerTrip
    BY <1>2, <1>3, <1>7
  <2>2. LET a == Armed(c, n, TRUE) IN
        /\ a.known /\ a.silenceMark = g.silenceMark
        /\ a.openUntil = "open" /\ ~a.probing /\ a.openAnswers = n
        /\ a.cause = "noResponse" /\ a.lastCooldown > 0
        /\ a.silences = SilenceBreakerTrip
    <3> DEFINE a == Armed(c, n, TRUE)
    <3>1. c \in Health
      BY <1>3
    <3>2. a.openUntil = "open" /\ a.openAnswers = n
      BY <3>1, ArmedFields
    <3>3. a.silences = c.silences
      BY <3>1, ArmedFields
    <3>4. a.known = c.known /\ ~a.probing
      BY <3>1, ArmedFields
    <3>5. a.cause = c.cause
      BY <3>1, ArmedFields
    <3>6. a.lastCooldown > 0
      BY <3>1, ArmedFields
    <3>7. a.silenceMark = c.silenceMark
      BY <3>1, ArmedFields
    <3> HIDE DEF a
    <3> QED BY <1>3, <2>0, <3>2, <3>3, <3>4, <3>5, <3>6, <3>7 DEF a
  <2> QED BY <1>2, <1>7, <2>1, <2>2 DEF h
<1>8. CASE ~SilentProbe(h)
           /\ ~(Strikes(h, n) /\ h.silences + 1 >= SilenceBreakerTrip)
  <2>1. Silent(h0, n, l) = g
    BY <1>5, <1>8
  <2> QED BY <1>2, <1>8, <2>1 DEF h
<1> QED BY <1>6, <1>7, <1>8

LEMMA OutageStep ==
  ASSUME TypeOK, OutageInv, [Next]_vars
  PROVE  OutageInv'
<1> USE DEF OutageInv, OutageStrikesOnce, JudgedOnlyWhenClosed, MarksCurrent,
            port, slot
<1>n. /\ answers \in Nat /\ inflight \in Devices \cup {Idle}
      /\ drain \in BOOLEAN
      /\ health \in [Devices -> Health] /\ strikes \in [Devices -> Nat]
  BY PortAssumption DEF TypeOK
<1>1. ASSUME NEW d \in Devices, NEW dr \in BOOLEAN, Submit(d, dr)
      PROVE  OutageInv'
  BY <1>1 DEF Submit
<1>2. ASSUME NEW d \in Devices, NEW dr \in BOOLEAN, Start(d, dr)
      PROVE  OutageInv'
  <2> DEFINE a == Admitted(health[d], dr)
  <2>1. /\ health' = [health EXCEPT ![d] = a] /\ inflight' = d /\ drain' = dr
        /\ UNCHANGED <<answers, strikes>> /\ ~Holds(health[d], dr)
    BY <1>2 DEF Start
  <2>2. /\ a.known = health[d].known /\ a.cause = health[d].cause
        /\ a.silenceMark = health[d].silenceMark
        /\ a.openAnswers = health[d].openAnswers
        /\ ~dr => a.openUntil = "closed"
        /\ (a.probing \/ a.openUntil # "closed")
             => (health[d].probing \/ health[d].openUntil # "closed")
    BY <2>1, <1>n DEF Admitted, Holds, Health
  <2> HIDE DEF a
  <2>3. OutageStrikesOnce'
    BY <2>1
  <2>4. JudgedOnlyWhenClosed'
    BY <2>1, <2>2, <1>n
  <2>5. MarksCurrent'
    BY <2>1, <2>2, <1>n
  <2> QED BY <2>3, <2>4, <2>5
<1>3. ASSUME NEW d \in Devices, FailFast(d) PROVE OutageInv'
  BY <1>3 DEF FailFast
<1>4. ASSUME NEW d \in Devices, Answer(d) PROVE OutageInv'
  BY <1>4, IdleAssumption DEF Answer, Free
<1>5. ASSUME NEW d \in Devices, TimeOutSilent(d) PROVE OutageInv'
  <2> DEFINE l == last = d
             h == SilenceEntry(health[d], answers, l)
             a == Silent(health[d], answers, l)
  <2>0. l \in BOOLEAN /\ health[d] \in Health
    BY <1>n
  <2>1. /\ health' = [health EXCEPT ![d] = a] /\ inflight' = Idle
        /\ inflight = d /\ ~drain /\ answers' = answers
        /\ strikes' = [strikes EXCEPT
                         ![d] = IF Strikes(h, answers) THEN @ + 1 ELSE @]
    BY <1>5 DEF TimeOutSilent, Free
  <2> HIDE DEF l
  <2>2. /\ h \in Health /\ h.openUntil = health[d].openUntil
        /\ h.probing = health[d].probing /\ h.cause = health[d].cause
        /\ h.openAnswers = health[d].openAnswers
        /\ health[d].known => h = health[d]
    BY <1>n, <2>0, EntryFields
  <2>3. /\ a.known
        /\ a.silenceMark = IF Strikes(h, answers) THEN answers ELSE h.silenceMark
        /\ \/ a.openAnswers = answers
           \/ /\ ~SilentProbe(h) /\ a.openUntil = h.openUntil
              /\ a.probing = h.probing /\ a.openAnswers = h.openAnswers
              /\ a.cause = h.cause
    BY <1>n, <2>0, SilentFields
  <2> HIDE DEF h, a
  <2>4. h.openUntil = "closed"
    BY <2>1, <2>2
  <2>5. strikes[d] = 1 => ~Strikes(h, answers)
    <3> SUFFICES ASSUME strikes[d] = 1 PROVE ~Strikes(h, answers)
      OBVIOUS
    <3>1. h = health[d] /\ h.silenceMark = answers
      BY <2>2
    <3>2. SilentProbe(h) => h.openAnswers = answers
      BY <3>1 DEF SilentProbe
    <3> QED BY <3>1, <3>2, <1>n DEF Strikes
  <2>6. OutageStrikesOnce'
    BY <2>1, <2>5, <1>n
  <2>7. JudgedOnlyWhenClosed'
    BY <2>1, IdleAssumption
  <2>8. MarksCurrent'
    <3> SUFFICES ASSUME NEW e \in Devices, strikes'[e] = 1
                 PROVE  /\ health'[e].known
                        /\ health'[e].silenceMark = answers
                        /\ (/\ health'[e].cause = "noResponse"
                            /\ \/ health'[e].probing
                               \/ health'[e].openUntil # "closed")
                             => health'[e].openAnswers = answers
      BY <2>1
    <3>1. CASE e # d
      BY <3>1, <2>1, <1>n
    <3>2. CASE e = d
      <4>1. health'[e] = a
        BY <2>1, <3>2, <1>n
      <4>2. a.silenceMark = answers
        BY <2>1, <2>2, <2>3, <3>2, <1>n
      <4>3. (a.cause = "noResponse" /\ (a.probing \/ a.openUntil # "closed"))
              => a.openAnswers = answers
        BY <2>3, <2>4 DEF SilentProbe
      <4> QED BY <2>3, <4>1, <4>2, <4>3
    <3> QED BY <3>1, <3>2
  <2> QED BY <2>6, <2>7, <2>8
<1>6. ASSUME NEW d \in Devices, GiveUpRefused(d) PROVE OutageInv'
  <2> DEFINE a == Refused(health[d], answers)
  <2>1. /\ health' = [health EXCEPT ![d] = a] /\ inflight' = Idle
        /\ UNCHANGED <<answers, strikes>>
    BY <1>6 DEF GiveUpRefused, Free
  <2>2. /\ a.known /\ a.silenceMark = health[d].silenceMark
        /\ \/ a.openAnswers = answers
           \/ /\ a.openUntil = health[d].openUntil
              /\ a.openAnswers = health[d].openAnswers
              /\ a.probing = health[d].probing /\ a.cause = health[d].cause
    BY <1>n, RefusedFields
  <2> HIDE DEF a
  <2>3. OutageStrikesOnce' /\ JudgedOnlyWhenClosed'
    BY <2>1, IdleAssumption
  <2>4. MarksCurrent'
    BY <2>1, <2>2, <1>n
  <2> QED BY <2>3, <2>4
<1>7. ASSUME NEW d \in Devices, FinishInconclusive(d) PROVE OutageInv'
  BY <1>7, IdleAssumption DEF FinishInconclusive, Free
<1>8. ASSUME NEW d \in Devices, LearnCollect(d) PROVE OutageInv'
  BY <1>8, <1>n DEF LearnCollect, Known, Health
<1>9. ASSUME NEW d \in Devices, CooldownElapses(d) PROVE OutageInv'
  BY <1>9, <1>n DEF CooldownElapses, Expired, Health
<1>10. ASSUME NEW d \in Devices, NEW b \in BOOLEAN, SilenceProbeDue(d, b)
       PROVE  OutageInv'
  <2> DEFINE again == ProbeWanted(health[d]) /\ (Queued(d) \/ inflight = d \/ ~b)
  <2>1. /\ health' = [health EXCEPT ![d].probeTimer = again]
        /\ UNCHANGED <<answers, strikes, inflight, drain>>
    BY <1>10 DEF SilenceProbeDue
  <2> HIDE DEF again
  <2> QED BY <2>1, <1>n DEF Health
<1>11. ASSUME NEW ds \in SUBSET Devices, TableOfDevices(ds) PROVE OutageInv'
  <2>1. UNCHANGED <<answers, strikes, inflight, drain>>
    BY <1>11 DEF TableOfDevices
  <2>2. ASSUME NEW e \in Devices
        PROVE  /\ health'[e].known = health[e].known
               /\ health'[e].silenceMark = health[e].silenceMark
               /\ health'[e].cause = health[e].cause
               /\ health'[e].openAnswers = health[e].openAnswers
               /\ health'[e].probing = health[e].probing
               /\ (health'[e].openUntil = "closed")
                    <=> (health[e].openUntil = "closed")
    <3>1. health'[e] \in {health[e], ProbedNow(health[e])}
      BY <1>11 DEF TableOfDevices
    <3>2. health[e] \in Health
      BY <1>n
    <3> QED BY <3>1, <3>2, ProbedNowFields
  <2> QED BY <2>1, <2>2
<1>12. CASE UNCHANGED vars
  BY <1>12 DEF vars
<1> QED BY <1>1, <1>2, <1>3, <1>4, <1>5, <1>6, <1>7, <1>8, <1>9, <1>10, <1>11,
           <1>12 DEF Next

\* Decision record 0001 for any number of devices, thresholds and answers:
\* between two answers of the port no device collects a second strike, so a
\* node that goes quiet for everyone costs each device at most one.
THEOREM OutageSafe == Spec => []OutageStrikesOnce
<1>1. Init => OutageInv
  BY OutageInit
<1>2. TypeOK /\ OutageInv /\ [Next]_vars => OutageInv'
  BY OutageStep
<1>3. OutageInv => OutageStrikesOnce
  BY DEF OutageInv
<1> QED BY <1>1, <1>2, <1>3, TypeCorrect, PTL DEF Spec

\* An uncounted silence leaves the cool-down alone.
LEMMA UncountedKeepsCooldown ==
  ASSUME NEW h \in Health, NEW n \in Nat, NEW l \in BOOLEAN,
         ~Strikes(SilenceEntry(h, n, l), n)
  PROVE  Silent(h, n, l).cooldown = h.cooldown
<1> DEFINE e == SilenceEntry(h, n, l)
<1>1. e \in Health /\ e.cooldown = h.cooldown
  BY DEF SilenceEntry, Known, Health
<1> HIDE DEF e
<1>2. Armed(e, n, FALSE).cooldown = e.cooldown
  BY <1>1 DEF Armed, Health
<1>3. Strikes(e, n) = FALSE
  BY DEF e, Strikes
<1>4. CASE SilentProbe(e)
  <2>1. Silent(h, n, l) = Armed(e, n, Strikes(e, n))
    BY <1>3, <1>4 DEF Silent, e
  <2> QED BY <1>1, <1>2, <1>3, <2>1
<1>5. CASE ~SilentProbe(e)
  <2>1. Silent(h, n, l) = e
    BY <1>3, <1>5 DEF Silent, e
  <2> QED BY <1>1, <2>1
<1> QED BY <1>4, <1>5

\* In the silence of a whole node, a device that has had its one strike keeps
\* its cool-down however often it is probed.
THEOREM CooldownSpared == Spec => OutageKeepsCooldown
<1> DEFINE Keeps ==
      \A d \in Devices :
        (strikes[d] = 1 /\ strikes'[d] = 1 /\ inflight = d /\ TimeOutSilent(d))
          => health'[d].cooldown = health[d].cooldown
<1>1. TypeOK /\ [Next]_vars => [Keeps]_vars
  <2> SUFFICES ASSUME TypeOK, NEW d \in Devices,
                      strikes[d] = 1, strikes'[d] = 1, TimeOutSilent(d)
               PROVE  health'[d].cooldown = health[d].cooldown
    BY DEF Keeps
  <2>1. health[d] \in Health /\ answers \in Nat
    BY PortAssumption DEF TypeOK
  <2>2. ~Strikes(SilenceEntry(health[d], answers, last = d), answers)
    BY DEF TimeOutSilent, TypeOK
  <2>3. health'[d] = Silent(health[d], answers, last = d)
    BY DEF TimeOutSilent, TypeOK
  <2>4. (last = d) \in BOOLEAN
    OBVIOUS
  <2> QED BY <2>1, <2>2, <2>3, <2>4, UncountedKeepsCooldown
<1> QED BY <1>1, TypeCorrect, PTL DEF Spec, OutageKeepsCooldown

-----------------------------------------------------------------------------
(* What an open breaker rests on.                                          *)

\* A half-open probe of a silence-opened breaker keeps the strikes.
ProbeKeepsStrikes ==
  \A d \in Devices :
    SilentProbe(health[d]) => health[d].silences = SilenceBreakerTrip

OpenInv == SilenceOpenHasStrikes /\ HoldIsNotProbing /\ ProbeKeepsStrikes

\* The invariant of one record.
Sound(h) ==
  /\ (\/ h.openUntil # "closed" /\ h.cause = "noResponse"
      \/ h.probeTimer)
     => h.silences = SilenceBreakerTrip /\ h.cause = "noResponse"
  /\ h.openUntil # "closed" => ~h.probing /\ h.lastCooldown > 0
  /\ SilentProbe(h) => h.silences = SilenceBreakerTrip

LEMMA OpenInvPerDevice == OpenInv <=> \A d \in Devices : Sound(health[d])
BY DEF OpenInv, SilenceOpenHasStrikes, HoldIsNotProbing, ProbeKeepsStrikes,
       Sound

LEMMA SoundSmallSteps ==
  ASSUME NEW h \in Health, NEW n \in Nat, NEW b \in BOOLEAN,
         Sound(h)
  PROVE  /\ Sound(Admitted(h, b)) /\ Sound(Responded(h, n))
         /\ Sound(Known(h)) /\ Sound(ProbedNow(h))
         /\ h.openUntil = "open" => Sound(Expired(h))
         /\ (b => h.probeTimer) => Sound([h EXCEPT !.probeTimer = b])
<1> USE DEF Sound, SilentProbe, Health
<1>1. Sound(Admitted(h, b)) /\ Sound(Responded(h, n))
  BY DEF Admitted, Responded
<1>2. Sound(Known(h))
  BY DEF Known
<1>3. Sound(ProbedNow(h))
  BY DEF ProbedNow, ProbeWanted
<1>4. h.openUntil = "open" => Sound(Expired(h))
  BY DEF Expired
<1>5. (b => h.probeTimer) => Sound([h EXCEPT !.probeTimer = b])
  OBVIOUS
<1> QED BY <1>1, <1>2, <1>3, <1>4, <1>5

LEMMA SoundRefused ==
  ASSUME NEW h \in Health, NEW n \in Nat, Sound(h)
  PROVE  Sound(Refused(h, n))
BY RefusedFields DEF Sound, SilentProbe

LEMMA SoundSilent ==
  ASSUME NEW h0 \in Health, NEW n \in Nat, NEW l \in BOOLEAN, Sound(h0)
  PROVE  Sound(Silent(h0, n, l))
BY SilentFields, EntryFields DEF Sound, SilentProbe

LEMMA SoundStep ==
  ASSUME TypeOK, OpenInv, [Next]_vars
  PROVE  OpenInv'
<1> SUFFICES ASSUME NEW e \in Devices PROVE Sound(health'[e])
  BY DEF OpenInv, SilenceOpenHasStrikes, HoldIsNotProbing, ProbeKeepsStrikes,
         Sound
<1> USE DEF port, slot
<1>n. /\ answers \in Nat /\ answers' \in Nat
      /\ health \in [Devices -> Health]
      /\ \A d \in Devices : health[d] \in Health /\ Sound(health[d])
  <2>1. TypeOK'
    BY NextType
  <2> QED BY <2>1, OpenInvPerDevice, PortAssumption DEF TypeOK
<1>0. ASSUME NEW d \in Devices, NEW a, Sound(a),
             health' = [health EXCEPT ![d] = a]
      PROVE  Sound(health'[e])
  BY <1>0, <1>n
<1>1. ASSUME NEW d \in Devices, NEW dr \in BOOLEAN, Submit(d, dr)
      PROVE  Sound(health'[e])
  BY <1>1, <1>n DEF Submit
<1>2. ASSUME NEW d \in Devices, NEW dr \in BOOLEAN, Start(d, dr)
      PROVE  Sound(health'[e])
  <2>1. Sound(Admitted(health[d], dr))
    BY <1>n, SoundSmallSteps
  <2> QED BY <1>2, <1>0, <2>1 DEF Start
<1>3. ASSUME NEW d \in Devices, FailFast(d) PROVE Sound(health'[e])
  BY <1>3, <1>n DEF FailFast
<1>4. ASSUME NEW d \in Devices, Answer(d) PROVE Sound(health'[e])
  <2>1. Sound(Responded(health[d], answers'))
    BY <1>n, SoundSmallSteps
  <2> QED BY <1>4, <1>0, <2>1 DEF Answer
<1>5. ASSUME NEW d \in Devices, TimeOutSilent(d) PROVE Sound(health'[e])
  <2>1. Sound(Silent(health[d], answers, last = d))
    BY <1>n, SoundSilent
  <2> QED BY <1>5, <1>0, <2>1 DEF TimeOutSilent
<1>6. ASSUME NEW d \in Devices, GiveUpRefused(d) PROVE Sound(health'[e])
  <2>1. Sound(Refused(health[d], answers))
    BY <1>n, SoundRefused
  <2> QED BY <1>6, <1>0, <2>1 DEF GiveUpRefused
<1>7. ASSUME NEW d \in Devices, FinishInconclusive(d) PROVE Sound(health'[e])
  BY <1>7, <1>n DEF FinishInconclusive
<1>8. ASSUME NEW d \in Devices, LearnCollect(d) PROVE Sound(health'[e])
  <2>1. Sound(Known(health[d]))
    BY <1>n, SoundSmallSteps
  <2> QED BY <1>8, <1>0, <2>1 DEF LearnCollect
<1>9. ASSUME NEW d \in Devices, CooldownElapses(d) PROVE Sound(health'[e])
  <2>1. Sound(Expired(health[d]))
    BY <1>9, <1>n, SoundSmallSteps DEF CooldownElapses
  <2> QED BY <1>9, <1>0, <2>1 DEF CooldownElapses
<1>10. ASSUME NEW d \in Devices, NEW b \in BOOLEAN, SilenceProbeDue(d, b)
       PROVE  Sound(health'[e])
  <2> DEFINE again == ProbeWanted(health[d]) /\ (Queued(d) \/ inflight = d \/ ~b)
             a == [health[d] EXCEPT !.probeTimer = again]
  <2>1. health' = [health EXCEPT ![d] = a] /\ health[d].probeTimer
    BY <1>10 DEF SilenceProbeDue
  <2>2. again \in BOOLEAN
    OBVIOUS
  <2> HIDE DEF again
  <2>3. Sound(a)
    BY <1>n, <2>1, <2>2, SoundSmallSteps
  <2> QED BY <1>0, <2>1, <2>3
<1>11. ASSUME NEW ds \in SUBSET Devices, TableOfDevices(ds)
       PROVE  Sound(health'[e])
  <2>1. health'[e] \in {health[e], ProbedNow(health[e])}
    BY <1>11 DEF TableOfDevices
  <2>2. Sound(ProbedNow(health[e]))
    BY <1>n, SoundSmallSteps
  <2> QED BY <1>n, <2>1, <2>2
<1>12. CASE UNCHANGED vars
  BY <1>12, <1>n DEF vars
<1> QED BY <1>1, <1>2, <1>3, <1>4, <1>5, <1>6, <1>7, <1>8, <1>9, <1>10, <1>11,
           <1>12 DEF Next

LEMMA OpenSafe == Spec => []OpenInv
<1>1. Init => OpenInv
  BY DEF Init, OpenInv, SilenceOpenHasStrikes, HoldIsNotProbing,
         ProbeKeepsStrikes, SilentProbe, NoHealth
<1>2. TypeOK /\ OpenInv /\ [Next]_vars => OpenInv'
  BY SoundStep
<1> QED BY <1>1, <1>2, TypeCorrect, PTL DEF Spec

\* A breaker held open for silence, and every scheduled silence probe, rests
\* on a full count of strikes, whatever answers and refusals came between.
THEOREM SilenceOpenIsEarned == Spec => []SilenceOpenHasStrikes
<1>1. OpenInv => SilenceOpenHasStrikes
  BY DEF OpenInv
<1> QED BY <1>1, OpenSafe, PTL

\* breakerHoldLocked and armBreakerLocked never leave a breaker both open and
\* half-open, and a hold always has a cool-down to wait for.
THEOREM HoldExcludesProbe == Spec => []HoldIsNotProbing
<1>1. OpenInv => HoldIsNotProbing
  BY DEF OpenInv
<1> QED BY <1>1, OpenSafe, PTL

\* The breakers of a port are sound for any devices, thresholds and bounds.
THEOREM BreakersAreSound == Spec => []BreakerInvariant
BY TypeCorrect, OutageSafe, SilenceOpenIsEarned, HoldExcludesProbe, PTL
   DEF BreakerInvariant
=============================================================================
