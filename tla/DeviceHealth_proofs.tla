------------------------- MODULE DeviceHealth_proofs -------------------------
(***************************************************************************)
(* The health operators stay inside Health, for every pair of thresholds   *)
(* and every cool-down schedule.                                           *)
(***************************************************************************)
EXTENDS DeviceHealth, TLAPS

USE DEF OpenStates, Causes, CollectModes

LEMMA NoHealthType == NoHealth \in Health
<1>1. 1 \in 1..CooldownMax /\ 0 \in 0..ProxyBreakerTrip
      /\ 0 \in 0..SilenceBreakerTrip /\ 0 \in 0..CooldownMax
  BY HealthAssumption
<1> QED BY <1>1 DEF NoHealth, Health

LEMMA ProductPositive ==
  ASSUME NEW a \in Nat \ {0}, NEW b \in Nat \ {0}
  PROVE  a * b \in Nat \ {0}
<1>1. a * b \in Nat
  OBVIOUS
<1>2. a * b # 0
  BY SMTT(30)
<1> QED BY <1>1, <1>2

LEMMA ArmedType ==
  ASSUME NEW h \in Health, NEW n \in Nat, NEW g \in BOOLEAN
  PROVE  Armed(h, n, g) \in Health
<1> DEFINE d == IF ~g /\ h.lastCooldown > 0 THEN h.lastCooldown ELSE h.cooldown
           m == h.cooldown * CooldownFactor
           k == IF g THEN Lesser(m, CooldownMax) ELSE h.cooldown
<1>1. d \in 0..CooldownMax
  BY HealthAssumption DEF Health
<1>2. k \in 1..CooldownMax
  <2>1. h.cooldown \in Nat \ {0}
    BY HealthAssumption DEF Health
  <2>2. m \in Nat \ {0}
    BY <2>1, ProductPositive, HealthAssumption
  <2> HIDE DEF m
  <2>3. Lesser(m, CooldownMax) \in 1..CooldownMax
    BY <2>2, HealthAssumption DEF Lesser
  <2> QED BY <2>3 DEF Health
<1>3. Armed(h, n, g) =
        [h EXCEPT !.openUntil = "open", !.lastCooldown = d, !.probing = FALSE,
                  !.openAnswers = n, !.cooldown = k,
                  !.probeTimer = (h.cause = "noResponse")]
  BY DEF Armed, Health
<1> HIDE DEF d, k
<1> QED BY <1>1, <1>2, <1>3 DEF Health

LEMMA SaturatingCount ==
  ASSUME NEW t \in Nat \ {0}, NEW n \in 0..t
  PROVE  /\ Lesser(n + 1, t) \in 0..t
         /\ n + 1 >= t => Lesser(n + 1, t) = t
BY DEF Lesser

LEMMA RefusedType ==
  ASSUME NEW h \in Health, NEW n \in Nat
  PROVE  Refused(h, n) \in Health
<1> DEFINE g == [Known(h) EXCEPT !.refusals = Lesser(@ + 1, ProxyBreakerTrip)]
<1>1. g \in Health
  BY SaturatingCount, HealthAssumption DEF Health, Known
<1>2. [g EXCEPT !.cause = "proxyRefusal"] \in Health
  BY <1>1 DEF Health
<1> HIDE DEF g
<1>3. Armed([g EXCEPT !.cause = "proxyRefusal"], n, TRUE) \in Health
  BY <1>2, ArmedType
<1> QED BY <1>1, <1>3 DEF Refused, g

LEMMA SilentType ==
  ASSUME NEW h0 \in Health, NEW n \in Nat, NEW l \in BOOLEAN
  PROVE  Silent(h0, n, l) \in Health
<1> DEFINE h == SilenceEntry(h0, n, l)
           g == IF Strikes(h, n)
                THEN [h EXCEPT !.silences = Lesser(@ + 1, SilenceBreakerTrip),
                               !.silenceMark = n]
                ELSE h
<1>1. h \in Health
  BY DEF SilenceEntry, Known, Health
<1> HIDE DEF h
<1>2. g \in Health
  BY <1>1, SaturatingCount, HealthAssumption DEF Health
<1>3. Strikes(h, n) \in BOOLEAN
  <2>1. CASE SilentProbe(h)
    BY <2>1, <1>1 DEF Strikes, Health
  <2>2. CASE ~SilentProbe(h)
    BY <2>2, <1>1 DEF Strikes, Health
  <2> QED BY <2>1, <2>2
<1>4. [g EXCEPT !.cause = "noResponse"] \in Health
  BY <1>2 DEF Health
<1> HIDE DEF g
<1>5. /\ Armed(g, n, Strikes(h, n)) \in Health
      /\ Armed([g EXCEPT !.cause = "noResponse"], n, TRUE) \in Health
  BY <1>2, <1>3, <1>4, ArmedType
<1> QED BY <1>2, <1>5 DEF Silent, g, h

LEMMA SmallStepTypes ==
  ASSUME NEW h \in Health, NEW n \in Nat, NEW b \in BOOLEAN
  PROVE  /\ Admitted(h, b) \in Health
         /\ Responded(h, n) \in Health
         /\ Known(h) \in Health
         /\ ProbedNow(h) \in Health
         /\ Expired(h) \in Health
         /\ [h EXCEPT !.probeTimer = b] \in Health
<1>1. Admitted(h, b) \in Health
  BY DEF Admitted, Health
<1>0. Responded(h, n) \in Health
  <2>1. 1 \in 1..CooldownMax /\ 0 \in 0..ProxyBreakerTrip
        /\ 0 \in 0..SilenceBreakerTrip
    BY HealthAssumption
  <2> QED BY <2>1 DEF Responded, Health
<1>2. Known(h) \in Health /\ ProbedNow(h) \in Health
  BY DEF Known, ProbedNow, ProbeWanted, Health
<1> QED BY <1>0, <1>1, <1>2 DEF Expired, Health

LEMMA LearnedType ==
  ASSUME NEW h \in Health, NEW mode \in CollectModes
  PROVE  Learned(h, mode) \in Health
BY DEF Learned, Known, Health
=============================================================================
