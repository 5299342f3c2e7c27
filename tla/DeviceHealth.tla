---------------------------- MODULE DeviceHealth ----------------------------
(***************************************************************************)
(* The per-device circuit breaker record of internal/session/rdmproxy.go   *)
(* (type deviceHealth) and the transitions the controller applies to it.   *)
(* The operators are pure: each maps a health record to the record the     *)
(* code leaves behind.  SilenceBreaker drives them on one node port with   *)
(* every order of command outcomes; RDMController calls them from the      *)
(* command life cycle.                                                     *)
(*                                                                         *)
(* Time is abstract.  openUntil is "closed" (the zero time), "open" (the   *)
(* cool-down is still running) or "due" (it has expired).  Durations are   *)
(* counted in units of ProxyBreakerCooldownInitial.  The counters refusals *)
(* and silences saturate at the thresholds they are compared with.         *)
(***************************************************************************)
EXTENDS Naturals

CONSTANTS
  ProxyBreakerTrip,    \* consecutive refused commands that open a breaker
  SilenceBreakerTrip,  \* attributable silent commands that open a breaker
  CooldownFactor,      \* growth of the cool-down at each escalation
  CooldownMax          \* longest cool-down, in units of the initial one

ASSUME HealthAssumption ==
  /\ ProxyBreakerTrip \in Nat \ {0}
  /\ SilenceBreakerTrip \in Nat \ {0}
  /\ CooldownFactor \in Nat \ {0}
  /\ CooldownMax \in Nat \ {0}

Causes       == {"proxyRefusal", "noResponse"}
CollectModes == {"unknown", "queued", "reissue"}
OpenStates   == {"closed", "open", "due"}

Health ==
  [known        : BOOLEAN,                 \* the devices map has an entry
   refusals     : 0..ProxyBreakerTrip,
   openUntil    : OpenStates,
   cooldown     : 1..CooldownMax,
   lastCooldown : 0..CooldownMax,          \* 0: never opened
   probing      : BOOLEAN,
   cause        : Causes,
   silences     : 0..SilenceBreakerTrip,
   silenceMark  : Nat,
   openAnswers  : Nat,
   probeTimer   : BOOLEAN,                 \* the silence probe is scheduled
   collect      : CollectModes]

\* A device the controller has no entry for.
NoHealth ==
  [known |-> FALSE, refusals |-> 0, openUntil |-> "closed", cooldown |-> 1,
   lastCooldown |-> 0, probing |-> FALSE, cause |-> "proxyRefusal",
   silences |-> 0, silenceMark |-> 0, openAnswers |-> 0,
   probeTimer |-> FALSE, collect |-> "unknown"]

Lesser(a, b) == IF a < b THEN a ELSE b

-----------------------------------------------------------------------------
\* deviceHealthLocked: create the entry on first use, with a zero mark.
Known(h) == [h EXCEPT !.known = TRUE]

\* breakerHoldLocked: must a command fail at once?  Drains are exempt.
Holds(h, drain) == h.openUntil = "open" /\ ~drain

\* breakerHoldLocked: the side effect on a command that is let through. An
\* expired cool-down admits it as the half-open probe.
Admitted(h, drain) ==
  IF h.openUntil = "due" /\ ~drain
  THEN [h EXCEPT !.openUntil = "closed", !.probing = TRUE]
  ELSE h

\* armBreakerLocked: open for one cool-down; reschedule the silence probe.
Armed(h, answers, grow) ==
  LET d == IF ~grow /\ h.lastCooldown > 0 THEN h.lastCooldown ELSE h.cooldown
  IN [h EXCEPT
        !.openUntil    = "open",
        !.lastCooldown = d,
        !.probing      = FALSE,
        !.openAnswers  = answers,
        !.cooldown     = IF grow THEN Lesser(@ * CooldownFactor, CooldownMax)
                                 ELSE @,
        !.probeTimer   = (h.cause = "noResponse")]

\* noteProxyRefusalLocked: does this refusal open the breaker?
RefusalOpens(h) ==
  h.probing \/ h.refusals + 1 >= ProxyBreakerTrip

\* noteProxyRefusalLocked with openBreakerLocked (the drain it may start is
\* the caller's business).
Refused(h, answers) ==
  LET g == [Known(h) EXCEPT !.refusals = Lesser(@ + 1, ProxyBreakerTrip)]
  IN IF RefusalOpens(h)
     THEN Armed([g EXCEPT !.cause = "proxyRefusal"], answers, TRUE)
     ELSE g

\* noteDeviceRespondedLocked: an answer closes the breaker.  answers is the
\* port's count including this answer; a device without entry gets none.
Responded(h, answers) ==
  IF ~h.known THEN h
  ELSE [h EXCEPT !.refusals = 0, !.probing = FALSE, !.openUntil = "closed",
                 !.cooldown = 1, !.silences = 0, !.silenceMark = answers,
                 !.probeTimer = FALSE]

\* noteSilenceLocked: the entry the strike is counted against.
SilenceEntry(h, answers, last) ==
  IF h.known THEN h
  ELSE [Known(h) EXCEPT !.silenceMark = IF last THEN answers ELSE 0]

\* noteSilenceLocked: a silent half-open probe of a silence-opened breaker.
SilentProbe(h) == h.probing /\ h.cause = "noResponse"

\* noteSilenceLocked: does a silent command count as a strike?
Strikes(h, answers) ==
  IF SilentProbe(h) THEN answers > h.openAnswers
                    ELSE answers > h.silenceMark

\* Seeded bug: a strike leaves the mark where it was.
SilentUnmarked(h0, answers, last) ==
  LET h == SilenceEntry(h0, answers, last)
      g == IF Strikes(h, answers)
           THEN [h EXCEPT !.silences = Lesser(@ + 1, SilenceBreakerTrip)]
           ELSE h
  IN IF SilentProbe(h) THEN Armed(g, answers, Strikes(h, answers))
     ELSE IF Strikes(h, answers) /\ h.silences + 1 >= SilenceBreakerTrip
     THEN Armed([g EXCEPT !.cause = "noResponse"], answers, TRUE)
     ELSE g

\* noteSilenceLocked.  last: this device gave the port's latest answer.
Silent(h0, answers, last) ==
  LET h == SilenceEntry(h0, answers, last)
      g == IF Strikes(h, answers)
           THEN [h EXCEPT !.silences    = Lesser(@ + 1, SilenceBreakerTrip),
                          !.silenceMark = answers]
           ELSE h
  IN IF SilentProbe(h) THEN Armed(g, answers, Strikes(h, answers))
     ELSE IF Strikes(h, answers) /\ h.silences + 1 >= SilenceBreakerTrip
     THEN Armed([g EXCEPT !.cause = "noResponse"], answers, TRUE)
     ELSE g

\* noteCollectModeLocked: remember how the device continues an ACK_TIMER.
Learned(h, mode) == [Known(h) EXCEPT !.collect = mode]

\* onSilenceProbeDue: the guard under which a due probe does anything.
ProbeWanted(h) ==
  h.cause = "noResponse" /\ h.openUntil # "closed" /\ ~h.probing

\* silenceProbeOnToDLocked, for a listed device.
ProbedNow(h) ==
  IF ProbeWanted(h) THEN [h EXCEPT !.openUntil = "due", !.probeTimer = TRUE]
                    ELSE h

\* The clock passes openUntil.
Expired(h) == [h EXCEPT !.openUntil = "due"]
=============================================================================
