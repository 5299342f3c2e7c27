--------------------------- MODULE SilenceBreaker ---------------------------
(***************************************************************************)
(* One Art-Net node port and the circuit breakers of the devices behind it *)
(* (internal/session/rdmproxy.go, decision record 0001).  Commands of the  *)
(* port are serialised, one in flight; each ends in an answer, in silence, *)
(* in PROXY_BUFFER_FULL or in an outcome that says nothing about the       *)
(* device.  The command life cycle behind those outcomes is                *)
(* RDMController's; here any outcome may come in any order.                *)
(***************************************************************************)
EXTENDS DeviceHealth

CONSTANTS
  Devices,     \* the responders (UIDs) reached through the port
  MaxAnswers   \* bound: answers the port gives in a behaviour

ASSUME PortAssumption == MaxAnswers \in Nat

Idle == "idle"
ASSUME IdleAssumption == Idle \notin Devices

VARIABLES
  health,    \* health[d]: the breaker record of device d
  answers,   \* linkEvidence.answers of the port
  last,      \* linkEvidence.last: who answered most recently, or Idle
  pending,   \* <<d, dr>>: a command for d waits in the port's queue; dr: it
             \* is a GET QUEUED_MESSAGE
  inflight,  \* device of the command in flight, or Idle
  drain,     \* that command is a GET QUEUED_MESSAGE
  heard,     \* some response packet to that command has arrived
  \* History of what happened, read by the properties only.
  strikes    \* strikes[d]: strikes counted since the port last answered

port == <<answers, last>>
slot == <<inflight, drain, heard>>
vars == <<health, port, pending, slot, strikes>>

Init ==
  /\ health = [d \in Devices |-> NoHealth]
  /\ answers = 0
  /\ last = Idle
  /\ pending = {}
  /\ inflight = Idle /\ drain = FALSE /\ heard = FALSE
  /\ strikes = [d \in Devices |-> 0]

-----------------------------------------------------------------------------
Queued(d) == \E dr \in BOOLEAN : <<d, dr>> \in pending

\* Submit: a caller queues a command for d.  The queue is a set here: which
\* command the pump takes first is left open.
Submit(d, dr) ==
  /\ pending' = pending \cup {<<d, dr>>}
  /\ UNCHANGED <<health, port, slot, strikes>>

\* pumpLocked takes the port's next command for d to the wire.  (Another one
\* like it that waits behind it is a Submit right after this step.)
Start(d, dr) ==
  /\ inflight = Idle
  /\ <<d, dr>> \in pending
  /\ ~Holds(health[d], dr)
  /\ health' = [health EXCEPT ![d] = Admitted(@, dr)]
  /\ inflight' = d /\ drain' = dr /\ heard' = FALSE
  /\ pending' = pending \ {<<d, dr>>}
  /\ UNCHANGED <<port, strikes>>

\* pumpLocked fails a held command with ResultDeviceUnreachable, unsent.
FailFast(d) ==
  /\ inflight = Idle
  /\ <<d, FALSE>> \in pending
  /\ Holds(health[d], FALSE)
  /\ pending' = pending \ {<<d, FALSE>>}
  /\ UNCHANGED <<health, port, slot, strikes>>

\* finishLocked frees the port.
Free == inflight' = Idle /\ drain' = FALSE /\ heard' = FALSE

\* finishLocked with ResultAck or ResultNack.
Answer(d) ==
  /\ inflight = d
  /\ answers < MaxAnswers
  /\ answers' = answers + 1
  /\ last' = d
  /\ health' = [health EXCEPT ![d] = Responded(@, answers')]
  /\ Free
  /\ strikes' = [e \in Devices |-> 0]
  /\ UNCHANGED pending

\* finishLocked with a ResultTimeout that drew no response packet at all;
\* silentTimeout leaves drains out.
TimeOutSilent(d) ==
  LET judged == SilenceEntry(health[d], answers, last = d)
      counts == Strikes(judged, answers)
  IN /\ inflight = d
     /\ ~drain /\ ~heard
     /\ health' = [health EXCEPT ![d] = Silent(@, answers, last = d)]
     /\ Free
     /\ strikes' = [strikes EXCEPT ![d] = IF counts THEN @ + 1 ELSE @]
     /\ UNCHANGED <<port, pending>>

\* finishLocked with ResultProxyBufferFull; drainFeedsBreaker leaves drains
\* out.
GiveUpRefused(d) ==
  /\ inflight = d
  /\ ~drain
  /\ health' = [health EXCEPT ![d] = Refused(@, answers)]
  /\ Free
  /\ UNCHANGED <<port, pending, strikes>>

\* finishLocked with an outcome that leaves the breaker's state alone: a
\* deadline, an abort, an unverified SET, a timeout after some response, a
\* drain that was refused or timed out.
FinishInconclusive(d) ==
  /\ inflight = d
  /\ Free
  /\ UNCHANGED <<health, port, pending, strikes>>

\* The ACK_TIMER continuation of a command in flight, which has therefore
\* drawn a response, learns what the device does with a QUEUED_MESSAGE probe
\* (noteCollectModeLocked).  What it learns matters to RDMController only; to
\* the breaker, that it makes an entry.
LearnCollect(d) ==
  /\ inflight = d
  /\ ~drain
  /\ health' = [health EXCEPT ![d] = Known(@)]
  /\ heard' = TRUE
  /\ UNCHANGED <<port, pending, inflight, drain, strikes>>

\* Time passes an open breaker's cool-down.
CooldownElapses(d) ==
  /\ health[d].openUntil = "open"
  /\ health' = [health EXCEPT ![d] = Expired(@)]
  /\ UNCHANGED <<port, pending, slot, strikes>>

\* Seeded bug: a due probe that cannot go out is not scheduled again.
SilenceProbeDueOnce(d, listed) ==
  /\ health[d].probeTimer
  /\ health[d].openUntil # "open"
  /\ health' = [health EXCEPT ![d].probeTimer = FALSE]
  /\ pending' = IF ProbeWanted(health[d]) /\ ~Queued(d) /\ inflight # d /\ listed
                THEN pending \cup {<<d, FALSE>>} ELSE pending
  /\ UNCHANGED <<port, slot, strikes>>

\* onSilenceProbeDue.  The timer runs for the cool-down, so it fires no
\* earlier than the breaker is due; listed: the table of devices still
\* lists d.  While a command for d is queued, or d is not listed, the probe
\* stays scheduled for another cool-down.
SilenceProbeDue(d, listed) ==
  /\ health[d].probeTimer
  /\ health[d].openUntil # "open"
  /\ LET again == ProbeWanted(health[d]) /\
                  (Queued(d) \/ inflight = d \/ ~listed)
     IN /\ health' = [health EXCEPT ![d].probeTimer = again]
        /\ pending' = IF ProbeWanted(health[d]) /\ ~again
                      THEN pending \cup {<<d, FALSE>>} ELSE pending
  /\ UNCHANGED <<port, slot, strikes>>

\* silenceProbeOnToDLocked: a fresh table of devices lists the devices ds.
TableOfDevices(ds) ==
  /\ health' = [d \in Devices |->
                  IF d \in ds THEN ProbedNow(health[d]) ELSE health[d]]
  /\ UNCHANGED <<port, pending, slot, strikes>>

-----------------------------------------------------------------------------
Finish(d) ==
  Answer(d) \/ TimeOutSilent(d) \/ GiveUpRefused(d) \/ FinishInconclusive(d)

Next ==
  \/ \E d \in Devices :
       \/ \E dr \in BOOLEAN : Submit(d, dr) \/ Start(d, dr)
       \/ FailFast(d)
       \/ Answer(d)
       \/ TimeOutSilent(d)
       \/ GiveUpRefused(d)
       \/ FinishInconclusive(d)
       \/ LearnCollect(d)
       \/ CooldownElapses(d)
       \/ \E listed \in BOOLEAN : SilenceProbeDue(d, listed)
  \/ \E ds \in SUBSET Devices : TableOfDevices(ds)

Spec == Init /\ [][Next]_vars

\* Timers fire, commands end, and the port's queue is served in order, so a
\* waiting command gets its turn whenever the port keeps falling idle (strong
\* fairness stands for the FIFO order this module leaves out).  The table of
\* devices goes on listing the device.
Fairness ==
  \A d \in Devices :
    /\ \A dr \in BOOLEAN : SF_vars(Start(d, dr))
    /\ WF_vars(FailFast(d))
    /\ WF_vars(Finish(d))
    /\ WF_vars(CooldownElapses(d))
    /\ WF_vars(SilenceProbeDue(d, TRUE))

FairSpec == Spec /\ Fairness

-----------------------------------------------------------------------------
TypeOK ==
  /\ health \in [Devices -> Health]
  /\ answers \in 0..MaxAnswers
  /\ last \in Devices \cup {Idle}
  /\ pending \subseteq Devices \X BOOLEAN
  /\ inflight \in Devices \cup {Idle}
  /\ drain \in BOOLEAN
  /\ heard \in BOOLEAN
  /\ strikes \in [Devices -> Nat]

\* Decision 0001: a node-wide outage yields at most one strike per device.
\* Between two answers of the port, whatever is asked of it, however probes
\* and refusals interleave, no device collects a second strike.
OutageStrikesOnce == \A d \in Devices : strikes[d] <= 1

\* A silence-opened breaker rests on a full count of strikes, and so does
\* every scheduled silence probe: no probe outlives the answer that closed
\* its breaker or the refusal that reopened it for another cause.
SilenceOpenHasStrikes ==
  \A d \in Devices :
    \/ health[d].openUntil # "closed" /\ health[d].cause = "noResponse"
    \/ health[d].probeTimer
    => health[d].silences = SilenceBreakerTrip /\ health[d].cause = "noResponse"

\* A breaker that is holding commands back is never half-open at the same
\* time, and nothing is held from a device without an open on record.
HoldIsNotProbing ==
  \A d \in Devices :
    health[d].openUntil # "closed" =>
      ~health[d].probing /\ health[d].lastCooldown > 0

\* The breakers of one port are sound, whatever is asked of its devices.
BreakerInvariant ==
  /\ TypeOK
  /\ OutageStrikesOnce
  /\ SilenceOpenHasStrikes
  /\ HoldIsNotProbing

\* While the port gives no answer a cool-down lengthens at most once for each
\* refused command, never for silence: repeated silent probes of a dead node
\* do not lengthen the sentence beyond the one strike the outage may count.
OutageKeepsCooldown ==
  [][\A d \in Devices :
       (strikes[d] = 1 /\ strikes'[d] = 1 /\ inflight = d /\ TimeOutSilent(d))
         => health'[d].cooldown = health[d].cooldown]_vars

\* A silence-opened breaker does not hold a listed device forever: time and
\* the automatic probe alone reopen the way to it.
SilenceHoldEnds ==
  \A d \in Devices :
    (health[d].openUntil # "closed" /\ health[d].cause = "noResponse")
      ~> inflight = d \/ health[d].openUntil = "closed"
=============================================================================
