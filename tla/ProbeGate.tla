------------------------------- MODULE ProbeGate -------------------------------
(* What params.Client asks a responder, and what it does not: the cache of     *)
(* SUPPORTED_PARAMETERS and of refused parameters that gates every speculative *)
(* GET, and the core-identity pass.  Requests run at the same time, each step  *)
(* between two locks is one action, and ForgetDevice puts a new record in the  *)
(* place of the one they hold.                                                 *)
EXTENDS Integers, FiniteSets

CONSTANTS
  Responders,       \* UIDs, all of one manufacturer
  Readers,          \* requests that may run at the same time
  Probes,           \* the speculative PIDs in use
  unknown, nobody

ASSUME ProbeAssumption ==
  /\ \A listed \in SUBSET Probes : unknown # listed
  /\ nobody \notin Readers
  /\ Responders # {}

MaxSupportedSilentAttempts == 2

VARIABLES
  facts,       \* per responder, the record in uidStates ("now") and the one that
               \* ForgetDevice has taken out and a request still holds ("old")
  reader,      \* per request, where it is
  spent,       \* history: SUPPORTED_PARAMETERS the gate asked in vain, per record
  blind        \* history: a probe was sent with nothing known of its device, unexplained

probeVars == <<facts, reader, spent, blind>>

Records == {"now", "old"}
Lists == SUBSET Probes

NoFacts == [list |-> unknown, attempted |-> FALSE, silent |-> 0, flight |-> nobody,
            refused |-> {}]

Idle == [at |-> "idle", dev |-> CHOOSE d \in Responders : TRUE, pid |-> nobody,
         held |-> "now", asked |-> "now", answer |-> unknown, live |-> TRUE, cut |-> FALSE]

ProbeInit ==
  /\ facts = [d \in Responders |-> [g \in Records |-> NoFacts]]
  /\ reader = [r \in Readers |-> Idle]
  /\ spent = [d \in Responders |-> [g \in Records |-> 0]]
  /\ blind = FALSE

Held(r) == facts[reader[r].dev][reader[r].held]     \* ensureAdvertised's st
Asked(r) == facts[reader[r].dev][reader[r].asked]   \* resolveSupportedSet's st
StateFor(d) == facts[d]["now"]                      \* stateFor

Goes(r, R) == reader' = [reader EXCEPT ![r] = R]

\* A request that has ended, and one between two reads of it, are alike.
Done(r) == reader' = [reader EXCEPT ![r] = Idle]
-------------------------------------------------------------------------------
(* Requests.  A page of the device view reads its parameters one by one: each  *)
(* read stands for itself.  The capabilities only resolve the list; the core   *)
(* pass opens with two parameters that nothing gates.                          *)
Begins(r, d, stage, pid) ==
  /\ reader[r].at = "idle"
  /\ Goes(r, [Idle EXCEPT !.dev = d, !.at = stage, !.pid = pid])
  /\ UNCHANGED <<facts, spent, blind>>

GetServiceLife(r) == \E d \in Responders, p \in Probes : Begins(r, d, "gate", p)

GetActions(r) == \E d \in Responders : Begins(r, d, "resolve", nobody)

ReadCoreIdentity(r) == \E d \in Responders, p \in Probes : Begins(r, d, "info", p)

BeginReset(r) == \E d \in Responders : Begins(r, d, "resetting", nobody)

\* The handler's time-out, or a browser that leaves, where it makes a difference.
Cancelled(r) ==
  /\ reader[r].at \in {"leading", "waiting", "listing"} /\ reader[r].live
  /\ Goes(r, [reader[r] EXCEPT !.live = FALSE])
  /\ UNCHANGED <<facts, spent, blind>>
-------------------------------------------------------------------------------
(* SUPPORTED_PARAMETERS.  An answer is a list, bytes that do not decode, or a  *)
(* refusal; silence is a time-out, and what a cancelled request gets.          *)
Answers == [said : {"list"}, pids : Lists] \cup [said : {"garbled", "refused", "silence"}, pids : {{}}]
Usable(o) == o.said = "list"

\* recordSupportedOutcomeLocked.  (The count is only compared with 0 and the bound.)
RecordOutcome(f, o, live) ==
  IF f.list # unknown THEN f
  ELSE IF Usable(o) THEN [f EXCEPT !.list = o.pids, !.attempted = TRUE]
  ELSE IF o.said = "garbled" THEN [f EXCEPT !.attempted = TRUE]
  ELSE IF ~live THEN f
  ELSE IF o.said = "silence"
       THEN IF f.silent < MaxSupportedSilentAttempts THEN [f EXCEPT !.silent = @ + 1] ELSE f
  ELSE [f EXCEPT !.attempted = TRUE]

Recorded(f, o, live) == RecordOutcome(f, o, live)
-------------------------------------------------------------------------------
(* The gate: ensureAdvertised and resolveSupportedSet, lock by lock.           *)
Gate(r) ==
  /\ reader[r].at = "gate"
  /\ LET d == reader[r].dev
     IN IF reader[r].pid \in StateFor(d).refused
        THEN Done(r)
        ELSE Goes(r, [reader[r] EXCEPT !.at = "resolve", !.held = "now"])
  /\ UNCHANGED <<facts, spent, blind>>

MayNotAsk(f) ==
  \/ f.list # unknown
  \/ f.attempted
  \/ f.silent >= MaxSupportedSilentAttempts

Resolve(r) ==
  /\ reader[r].at = "resolve"
  /\ LET d == reader[r].dev
         f == StateFor(d)
     IN \/ /\ MayNotAsk(f)
           /\ Goes(r, [reader[r] EXCEPT !.at = "decide", !.asked = "now", !.answer = f.list])
           /\ UNCHANGED facts
        \/ /\ ~MayNotAsk(f) /\ f.flight # nobody
           /\ Goes(r, [reader[r] EXCEPT !.at = "waiting", !.asked = "now"])
           /\ UNCHANGED facts
        \/ /\ ~MayNotAsk(f) /\ f.flight = nobody
           /\ Goes(r, [reader[r] EXCEPT !.at = "leading", !.asked = "now"])
           /\ facts' = [facts EXCEPT ![d]["now"].flight = r]
  /\ UNCHANGED <<spent, blind>>

Waiting(d, g) ==
  {r \in Readers : reader[r].at = "waiting" /\ reader[r].dev = d /\ reader[r].asked = g}

\* The record whose flight the leader closes: its own, whatever has been forgotten since.
FlightOfCurrent(r) == "now"
FlightOf(r) == reader[r].asked

\* History: bounded where the property is already broken.
Spends(d, g) == [spent EXCEPT ![d][g] = IF @ > MaxSupportedSilentAttempts THEN @ ELSE @ + 1]

LeaderHears(r) ==
  /\ reader[r].at = "leading"
  /\ \E o \in Answers :
       LET d == reader[r].dev
           g == reader[r].asked
           f == Recorded(facts[d][g], o, reader[r].live)
       IN /\ facts' = [facts EXCEPT ![d][g] = [f EXCEPT !.flight = nobody]]
          /\ reader' = [w \in Readers |->
               IF w = r THEN [reader[r] EXCEPT !.at = "decide", !.answer = f.list,
                                               !.live = TRUE, !.cut = ~reader[r].live]
               ELSE IF w \in Waiting(d, FlightOf(r))
               THEN [reader[w] EXCEPT !.at = "woken", !.live = TRUE,
                                      !.cut = ~(reader[r].live /\ reader[w].live)]
               ELSE reader[w]]
          /\ spent' = IF reader[r].live /\ ~Usable(o) THEN Spends(d, g) ELSE spent
  /\ UNCHANGED <<blind>>

Wakes(r) ==
  /\ \/ /\ reader[r].at = "woken"
        /\ Goes(r, [reader[r] EXCEPT !.at = "decide", !.answer = Asked(r).list])
     \/ /\ reader[r].at = "waiting" /\ ~reader[r].live
        /\ Goes(r, [reader[r] EXCEPT !.at = "decide", !.live = TRUE, !.cut = TRUE])
  /\ UNCHANGED <<facts, spent, blind>>

Silent(f) == ~f.attempted /\ f.silent > 0

\* History: a probe is sent with nothing known of its device, and neither a forgotten
\* record nor a request that was cancelled explains it.
Unexplained(r) ==
  /\ ~Held(r).attempted /\ reader[r].answer = unknown
  /\ reader[r].held = reader[r].asked
  /\ ~reader[r].cut

Probing(R) == [Idle EXCEPT !.at = "probing", !.dev = R.dev, !.pid = R.pid]

HoldsOld(R, d) == R.dev = d /\ "old" \in {R.held, R.asked}

\* A record that no request holds any more is gone.
Collected(record, empty, readers) == [d \in Responders |->
  IF \E r \in Readers : HoldsOld(readers[r], d) THEN record[d]
  ELSE [record[d] EXCEPT !["old"] = empty]]

Decide(r) ==
  /\ reader[r].at = "decide"
  /\ IF reader[r].pid = nobody THEN Done(r) /\ UNCHANGED blind
     ELSE LET asks == IF reader[r].answer # unknown
                      THEN reader[r].pid \in reader[r].answer
                      ELSE ~Silent(Held(r))
          IN IF asks THEN reader' = [reader EXCEPT ![r] = Probing(@)] /\ blind' = (blind \/ Unexplained(r))
             ELSE Done(r) /\ UNCHANGED blind
  /\ facts' = Collected(facts, NoFacts, reader')
  /\ spent' = Collected(spent, 0, reader')

\* getRaw, after the gate: a refusal is remembered on the record of now.
ProbeEnds(r) ==
  /\ reader[r].at = "probing"
  /\ \E o \in {"ack", "unknown PID", "other"} :
       facts' = IF o = "unknown PID"
                THEN [facts EXCEPT ![reader[r].dev]["now"].refused = @ \cup {reader[r].pid}]
                ELSE facts
  /\ Done(r)
  /\ UNCHANGED <<spent, blind>>
-------------------------------------------------------------------------------
(* ReadCoreIdentity: DEVICE_INFO first, whose silence ends the pass, then      *)
(* SUPPORTED_PARAMETERS, which asks whatever the gate has given up on.         *)
CoreInfo(r) ==
  /\ reader[r].at = "info"
  /\ Done(r) \/ (reader[r].live /\ Goes(r, [reader[r] EXCEPT !.at = "listing"]))
  /\ UNCHANGED <<facts, spent, blind>>

CoreListing(r) ==
  /\ reader[r].at = "listing"
  /\ \/ ~reader[r].live /\ Done(r) /\ UNCHANGED facts
     \/ \E o \in Answers :
          LET d == reader[r].dev
          IN /\ facts' = [facts EXCEPT ![d]["now"] = Recorded(@, o, reader[r].live)]
             /\ IF reader[r].live THEN Goes(r, [reader[r] EXCEPT !.at = "gate"]) ELSE Done(r)
  /\ UNCHANGED <<spent, blind>>
-------------------------------------------------------------------------------
(* A reset that the responder acknowledges forgets its record (ForgetDevice);  *)
(* the full reset of the server forgets them all.  One forgotten record per    *)
(* responder may still be held: a bound on requests that outlive two resets.   *)
Forgotten(R) ==
  IF R.at \in {"leading", "waiting", "woken", "decide"} THEN [R EXCEPT !.held = "old", !.asked = "old"]
  ELSE IF R.at = "resolve" THEN [R EXCEPT !.held = "old"] ELSE R

ForgetDevice(ds, readers) ==
  LET after == [r \in Readers |-> IF readers[r].dev \in ds THEN Forgotten(readers[r]) ELSE readers[r]]
      Moved(record, empty) == [d \in Responders |->
        IF d \in ds THEN [g \in Records |-> IF g = "now" THEN empty ELSE record[d]["now"]]
        ELSE record[d]]
  IN /\ \A d \in ds, r \in Readers : ~HoldsOld(readers[r], d)
     /\ reader' = after
     /\ facts' = Collected(Moved(facts, NoFacts), NoFacts, after)
     /\ spent' = Collected(Moved(spent, 0), 0, after)

Reset(r) ==
  /\ reader[r].at = "resetting"
  /\ \/ Done(r) /\ UNCHANGED <<facts, spent>>
     \/ ForgetDevice({reader[r].dev}, [reader EXCEPT ![r] = Idle])
  /\ UNCHANGED blind

ClearAllDeviceState == ForgetDevice(Responders, reader) /\ UNCHANGED blind

ReaderStep(r) ==
  \/ Gate(r) \/ Resolve(r) \/ LeaderHears(r) \/ Wakes(r) \/ Decide(r) \/ ProbeEnds(r)
  \/ CoreInfo(r) \/ CoreListing(r) \/ Reset(r)

ProbeNext ==
  \/ \E r \in Readers :
       \/ ReaderStep(r) \/ Cancelled(r)
       \/ GetServiceLife(r) \/ GetActions(r) \/ ReadCoreIdentity(r) \/ BeginReset(r)
  \/ ClearAllDeviceState

-------------------------------------------------------------------------------
ProbeTypeOK ==
  /\ \A d \in Responders, g \in Records :
       /\ facts[d][g].list \in Lists \cup {unknown}
       /\ facts[d][g].silent \in 0 .. MaxSupportedSilentAttempts
       /\ facts[d][g].refused \subseteq Probes
       /\ facts[d][g].flight \in Readers \cup {nobody}
  /\ blind \in BOOLEAN

\* A flight has its leader, and whoever waits for a record waits for a leader that
\* is still asking for it, whatever ForgetDevice has done to the table meanwhile.
OneLeaderPerRecord ==
  /\ \A d \in Responders, g \in Records :
       LET leaders == {r \in Readers : reader[r].at = "leading" /\ reader[r].dev = d
                                       /\ reader[r].asked = g}
       IN /\ Cardinality(leaders) =< 1
          /\ (facts[d][g].flight # nobody) = (leaders # {})
          /\ Waiting(d, g) # {} => leaders # {}

\* A record that has heard nothing of use is asked for its list by the gate twice at
\* most: the flight keeps simultaneous requests from counting one silence each.
GateAsksTwice ==
  \A d \in Responders, g \in Records : spent[d][g] =< MaxSupportedSilentAttempts

\* "exactly 0 speculative-PID transactions" to a device that says nothing: a probe goes
\* out with nothing known of its device only after a request was cancelled under it, or
\* the record was forgotten between the two look-ups of the gate.
NoBlindProbe == ~blind

\* What holds in every state of the gate.
ProbeInvariant == ProbeTypeOK /\ OneLeaderPerRecord /\ GateAsksTwice /\ NoBlindProbe
===============================================================================
