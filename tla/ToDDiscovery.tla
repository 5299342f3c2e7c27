---------------------------- MODULE ToDDiscovery ----------------------------
(***************************************************************************)
(* The Table of Devices of one node port (internal/session/rdmdiscovery.go *)
(* ): discoveries that collect ArtTodData blocks, the quiet-period timer   *)
(* that gives up on them, tables the node announces unasked, the cached    *)
(* table and the one identity the port is filed under.                     *)
(*                                                                         *)
(* Everything in the controller is keyed by (IP, Port-Address), so a port  *)
(* is modelled alone; ClearToD and Stop do to every port what they do to   *)
(* this one.  The network loses, delays, reorders and repeats blocks: any  *)
(* block of any table the node may hold can arrive at any time.            *)
(***************************************************************************)
EXTENDS Naturals, FiniteSets

CONSTANTS
  Ids,         \* the calls of Discover and RequestToD
  Tables,      \* the tables (sets of UIDs) the node may hold over time
  Binds,       \* BindIndexes under which the node's port is advertised
  FirstBind,   \* BindIndex 1, assumed of an ArtTodData
  PerBlock,    \* UIDs an ArtTodData has room for
  None,        \* no discovery, no identity
  MaxArrivals  \* bound: ArtTodData packets that arrive in a behaviour

\* How a discovery ends: DiscoveryResult.Err is nil, ErrTodTimeout (of a
\* superseded discovery too), ErrTodNak or ErrControllerStopped.
Reasons == {"ok", "superseded", "timeout", "nak", "stopped"}

ASSUME ToDAssumption ==
  /\ \A T \in Tables : IsFiniteSet(T)
  /\ FirstBind \in Binds /\ None \notin Binds
  /\ None \notin Ids /\ None \notin Reasons
  /\ PerBlock \in Nat /\ MaxArrivals \in Nat

UIDs == UNION Tables

\* An ArtTodData: some of the UIDs of the node's table, and UidTotal, the
\* size of that table.
Blocks ==
  {b \in [table : Tables, uids : SUBSET UIDs] :
     /\ b.uids \subseteq b.table
     /\ Cardinality(b.uids) <= PerBlock
     /\ b.uids = {} => b.table = {}}
UidTotal(b) == Cardinality(b.table)

\* todEntry, or no entry at all.
NoEntry == [uids |-> {}, complete |-> FALSE, cached |-> FALSE]
Entry(uids, complete) ==
  [uids |-> uids, complete |-> complete, cached |-> TRUE]

VARIABLES
  \* Per discovery.
  stage,      \* unused, running or done
  err,        \* what its DiscoveryResult says, or None
  node,       \* d.node, the identity its result is filed under
  seen,       \* d.seen
  total,      \* d.total, 0 before the first block
  blocks,     \* d.blocks
  gen,        \* d.gen
  timer,      \* its quiet-period timer is armed
  late,       \* generations of callbacks that fired and wait for the mutex
  \* The controller's maps, for this port.
  discovery,  \* discoveries[key], or None
  tod,        \* tod[key]
  identity,   \* the BindIndex in todNodes[key], or None
  stopped,    \* the controller's
  arrivals,   \* packets handled
  \* History, read by the properties only.
  heard,      \* heard[i]: tables whose blocks discovery i collected
  sources,    \* tables whose blocks the cached entry holds
  quietAt,    \* quietAt[i]: i's blocks when its timer last fired
  cleared     \* discoveries that ran while the port was cleared

outcome == <<stage, err>>
assembly == <<seen, total, blocks>>
clock == <<gen, timer, late>>
table == <<tod, sources>>
vars == <<outcome, node, assembly, clock, discovery, table, identity, stopped,
          arrivals, heard, quietAt, cleared>>

Init ==
  /\ stage = [i \in Ids |-> "unused"]
  /\ err = [i \in Ids |-> None]
  /\ node = [i \in Ids |-> None]
  /\ seen = [i \in Ids |-> {}]
  /\ total = [i \in Ids |-> 0]
  /\ blocks = [i \in Ids |-> 0]
  /\ gen = [i \in Ids |-> 0]
  /\ timer = [i \in Ids |-> FALSE]
  /\ late = [i \in Ids |-> {}]
  /\ discovery = None
  /\ tod = NoEntry
  /\ identity = None
  /\ stopped = FALSE
  /\ arrivals = 0
  /\ heard = [i \in Ids |-> {}]
  /\ sources = {}
  /\ quietAt = [i \in Ids |-> 0]
  /\ cleared = {}

-----------------------------------------------------------------------------
\* canonicalNodeLocked: first learned wins, until the port is cleared.
Canonical(bind) == IF identity = None THEN bind ELSE identity

\* Seeded bug: progress stops the timer and does not arm the next.
ArmForgets(i) ==
  /\ gen' = [gen EXCEPT ![i] = @ + 1]
  /\ timer' = [timer EXCEPT ![i] = FALSE]

\* armDiscoveryTimerLocked: a callback of the previous generation that fired
\* already keeps waiting.
Arm(i) ==
  /\ gen' = [gen EXCEPT ![i] = @ + 1]
  /\ timer' = [timer EXCEPT ![i] = TRUE]

\* The discovery registered for the port, if any, ends (finishDiscoveryLocked)
\* and unregisters.
FinishDiscovery(why) ==
  LET ends(i) == i = discovery
  IN /\ stage' = [i \in Ids |-> IF ends(i) THEN "done" ELSE stage[i]]
     /\ err' = [i \in Ids |-> IF ends(i) THEN why ELSE err[i]]
     /\ gen' = [i \in Ids |-> IF ends(i) THEN gen[i] + 1 ELSE gen[i]]
     /\ timer' = [i \in Ids |-> timer[i] /\ ~ends(i)]
     /\ discovery' = None

\* startDiscovery on a stopped controller: the handle is born finished.
DiscoverStopped(i, bind) ==
  /\ stopped
  /\ stage[i] = "unused"
  /\ identity' = Canonical(bind)
  /\ node' = [node EXCEPT ![i] = Canonical(bind)]
  /\ stage' = [stage EXCEPT ![i] = "done"]
  /\ err' = [err EXCEPT ![i] = "stopped"]
  /\ UNCHANGED <<assembly, clock, discovery, table, stopped, arrivals, heard,
                 quietAt, cleared>>

\* startDiscovery (Discover, RequestToD): a running discovery of the port is
\* superseded, told ErrTodTimeout.
Discover(i, bind) ==
  LET prev(j) == j = discovery
  IN /\ ~stopped
     /\ stage[i] = "unused"
     /\ identity' = Canonical(bind)
     /\ node' = [node EXCEPT ![i] = Canonical(bind)]
     /\ stage' = [j \in Ids |-> IF prev(j) THEN "done"
                                ELSE IF j = i THEN "running" ELSE stage[j]]
     /\ err' = [j \in Ids |-> IF prev(j) THEN "superseded" ELSE err[j]]
     /\ gen' = [j \in Ids |-> IF prev(j) \/ j = i THEN gen[j] + 1 ELSE gen[j]]
     /\ timer' = [j \in Ids |-> IF j = i THEN TRUE ELSE timer[j] /\ ~prev(j)]
     /\ discovery' = i
     /\ UNCHANGED <<assembly, late, table, stopped, arrivals, heard, quietAt,
                    cleared>>

\* HandleTodData files every packet under the port's identity, learning it
\* from the packet when nothing has.
HandlesPacket ==
  /\ arrivals < MaxArrivals
  /\ arrivals' = arrivals + 1
  /\ identity' = Canonical(FirstBind)

\* Seeded bug: off by one in the comparison with UidTotal.
CompleteOneShort(uids, size) == Cardinality(uids) + 1 >= size

\* complete: as many UIDs as the largest UidTotal announced.
Complete(uids, size) == Cardinality(uids) >= size

Larger(m, n) == IF n > m THEN n ELSE m

\* HandleTodData with a discovery running.
HandleBlock(i, b) ==
  LET uids == seen[i] \cup b.uids
      size == Larger(total[i], UidTotal(b))
  IN /\ discovery = i
     /\ HandlesPacket
     /\ seen' = [seen EXCEPT ![i] = uids]
     /\ total' = [total EXCEPT ![i] = size]
     /\ blocks' = [blocks EXCEPT ![i] = @ + 1]
     /\ heard' = [heard EXCEPT ![i] = @ \cup {b.table}]
     /\ tod' = Entry(uids, Complete(uids, size))
     /\ sources' = heard[i] \cup {b.table}
     /\ \/ Complete(uids, size) /\ FinishDiscovery("ok")
        \/ ~Complete(uids, size) /\ Arm(i) /\ UNCHANGED <<outcome, discovery>>
     /\ UNCHANGED <<node, late, stopped, quietAt, cleared>>

\* HandleTodData with none: mergeUnsolicitedTodLocked.  A complete table is
\* replaced, an incomplete one grows.
Unsolicited(b) ==
  LET grows == tod.cached /\ ~tod.complete
      uids == b.uids \cup (IF grows THEN tod.uids ELSE {})
  IN /\ discovery = None
     /\ HandlesPacket
     /\ tod' = Entry(uids, Complete(uids, UidTotal(b)))
     /\ sources' = {b.table} \cup (IF grows THEN sources ELSE {})
     /\ UNCHANGED <<outcome, node, assembly, clock, discovery, stopped, heard,
                    quietAt, cleared>>

\* HandleTodData with TodNak: fails the running discovery, or is only
\* announced.
HandleNak ==
  /\ HandlesPacket
  /\ \/ discovery # None /\ FinishDiscovery("nak")
     \/ discovery = None /\ UNCHANGED <<outcome, gen, timer, discovery>>
  /\ UNCHANGED <<node, assembly, late, table, stopped, heard, quietAt, cleared>>

\* The quiet period of discovery i passes; its callback will want the mutex.
TimerFires(i) ==
  /\ timer[i]
  /\ timer' = [timer EXCEPT ![i] = FALSE]
  /\ late' = [late EXCEPT ![i] = @ \cup {gen[i]}]
  /\ quietAt' = [quietAt EXCEPT ![i] = blocks[i]]
  /\ UNCHANGED <<outcome, node, assembly, gen, discovery, table, identity,
                 stopped, arrivals, heard, cleared>>

\* Seeded bug: the callback does not compare generations.
CurrentAnyPeriod(i, g) == stage[i] = "running"

\* The callback's guard.
Current(i, g) == stage[i] = "running" /\ gen[i] = g

\* The callback of generation g gets the mutex.
OnQuiet(i, g) ==
  /\ g \in late[i]
  /\ late' = [late EXCEPT ![i] = @ \ {g}]
  /\ \/ Current(i, g) /\ FinishDiscovery("timeout")
     \/ ~Current(i, g) /\ UNCHANGED <<outcome, gen, timer, discovery>>
  /\ UNCHANGED <<node, assembly, table, identity, stopped, arrivals, heard,
                 quietAt, cleared>>

\* ClearToD and ClearToDPort drop the table and the identity; a discovery
\* goes on.
ClearToD ==
  /\ tod' = NoEntry
  /\ sources' = {}
  /\ identity' = None
  /\ cleared' = cleared \cup (Ids \cap {discovery})
  /\ UNCHANGED <<outcome, node, assembly, clock, discovery, stopped, arrivals,
                 heard, quietAt>>

Stop ==
  /\ ~stopped
  /\ stopped' = TRUE
  /\ FinishDiscovery("stopped")
  /\ UNCHANGED <<node, assembly, late, table, identity, arrivals, heard,
                 quietAt, cleared>>

Next ==
  \/ \E i \in Ids, bind \in Binds : Discover(i, bind) \/ DiscoverStopped(i, bind)
  \/ \E b \in Blocks : Unsolicited(b) \/ \E i \in Ids : HandleBlock(i, b)
  \/ HandleNak
  \/ \E i \in Ids : TimerFires(i) \/ \E g \in late[i] : OnQuiet(i, g)
  \/ ClearToD
  \/ Stop

Spec == Init /\ [][Next]_vars

\* Armed timers fire and their callbacks get the mutex.
Callback(i) == \E g \in late[i] : OnQuiet(i, g)
Fairness ==
  \A i \in Ids : WF_vars(TimerFires(i)) /\ WF_vars(Callback(i))
FairSpec == Spec /\ Fairness

-----------------------------------------------------------------------------
TypeOK ==
  /\ stage \in [Ids -> {"unused", "running", "done"}]
  /\ err \in [Ids -> Reasons \cup {None}]
  /\ node \in [Ids -> Binds \cup {None}]
  /\ \A i \in Ids : stage[i] = "running" => node[i] \in Binds
  /\ seen \in [Ids -> SUBSET UIDs]
  /\ total \in [Ids -> Nat]
  /\ blocks \in [Ids -> Nat]
  /\ gen \in [Ids -> Nat]
  /\ timer \in [Ids -> BOOLEAN]
  /\ late \in [Ids -> SUBSET Nat]
  /\ discovery \in Ids \cup {None}
  /\ tod \in [uids : SUBSET UIDs, complete : BOOLEAN, cached : BOOLEAN]
  /\ identity \in Binds \cup {None}
  /\ stopped \in BOOLEAN
  /\ arrivals \in 0..MaxArrivals
  /\ heard \in [Ids -> SUBSET Tables]
  /\ sources \in SUBSET Tables
  /\ quietAt \in [Ids -> Nat]
  /\ cleared \in SUBSET Ids

\* The port has one discovery: the registered one runs and no other does, so
\* every block goes to the discovery that still waits for it and none is
\* folded into a discovery whose caller has its answer.  A finished one has
\* told its caller why and has no timer left.
OneDiscovery ==
  \A i \in Ids :
    /\ stage[i] = "running" <=> discovery = i
    /\ stage[i] = "done" <=> err[i] # None
    /\ stage[i] = "running" => timer[i] \/ gen[i] \in late[i]
    /\ timer[i] => stage[i] = "running"

\* A discovery times out only after a quiet period: no block arrived between
\* the expiry that ended it and its end, although expiries of earlier periods
\* may still be waiting for the mutex when a block restarts the timer.
QuietTimeout ==
  \A i \in Ids : err[i] = "timeout" => blocks[i] = quietAt[i]

\* A table called complete is the node's: when all the blocks collected came
\* from one table, in whatever order and however often, a discovery that
\* ends well, or a cached entry that says it is complete, holds that table.
CompleteIsTheTable ==
  \A T \in Tables :
    /\ \A i \in Ids : err[i] = "ok" /\ heard[i] = {T} => seen[i] = T
    /\ tod.complete /\ sources = {T} => tod.uids = T

\* The port has one identity: unless the port is cleared under it, a running
\* discovery will be filed under the identity that every other announcement
\* of the port carries.
OneIdentity ==
  \A i \in Ids : stage[i] = "running" /\ i \notin cleared => node[i] = identity

\* One discovery is registered, under the port's identity, and only silence
\* ends it early: what startDiscovery, HandleTodData and ClearToD keep true.
RegistrationInvariant ==
  /\ TypeOK
  /\ OneDiscovery
  /\ QuietTimeout
  /\ OneIdentity

\* Every discovery ends, whatever the node and the network do.
EveryDiscoveryEnds ==
  \A i \in Ids : stage[i] = "running" ~> stage[i] = "done"

=============================================================================
