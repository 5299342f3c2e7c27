------------------------------- MODULE NodeSession -------------------------------
(* The Art-Net session: its node table, poll cycle and liveness sweep, and the  *)
(* node-configuration calls that wait in it for a node's confirming reply.      *)
(* Every handler runs under the session's mutex and is one action; a            *)
(* configuration call takes the mutex several times and is one action for each. *)
(* The network is free: a reply of any node may arrive at any time.             *)
EXTENDS Naturals

CONSTANTS
  Addrs,          \* IP addresses nodes have or are asked to move to
  Binds,          \* BindIndex values, 0 already read as 1
  ConfigCalls,    \* the configuration calls of a behaviour
  Requests,       \* what they may ask for: a key, and an address or none
  none            \* no address

ASSUME SessionAssumption ==
  /\ none \notin Addrs /\ Addrs # {} /\ Binds # {}
  /\ Requests \subseteq [key : [ip : Addrs, bind : Binds], target : Addrs \cup {none}]

NodeKeys == [ip : Addrs, bind : Binds]

VARIABLES
  nodes,        \* the node table: "live" or "stale" for each key it has
  running,      \* "new", "started" or "stopped"
  pollTimer,    \* whether the next tick is armed
  ticksWaiting, \* fired ticks that wait for the mutex
  waiters,      \* configWaiters: for each key, the calls waiting under it
  targets,      \* ipProgTargets: for each key, an address or none
  call          \* the configuration calls in progress
sessionVars == <<nodes, running, pollTimer, ticksWaiting, waiters, targets, call>>
cycleVars == <<running, pollTimer, ticksWaiting>>
callVars  == <<waiters, targets, call>>

Stages == {"idle", "targeting", "lookup", "register", "send", "await", "unwait", "untarget", "done"}

SessionTypeOK ==
  /\ nodes \in UNION {[K -> {"live", "stale"}] : K \in SUBSET NodeKeys}
  /\ running \in {"new", "started", "stopped"}
  /\ pollTimer \in BOOLEAN /\ ticksWaiting \in Nat
  /\ waiters \in [NodeKeys -> SUBSET ConfigCalls]
  /\ targets \in [NodeKeys -> Addrs \cup {none}]
  /\ call \in [ConfigCalls -> [stage : Stages, key : NodeKeys, target : Addrs \cup {none},
                               heard : BOOLEAN]]

(* A call that has not begun has no key of its own: any will do. *)
SessionInit ==
  /\ nodes = <<>>
  /\ running = "new" /\ pollTimer = FALSE /\ ticksWaiting = 0
  /\ waiters = [k \in NodeKeys |-> {}]
  /\ targets = [k \in NodeKeys |-> none]
  /\ call = [c \in ConfigCalls |->
               [stage |-> "idle", key |-> CHOOSE k \in NodeKeys : TRUE, target |-> none,
                heard |-> FALSE]]

----------------------------------------------------------------------------
(* The poll cycle. *)

SessionStart ==
  /\ running = "new"
  /\ running' = "started"
  /\ pollTimer' = TRUE
  /\ UNCHANGED <<nodes, ticksWaiting, callVars>>

SessionStop ==
  /\ running' = "stopped"
  /\ pollTimer' = FALSE
  /\ UNCHANGED <<nodes, ticksWaiting, callVars>>

(* The clock starts the callback, which Stop can no longer cancel. *)
PollTimerFires ==
  /\ pollTimer
  /\ pollTimer' = FALSE
  /\ ticksWaiting' = ticksWaiting + 1
  /\ UNCHANGED <<nodes, running, callVars>>

(* sweepLocked: some live nodes, lost, have outlived the liveness window. *)
Swept(lost) == [k \in DOMAIN nodes |-> IF k \in lost THEN "stale" ELSE nodes[k]]

(* Seeded bug: a tick does not look whether the session still runs. *)
TickAnyway ==
  /\ ticksWaiting > 0
  /\ ticksWaiting' = ticksWaiting - 1
  /\ \E lost \in SUBSET DOMAIN nodes : nodes' = Swept(lost)
  /\ pollTimer' = TRUE
  /\ UNCHANGED <<running, callVars>>

(* tick: polls, sweeps and schedules the next, unless the session stopped. *)
Tick ==
  /\ ticksWaiting > 0
  /\ ticksWaiting' = ticksWaiting - 1
  /\ IF running # "started"
     THEN UNCHANGED <<nodes, pollTimer>>
     ELSE /\ \E lost \in SUBSET DOMAIN nodes : nodes' = Swept(lost)
          /\ pollTimer' = TRUE
  /\ UNCHANGED <<running, callVars>>

(* Sweep on demand. *)
Sweep ==
  /\ \E lost \in SUBSET DOMAIN nodes : nodes' = Swept(lost)
  /\ UNCHANGED <<cycleVars, callVars>>

ClearNodes ==
  /\ nodes' = <<>>
  /\ UNCHANGED <<cycleVars, callVars>>

----------------------------------------------------------------------------
(* Replies. *)

(* A value offered to the one-slot channels of the calls cs: none is blocked. *)
Notified(cs) == [c \in ConfigCalls |-> [call[c] EXCEPT !.heard = @ \/ c \in cs]]

HandlePollReply(k) ==
  /\ nodes' = [j \in DOMAIN nodes \cup {k} |-> IF j = k THEN "live" ELSE nodes[j]]
  /\ call' = Notified(waiters[k])
  /\ UNCHANGED <<cycleVars, waiters, targets>>

(* Seeded bug: the waiter's own bind moves alone. *)
RekeyedAlone(moving, ip) ==
  LET gone  == {k \in moving \cap DOMAIN nodes : k.ip # ip}
      moved == {[k EXCEPT !.ip = ip] : k \in gone}
  IN {[k \in (DOMAIN nodes \ gone) \cup moved |->
        IF k \in DOMAIN nodes \ gone THEN nodes[k]
        ELSE nodes[CHOOSE j \in gone : j.bind = k.bind]]}

(* rekeyNodeLocked for the keys in moving: everything at their addresses goes  *)
(* to the same bind at ip, where an entry that is already there stays.         *)
MovedIPs(moving, ip) == {k.ip : k \in moving \cap DOMAIN nodes} \ {ip}
Rekeyed(moving, ip) ==
  LET ips   == MovedIPs(moving, ip)
      left  == {k \in DOMAIN nodes : k.ip \notin ips}
      moved == {[k EXCEPT !.ip = ip] : k \in DOMAIN nodes \ left}
      from(k) == {j \in DOMAIN nodes \ left : j.bind = k.bind}
  IN {[k \in left \cup moved |->
         IF k \in left THEN nodes[k] ELSE nodes[pick[k]]] :
       pick \in {f \in [moved \ left -> DOMAIN nodes] : \A k \in moved \ left : f[k] \in from(k)}}
(* handleIPProgReply: the calls whose node has the sender's address, or asked  *)
(* for it, are confirmed, and their nodes follow to the address in the reply.  *)
HandleIPProgReply(from, current) ==
  LET matched == {k \in NodeKeys : waiters[k] # {} /\ from \in {k.ip, targets[k]}}
  IN /\ nodes' \in Rekeyed(matched, current)
     /\ call' = Notified(UNION {waiters[k] : k \in matched})
     /\ UNCHANGED <<cycleVars, waiters, targets>>

----------------------------------------------------------------------------
(* Configuration calls. *)

At(c, s) == call[c].stage = s
Goes(c, s) == call' = [call EXCEPT ![c].stage = s]

(* ProgramIP with a static address records it first; the other calls, and    *)
(* ProgramIP with DHCP, have none.                                             *)
BeginCall(c, r) ==
  /\ At(c, "idle")
  /\ call' = [call EXCEPT ![c].stage = IF r.target = none THEN "lookup" ELSE "targeting",
                          ![c].key = r.key, ![c].target = r.target]
  /\ UNCHANGED <<nodes, cycleVars, waiters, targets>>

RegisterIPProgTarget(c) ==
  /\ At(c, "targeting")
  /\ targets' = [targets EXCEPT ![call[c].key] = call[c].target]
  /\ Goes(c, "lookup")
  /\ UNCHANGED <<nodes, cycleVars, waiters>>

(* Leaving sendAndAwaitConfirm: the target goes last, by a deferred call. *)
AfterWait(c) == IF call[c].target = none THEN "done" ELSE "untarget"

LookUpNode(c) ==
  /\ At(c, "lookup")
  /\ Goes(c, IF call[c].key \in DOMAIN nodes THEN "register" ELSE AfterWait(c))
  /\ UNCHANGED <<nodes, cycleVars, waiters, targets>>

RegisterConfigWaiter(c) ==
  /\ At(c, "register")
  /\ waiters' = [waiters EXCEPT ![call[c].key] = @ \cup {c}]
  /\ Goes(c, "send")
  /\ UNCHANGED <<nodes, cycleVars, targets>>

(* Send: an error ends the call, else the timer runs. *)
SendConfig(c, ok) ==
  /\ At(c, "send")
  /\ Goes(c, IF ok THEN "await" ELSE "unwait")
  /\ UNCHANGED <<nodes, cycleVars, waiters, targets>>

(* The select ends with the reply that was heard, the timer or the caller's    *)
(* context: the last two may be ready at any moment.                           *)
AwaitEnds(c) ==
  /\ At(c, "await")
  /\ Goes(c, "unwait")
  /\ UNCHANGED <<nodes, cycleVars, waiters, targets>>

UnregisterConfigWaiter(c) ==
  /\ At(c, "unwait")
  /\ waiters' = [waiters EXCEPT ![call[c].key] = @ \ {c}]
  /\ call' = [call EXCEPT ![c].stage = AfterWait(c), ![c].heard = FALSE]
  /\ UNCHANGED <<nodes, cycleVars, targets>>

UnregisterIPProgTarget(c) ==
  /\ At(c, "untarget")
  /\ targets' = [targets EXCEPT ![call[c].key] = none]
  /\ Goes(c, "done")
  /\ UNCHANGED <<nodes, cycleVars, waiters>>

CallStep(c) ==
  \/ RegisterIPProgTarget(c)
  \/ LookUpNode(c)
  \/ RegisterConfigWaiter(c)
  \/ SendConfig(c, TRUE)
  \/ SendConfig(c, FALSE)
  \/ AwaitEnds(c)
  \/ UnregisterConfigWaiter(c)
  \/ UnregisterIPProgTarget(c)

SessionNext ==
  \/ SessionStart
  \/ SessionStop
  \/ PollTimerFires
  \/ Tick
  \/ Sweep
  \/ ClearNodes
  \/ \E k \in NodeKeys : HandlePollReply(k)
  \/ \E from, current \in Addrs : HandleIPProgReply(from, current)
  \/ \E c \in ConfigCalls, r \in Requests : BeginCall(c, r)
  \/ \E c \in ConfigCalls : CallStep(c)

SessionSpec == SessionInit /\ [][SessionNext]_sessionVars

----------------------------------------------------------------------------
(* A call waits under its key from its registration to its removal and under   *)
(* no other, whatever arrives and however the node moves: nothing that the     *)
(* replies iterate over is left behind by a call that ended.                   *)
WaitersAreCalls ==
  \A k \in NodeKeys :
    waiters[k] = {c \in ConfigCalls :
                    call[c].key = k /\ call[c].stage \in {"send", "await", "unwait"}}

(* A ProgramIP call that has its key to itself can be recognised by the        *)
(* address it asked for (ipProgTargets; a second call on the key replaces the  *)
(* entry, and removes it when it ends).                                        *)
TargetWhileAlone ==
  \A c \in ConfigCalls :
    LET k == call[c].key
        others == {d \in ConfigCalls \ {c} : call[d].key = k /\ call[d].stage # "idle"
                                               /\ call[d].target # none}
    IN (call[c].target # none /\ others = {}) =>
         targets[k] = IF call[c].stage \in {"idle", "targeting", "done"} THEN none
                      ELSE call[c].target

(* A started session has exactly one next tick, on the clock or waiting for    *)
(* the mutex, and a stopped one arms none: however Start, Stop and the clock's *)
(* callbacks meet, polling neither stops nor doubles.                          *)
OnePollChain ==
  /\ running = "started" => ticksWaiting + (IF pollTimer THEN 1 ELSE 0) = 1
  /\ running # "started" => ~pollTimer

(* A node with several binds moves as a whole: when a confirmation removes one *)
(* of its entries from an address, none stays there (rekeyNodeLocked).         *)
BindsMoveTogether ==
  [][\A k, j \in DOMAIN nodes :
       (k.ip = j.ip /\ k \notin DOMAIN nodes') => j \notin DOMAIN nodes']_sessionVars
=============================================================================
