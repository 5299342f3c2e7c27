---------------------------- MODULE NodeSide_proofs ----------------------------
(* Theorems about NodeSession, DeviceReads, RigWalk and LiveFeed: which calls     *)
(* wait for a node, what the reader's ledger may say of a device, which devices  *)
(* may be left flashing, and which captured entries a browser is sent; and about *)
(* the composition of the four that is model-checked.                            *)
EXTENDS MCNodeSide, FiniteSetTheorems, SequenceTheorems, WellFoundedInduction, TLAPS

(* NodeSession. *)

Calls == [stage : Stages, key : NodeKeys, target : Addrs \cup {none}, heard : BOOLEAN]
Waiting == {"send", "await", "unwait"}

\* Call d has, or had, an address to be recognised by under the key k.
Claims(d, k) == call[d].key = k /\ call[d].stage # "idle" /\ call[d].target # none

\* A target is set, and removed, only for a call that has one, and none stands
\* under a key that no call ever claimed.
TargetInv ==
  /\ \A c \in ConfigCalls :
       /\ call[c].stage = "idle" => call[c].target = none
       /\ call[c].stage \in {"targeting", "untarget"} => call[c].target # none
  /\ \A k \in NodeKeys : (\A d \in ConfigCalls : ~Claims(d, k)) => targets[k] = none
  /\ TargetWhileAlone

NodesOK == nodes \in UNION {[K -> {"live", "stale"}] : K \in SUBSET NodeKeys}
CycleOK == running \in {"new", "started", "stopped"} /\ pollTimer \in BOOLEAN
           /\ ticksWaiting \in Nat /\ OnePollChain
           /\ (running = "new" => ticksWaiting = 0)
CallsOK ==
  /\ waiters \in [NodeKeys -> SUBSET ConfigCalls]
  /\ targets \in [NodeKeys -> Addrs \cup {none}]
  /\ call \in [ConfigCalls -> Calls]
  /\ WaitersAreCalls /\ TargetInv
SessionInv == NodesOK /\ CycleOK /\ CallsOK

\* What a step may make of the node table.
MovesWhole ==
  \A k, j \in DOMAIN nodes :
    (k.ip = j.ip /\ k \notin DOMAIN nodes') => j \notin DOMAIN nodes'
TableStep == NodesOK' /\ MovesWhole

LEMMA TableFacts ==
  ASSUME NodesOK
  PROVE  /\ DOMAIN nodes \subseteq NodeKeys
         /\ \A k \in DOMAIN nodes : nodes[k] \in {"live", "stale"}
BY DEF NodesOK

LEMMA NewTable ==
  ASSUME NEW K \in SUBSET NodeKeys, nodes' \in [K -> {"live", "stale"}]
  PROVE  NodesOK'
BY DEF NodesOK

LEMMA SweptStep ==
  ASSUME NodesOK, NEW lost \in SUBSET DOMAIN nodes, nodes' = Swept(lost)
  PROVE  TableStep
<1>1. nodes' \in [DOMAIN nodes -> {"live", "stale"}]
  BY TableFacts DEF Swept
<1>2. NodesOK'
  BY <1>1, NewTable, TableFacts
<1>3. DOMAIN nodes' = DOMAIN nodes
  BY <1>1
<1> QED BY <1>2, <1>3 DEF TableStep, MovesWhole

LEMMA SameTable ==
  ASSUME NodesOK, nodes' = nodes
  PROVE  TableStep
BY DEF TableStep, MovesWhole, NodesOK

LEMMA ClearStep ==
  ASSUME nodes' = <<>>
  PROVE  TableStep
<1>1. nodes' \in [{} -> {"live", "stale"}] /\ DOMAIN nodes' = {}
  OBVIOUS
<1>2. NodesOK'
  BY <1>1, NewTable
<1> QED BY <1>1, <1>2 DEF TableStep, MovesWhole

LEMMA ReplyStep ==
  ASSUME NodesOK, NEW k \in NodeKeys, HandlePollReply(k)
  PROVE  TableStep
<1> DEFINE K == DOMAIN nodes \cup {k}
<1>1. nodes' = [j \in K |-> IF j = k THEN "live" ELSE nodes[j]]
  BY DEF HandlePollReply
<1>2. nodes' \in [K -> {"live", "stale"}]
  BY <1>1, TableFacts
<1>3. NodesOK'
  BY <1>2, NewTable, TableFacts
<1>4. DOMAIN nodes \subseteq DOMAIN nodes'
  BY <1>2
<1> QED BY <1>3, <1>4 DEF TableStep, MovesWhole

\* Nothing stays at an address that an entry is moved away from.
LEMMA RekeyedStep ==
  ASSUME NodesOK, NEW moving, NEW ip \in Addrs, nodes' \in Rekeyed(moving, ip)
  PROVE  TableStep
<1> DEFINE ips   == MovedIPs(moving, ip)
           left  == {k \in DOMAIN nodes : k.ip \notin ips}
           moved == {[k EXCEPT !.ip = ip] : k \in DOMAIN nodes \ left}
<1>1. PICK pick \in [moved \ left -> DOMAIN nodes] :
        nodes' = [k \in left \cup moved |-> IF k \in left THEN nodes[k] ELSE nodes[pick[k]]]
  BY DEF Rekeyed
<1>2. left \subseteq DOMAIN nodes
  OBVIOUS
<1>3. \A k \in moved : k \in NodeKeys /\ k.ip = ip
  BY TableFacts DEF NodeKeys
<1>4. ip \notin ips
  BY DEF MovedIPs
<1>5. \A k \in DOMAIN nodes : k \notin left <=> k.ip \in ips
  OBVIOUS
<1> HIDE DEF ips, left, moved
<1>6. nodes' \in [left \cup moved -> {"live", "stale"}]
  BY <1>1, <1>2, TableFacts
<1>7. left \cup moved \in SUBSET NodeKeys
  BY <1>2, <1>3, TableFacts
<1>8. NodesOK'
  BY <1>6, <1>7, NewTable
<1>9. DOMAIN nodes' = left \cup moved
  BY <1>6
<1> QED BY <1>3, <1>4, <1>5, <1>8, <1>9 DEF TableStep, MovesWhole

--------------------------------------------------------------------------------
(* The poll cycle. *)
LEMMA CycleSteps ==
  ASSUME CycleOK, SessionStart \/ SessionStop \/ PollTimerFires \/ Tick
  PROVE  CycleOK'
<1>1. CASE SessionStart
  BY <1>1 DEF CycleOK, OnePollChain, SessionStart
<1>2. CASE SessionStop
  BY <1>2 DEF CycleOK, OnePollChain, SessionStop
<1>0. /\ running \in {"new", "started", "stopped"} /\ ticksWaiting \in Nat
      /\ running = "started" => IF pollTimer THEN ticksWaiting = 0 ELSE ticksWaiting = 1
      /\ running # "started" => ~pollTimer
      /\ running = "new" => ticksWaiting = 0
  BY DEF CycleOK, OnePollChain
<1>3. CASE PollTimerFires
  <2>1. pollTimer' = FALSE /\ ticksWaiting' = ticksWaiting + 1 /\ running' = running
    BY <1>3 DEF PollTimerFires
  <2>2. running = "started" /\ ticksWaiting' = 1
    BY <1>0, <1>3, <2>1 DEF PollTimerFires
  <2>3. running' = "started" /\ ~pollTimer' /\ pollTimer' \in BOOLEAN
    BY <2>1, <2>2
  <2>4. OnePollChain'
    BY <2>2, <2>3 DEF OnePollChain
  <2> QED BY <2>2, <2>3, <2>4 DEF CycleOK
<1>4. CASE Tick
  <2>1. ticksWaiting > 0 /\ ticksWaiting' = ticksWaiting - 1 /\ running' = running
    BY <1>4 DEF Tick
  <2>2. CASE running # "started"
    <3>1. pollTimer' = pollTimer /\ ~pollTimer /\ running = "stopped"
      BY <1>0, <1>4, <2>1, <2>2 DEF Tick
    <3>2. ticksWaiting' \in Nat
      BY <1>0, <2>1
    <3> QED BY <2>1, <3>1, <3>2 DEF CycleOK, OnePollChain
  <2>3. CASE running = "started"
    <3>1. pollTimer' = TRUE
      BY <1>4, <2>3 DEF Tick
    <3>2. ticksWaiting' = 0
      BY <1>0, <2>1, <2>3
    <3> QED BY <2>1, <2>3, <3>1, <3>2 DEF CycleOK, OnePollChain
  <2> QED BY <2>2, <2>3
<1> QED BY <1>1, <1>2, <1>3, <1>4

LEMMA SameCycle ==
  ASSUME CycleOK, UNCHANGED cycleVars
  PROVE  CycleOK'
BY DEF CycleOK, OnePollChain, cycleVars

--------------------------------------------------------------------------------
(* Configuration calls. *)

\* What a call's step does to the calls.
Steps(c, s) ==
  /\ call' \in [ConfigCalls -> Calls]
  /\ \A d \in ConfigCalls : call'[d].key = call[d].key /\ call'[d].target = call[d].target
  /\ \A d \in ConfigCalls \ {c} : call'[d].stage = call[d].stage
  /\ call'[c].stage = s

LEMMA GoesSteps ==
  ASSUME call \in [ConfigCalls -> Calls], NEW c \in ConfigCalls, NEW s \in Stages, Goes(c, s)
  PROVE  Steps(c, s)
<1>1. call' = [call EXCEPT ![c] = [call[c] EXCEPT !.stage = s]]
  BY DEF Goes
<1>2. call[c] \in Calls
  OBVIOUS
<1>3. [call[c] EXCEPT !.stage = s] \in Calls
  BY <1>2 DEF Calls
<1>4. call'[c] = [call[c] EXCEPT !.stage = s] /\ \A d \in ConfigCalls \ {c} : call'[d] = call[d]
  BY <1>1
<1>5. call'[c].key = call[c].key /\ call'[c].target = call[c].target /\ call'[c].stage = s
  BY <1>2, <1>4 DEF Calls
<1>6. call' \in [ConfigCalls -> Calls]
  BY <1>1, <1>3
<1> QED BY <1>4, <1>5, <1>6 DEF Steps

LEMMA BeginSteps ==
  ASSUME call \in [ConfigCalls -> Calls], NEW c \in ConfigCalls, NEW r \in Requests,
         BeginCall(c, r)
  PROVE  /\ call' \in [ConfigCalls -> Calls]
         /\ \A d \in ConfigCalls \ {c} : call'[d] = call[d]
         /\ call[c].stage = "idle" /\ call'[c].key = r.key /\ call'[c].target = r.target
         /\ call'[c].stage = IF r.target = none THEN "lookup" ELSE "targeting"
<1> DEFINE s == IF r.target = none THEN "lookup" ELSE "targeting"
           new == [call[c] EXCEPT !.stage = s, !.key = r.key, !.target = r.target]
<1>1. r.key \in NodeKeys /\ r.target \in Addrs \cup {none}
  BY SessionAssumption DEF NodeKeys
<1>2. s \in Stages /\ call[c] \in Calls
  BY DEF Stages
<1>3. call' = [call EXCEPT ![c] = new]
  BY DEF BeginCall
<1>4. new \in Calls /\ new.key = r.key /\ new.target = r.target /\ new.stage = s
  BY <1>1, <1>2 DEF Calls
<1> HIDE DEF new
<1> QED BY <1>3, <1>4 DEF BeginCall, At

\* Only the three middle stages are those of a call that waits.
LEMMA WaitersStay ==
  ASSUME WaitersAreCalls, waiters' = waiters, NEW c \in ConfigCalls, NEW s,
         \A d \in ConfigCalls \ {c} : call'[d].key = call[d].key /\ call'[d].stage = call[d].stage,
         \/ call[c].stage \notin Waiting /\ call'[c].stage \notin Waiting
         \/ /\ call[c].stage \in Waiting /\ call'[c].stage \in Waiting
            /\ call'[c].key = call[c].key
  PROVE  WaitersAreCalls'
<1>1. ASSUME NEW k \in NodeKeys, NEW d \in ConfigCalls
      PROVE  (call'[d].key = k /\ call'[d].stage \in Waiting)
             <=> (call[d].key = k /\ call[d].stage \in Waiting)
  <2>1. CASE d = c
    BY <2>1
  <2>2. CASE d # c
    BY <2>2
  <2> QED BY <2>1, <2>2
<1> QED BY <1>1 DEF WaitersAreCalls, Waiting

\* A step of call c that leaves its key, its target and the targets alone.
LEMMA TargetsStay ==
  ASSUME TargetInv, call \in [ConfigCalls -> Calls], targets' = targets,
         NEW c \in ConfigCalls, NEW s, Steps(c, s),
         call[c].stage \notin {"idle", "targeting", "untarget", "done"},
         s \notin {"idle", "targeting"},
         s = "untarget" => call[c].target # none,
         s = "done" => call[c].target = none
  PROVE  TargetInv'
<1>1. \A d \in ConfigCalls : /\ call'[d].key = call[d].key /\ call'[d].target = call[d].target
                             /\ (call'[d].stage = "idle") <=> (call[d].stage = "idle")
  BY DEF Steps
<1>2. \A d \in ConfigCalls, k \in NodeKeys : Claims(d, k)' <=> Claims(d, k)
  BY <1>1 DEF Claims
<1>3. \A k \in NodeKeys : (\A d \in ConfigCalls : ~Claims(d, k)') => targets'[k] = none
  BY <1>2 DEF TargetInv
<1>4. \A d \in ConfigCalls :
        /\ call'[d].stage = "idle" => call'[d].target = none
        /\ call'[d].stage \in {"targeting", "untarget"} => call'[d].target # none
  BY <1>1 DEF TargetInv, Steps
<1>5. TargetWhileAlone'
  <2> SUFFICES ASSUME NEW d \in ConfigCalls, call'[d].target # none,
                      \A e \in ConfigCalls \ {d} : ~(call'[e].key = call'[d].key
                         /\ call'[e].stage # "idle" /\ call'[e].target # none)
               PROVE  targets'[call'[d].key] = IF call'[d].stage \in {"idle", "targeting", "done"}
                                               THEN none ELSE call'[d].target
    BY DEF TargetWhileAlone
  <2>1. \A e \in ConfigCalls \ {d} : ~(call[e].key = call[d].key
                         /\ call[e].stage # "idle" /\ call[e].target # none)
    BY <1>1
  <2>2. targets[call[d].key] = IF call[d].stage \in {"idle", "targeting", "done"}
                               THEN none ELSE call[d].target
    BY <1>1, <2>1 DEF TargetInv, TargetWhileAlone
  <2>3. call'[d].stage \in {"idle", "targeting", "done"}
        <=> call[d].stage \in {"idle", "targeting", "done"}
    BY <1>1 DEF Steps
  <2> QED BY <1>1, <2>2, <2>3
<1> QED BY <1>3, <1>4, <1>5 DEF TargetInv

\* Replies only tell calls that they were heard.
LEMMA NotifiedKeeps ==
  ASSUME CallsOK, UNCHANGED <<waiters, targets>>, NEW cs, call' = Notified(cs)
  PROVE  CallsOK'
<1>1. ASSUME NEW d \in ConfigCalls
      PROVE  /\ call'[d] \in Calls /\ call'[d].key = call[d].key
             /\ call'[d].stage = call[d].stage /\ call'[d].target = call[d].target
  <2>1. call[d] \in Calls
    BY DEF CallsOK
  <2>2. call'[d] = [call[d] EXCEPT !.heard = call[d].heard \/ d \in cs]
    BY DEF Notified
  <2>3. (call[d].heard \/ d \in cs) \in BOOLEAN
    OBVIOUS
  <2> QED BY <2>1, <2>2, <2>3 DEF Calls
<1>2. call' \in [ConfigCalls -> Calls]
  BY <1>1 DEF Notified
<1>3. WaitersAreCalls'
  BY <1>1 DEF CallsOK, WaitersAreCalls
<1>4. \A d \in ConfigCalls, k \in NodeKeys : Claims(d, k)' <=> Claims(d, k)
  BY <1>1 DEF Claims
<1>5. TargetWhileAlone'
  <2> SUFFICES ASSUME NEW d \in ConfigCalls, call'[d].target # none,
                      \A e \in ConfigCalls \ {d} : ~(call'[e].key = call'[d].key
                         /\ call'[e].stage # "idle" /\ call'[e].target # none)
               PROVE  targets'[call'[d].key] = IF call'[d].stage \in {"idle", "targeting", "done"}
                                               THEN none ELSE call'[d].target
    BY DEF TargetWhileAlone
  <2>1. \A e \in ConfigCalls \ {d} : ~(call[e].key = call[d].key
                         /\ call[e].stage # "idle" /\ call[e].target # none)
    BY <1>1
  <2> QED BY <1>1, <2>1 DEF CallsOK, TargetInv, TargetWhileAlone
<1>6. TargetInv'
  BY <1>1, <1>4, <1>5 DEF CallsOK, TargetInv
<1> QED BY <1>2, <1>3, <1>6 DEF CallsOK

LEMMA BeginKeeps ==
  ASSUME CallsOK, NEW c \in ConfigCalls, NEW r \in Requests, BeginCall(c, r)
  PROVE  CallsOK'
<1>0. /\ call' \in [ConfigCalls -> Calls]
      /\ \A d \in ConfigCalls \ {c} : call'[d] = call[d]
      /\ call[c].stage = "idle" /\ call'[c].key = r.key /\ call'[c].target = r.target
      /\ call'[c].stage = IF r.target = none THEN "lookup" ELSE "targeting"
  BY BeginSteps DEF CallsOK
<1>1. waiters' = waiters /\ targets' = targets
  BY DEF BeginCall
<1>2. WaitersAreCalls'
  <2>1. call[c].stage \notin Waiting /\ call'[c].stage \notin Waiting
    BY <1>0 DEF Waiting
  <2> QED BY <1>0, <1>1, <2>1, WaitersStay DEF CallsOK
<1>3. call[c].target = none
  BY <1>0 DEF CallsOK, TargetInv
<1>4. \A d \in ConfigCalls :
        /\ call'[d].stage = "idle" => call'[d].target = none
        /\ call'[d].stage \in {"targeting", "untarget"} => call'[d].target # none
  BY <1>0 DEF CallsOK, TargetInv
<1>5. \A d \in ConfigCalls, k \in NodeKeys : Claims(d, k) => Claims(d, k)'
  BY <1>0 DEF Claims
<1>6. \A k \in NodeKeys : (\A d \in ConfigCalls : ~Claims(d, k)') => targets'[k] = none
  BY <1>1, <1>5 DEF CallsOK, TargetInv
<1>7. TargetWhileAlone'
  <2> SUFFICES ASSUME NEW d \in ConfigCalls, call'[d].target # none,
                      \A e \in ConfigCalls \ {d} : ~(call'[e].key = call'[d].key
                         /\ call'[e].stage # "idle" /\ call'[e].target # none)
               PROVE  targets'[call'[d].key] = IF call'[d].stage \in {"idle", "targeting", "done"}
                                               THEN none ELSE call'[d].target
    BY DEF TargetWhileAlone
  <2>1. CASE d = c
    <3>1. \A e \in ConfigCalls : ~Claims(e, r.key)
      BY <1>0, <2>1 DEF Claims
    <3>2. r.key \in NodeKeys
      BY SessionAssumption DEF NodeKeys
    <3>3. targets[r.key] = none
      BY <3>1, <3>2 DEF CallsOK, TargetInv
    <3> QED BY <1>0, <1>1, <2>1, <3>3
  <2>2. CASE d # c
    <3>1. \A e \in ConfigCalls \ {d} : ~(call[e].key = call[d].key
                         /\ call[e].stage # "idle" /\ call[e].target # none)
      BY <1>0, <2>2
    <3>2. call'[d] = call[d]
      BY <1>0, <2>2
    <3> QED BY <1>1, <3>1, <3>2 DEF CallsOK, TargetInv, TargetWhileAlone
  <2> QED BY <2>1, <2>2
<1> QED BY <1>0, <1>1, <1>2, <1>4, <1>6, <1>7 DEF CallsOK, TargetInv

\* A call with a target sets or removes its entry, and nobody else's.
Retargets(c, s, a) ==
  /\ Steps(c, s) /\ targets' = [targets EXCEPT ![call[c].key] = a]
  /\ call[c].target # none /\ call[c].stage # "idle"
  /\ s \notin {"idle", "targeting", "untarget"}
  /\ s = "done" => a = none
  /\ s # "done" => a = call[c].target

LEMMA TargetMoves ==
  ASSUME CallsOK, NEW c \in ConfigCalls, NEW s, NEW a \in Addrs \cup {none},
         Retargets(c, s, a)
  PROVE  targets' \in [NodeKeys -> Addrs \cup {none}] /\ TargetInv'
<1> USE DEF Retargets
<1>0. call[c] \in Calls /\ call[c].key \in NodeKeys /\ targets \in [NodeKeys -> Addrs \cup {none}]
  BY DEF CallsOK, Calls
<1>1. \A d \in ConfigCalls : /\ call'[d].key = call[d].key /\ call'[d].target = call[d].target
                             /\ (call'[d].stage = "idle") <=> (call[d].stage = "idle")
  BY DEF Steps
<1>2. \A d \in ConfigCalls, k \in NodeKeys : Claims(d, k)' <=> Claims(d, k)
  BY <1>1 DEF Claims
<1>3. ASSUME NEW k \in NodeKeys, \A d \in ConfigCalls : ~Claims(d, k)'
      PROVE  targets'[k] = none
  <2>1. targets[k] = none
    BY <1>2, <1>3 DEF CallsOK, TargetInv
  <2>2. ~Claims(c, k)
    BY <1>2, <1>3
  <2>3. k # call[c].key
    BY <2>2 DEF Claims
  <2> QED BY <1>0, <2>1, <2>3
<1>4. \A d \in ConfigCalls :
        /\ call'[d].stage = "idle" => call'[d].target = none
        /\ call'[d].stage \in {"targeting", "untarget"} => call'[d].target # none
  BY <1>1 DEF CallsOK, TargetInv, Steps
<1>5. TargetWhileAlone'
  <2> SUFFICES ASSUME NEW d \in ConfigCalls, call'[d].target # none,
                      \A e \in ConfigCalls \ {d} : ~(call'[e].key = call'[d].key
                         /\ call'[e].stage # "idle" /\ call'[e].target # none)
               PROVE  targets'[call'[d].key] = IF call'[d].stage \in {"idle", "targeting", "done"}
                                               THEN none ELSE call'[d].target
    BY DEF TargetWhileAlone
  <2>1. CASE d = c
    <3>1. targets'[call[c].key] = a
      BY <1>0
    <3>2. call'[c].stage = s /\ call'[c].key = call[c].key /\ call'[c].target = call[c].target
      BY DEF Steps
    <3>3. CASE s = "done"
      BY <2>1, <3>1, <3>2, <3>3
    <3>4. CASE s # "done"
      BY <2>1, <3>1, <3>2, <3>4
    <3> QED BY <3>3, <3>4
  <2>2. CASE d # c
    <3>1. \A e \in ConfigCalls \ {d} : ~(call[e].key = call[d].key
                         /\ call[e].stage # "idle" /\ call[e].target # none)
      BY <1>1
    <3>2. call[c].key # call[d].key
      BY <2>2, <3>1
    <3>3. targets'[call[d].key] = targets[call[d].key]
      BY <1>0, <3>2
    <3>4. call'[d].stage = call[d].stage
      BY <2>2 DEF Steps
    <3> QED BY <1>1, <3>1, <3>3, <3>4 DEF CallsOK, TargetInv, TargetWhileAlone
  <2> QED BY <2>1, <2>2
<1> QED BY <1>0, <1>3, <1>4, <1>5 DEF TargetInv

\* A step that leaves waiters and targets alone, to a stage s of the same kind.
LEMMA MoveKeeps ==
  ASSUME CallsOK, UNCHANGED <<waiters, targets>>, NEW c \in ConfigCalls, NEW s \in Stages,
         Goes(c, s),
         call[c].stage \notin {"idle", "targeting", "untarget", "done"},
         s \notin {"idle", "targeting"},
         s = "untarget" => call[c].target # none,
         s = "done" => call[c].target = none,
         (call[c].stage \in Waiting) <=> (s \in Waiting)
  PROVE  CallsOK'
<1>1. Steps(c, s)
  BY GoesSteps DEF CallsOK
<1>2. WaitersAreCalls'
  BY <1>1, WaitersStay DEF CallsOK, Steps
<1>3. TargetInv'
  BY <1>1, TargetsStay DEF CallsOK
<1> QED BY <1>1, <1>2, <1>3 DEF CallsOK, Steps

LEMMA CallKeeps ==
  ASSUME CallsOK, NEW c \in ConfigCalls, CallStep(c)
  PROVE  CallsOK'
<1>0. /\ call \in [ConfigCalls -> Calls] /\ call[c] \in Calls /\ call[c].key \in NodeKeys
      /\ call[c].target \in Addrs \cup {none}
      /\ waiters \in [NodeKeys -> SUBSET ConfigCalls]
      /\ targets \in [NodeKeys -> Addrs \cup {none}]
  BY DEF CallsOK, Calls
<1> DEFINE after == AfterWait(c)
<1>a. /\ after \in Stages /\ after \in {"untarget", "done"}
      /\ after = "untarget" => call[c].target # none
      /\ after = "done" => call[c].target = none
  BY DEF AfterWait, Stages
<1> HIDE DEF after
<1>1. CASE RegisterIPProgTarget(c)
  <2>0. PICK a \in Addrs \cup {none} : a = call[c].target
    BY <1>0
  <2>1. call[c].stage = "targeting" /\ Goes(c, "lookup") /\ waiters' = waiters
        /\ targets' = [targets EXCEPT ![call[c].key] = a]
    BY <1>1, <2>0 DEF RegisterIPProgTarget, At
  <2>2. Steps(c, "lookup")
    BY <1>0, <2>1, GoesSteps DEF Stages
  <2>3. call[c].target # none
    BY <2>1 DEF CallsOK, TargetInv
  <2>6. Retargets(c, "lookup", a)
    BY <2>0, <2>1, <2>2, <2>3 DEF Retargets
  <2>4. targets' \in [NodeKeys -> Addrs \cup {none}] /\ TargetInv'
    BY <2>6, TargetMoves
  <2>5. WaitersAreCalls'
    BY <2>1, <2>2, WaitersStay DEF CallsOK, Steps, Waiting
  <2> QED BY <1>0, <2>1, <2>2, <2>4, <2>5 DEF CallsOK, Steps
<1>2. CASE LookUpNode(c)
  <2>1. PICK s \in {"register", after} : Goes(c, s)
    BY <1>2 DEF LookUpNode, after
  <2>2. call[c].stage = "lookup" /\ UNCHANGED <<waiters, targets>>
    BY <1>2 DEF LookUpNode, At
  <2>3. s \in Stages
    BY <1>a, <2>1 DEF Stages
  <2> QED BY <1>a, <2>1, <2>2, <2>3, MoveKeeps DEF Waiting
<1>3. CASE RegisterConfigWaiter(c)
  <2>1. call[c].stage = "register" /\ Goes(c, "send") /\ targets' = targets
        /\ waiters' = [waiters EXCEPT ![call[c].key] = waiters[call[c].key] \cup {c}]
    BY <1>3 DEF RegisterConfigWaiter, At
  <2>2. Steps(c, "send")
    BY <1>0, <2>1, GoesSteps DEF Stages
  <2>3. TargetInv'
    BY <1>0, <2>1, <2>2, TargetsStay DEF CallsOK
  <2>4. WaitersAreCalls'
    <3> SUFFICES ASSUME NEW k \in NodeKeys
                 PROVE  waiters'[k] = {d \in ConfigCalls :
                           call'[d].key = k /\ call'[d].stage \in Waiting}
      BY DEF WaitersAreCalls, Waiting
    <3>1. waiters[k] = {d \in ConfigCalls : call[d].key = k /\ call[d].stage \in Waiting}
      BY DEF CallsOK, WaitersAreCalls, Waiting
    <3>2. \A d \in ConfigCalls : (call'[d].key = k /\ call'[d].stage \in Waiting)
            <=> ((call[d].key = k /\ call[d].stage \in Waiting) \/ (d = c /\ call[c].key = k))
      BY <2>1, <2>2 DEF Steps, Waiting
    <3>3. waiters'[k] = waiters[k] \cup {d \in {c} : call[c].key = k}
      BY <1>0, <2>1
    <3> QED BY <3>1, <3>2, <3>3
  <2>5. waiters' \in [NodeKeys -> SUBSET ConfigCalls]
    BY <1>0, <2>1
  <2> QED BY <1>0, <2>1, <2>2, <2>3, <2>4, <2>5 DEF CallsOK, Steps
<1>4. CASE SendConfig(c, TRUE) \/ SendConfig(c, FALSE)
  <2>1. PICK s \in {"await", "unwait"} : Goes(c, s)
    BY <1>4 DEF SendConfig
  <2>2. call[c].stage = "send" /\ UNCHANGED <<waiters, targets>>
    BY <1>4 DEF SendConfig, At
  <2>3. s \in Stages
    BY DEF Stages
  <2> QED BY <2>1, <2>2, <2>3, MoveKeeps DEF Waiting
<1>5. CASE AwaitEnds(c)
  <2>1. call[c].stage = "await" /\ Goes(c, "unwait") /\ UNCHANGED <<waiters, targets>>
    BY <1>5 DEF AwaitEnds, At
  <2> QED BY <2>1, MoveKeeps DEF Waiting, Stages
<1>6. CASE UnregisterConfigWaiter(c)
  <2> DEFINE new == [call[c] EXCEPT !.stage = after, !.heard = FALSE]
  <2>1. call[c].stage = "unwait" /\ targets' = targets
        /\ waiters' = [waiters EXCEPT ![call[c].key] = waiters[call[c].key] \ {c}]
        /\ call' = [call EXCEPT ![c] = new]
    BY <1>6 DEF UnregisterConfigWaiter, At, after
  <2>2. new \in Calls /\ new.key = call[c].key /\ new.target = call[c].target /\ new.stage = after
    BY <1>0, <1>a DEF Calls
  <2> HIDE DEF new
  <2>3. Steps(c, after)
    BY <1>0, <2>1, <2>2 DEF Steps
  <2>4. TargetInv'
    BY <1>0, <1>a, <2>1, <2>3, TargetsStay DEF CallsOK
  <2>5. WaitersAreCalls'
    <3> SUFFICES ASSUME NEW k \in NodeKeys
                 PROVE  waiters'[k] = {d \in ConfigCalls :
                           call'[d].key = k /\ call'[d].stage \in Waiting}
      BY DEF WaitersAreCalls, Waiting
    <3>1. waiters[k] = {d \in ConfigCalls : call[d].key = k /\ call[d].stage \in Waiting}
      BY DEF CallsOK, WaitersAreCalls, Waiting
    <3>2. \A d \in ConfigCalls : (call'[d].key = k /\ call'[d].stage \in Waiting)
            <=> (call[d].key = k /\ call[d].stage \in Waiting /\ d # c)
      BY <1>a, <2>1, <2>3 DEF Steps, Waiting
    <3>3. waiters'[k] = waiters[k] \ {d \in {c} : call[c].key = k}
      BY <1>0, <2>1
    <3> QED BY <3>1, <3>2, <3>3
  <2>6. waiters' \in [NodeKeys -> SUBSET ConfigCalls]
    BY <1>0, <2>1
  <2> QED BY <1>0, <2>1, <2>3, <2>4, <2>5, <2>6 DEF CallsOK, Steps
<1>7. CASE UnregisterIPProgTarget(c)
  <2>1. call[c].stage = "untarget" /\ Goes(c, "done") /\ waiters' = waiters
        /\ targets' = [targets EXCEPT ![call[c].key] = none]
    BY <1>7 DEF UnregisterIPProgTarget, At
  <2>2. Steps(c, "done")
    BY <1>0, <2>1, GoesSteps DEF Stages
  <2>3. call[c].target # none
    BY <2>1 DEF CallsOK, TargetInv
  <2>6. Retargets(c, "done", none)
    BY <2>1, <2>2, <2>3 DEF Retargets
  <2>4. targets' \in [NodeKeys -> Addrs \cup {none}] /\ TargetInv'
    BY <2>6, TargetMoves
  <2>5. WaitersAreCalls'
    BY <2>1, <2>2, WaitersStay DEF CallsOK, Steps, Waiting
  <2> QED BY <1>0, <2>1, <2>2, <2>4, <2>5 DEF CallsOK, Steps
<1> QED BY <1>1, <1>2, <1>3, <1>4, <1>5, <1>6, <1>7 DEF CallStep

LEMMA SameCalls ==
  ASSUME CallsOK, UNCHANGED callVars
  PROVE  CallsOK'
BY DEF CallsOK, callVars, WaitersAreCalls, TargetInv, TargetWhileAlone, Claims

LEMMA SessionStep ==
  SessionInv /\ [SessionNext]_sessionVars => SessionInv' /\ MovesWhole
<1> SUFFICES ASSUME SessionInv, [SessionNext]_sessionVars PROVE SessionInv' /\ MovesWhole
  OBVIOUS
<1>0. NodesOK /\ CycleOK /\ CallsOK
  BY DEF SessionInv
<1> USE DEF TableStep
<1>1. CASE SessionStart \/ SessionStop \/ PollTimerFires
  <2>1. nodes' = nodes /\ UNCHANGED callVars
    BY <1>1 DEF SessionStart, SessionStop, PollTimerFires
  <2> QED BY <1>0, <1>1, <2>1, SameTable, CycleSteps, SameCalls DEF SessionInv
<1>2. CASE Tick
  <2>1. TableStep
    <3>1. CASE running # "started"
      BY <1>0, <1>2, <3>1, SameTable DEF Tick
    <3>2. CASE running = "started"
      <4>1. PICK lost \in SUBSET DOMAIN nodes : nodes' = Swept(lost)
        BY <1>2, <3>2 DEF Tick
      <4> QED BY <1>0, <4>1, SweptStep
    <3> QED BY <3>1, <3>2
  <2>2. UNCHANGED callVars
    BY <1>2 DEF Tick
  <2> QED BY <1>0, <1>2, <2>1, <2>2, CycleSteps, SameCalls DEF SessionInv
<1>3. CASE Sweep \/ ClearNodes
  <2>1. TableStep
    <3>1. CASE Sweep
      <4>1. PICK lost \in SUBSET DOMAIN nodes : nodes' = Swept(lost)
        BY <3>1 DEF Sweep
      <4> QED BY <1>0, <4>1, SweptStep
    <3>2. CASE ClearNodes
      BY <3>2, ClearStep DEF ClearNodes
    <3> QED BY <1>3, <3>1, <3>2
  <2>2. UNCHANGED <<cycleVars, callVars>>
    BY <1>3 DEF Sweep, ClearNodes
  <2> QED BY <1>0, <2>1, <2>2, SameCycle, SameCalls DEF SessionInv
<1>4. ASSUME NEW k \in NodeKeys, HandlePollReply(k) PROVE SessionInv' /\ MovesWhole
  <2>1. UNCHANGED cycleVars /\ UNCHANGED <<waiters, targets>> /\ call' = Notified(waiters[k])
    BY <1>4 DEF HandlePollReply
  <2> QED BY <1>0, <1>4, <2>1, ReplyStep, SameCycle, NotifiedKeeps DEF SessionInv
<1>5. ASSUME NEW from \in Addrs, NEW current \in Addrs, HandleIPProgReply(from, current)
      PROVE  SessionInv' /\ MovesWhole
  <2> DEFINE matched == {k \in NodeKeys : waiters[k] # {} /\ from \in {k.ip, targets[k]}}
             heard == UNION {waiters[k] : k \in matched}
  <2>1. /\ UNCHANGED cycleVars /\ UNCHANGED <<waiters, targets>> /\ call' = Notified(heard)
        /\ nodes' \in Rekeyed(matched, current)
    BY <1>5 DEF HandleIPProgReply
  <2> HIDE DEF matched, heard
  <2> QED BY <1>0, <2>1, RekeyedStep, SameCycle, NotifiedKeeps DEF SessionInv
<1>6. ASSUME NEW c \in ConfigCalls,
             CallStep(c) \/ \E r \in Requests : BeginCall(c, r)
      PROVE  SessionInv' /\ MovesWhole
  <2>1. nodes' = nodes /\ UNCHANGED cycleVars
    BY <1>6 DEF CallStep, BeginCall, RegisterIPProgTarget, LookUpNode, RegisterConfigWaiter,
       SendConfig, AwaitEnds, UnregisterConfigWaiter, UnregisterIPProgTarget
  <2>2. CallsOK'
    BY <1>0, <1>6, CallKeeps, BeginKeeps
  <2> QED BY <1>0, <2>1, <2>2, SameTable, SameCycle DEF SessionInv
<1>7. CASE UNCHANGED sessionVars
  <2>1. nodes' = nodes /\ UNCHANGED cycleVars /\ UNCHANGED callVars
    BY <1>7 DEF sessionVars, cycleVars, callVars
  <2> QED BY <1>0, <2>1, SameTable, SameCycle, SameCalls DEF SessionInv
<1> QED BY <1>1, <1>2, <1>3, <1>4, <1>5, <1>6, <1>7 DEF SessionNext

LEMMA SessionStarts ==
  ASSUME SessionInit
  PROVE  SessionInv
<1>1. NodesOK
  <2>1. nodes \in [{} -> {"live", "stale"}]
    BY DEF SessionInit
  <2> QED BY <2>1 DEF NodesOK
<1>2. CycleOK
  BY DEF SessionInit, CycleOK, OnePollChain
<1>3. WaitersAreCalls /\ waiters \in [NodeKeys -> SUBSET ConfigCalls]
  BY DEF SessionInit, WaitersAreCalls
<1>4. TargetInv /\ targets \in [NodeKeys -> Addrs \cup {none}]
  BY DEF SessionInit, TargetInv, TargetWhileAlone
<1>5. call \in [ConfigCalls -> Calls]
  <2> DEFINE k == CHOOSE k \in NodeKeys : TRUE
             first == [stage |-> "idle", key |-> k, target |-> none, heard |-> FALSE]
  <2>1. PICK a \in Addrs, b \in Binds : TRUE
    BY SessionAssumption
  <2>2. [ip |-> a, bind |-> b] \in NodeKeys
    BY DEF NodeKeys
  <2>3. k \in NodeKeys
    BY <2>2
  <2> HIDE DEF k
  <2>4. first \in Calls
    BY <2>3 DEF Calls, Stages
  <2>5. call = [c \in ConfigCalls |-> first]
    BY DEF SessionInit, k
  <2> QED BY <2>4, <2>5
<1> QED BY <1>1, <1>2, <1>3, <1>4, <1>5 DEF SessionInv, CallsOK

LEMMA SessionAlways == SessionSpec => []SessionInv
<1>1. SessionInv /\ [SessionNext]_sessionVars => SessionInv'
  BY SessionStep
<1>2. SessionInit => SessionInv
  BY SessionStarts
<1> QED BY <1>1, <1>2, PTL DEF SessionSpec

(* A configuration call waits under its key from its registration to its removal *)
(* and under no other, the address it asked for is on record while it has its    *)
(* key to itself, and a started session has exactly one next tick                *)
(* (sendAndAwaitConfirm, ProgramIP, Start, Stop and tick).                        *)
THEOREM WaitersAreSound ==
  SessionSpec => [](SessionTypeOK /\ WaitersAreCalls /\ TargetWhileAlone /\ OnePollChain)
<1>1. SessionInv => SessionTypeOK /\ WaitersAreCalls /\ TargetWhileAlone /\ OnePollChain
  <2> SUFFICES ASSUME SessionInv
               PROVE  SessionTypeOK /\ WaitersAreCalls /\ TargetWhileAlone /\ OnePollChain
    OBVIOUS
  <2>1. NodesOK /\ CycleOK /\ CallsOK
    BY DEF SessionInv
  <2>2. WaitersAreCalls /\ TargetWhileAlone /\ OnePollChain
    BY <2>1 DEF CycleOK, CallsOK, TargetInv
  <2>3. SessionTypeOK
    BY <2>1 DEF SessionTypeOK, NodesOK, CycleOK, CallsOK, Calls
  <2> QED BY <2>2, <2>3
<1> QED BY <1>1, SessionAlways, PTL

(* When a confirmed move takes one bind of a node away from an address, none of  *)
(* its binds stays there (rekeyNodeLocked).                                      *)
THEOREM NodesMoveWhole == SessionSpec => BindsMoveTogether
<1>1. SessionInv /\ [SessionNext]_sessionVars => [MovesWhole]_sessionVars
  BY SessionStep
<1>2. []SessionInv /\ [][SessionNext]_sessionVars => [][MovesWhole]_sessionVars
  BY <1>1, PTL
<1> QED BY <1>2, SessionAlways, PTL DEF SessionSpec, BindsMoveTogether, MovesWhole

--------------------------------------------------------------------------------
(* Induction over the natural numbers, for a set of them.                        *)
LEMMA NatSetInduction ==
  ASSUME NEW T, T \subseteq Nat, 0 \in T, \A n \in T : n + 1 \in T
  PROVE  T = Nat
<1> DEFINE R == OpToRel(<, Nat)
           B == Nat \ T
<1>1. IsWellFoundedOn(R, Nat)
  BY NatLessThanWellFounded
<1>2. \A x, y \in Nat : x < y => <<x, y>> \in R
  BY DEF OpToRel
<1> HIDE DEF R
<1>3. SUFFICES ASSUME B # {} PROVE FALSE
  OBVIOUS
<1>4. PICK x \in B : \A y \in B : ~(<<y, x>> \in R)
  BY <1>1, <1>3, WFMin
<1>5. x \in Nat /\ x # 0 /\ x - 1 \in Nat /\ x - 1 < x
  BY <1>4
<1>6. x - 1 \notin B
  BY <1>2, <1>4, <1>5
<1>7. (x - 1) + 1 \in T
  BY <1>5, <1>6
<1> QED BY <1>4, <1>5, <1>7

(* DeviceReads: what dropping slots leaves of a queue.                           *)
Body(s, ds, k, n) ==
  IF n = 0 THEN <<>> ELSE IF s[n] \in ds THEN k[n - 1] ELSE Append(k[n - 1], s[n])
IsKept(s, ds, k, m) == k = [n \in 0 .. m |-> Body(s, ds, k, n)]

LEMMA KeptExists ==
  ASSUME NEW S, NEW s \in Seq(S), NEW ds, NEW m \in Nat
  PROVE  \E k : IsKept(s, ds, k, m)
<1> DEFINE T == {j \in Nat : \E k : IsKept(s, ds, k, j)}
<1>1. 0 \in T
  <2> DEFINE k == [n \in 0 .. 0 |-> <<>>]
  <2>1. \A n \in 0 .. 0 : n = 0
    OBVIOUS
  <2>2. IsKept(s, ds, k, 0)
    BY <2>1 DEF IsKept, Body
  <2> HIDE DEF k
  <2> QED BY <2>2
<1>2. ASSUME NEW j \in T PROVE j + 1 \in T
  <2>1. PICK g : g = [n \in 0 .. j |-> Body(s, ds, g, n)]
    BY DEF IsKept
  <2> DEFINE h == [n \in 0 .. j + 1 |-> IF n <= j THEN g[n] ELSE Body(s, ds, g, n)]
  <2>2. j \in Nat
    OBVIOUS
  <2>3. ASSUME NEW n \in 0 .. j + 1 PROVE h[n] = Body(s, ds, h, n)
    <3>1. h[n] = Body(s, ds, g, n)
      <4>1. CASE n <= j
        <5>1. n \in 0 .. j
          BY <2>2, <4>1
        <5> HIDE DEF Body
        <5>2. g[n] = Body(s, ds, g, n)
          BY <2>1, <5>1
        <5> QED BY <4>1, <5>2
      <4>2. CASE ~(n <= j)
        BY <4>2
      <4> QED BY <4>1, <4>2
    <3>2. CASE n = 0
      BY <3>1, <3>2 DEF Body
    <3>3. CASE n # 0
      <4>1. n - 1 \in 0 .. j + 1 /\ n - 1 <= j
        BY <2>2, <3>3
      <4>2. h[n - 1] = g[n - 1]
        BY <4>1
      <4> QED BY <3>1, <3>3, <4>2 DEF Body
    <3> QED BY <3>2, <3>3
  <2>4. h = [n \in 0 .. j + 1 |-> h[n]]
    OBVIOUS
  <2> HIDE DEF h
  <2>5. IsKept(s, ds, h, j + 1)
    BY <2>3, <2>4 DEF IsKept
  <2> QED BY <2>2, <2>5
<1>3. T = Nat
  <2> HIDE DEF T
  <2>1. T \subseteq Nat
    BY DEF T
  <2> QED BY <1>1, <1>2, <2>1, NatSetInduction
<1> QED BY <1>3

LEMMA WithoutIsKept ==
  ASSUME NEW S, NEW s \in Seq(S), NEW ds
  PROVE  \E k : IsKept(s, ds, k, Len(s)) /\ Without(s, ds) = k[Len(s)]
<1> DEFINE K == CHOOSE k : k = [n \in 0 .. Len(s) |-> Body(s, ds, k, n)]
<1>1. \E k : k = [n \in 0 .. Len(s) |-> Body(s, ds, k, n)]
  <2>1. Len(s) \in Nat
    OBVIOUS
  <2>2. PICK k : IsKept(s, ds, k, Len(s))
    BY <2>1, KeptExists
  <2> QED BY <2>2 DEF IsKept
<1>2. K = [n \in 0 .. Len(s) |-> Body(s, ds, K, n)]
  BY <1>1
<1>3. Without(s, ds) = K[Len(s)]
  BY DEF Without, Body
<1> QED BY <1>2, <1>3 DEF IsKept

\* q holds the first m members of s that are not in ds, each once.
Kept(q, s, ds, m) ==
  /\ \A i \in DOMAIN q : q[i] \notin ds /\ \E j \in 1 .. m : q[i] = s[j]
  /\ \A j \in 1 .. m : s[j] \notin ds => \E i \in DOMAIN q : q[i] = s[j]
  /\ \A i, j \in DOMAIN q : q[i] = q[j] => i = j
NoneTwice(s) == \A i, j \in DOMAIN s : s[i] = s[j] => i = j

LEMMA KeptAppend ==
  ASSUME NEW S, NEW s \in Seq(S), NEW ds, NoneTwice(s), NEW q \in Seq(S), NEW m \in Nat,
         Kept(q, s, ds, m), m + 1 <= Len(s), s[m + 1] \notin ds
  PROVE  Append(q, s[m + 1]) \in Seq(S) /\ Kept(Append(q, s[m + 1]), s, ds, m + 1)
<1> DEFINE x == s[m + 1]
           a == Append(q, x)
           n == Len(q)
<1>1. x \in S /\ n \in Nat /\ DOMAIN q = 1 .. n /\ DOMAIN s = 1 .. Len(s) /\ Len(s) \in Nat
      /\ m + 1 \in DOMAIN s
  OBVIOUS
<1>2. a \in Seq(S) /\ DOMAIN a = 1 .. n + 1 /\ a[n + 1] = x
      /\ \A i \in 1 .. n : a[i] = q[i]
  BY <1>1
<1>3. ASSUME NEW i \in 1 .. n PROVE q[i] # x
  <2>1. PICK j \in 1 .. m : q[i] = s[j]
    BY <1>1 DEF Kept
  <2>2. j \in DOMAIN s /\ j # m + 1
    BY <1>1
  <2> QED BY <1>1, <2>1, <2>2 DEF NoneTwice
<1> HIDE DEF a, x, n
<1>4. \A i \in DOMAIN a : a[i] \notin ds /\ \E j \in 1 .. m + 1 : a[i] = s[j]
  <2> SUFFICES ASSUME NEW i \in 1 .. n + 1
               PROVE  a[i] \notin ds /\ \E j \in 1 .. m + 1 : a[i] = s[j]
    BY <1>2
  <2>1. CASE i = n + 1
    BY <1>2, <2>1 DEF x
  <2>2. CASE i # n + 1
    <3>1. i \in 1 .. n
      BY <1>1, <2>2
    <3>2. q[i] \notin ds /\ \E j \in 1 .. m : q[i] = s[j]
      BY <1>1, <3>1 DEF Kept
    <3> QED BY <1>2, <3>1, <3>2
  <2> QED BY <2>1, <2>2
<1>5. \A j \in 1 .. m + 1 : s[j] \notin ds => \E i \in DOMAIN a : a[i] = s[j]
  <2> SUFFICES ASSUME NEW j \in 1 .. m + 1, s[j] \notin ds
               PROVE  \E i \in 1 .. n + 1 : a[i] = s[j]
    BY <1>2
  <2>1. CASE j = m + 1
    <3>1. n + 1 \in 1 .. n + 1
      BY <1>1
    <3> QED BY <1>2, <2>1, <3>1 DEF x
  <2>2. CASE j # m + 1
    <3>1. PICK i \in 1 .. n : q[i] = s[j]
      BY <1>1, <2>2 DEF Kept
    <3> QED BY <1>1, <1>2, <3>1
  <2> QED BY <2>1, <2>2
<1>6. \A i, j \in DOMAIN a : a[i] = a[j] => i = j
  <2> SUFFICES ASSUME NEW i \in 1 .. n + 1, NEW j \in 1 .. n + 1, a[i] = a[j]
               PROVE  i = j
    BY <1>2
  <2>1. CASE i \in 1 .. n /\ j \in 1 .. n
    BY <1>1, <1>2, <2>1 DEF Kept
  <2>2. CASE i = n + 1
    BY <1>1, <1>2, <1>3, <2>2
  <2>3. CASE j = n + 1
    BY <1>1, <1>2, <1>3, <2>3
  <2> QED BY <1>1, <2>1, <2>2, <2>3
<1> QED BY <1>2, <1>4, <1>5, <1>6 DEF Kept, a, x

\* Dropping the slots of ds leaves those of all others, in a queue without repeats.
LEMMA WithoutKeeps ==
  ASSUME NEW S, NEW s \in Seq(S), NEW ds, NoneTwice(s)
  PROVE  Without(s, ds) \in Seq(S) /\ Kept(Without(s, ds), s, ds, Len(s))
<1>1. PICK k : IsKept(s, ds, k, Len(s)) /\ Without(s, ds) = k[Len(s)]
  BY WithoutIsKept
<1>2. Len(s) \in Nat /\ DOMAIN s = 1 .. Len(s)
  OBVIOUS
<1>3. \A n \in 0 .. Len(s) : k[n] = Body(s, ds, k, n)
  BY <1>1 DEF IsKept
<1> DEFINE Good(n) == k[n] \in Seq(S) /\ Kept(k[n], s, ds, n)
           T == {n \in Nat : n <= Len(s) => Good(n)}
<1>4. 0 \in T
  <2>1. k[0] = <<>>
    BY <1>2, <1>3 DEF Body
  <2>2. Good(0)
    BY <2>1 DEF Kept
  <2> QED BY <2>2
<1>5. ASSUME NEW n \in T PROVE n + 1 \in T
  <2> SUFFICES ASSUME n + 1 <= Len(s) PROVE Good(n + 1)
    OBVIOUS
  <2>1. n \in Nat /\ n + 1 \in 0 .. Len(s) /\ n + 1 # 0 /\ (n + 1) - 1 = n /\ n <= Len(s)
    BY <1>2
  <2>2. Good(n)
    BY <2>1
  <2>3. k[n + 1] = IF s[n + 1] \in ds THEN k[n] ELSE Append(k[n], s[n + 1])
    BY <1>3, <2>1 DEF Body
  <2>4. CASE s[n + 1] \in ds
    <3>1. \A j \in 1 .. n + 1 : j \in 1 .. n \/ j = n + 1
      BY <2>1
    <3>2. 1 .. n \subseteq 1 .. n + 1
      BY <2>1
    <3> QED BY <2>2, <2>3, <2>4, <3>1, <3>2 DEF Kept
  <2>5. CASE s[n + 1] \notin ds
    BY <2>1, <2>2, <2>3, <2>5, KeptAppend
  <2> QED BY <2>4, <2>5
<1>6. T = Nat
  <2> HIDE DEF T
  <2>1. T \subseteq Nat
    BY DEF T
  <2> QED BY <1>4, <1>5, <2>1, NatSetInduction
<1>7. Good(Len(s))
  BY <1>2, <1>6
<1> QED BY <1>1, <1>7

--------------------------------------------------------------------------------
(* DeviceReads: the ledger and its queue.                                        *)

States == {"unknown", "pending", "reading", "read", "gaveUp"}
Entries == [state : States, attempts : 0 .. MaxAttempts]
Budget(e) == e.state \in {"unknown", "pending", "reading"} => e.attempts < MaxAttempts

\* The queue holds the pending devices, each once.
Queues(q, l) ==
  /\ q \in Seq(Devices) /\ NoneTwice(q)
  /\ \A d \in Devices : (l[d].state = "pending") <=> (\E i \in DOMAIN q : q[i] = d)

LedgerOK ==
  /\ ledger \in [Devices -> Entries] /\ \A d \in Devices : Budget(ledger[d])
  /\ Queues(readQueue, ledger)

RegistryOK ==
  /\ fixture \in [Devices -> {"absent", "listed", "read"}]
  /\ rdmEvents \in Seq(Events) /\ Len(rdmEvents) <= RDMEvents
  /\ naming \in Seq(Devices) /\ signalling \in BOOLEAN
  /\ clearing \subseteq Devices /\ missed \subseteq Devices

ReaderOK ==
  /\ reader \in [at : {"take", "wait", "pass", "file", "ended"}, device : Devices,
                 info : BOOLEAN, cancelled : BOOLEAN]
  /\ wake \in BOOLEAN /\ news \in 0 .. MaxNews

\* What the reader heard of a device is in the registry, or gets there, or a clear
\* has yet to reach the ledger.
OnRecord(d) ==
  \/ fixture[d] = "read"
  \/ \E i \in 1 .. Len(rdmEvents) : rdmEvents[i].kind = "info" /\ rdmEvents[i].device = d
  \/ d \in missed
  \/ d \in clearing
\* An answer that was heard and is about to be filed is on record too.
Heard(d) ==
  \/ ledger[d].state = "read"
  \/ /\ reader.at = "file" /\ reader.info /\ reader.device = d
     /\ ledger[d].state = "reading"
RecordInv == \A d \in Devices : Heard(d) => OnRecord(d)

ReadsInv == LedgerOK /\ RegistryOK /\ ReaderOK /\ NoLostWakeup /\ RecordInv

LEMMA QueueCounts ==
  ASSUME Queues(readQueue, ledger)
  PROVE  PendingIsQueued
<1> SUFFICES ASSUME NEW d \in Devices
             PROVE  Cardinality({i \in 1 .. Len(readQueue) : readQueue[i] = d}) =
                      IF ledger[d].state = "pending" THEN 1 ELSE 0
  BY DEF PendingIsQueued
<1> DEFINE at == {i \in 1 .. Len(readQueue) : readQueue[i] = d}
<1>1. DOMAIN readQueue = 1 .. Len(readQueue)
  BY DEF Queues
<1>2. CASE ledger[d].state = "pending"
  <2>1. PICK i \in 1 .. Len(readQueue) : readQueue[i] = d
    BY <1>1, <1>2 DEF Queues
  <2>2. at = {i}
    BY <1>1, <2>1 DEF Queues, NoneTwice
  <2> QED BY <1>2, <2>2, FS_Singleton
<1>3. CASE ledger[d].state # "pending"
  <2>1. at = {}
    BY <1>1, <1>3 DEF Queues
  <2> QED BY <1>3, <2>1, FS_EmptySet
<1> QED BY <1>2, <1>3

\* Forgetting devices takes their slots away, and no other's.
LEMMA WithoutQueues ==
  ASSUME Queues(readQueue, ledger), NEW ds, NEW q, q = Without(readQueue, ds)
  PROVE  /\ q \in Seq(Devices) /\ NoneTwice(q) /\ (readQueue = <<>> => q = <<>>)
         /\ \A d \in Devices : (\E i \in DOMAIN q : q[i] = d)
                                <=> (ledger[d].state = "pending" /\ d \notin ds)
<1>1. readQueue \in Seq(Devices) /\ NoneTwice(readQueue)
      /\ DOMAIN readQueue = 1 .. Len(readQueue)
  BY DEF Queues
<1>2. q \in Seq(Devices) /\ Kept(q, readQueue, ds, Len(readQueue))
  BY <1>1, WithoutKeeps
<1>3. NoneTwice(q)
  BY <1>2 DEF Kept, NoneTwice
<1>4. ASSUME NEW d \in Devices
      PROVE  (\E i \in DOMAIN q : q[i] = d) <=> (ledger[d].state = "pending" /\ d \notin ds)
  <2>1. ASSUME NEW i \in DOMAIN q, q[i] = d PROVE ledger[d].state = "pending" /\ d \notin ds
    <3>1. PICK j \in 1 .. Len(readQueue) : q[i] = readQueue[j]
      BY <1>2 DEF Kept
    <3>2. q[i] \notin ds
      BY <1>2 DEF Kept
    <3> QED BY <1>1, <2>1, <3>1, <3>2 DEF Queues
  <2>2. ASSUME ledger[d].state = "pending", d \notin ds PROVE \E i \in DOMAIN q : q[i] = d
    <3>1. PICK j \in 1 .. Len(readQueue) : readQueue[j] = d
      BY <1>1, <2>2 DEF Queues
    <3> QED BY <1>2, <2>2, <3>1 DEF Kept
  <2> QED BY <2>1, <2>2
<1>5. ASSUME readQueue = <<>> PROVE q = <<>>
  <2>1. Len(readQueue) = 0
    BY <1>5
  <2>2. DOMAIN q = {}
    BY <1>2, <2>1 DEF Kept
  <2> QED BY <1>2, <2>2
<1> QED BY <1>2, <1>3, <1>4, <1>5

\* A device that has no slot gets one at the end.
LEMMA AppendQueues ==
  ASSUME NEW q \in Seq(Devices), NoneTwice(q), NEW d \in Devices,
         \A i \in DOMAIN q : q[i] # d
  PROVE  /\ Append(q, d) \in Seq(Devices) /\ NoneTwice(Append(q, d))
         /\ \A e \in Devices : (\E i \in DOMAIN Append(q, d) : Append(q, d)[i] = e)
                                <=> (e = d \/ \E i \in DOMAIN q : q[i] = e)
<1> DEFINE a == Append(q, d)
           n == Len(q)
<1>1. a \in Seq(Devices) /\ n \in Nat /\ DOMAIN q = 1 .. n /\ DOMAIN a = 1 .. n + 1
      /\ a[n + 1] = d /\ \A i \in 1 .. n : a[i] = q[i]
  OBVIOUS
<1> HIDE DEF a, n
<1>2. NoneTwice(a)
  <2> SUFFICES ASSUME NEW i \in 1 .. n + 1, NEW j \in 1 .. n + 1, a[i] = a[j]
               PROVE  i = j
    BY <1>1 DEF NoneTwice
  <2>1. CASE i \in 1 .. n /\ j \in 1 .. n
    BY <1>1, <2>1 DEF NoneTwice
  <2>2. CASE i = n + 1
    BY <1>1, <2>2
  <2>3. CASE j = n + 1
    BY <1>1, <2>3
  <2> QED BY <1>1, <2>1, <2>2, <2>3
<1>3. ASSUME NEW e \in Devices
      PROVE  (\E i \in DOMAIN a : a[i] = e) <=> (e = d \/ \E i \in DOMAIN q : q[i] = e)
  <2>1. ASSUME NEW i \in DOMAIN a, a[i] = e PROVE e = d \/ \E j \in DOMAIN q : q[j] = e
    <3>1. CASE i = n + 1
      BY <1>1, <2>1, <3>1
    <3>2. CASE i # n + 1
      BY <1>1, <2>1, <3>2
    <3> QED BY <3>1, <3>2
  <2>2. e = d => \E i \in DOMAIN a : a[i] = e
    <3>1. n + 1 \in DOMAIN a
      BY <1>1
    <3> QED BY <1>1, <3>1
  <2>3. ASSUME NEW j \in DOMAIN q, q[j] = e PROVE \E i \in DOMAIN a : a[i] = e
    <3>1. j \in DOMAIN a /\ a[j] = e
      BY <1>1, <2>3
    <3> QED BY <3>1
  <2> QED BY <2>1, <2>2, <2>3
<1> QED BY <1>1, <1>2, <1>3 DEF a

(* What the steps do to the ledger. *)
LEMMA NoteLedger ==
  ASSUME LedgerOK, RegistryOK, NoteHook
  PROVE  /\ LedgerOK' /\ (readQueue' # readQueue => signalling')
         /\ \A d \in Devices : ledger'[d].state \in {"read", "reading"} => ledger'[d] = ledger[d]
<1> DEFINE d == Head(naming)
           l == [ledger[d] EXCEPT !.state = "pending"]
<1>1. d \in Devices
  BY DEF NoteHook, RegistryOK
<1>2. CASE ledger[d].state = "unknown"
  <2>1. ledger' = [ledger EXCEPT ![d] = l] /\ readQueue' = Append(readQueue, d) /\ signalling'
    BY <1>2 DEF NoteHook
  <2>2. ledger[d] \in Entries /\ Budget(ledger[d])
    BY <1>1 DEF LedgerOK
  <2>3. l \in Entries /\ Budget(l) /\ l.state = "pending"
    BY <1>2, <2>2 DEF Entries, States, Budget
  <2>4. \A i \in DOMAIN readQueue : readQueue[i] # d
    BY <1>1, <1>2 DEF LedgerOK, Queues
  <2>5. /\ readQueue' \in Seq(Devices) /\ NoneTwice(readQueue')
        /\ \A e \in Devices : (\E i \in DOMAIN readQueue' : readQueue'[i] = e)
              <=> (e = d \/ \E i \in DOMAIN readQueue : readQueue[i] = e)
    BY <1>1, <2>1, <2>4, AppendQueues DEF LedgerOK, Queues
  <2> HIDE DEF l, d
  <2>6. ledger'[d] = l /\ \A e \in Devices \ {d} : ledger'[e] = ledger[e]
    BY <1>1, <2>1 DEF LedgerOK
  <2>7. Queues(readQueue', ledger')
    BY <1>1, <2>3, <2>5, <2>6 DEF LedgerOK, Queues
  <2>8. ledger' \in [Devices -> Entries] /\ \A e \in Devices : Budget(ledger'[e])
    BY <2>1, <2>3, <2>6 DEF LedgerOK
  <2> QED BY <2>1, <2>3, <2>6, <2>7, <2>8 DEF LedgerOK
<1>3. CASE ledger[d].state # "unknown"
  <2>1. ledger' = ledger /\ readQueue' = readQueue
    BY <1>3 DEF NoteHook
  <2> QED BY <2>1 DEF LedgerOK
<1> QED BY <1>2, <1>3

LEMMA ForgottenLedger ==
  ASSUME LedgerOK, NEW ds, Forgotten(ds)
  PROVE  /\ LedgerOK' /\ (readQueue = <<>> => readQueue' = <<>>)
         /\ \A d \in Devices : ledger'[d].state \in {"read", "reading"}
              => d \notin ds /\ ledger'[d] = ledger[d]
<1>1. /\ readQueue' = Without(readQueue, ds)
      /\ ledger' = [d \in Devices |-> IF d \in ds THEN Unknown ELSE ledger[d]]
  BY DEF Forgotten
<1>2. Unknown \in Entries /\ Budget(Unknown) /\ Unknown.state = "unknown"
  BY ReadsAssumption DEF Unknown, Entries, States, Budget
<1>3. \A d \in Devices : ledger'[d] = IF d \in ds THEN Unknown ELSE ledger[d]
  BY <1>1
<1>4. ledger' \in [Devices -> Entries] /\ \A d \in Devices : Budget(ledger'[d])
  BY <1>1, <1>2 DEF LedgerOK
<1>5. /\ readQueue' \in Seq(Devices) /\ NoneTwice(readQueue')
      /\ (readQueue = <<>> => readQueue' = <<>>)
      /\ \A d \in Devices : (\E i \in DOMAIN readQueue' : readQueue'[i] = d)
                             <=> (ledger[d].state = "pending" /\ d \notin ds)
  BY <1>1, WithoutQueues DEF LedgerOK
<1>6. Queues(readQueue', ledger')
  BY <1>2, <1>3, <1>5 DEF Queues
<1> QED BY <1>2, <1>3, <1>4, <1>5, <1>6 DEF LedgerOK

LEMMA RecoveredLedger ==
  ASSUME LedgerOK, NEW d \in Devices, Recovered(d)
  PROVE  /\ LedgerOK'
         /\ \A e \in Devices : ledger'[e].state \in {"read", "reading"} => ledger'[e] = ledger[e]
<1> DEFINE ds == [port : DevPorts, uid : {d.uid}]
           w == Without(readQueue, ds)
           p == [state |-> "pending", attempts |-> 0]
<1>1. /\ ledger' = [e \in Devices |-> IF e = d THEN p ELSE IF e \in ds THEN Unknown ELSE ledger[e]]
      /\ readQueue' = Append(w, d)
  BY DEF Recovered
<1>2. d \in ds
  BY DEF Devices
<1>3. /\ w \in Seq(Devices) /\ NoneTwice(w)
      /\ \A e \in Devices : (\E i \in DOMAIN w : w[i] = e)
                             <=> (ledger[e].state = "pending" /\ e \notin ds)
  <2> HIDE DEF ds
  <2> QED BY WithoutQueues DEF LedgerOK
<1>4. Unknown \in Entries /\ Budget(Unknown) /\ Unknown.state = "unknown"
      /\ p \in Entries /\ Budget(p) /\ p.state = "pending"
  BY ReadsAssumption DEF Unknown, Entries, States, Budget
<1> HIDE DEF ds, w, p
<1>5. /\ readQueue' \in Seq(Devices) /\ NoneTwice(readQueue')
      /\ \A e \in Devices : (\E i \in DOMAIN readQueue' : readQueue'[i] = e)
            <=> (e = d \/ \E i \in DOMAIN w : w[i] = e)
  BY <1>1, <1>2, <1>3, AppendQueues
<1>6. \A e \in Devices : ledger'[e] = IF e = d THEN p ELSE IF e \in ds THEN Unknown ELSE ledger[e]
  BY <1>1
<1>7. Queues(readQueue', ledger')
  BY <1>2, <1>3, <1>4, <1>5, <1>6 DEF Queues
<1>8. ledger' \in [Devices -> Entries] /\ \A e \in Devices : Budget(ledger'[e])
  BY <1>1, <1>4 DEF LedgerOK
<1> QED BY <1>4, <1>6, <1>7, <1>8 DEF LedgerOK

\* The first slot of a pending device is the first of the queue.
LEMMA TakeLedger ==
  ASSUME LedgerOK, ReaderOK, Take
  PROVE  /\ LedgerOK' /\ ReaderOK' /\ (reader'.at = "wait" => readQueue' = <<>>)
         /\ reader'.at \in {"wait", "pass"}
         /\ \A d \in Devices : ledger'[d].state = "read" => ledger[d].state = "read"
<1>0. /\ readQueue \in Seq(Devices) /\ Len(readQueue) \in Nat
      /\ DOMAIN readQueue = 1 .. Len(readQueue)
  BY DEF LedgerOK, Queues
<1>1. Ready = DOMAIN readQueue
  <2>1. \A i \in DOMAIN readQueue : readQueue[i] \in Devices
    BY <1>0
  <2>2. \A i \in DOMAIN readQueue : ledger[readQueue[i]].state = "pending"
    BY <2>1 DEF LedgerOK, Queues
  <2> QED BY <1>0, <2>2 DEF Ready
<1>2. CASE Ready = {} /\ reader' = [reader EXCEPT !.at = "wait"] /\ readQueue' = <<>>
           /\ ledger' = ledger
  <2>1. Len(readQueue) = 0
    BY <1>0, <1>1, <1>2
  <2>2. readQueue = <<>>
    BY <1>0, <2>1
  <2>3. LedgerOK'
    BY <1>2, <2>2 DEF LedgerOK
  <2>4. ReaderOK' /\ reader'.at = "wait"
    BY <1>2 DEF ReaderOK, Take
  <2> QED BY <1>2, <2>3, <2>4
<1>3. ASSUME NEW i \in Ready, \A j \in Ready : i <= j,
             reader' = [reader EXCEPT !.at = "pass", !.device = readQueue[i]],
             readQueue' = SubSeq(readQueue, i + 1, Len(readQueue)),
             ledger' = [ledger EXCEPT ![readQueue[i]].state = "reading"]
      PROVE  /\ LedgerOK' /\ ReaderOK' /\ reader'.at = "pass"
             /\ \A d \in Devices : ledger'[d].state = "read" => ledger[d].state = "read"
  <2> DEFINE d == readQueue[1]
             n == Len(readQueue)
             l == [ledger[d] EXCEPT !.state = "reading"]
  <2>1. i = 1 /\ n >= 1 /\ n \in Nat
    BY <1>0, <1>1, <1>3
  <2>2. d \in Devices /\ ledger[d].state = "pending" /\ ledger[d] \in Entries /\ Budget(ledger[d])
    BY <1>0, <1>1, <2>1 DEF LedgerOK, Queues
  <2>3. ledger' = [ledger EXCEPT ![d] = l]
    BY <1>3, <2>1
  <2>4. l \in Entries /\ Budget(l) /\ l.state = "reading"
    BY <2>2 DEF Entries, States, Budget
  <2>5. reader'.at = "pass" /\ ReaderOK'
    BY <1>3, <2>1, <2>2 DEF ReaderOK, Take
  <2>6. /\ readQueue' \in Seq(Devices) /\ DOMAIN readQueue' = 1 .. n - 1
        /\ \A j \in 1 .. n - 1 : readQueue'[j] = readQueue[j + 1]
    BY <1>0, <1>3, <2>1
  <2> HIDE DEF l
  <2>7. ledger'[d] = l /\ \A e \in Devices \ {d} : ledger'[e] = ledger[e]
    BY <2>2, <2>3 DEF LedgerOK
  <2>8. NoneTwice(readQueue')
    <3> SUFFICES ASSUME NEW j \in 1 .. n - 1, NEW k \in 1 .. n - 1, readQueue'[j] = readQueue'[k]
                 PROVE  j = k
      BY <2>6 DEF NoneTwice
    <3>1. j + 1 \in DOMAIN readQueue /\ k + 1 \in DOMAIN readQueue
      BY <1>0, <2>1
    <3>2. j + 1 = k + 1
      BY <2>6, <3>1 DEF LedgerOK, Queues, NoneTwice
    <3> QED BY <2>1, <3>2
  <2>9. ASSUME NEW e \in Devices
        PROVE  (ledger'[e].state = "pending") <=> (\E j \in DOMAIN readQueue' : readQueue'[j] = e)
    <3>1. ASSUME NEW j \in 1 .. n - 1, readQueue'[j] = e PROVE ledger'[e].state = "pending"
      <4>1. j + 1 \in DOMAIN readQueue /\ readQueue[j + 1] = e /\ j + 1 # 1 /\ 1 \in DOMAIN readQueue
        BY <1>0, <2>1, <2>6, <3>1
      <4>2. e # d
        BY <4>1 DEF LedgerOK, Queues, NoneTwice
      <4>3. ledger[e].state = "pending"
        BY <4>1 DEF LedgerOK, Queues
      <4> QED BY <2>7, <4>2, <4>3
    <3>2. ASSUME ledger'[e].state = "pending" PROVE \E j \in 1 .. n - 1 : readQueue'[j] = e
      <4>1. e # d /\ ledger[e].state = "pending"
        BY <2>4, <2>7, <3>2
      <4>2. PICK k \in DOMAIN readQueue : readQueue[k] = e
        BY <4>1 DEF LedgerOK, Queues
      <4>3. k # 1 /\ k - 1 \in 1 .. n - 1 /\ (k - 1) + 1 = k
        BY <1>0, <2>1, <4>1, <4>2
      <4> QED BY <2>6, <4>2, <4>3
    <3> QED BY <2>6, <3>1, <3>2
  <2>10. Queues(readQueue', ledger')
    BY <2>6, <2>8, <2>9 DEF Queues
  <2>11. ledger' \in [Devices -> Entries] /\ \A e \in Devices : Budget(ledger'[e])
    BY <2>3, <2>4, <2>7 DEF LedgerOK
  <2> QED BY <2>4, <2>5, <2>7, <2>10, <2>11 DEF LedgerOK
<1> QED BY <1>2, <1>3 DEF Take

LEMMA FileLedger ==
  ASSUME LedgerOK, ReaderOK, File
  PROVE  /\ LedgerOK' /\ ReaderOK' /\ reader'.at = "take"
         /\ \A d \in Devices : ledger'[d].state = "read" => Heard(d)
<1> DEFINE d == reader.device
           e == Filed(ledger[d], reader.info, reader.cancelled)
<1>0. d \in Devices /\ ledger[d] \in Entries /\ Budget(ledger[d])
      /\ reader.info \in BOOLEAN /\ reader.cancelled \in BOOLEAN /\ reader.at = "file"
  BY DEF ReaderOK, LedgerOK, File
<1>1. reader'.at = "take" /\ reader' = [reader EXCEPT !.at = "take", !.info = FALSE]
      /\ news' = news
  BY DEF File, ReaderOK
<1>2. CASE ledger[d].state = "reading"
  <2>1. /\ ledger' = [ledger EXCEPT ![d] = e]
        /\ readQueue' = IF e.state = "pending" THEN Append(readQueue, d) ELSE readQueue
        /\ wake' = (wake \/ e.state = "pending")
    BY <1>2 DEF File
  <2>2. /\ e \in Entries /\ Budget(e) /\ e.state \in {"read", "pending", "gaveUp"}
        /\ e.state = "read" => reader.info
    <3>1. ledger[d].attempts \in 0 .. MaxAttempts /\ ledger[d].attempts < MaxAttempts
          /\ MaxAttempts \in Nat
      BY <1>0, <1>2, ReadsAssumption DEF Entries, Budget
    <3>2. CASE reader.info
      BY <1>0, <3>1, <3>2 DEF Filed, Entries, States, Budget
    <3>3. CASE ~reader.info /\ reader.cancelled
      BY <1>0, <1>2, <3>1, <3>3 DEF Filed, Entries, States, Budget
    <3>4. CASE ~reader.info /\ ~reader.cancelled
      BY <1>0, <3>1, <3>4 DEF Filed, Entries, States, Budget
    <3> QED BY <1>0, <3>2, <3>3, <3>4
  <2> HIDE DEF d, e
  <2>3. ledger'[d] = e /\ \A x \in Devices \ {d} : ledger'[x] = ledger[x]
    BY <1>0, <2>1 DEF LedgerOK
  <2>4. Queues(readQueue', ledger')
    <3>1. \A j \in DOMAIN readQueue : readQueue[j] # d
      BY <1>0, <1>2 DEF LedgerOK, Queues
    <3>2. CASE e.state = "pending"
      <4>1. readQueue' = Append(readQueue, d)
        BY <2>1, <3>2
      <4>2. /\ readQueue' \in Seq(Devices) /\ NoneTwice(readQueue')
            /\ \A x \in Devices : (\E j \in DOMAIN readQueue' : readQueue'[j] = x)
                  <=> (x = d \/ \E j \in DOMAIN readQueue : readQueue[j] = x)
        BY <1>0, <3>1, <4>1, AppendQueues DEF LedgerOK, Queues
      <4> QED BY <1>0, <2>3, <3>2, <4>2 DEF LedgerOK, Queues
    <3>3. CASE e.state # "pending"
      <4>1. readQueue' = readQueue
        BY <2>1, <3>3
      <4> QED BY <1>0, <1>2, <2>3, <3>1, <3>3, <4>1 DEF LedgerOK, Queues
    <3> QED BY <3>2, <3>3
  <2>5. ledger' \in [Devices -> Entries] /\ \A x \in Devices : Budget(ledger'[x])
    BY <2>1, <2>2, <2>3 DEF LedgerOK
  <2>6. \A x \in Devices : ledger'[x].state = "read" => Heard(x)
    BY <1>0, <1>2, <2>2, <2>3 DEF Heard, d
  <2>7. wake' \in BOOLEAN
    BY <2>1
  <2>8. ReaderOK'
    BY <1>1, <2>7 DEF ReaderOK
  <2> QED BY <1>1, <2>4, <2>5, <2>6, <2>8 DEF LedgerOK
<1>3. CASE ledger[d].state # "reading"
  <2>1. ledger' = ledger /\ readQueue' = readQueue /\ wake' = wake
    BY <1>3 DEF File, ledgerVars
  <2>2. LedgerOK' /\ ReaderOK'
    BY <1>1, <2>1 DEF LedgerOK, ReaderOK
  <2> QED BY <1>1, <2>1, <2>2 DEF Heard
<1> QED BY <1>2, <1>3

(* What the steps do to the registry and its events. *)

\* Nothing that is on record gets lost.
Recorded ==
  /\ \A d \in Devices : fixture[d] = "read" => fixture'[d] = "read"
  /\ \A i \in 1 .. Len(rdmEvents) : i \in 1 .. Len(rdmEvents') /\ rdmEvents'[i] = rdmEvents[i]
  /\ missed \subseteq missed' /\ clearing \subseteq clearing'

LEMMA RecordedStays ==
  ASSUME Recorded, NEW d \in Devices, OnRecord(d)
  PROVE  OnRecord(d)'
<1>1. CASE fixture[d] = "read" \/ d \in missed \/ d \in clearing
  BY <1>1 DEF Recorded, OnRecord
<1>2. ASSUME NEW i \in 1 .. Len(rdmEvents), rdmEvents[i].kind = "info", rdmEvents[i].device = d
      PROVE  OnRecord(d)'
  <2>1. i \in 1 .. Len(rdmEvents') /\ rdmEvents'[i] = rdmEvents[i]
    BY DEF Recorded
  <2> QED BY <1>2, <2>1 DEF OnRecord
<1> QED BY <1>1, <1>2 DEF OnRecord

LEMMA PublishedFacts ==
  ASSUME RegistryOK, NEW e \in Events, NEW about \in SUBSET Devices, Published(e, about)
  PROVE  /\ rdmEvents' \in Seq(Events) /\ Len(rdmEvents') <= RDMEvents
         /\ missed' \subseteq Devices /\ missed \subseteq missed'
         /\ \A i \in 1 .. Len(rdmEvents) : i \in 1 .. Len(rdmEvents') /\ rdmEvents'[i] = rdmEvents[i]
         /\ (\E i \in 1 .. Len(rdmEvents') : rdmEvents'[i] = e) \/ about \subseteq missed'
<1>1. rdmEvents \in Seq(Events) /\ Len(rdmEvents) \in Nat /\ Len(rdmEvents) <= RDMEvents
      /\ RDMEvents \in Nat
  BY ReadsAssumption DEF RegistryOK
<1>2. CASE Len(rdmEvents) < RDMEvents
  <2> DEFINE n == Len(rdmEvents)
  <2>1. rdmEvents' = Append(rdmEvents, e) /\ missed' = missed
    BY <1>2 DEF Published
  <2>2. /\ rdmEvents' \in Seq(Events) /\ Len(rdmEvents') = n + 1 /\ rdmEvents'[n + 1] = e
        /\ \A i \in 1 .. n : rdmEvents'[i] = rdmEvents[i]
    BY <1>1, <2>1
  <2> HIDE DEF n
  <2>3. n + 1 \in 1 .. n + 1 /\ n + 1 <= RDMEvents /\ 1 .. n \subseteq 1 .. n + 1
    BY <1>1, <1>2 DEF n
  <2>4. \E i \in 1 .. Len(rdmEvents') : rdmEvents'[i] = e
    BY <2>2, <2>3
  <2>5. \A i \in 1 .. n : i \in 1 .. Len(rdmEvents') /\ rdmEvents'[i] = rdmEvents[i]
    BY <2>2, <2>3
  <2>6. missed' \subseteq Devices /\ missed \subseteq missed'
    BY <2>1 DEF RegistryOK
  <2> QED BY <2>2, <2>3, <2>4, <2>5, <2>6 DEF n
<1>3. CASE ~(Len(rdmEvents) < RDMEvents)
  BY <1>1, <1>3 DEF Published, RegistryOK
<1> QED BY <1>2, <1>3

LEMMA TableRegistry ==
  ASSUME RegistryOK, NEW p \in DevPorts, NEW ds \in SUBSET DevUIDs, TableArrives(p, ds)
  PROVE  RegistryOK' /\ Recorded
<1> DEFINE e == [kind |-> "tod", devices |-> [port : {p}, uid : ds]]
<1>1. e \in Events
  <2>1. [port : {p}, uid : ds] \in SUBSET Devices
    BY DEF Devices
  <2> HIDE DEF Devices
  <2> QED BY <2>1 DEF Events
<1>2. Published(e, {}) /\ UNCHANGED <<fixture, naming, signalling, clearing>>
  BY DEF TableArrives
<1> HIDE DEF e
<1> QED BY <1>1, <1>2, PublishedFacts DEF RegistryOK, Recorded

LEMMA PassRegistry ==
  ASSUME RegistryOK, ReaderOK, PassAnswered
  PROVE  /\ RegistryOK' /\ Recorded
         /\ \A d \in Devices : d = reader.device => OnRecord(d)'
         /\ ReaderOK' /\ reader'.at = "file" /\ reader'.device = reader.device
<1> SUFFICES ASSUME NEW d \in Devices, d = reader.device
             PROVE  /\ RegistryOK' /\ Recorded /\ OnRecord(d)'
                    /\ ReaderOK' /\ reader'.at = "file" /\ reader'.device = reader.device
  BY DEF ReaderOK
<1> DEFINE e == [kind |-> "info", device |-> d]
<1>1. e \in Events /\ e.kind = "info" /\ e.device = d
  BY DEF Events
<1>2. Published(e, {d}) /\ UNCHANGED <<fixture, naming, signalling, clearing>>
  BY DEF PassAnswered
<1>3. reader' = [reader EXCEPT !.at = "file", !.info = TRUE] /\ UNCHANGED <<wake, news>>
  BY DEF PassAnswered, ledgerVars
<1>4. ReaderOK' /\ reader'.at = "file" /\ reader'.device = reader.device
  BY <1>3 DEF ReaderOK
<1> HIDE DEF e
<1>5. /\ rdmEvents' \in Seq(Events) /\ Len(rdmEvents') <= RDMEvents
      /\ missed' \subseteq Devices /\ missed \subseteq missed'
      /\ \A i \in 1 .. Len(rdmEvents) : i \in 1 .. Len(rdmEvents') /\ rdmEvents'[i] = rdmEvents[i]
      /\ (\E i \in 1 .. Len(rdmEvents') : rdmEvents'[i] = e) \/ {d} \subseteq missed'
  BY <1>1, <1>2, PublishedFacts
<1>6. OnRecord(d)'
  BY <1>1, <1>5 DEF OnRecord
<1>7. RegistryOK'
  BY <1>2, <1>5 DEF RegistryOK
<1>8. Recorded
  BY <1>2, <1>5 DEF Recorded
<1> QED BY <1>4, <1>6, <1>7, <1>8

\* The registry caches an answer as its event leaves the channel.
LEMMA TakesRegistry ==
  ASSUME RegistryOK, RegistryTakes
  PROVE  RegistryOK' /\ \A d \in Devices : OnRecord(d) => OnRecord(d)'
<1> DEFINE e == Head(rdmEvents)
           n == Len(rdmEvents)
<1>1. /\ rdmEvents \in Seq(Events) /\ n \in Nat /\ n >= 1 /\ e \in Events /\ e = rdmEvents[1]
      /\ n <= RDMEvents /\ RDMEvents \in Nat
  BY ReadsAssumption DEF RegistryOK, RegistryTakes
<1>2. /\ rdmEvents' = Tail(rdmEvents) /\ UNCHANGED <<signalling, missed, clearing>>
  BY DEF RegistryTakes
<1>3. /\ rdmEvents' \in Seq(Events) /\ Len(rdmEvents') = n - 1
      /\ \A i \in 1 .. n - 1 : rdmEvents'[i] = rdmEvents[i + 1]
  BY <1>1, <1>2
<1>4. /\ fixture' \in [Devices -> {"absent", "listed", "read"}] /\ naming' \in Seq(Devices)
      /\ \A d \in Devices : fixture[d] = "read" => fixture'[d] = "read"
      /\ \A d \in Devices : (e.kind = "info" /\ e.device = d) => fixture'[d] = "read"
  <2>1. CASE /\ e.kind = "tod"
             /\ fixture' = [d \in Devices |-> IF d \in e.devices /\ fixture[d] = "absent"
                                              THEN "listed" ELSE fixture[d]]
             /\ naming' \in SetToSeqs(e.devices)
    <3>1. e.devices \in SUBSET Devices
      BY <1>1, <2>1 DEF Events
    <3>2. Cardinality(e.devices) \in Nat
      BY <3>1, ReadsAssumption, FS_Subset, FS_CardinalityType
    <3>3. naming' \in [1 .. Cardinality(e.devices) -> e.devices]
      BY <2>1 DEF SetToSeqs
    <3>4. naming' \in Seq(Devices)
      BY <3>1, <3>2, <3>3
    <3>5. fixture' \in [Devices -> {"absent", "listed", "read"}]
          /\ \A d \in Devices : fixture[d] = "read" => fixture'[d] = "read"
      BY <2>1 DEF RegistryOK
    <3> QED BY <2>1, <3>4, <3>5
  <2>2. CASE e.kind = "info" /\ fixture' = [fixture EXCEPT ![e.device] = "read"] /\ naming' = naming
    <3>1. e.device \in Devices
      BY <1>1, <2>2 DEF Events
    <3> QED BY <2>2, <3>1 DEF RegistryOK
  <2> QED BY <2>1, <2>2 DEF RegistryTakes
<1> HIDE DEF e, n
<1>5. RegistryOK'
  BY <1>1, <1>2, <1>3, <1>4 DEF RegistryOK
<1>6. ASSUME NEW d \in Devices, OnRecord(d) PROVE OnRecord(d)'
  <2>1. CASE fixture[d] = "read" \/ d \in missed \/ d \in clearing
    BY <1>2, <1>4, <2>1 DEF OnRecord
  <2>2. ASSUME NEW i \in 1 .. n, rdmEvents[i].kind = "info", rdmEvents[i].device = d
        PROVE  OnRecord(d)'
    <3>1. CASE i = 1
      BY <1>1, <1>4, <2>2, <3>1 DEF OnRecord
    <3>2. CASE i # 1
      <4>1. i - 1 \in 1 .. n - 1 /\ (i - 1) + 1 = i
        BY <1>1, <3>2
      <4>2. rdmEvents'[i - 1] = rdmEvents[i] /\ i - 1 \in 1 .. Len(rdmEvents')
        BY <1>3, <4>1
      <4> QED BY <2>2, <4>2 DEF OnRecord
    <3> QED BY <3>1, <3>2
  <2> QED BY <1>6, <2>1, <2>2 DEF OnRecord, n
<1> QED BY <1>5, <1>6

--------------------------------------------------------------------------------
(* DeviceReads: every step keeps ReadsInv.                                       *)

LEMMA RecordKept ==
  ASSUME RecordInv,
         \A d \in Devices : OnRecord(d) => OnRecord(d)',
         \A d \in Devices : Heard(d)' => Heard(d)
  PROVE  RecordInv'
BY DEF RecordInv

LEMMA SameRegistry ==
  ASSUME RegistryOK, UNCHANGED <<registryVars, clearing>>
  PROVE  RegistryOK' /\ \A d \in Devices : OnRecord(d) <=> OnRecord(d)'
<1>1. /\ fixture' = fixture /\ rdmEvents' = rdmEvents /\ naming' = naming
      /\ signalling' = signalling /\ missed' = missed /\ clearing' = clearing
  BY DEF registryVars
<1>2. RegistryOK'
  BY <1>1 DEF RegistryOK
<1>3. \A d \in Devices : OnRecord(d) <=> OnRecord(d)'
  BY <1>1 DEF OnRecord
<1> QED BY <1>2, <1>3

LEMMA SameLedger ==
  ASSUME LedgerOK, UNCHANGED <<ledger, readQueue>>
  PROVE  LedgerOK'
BY DEF LedgerOK

LEMMA NewsCounts ==
  ASSUME ReaderOK, News, reader' = reader, wake' \in BOOLEAN
  PROVE  ReaderOK'
BY ReadsAssumption DEF ReaderOK, News

\* The registry's steps.
LEMMA RegistryKeeps ==
  ASSUME ReadsInv,
         RegistryStep \/ \E p \in DevPorts, ds \in SUBSET DevUIDs : TableArrives(p, ds)
  PROVE  ReadsInv'
<1>1. ASSUME NEW p \in DevPorts, NEW ds \in SUBSET DevUIDs, TableArrives(p, ds)
      PROVE  ReadsInv'
  <2>1. /\ ledger' = ledger /\ readQueue' = readQueue /\ wake' = wake
        /\ reader' = reader /\ signalling' = signalling /\ News
    BY <1>1 DEF TableArrives, ledgerVars
  <2>2. RegistryOK' /\ Recorded
    BY <1>1, TableRegistry DEF ReadsInv
  <2>3. LedgerOK' /\ ReaderOK'
    BY <2>1, SameLedger, NewsCounts DEF ReadsInv, ReaderOK
  <2>4. NoLostWakeup'
    BY <2>1 DEF ReadsInv, NoLostWakeup
  <2>5. RecordInv'
    <3>1. \A d \in Devices : Heard(d)' => Heard(d)
      BY <2>1 DEF Heard
    <3> QED BY <2>2, <3>1, RecordedStays, RecordKept DEF ReadsInv
  <2> QED BY <2>2, <2>3, <2>4, <2>5 DEF ReadsInv
<1>2. CASE RegistryTakes
  <2>1. /\ ledger' = ledger /\ readQueue' = readQueue /\ wake' = wake
        /\ reader' = reader /\ signalling' = signalling /\ news' = news
    BY <1>2 DEF RegistryTakes, ledgerVars
  <2>2. RegistryOK' /\ \A d \in Devices : OnRecord(d) => OnRecord(d)'
    BY <1>2, TakesRegistry DEF ReadsInv
  <2>3. LedgerOK' /\ ReaderOK'
    BY <2>1, SameLedger DEF ReadsInv, ReaderOK
  <2>4. NoLostWakeup'
    BY <2>1 DEF ReadsInv, NoLostWakeup
  <2>5. RecordInv'
    <3>1. \A d \in Devices : Heard(d)' => Heard(d)
      BY <2>1 DEF Heard
    <3> QED BY <2>2, <3>1, RecordKept DEF ReadsInv
  <2> QED BY <2>2, <2>3, <2>4, <2>5 DEF ReadsInv
<1>3. CASE NoteHook
  <2>1. /\ fixture' = fixture /\ rdmEvents' = rdmEvents /\ missed' = missed
        /\ clearing' = clearing /\ wake' = wake /\ reader' = reader /\ news' = news
        /\ ~signalling /\ naming # <<>> /\ naming' = Tail(naming)
    BY <1>3 DEF NoteHook
  <2>2. /\ LedgerOK' /\ (readQueue' # readQueue => signalling')
        /\ \A d \in Devices : ledger'[d].state \in {"read", "reading"} => ledger'[d] = ledger[d]
    BY <1>3, NoteLedger DEF ReadsInv
  <2>3. signalling' \in BOOLEAN
    BY <1>3 DEF NoteHook
  <2>4. RegistryOK'
    BY <2>1, <2>3 DEF ReadsInv, RegistryOK
  <2>5. ReaderOK'
    BY <2>1 DEF ReadsInv, ReaderOK
  <2>6. NoLostWakeup'
    BY <2>1, <2>2 DEF ReadsInv, NoLostWakeup
  <2>7. RecordInv'
    <3>1. \A d \in Devices : Heard(d)' => Heard(d)
      BY <2>1, <2>2 DEF Heard
    <3>2. \A d \in Devices : OnRecord(d) => OnRecord(d)'
      BY <2>1 DEF OnRecord
    <3> QED BY <3>1, <3>2, RecordKept DEF ReadsInv
  <2> QED BY <2>2, <2>4, <2>5, <2>6, <2>7 DEF ReadsInv
<1>4. CASE SignalHook
  <2>1. /\ fixture' = fixture /\ rdmEvents' = rdmEvents /\ missed' = missed
        /\ clearing' = clearing /\ reader' = reader /\ news' = news /\ naming' = naming
        /\ ledger' = ledger /\ readQueue' = readQueue /\ signalling' = FALSE /\ wake' = TRUE
    BY <1>4 DEF SignalHook
  <2>2. LedgerOK'
    BY <2>1, SameLedger DEF ReadsInv
  <2>3. RegistryOK'
    BY <2>1 DEF ReadsInv, RegistryOK
  <2>4. ReaderOK'
    BY <2>1 DEF ReadsInv, ReaderOK
  <2>5. NoLostWakeup'
    BY <2>1 DEF NoLostWakeup
  <2>6. RecordInv'
    <3>1. \A d \in Devices : Heard(d)' => Heard(d)
      BY <2>1 DEF Heard
    <3>2. \A d \in Devices : OnRecord(d) => OnRecord(d)'
      BY <2>1 DEF OnRecord
    <3> QED BY <3>1, <3>2, RecordKept DEF ReadsInv
  <2> QED BY <2>2, <2>3, <2>4, <2>5, <2>6 DEF ReadsInv
<1> QED BY <1>1, <1>2, <1>3, <1>4 DEF RegistryStep

\* The steps that forget: by name, on a recovery, and in the two halves of a clear.
LEMMA ForgettingKeeps ==
  ASSUME ReadsInv,
         \/ \E x \in DevUIDs : ForgetUID(x)
         \/ \E d \in Devices : Recovered(d)
         \/ ClearLedger
  PROVE  ReadsInv'
<1>1. ASSUME NEW x \in DevUIDs, ForgetUID(x) PROVE ReadsInv'
  <2> DEFINE ds == [port : DevPorts, uid : {x}]
  <2>1. /\ Forgotten(ds) /\ UNCHANGED <<registryVars, clearing>> /\ wake' = wake
        /\ reader' = reader /\ News /\ signalling' = signalling
    BY <1>1 DEF ForgetUID, registryVars
  <2> HIDE DEF ds
  <2>2. /\ LedgerOK' /\ (readQueue = <<>> => readQueue' = <<>>)
        /\ \A d \in Devices : ledger'[d].state \in {"read", "reading"} => ledger'[d] = ledger[d]
    BY <2>1, ForgottenLedger DEF ReadsInv
  <2>3. RegistryOK' /\ \A d \in Devices : OnRecord(d) <=> OnRecord(d)'
    BY <2>1, SameRegistry DEF ReadsInv
  <2>4. ReaderOK'
    BY <2>1, NewsCounts DEF ReadsInv, ReaderOK
  <2>5. NoLostWakeup'
    BY <2>1, <2>2 DEF ReadsInv, NoLostWakeup
  <2>6. \A d \in Devices : Heard(d)' => Heard(d)
    BY <2>1, <2>2 DEF Heard
  <2>7. RecordInv'
    BY <2>3, <2>6, RecordKept DEF ReadsInv
  <2> QED BY <2>2, <2>3, <2>4, <2>5, <2>7 DEF ReadsInv
<1>2. ASSUME NEW x \in Devices, Recovered(x) PROVE ReadsInv'
  <2>1. /\ UNCHANGED <<registryVars, clearing>> /\ wake' = TRUE /\ reader' = reader /\ News
    BY <1>2 DEF Recovered
  <2>2. /\ LedgerOK'
        /\ \A d \in Devices : ledger'[d].state \in {"read", "reading"} => ledger'[d] = ledger[d]
    BY <1>2, RecoveredLedger DEF ReadsInv
  <2>3. RegistryOK' /\ \A d \in Devices : OnRecord(d) <=> OnRecord(d)'
    BY <2>1, SameRegistry DEF ReadsInv
  <2>4. ReaderOK'
    BY <2>1, NewsCounts DEF ReadsInv
  <2>5. NoLostWakeup'
    BY <2>1 DEF NoLostWakeup
  <2>6. \A d \in Devices : Heard(d)' => Heard(d)
    BY <2>1, <2>2 DEF Heard
  <2>7. RecordInv'
    BY <2>3, <2>6, RecordKept DEF ReadsInv
  <2> QED BY <2>2, <2>3, <2>4, <2>5, <2>7 DEF ReadsInv
<1>3. CASE ClearLedger
  <2>1. /\ Forgotten(clearing) /\ clearing' = {} /\ wake' = wake /\ reader' = reader
        /\ news' = news /\ fixture' = fixture /\ rdmEvents' = rdmEvents
        /\ naming' = naming /\ signalling' = signalling /\ missed' = missed
    BY <1>3 DEF ClearLedger, registryVars
  <2>2. /\ LedgerOK' /\ (readQueue = <<>> => readQueue' = <<>>)
        /\ \A d \in Devices : ledger'[d].state \in {"read", "reading"}
             => d \notin clearing /\ ledger'[d] = ledger[d]
    BY <2>1, ForgottenLedger DEF ReadsInv
  <2>3. RegistryOK'
    BY <2>1 DEF ReadsInv, RegistryOK
  <2>4. ReaderOK'
    BY <2>1 DEF ReadsInv, ReaderOK
  <2>5. NoLostWakeup'
    BY <2>1, <2>2 DEF ReadsInv, NoLostWakeup
  <2>6. ASSUME NEW d \in Devices, Heard(d)' PROVE OnRecord(d)'
    <3>1. Heard(d) /\ d \notin clearing
      BY <2>1, <2>2, <2>6 DEF Heard
    <3>2. OnRecord(d)
      BY <3>1 DEF ReadsInv, RecordInv
    <3> QED BY <2>1, <3>1, <3>2 DEF OnRecord
  <2>7. RecordInv'
    BY <2>6 DEF RecordInv
  <2> QED BY <2>2, <2>3, <2>4, <2>5, <2>7 DEF ReadsInv
<1> QED BY <1>1, <1>2, <1>3

LEMMA ClearRegistryKeeps ==
  ASSUME ReadsInv, NEW ds \in SUBSET Devices, ClearRegistry(ds)
  PROVE  ReadsInv'
<1>1. /\ clearing = {} /\ News /\ clearing' = ds /\ reader' = reader /\ wake' = wake
      /\ fixture' = [d \in Devices |-> IF d \in ds THEN "absent" ELSE fixture[d]]
      /\ rdmEvents' = rdmEvents /\ naming' = naming /\ signalling' = signalling
      /\ missed' = missed /\ ledger' = ledger /\ readQueue' = readQueue
  BY DEF ClearRegistry, ledgerVars
<1>2. LedgerOK' /\ ReaderOK'
  BY <1>1, SameLedger, NewsCounts DEF ReadsInv, ReaderOK
<1>3. RegistryOK'
  <2>1. fixture' \in [Devices -> {"absent", "listed", "read"}]
    BY <1>1 DEF ReadsInv, RegistryOK
  <2> QED BY <1>1, <2>1 DEF ReadsInv, RegistryOK
<1>4. NoLostWakeup'
  BY <1>1 DEF ReadsInv, NoLostWakeup
<1>5. ASSUME NEW d \in Devices, OnRecord(d) PROVE OnRecord(d)'
  <2>1. CASE d \in ds
    BY <1>1, <2>1 DEF OnRecord
  <2>2. CASE d \notin ds
    <3>1. fixture'[d] = fixture[d] /\ d \notin clearing
      BY <1>1, <2>2
    <3> QED BY <1>1, <1>5, <3>1 DEF OnRecord
  <2> QED BY <2>1, <2>2
<1>6. \A d \in Devices : Heard(d)' => Heard(d)
  BY <1>1 DEF Heard
<1>7. RecordInv'
  BY <1>5, <1>6, RecordKept DEF ReadsInv
<1> QED BY <1>2, <1>3, <1>4, <1>7 DEF ReadsInv

\* The reader's own steps.
LEMMA ReaderKeeps ==
  ASSUME ReadsInv, ReaderStep \/ CancelReader
  PROVE  ReadsInv'
<1>1. CASE Take
  <2>1. UNCHANGED <<registryVars, clearing>>
    BY <1>1 DEF Take
  <2>2. /\ LedgerOK' /\ ReaderOK' /\ (reader'.at = "wait" => readQueue' = <<>>)
        /\ reader'.at \in {"wait", "pass"}
        /\ \A d \in Devices : ledger'[d].state = "read" => ledger[d].state = "read"
    BY <1>1, TakeLedger DEF ReadsInv
  <2>3. RegistryOK' /\ \A d \in Devices : OnRecord(d) <=> OnRecord(d)'
    BY <2>1, SameRegistry DEF ReadsInv
  <2>4. NoLostWakeup'
    BY <2>2 DEF NoLostWakeup
  <2>5. \A d \in Devices : Heard(d)' => Heard(d)
    BY <2>2 DEF Heard
  <2>6. RecordInv'
    BY <2>3, <2>5, RecordKept DEF ReadsInv
  <2> QED BY <2>2, <2>3, <2>4, <2>6 DEF ReadsInv
<1>2. CASE Woken
  <2>1. /\ UNCHANGED <<registryVars, clearing>> /\ ledger' = ledger /\ readQueue' = readQueue
        /\ wake' = FALSE /\ reader' = [reader EXCEPT !.at = "take"] /\ news' = news
    BY <1>2 DEF Woken
  <2>2. RegistryOK' /\ \A d \in Devices : OnRecord(d) <=> OnRecord(d)'
    BY <2>1, SameRegistry DEF ReadsInv
  <2>3. LedgerOK'
    BY <2>1, SameLedger DEF ReadsInv
  <2>4. ReaderOK' /\ reader'.at = "take"
    BY <2>1 DEF ReadsInv, ReaderOK
  <2>5. NoLostWakeup'
    BY <2>4 DEF NoLostWakeup
  <2>6. \A d \in Devices : Heard(d)' => Heard(d)
    BY <2>1, <2>4 DEF Heard
  <2>7. RecordInv'
    BY <2>2, <2>6, RecordKept DEF ReadsInv
  <2> QED BY <2>2, <2>3, <2>4, <2>5, <2>7 DEF ReadsInv
<1>3. CASE PassAnswered
  <2>1. ledger' = ledger /\ readQueue' = readQueue
    BY <1>3 DEF PassAnswered, ledgerVars
  <2>2. /\ RegistryOK' /\ Recorded
        /\ \A d \in Devices : d = reader.device => OnRecord(d)'
        /\ ReaderOK' /\ reader'.at = "file" /\ reader'.device = reader.device
    BY <1>3, PassRegistry DEF ReadsInv
  <2>3. LedgerOK'
    BY <2>1, SameLedger DEF ReadsInv
  <2>4. NoLostWakeup'
    BY <2>2 DEF NoLostWakeup
  <2>5. ASSUME NEW d \in Devices, Heard(d)' PROVE OnRecord(d)'
    <3>1. CASE d = reader.device
      BY <2>2, <3>1
    <3>2. CASE d # reader.device
      <4>1. Heard(d)
        BY <2>1, <2>2, <2>5, <3>2 DEF Heard
      <4>2. OnRecord(d)
        BY <4>1 DEF ReadsInv, RecordInv
      <4> QED BY <2>2, <4>2, RecordedStays
    <3> QED BY <3>1, <3>2
  <2>6. RecordInv'
    BY <2>5 DEF RecordInv
  <2> QED BY <2>2, <2>3, <2>4, <2>6 DEF ReadsInv
<1>4. CASE PassFailed
  <2>1. /\ UNCHANGED <<registryVars, clearing>> /\ ledger' = ledger /\ readQueue' = readQueue
        /\ wake' = wake /\ news' = news
        /\ reader' = [reader EXCEPT !.at = "file", !.info = FALSE]
    BY <1>4 DEF PassFailed, ledgerVars
  <2>2. RegistryOK' /\ \A d \in Devices : OnRecord(d) <=> OnRecord(d)'
    BY <2>1, SameRegistry DEF ReadsInv
  <2>3. LedgerOK'
    BY <2>1, SameLedger DEF ReadsInv
  <2>4. ReaderOK' /\ reader'.at = "file" /\ ~reader'.info
    BY <2>1 DEF ReadsInv, ReaderOK
  <2>5. NoLostWakeup'
    BY <2>4 DEF NoLostWakeup
  <2>6. \A d \in Devices : Heard(d)' => Heard(d)
    BY <2>1, <2>4 DEF Heard
  <2>7. RecordInv'
    BY <2>2, <2>6, RecordKept DEF ReadsInv
  <2> QED BY <2>2, <2>3, <2>4, <2>5, <2>7 DEF ReadsInv
<1>5. CASE File
  <2>1. UNCHANGED <<registryVars, clearing>>
    BY <1>5 DEF File
  <2>2. /\ LedgerOK' /\ ReaderOK' /\ reader'.at = "take"
        /\ \A d \in Devices : ledger'[d].state = "read" => Heard(d)
    BY <1>5, FileLedger DEF ReadsInv
  <2>3. RegistryOK' /\ \A d \in Devices : OnRecord(d) <=> OnRecord(d)'
    BY <2>1, SameRegistry DEF ReadsInv
  <2>4. NoLostWakeup'
    BY <2>2 DEF NoLostWakeup
  <2>5. \A d \in Devices : Heard(d)' => Heard(d)
    <3>1. \A d \in Devices : Heard(d)' => ledger'[d].state = "read"
      BY <2>2 DEF Heard
    <3> QED BY <2>2, <3>1
  <2>6. RecordInv'
    BY <2>3, <2>5, RecordKept DEF ReadsInv
  <2> QED BY <2>2, <2>3, <2>4, <2>6 DEF ReadsInv
<1>6. CASE ReaderEnds \/ CancelReader
  <2>1. /\ UNCHANGED <<registryVars, clearing>> /\ ledger' = ledger /\ readQueue' = readQueue
        /\ wake' = wake /\ news' = news
    BY <1>6 DEF ReaderEnds, CancelReader, ledgerVars
  <2>2. RegistryOK' /\ \A d \in Devices : OnRecord(d) <=> OnRecord(d)'
    BY <2>1, SameRegistry DEF ReadsInv
  <2>3. LedgerOK'
    BY <2>1, SameLedger DEF ReadsInv
  <2>4. /\ ReaderOK' /\ reader'.device = reader.device /\ reader'.info = reader.info
        /\ reader'.at = reader.at \/ reader'.at = "ended"
    BY <1>6, <2>1 DEF ReadsInv, ReaderOK, ReaderEnds, CancelReader
  <2>5. NoLostWakeup'
    BY <2>1, <2>4 DEF ReadsInv, NoLostWakeup, registryVars
  <2>6. \A d \in Devices : Heard(d)' => Heard(d)
    BY <2>1, <2>4 DEF Heard
  <2>7. RecordInv'
    BY <2>2, <2>6, RecordKept DEF ReadsInv
  <2> QED BY <2>2, <2>3, <2>4, <2>5, <2>7 DEF ReadsInv
<1> QED BY <1>1, <1>2, <1>3, <1>4, <1>5, <1>6 DEF ReaderStep

LEMMA ReadsStep ==
  ASSUME ReadsInv, [ReadsNext]_devVars
  PROVE  ReadsInv'
<1>1. CASE ReaderStep \/ CancelReader
  BY <1>1, ReaderKeeps
<1>2. CASE RegistryStep \/ \E p \in DevPorts, ds \in SUBSET DevUIDs : TableArrives(p, ds)
  BY <1>2, RegistryKeeps
<1>3. CASE \/ \E x \in DevUIDs : ForgetUID(x)
           \/ \E d \in Devices : Recovered(d)
           \/ ClearLedger
  BY <1>3, ForgettingKeeps
<1>4. CASE ClearRegistry(Devices)
  BY <1>4, ClearRegistryKeeps
<1>5. ASSUME NEW p \in DevPorts, ClearRegistry([port : {p}, uid : DevUIDs])
      PROVE  ReadsInv'
  <2> DEFINE ds == [port : {p}, uid : DevUIDs]
  <2>1. ds \in SUBSET Devices
    BY DEF Devices
  <2> HIDE DEF ds
  <2> QED BY <1>5, <2>1, ClearRegistryKeeps DEF ds
<1>6. CASE UNCHANGED devVars
  <2>1. /\ UNCHANGED <<registryVars, clearing>> /\ ledger' = ledger /\ readQueue' = readQueue
        /\ wake' = wake /\ news' = news /\ reader' = reader
    BY <1>6 DEF devVars, registryVars
  <2>2. RegistryOK' /\ \A d \in Devices : OnRecord(d) <=> OnRecord(d)'
    BY <2>1, SameRegistry DEF ReadsInv
  <2>3. LedgerOK' /\ ReaderOK'
    BY <2>1, SameLedger DEF ReadsInv, ReaderOK
  <2>4. NoLostWakeup'
    BY <2>1 DEF ReadsInv, NoLostWakeup, registryVars
  <2>5. \A d \in Devices : Heard(d)' => Heard(d)
    BY <2>1 DEF Heard
  <2>6. RecordInv'
    BY <2>2, <2>5, RecordKept DEF ReadsInv
  <2> QED BY <2>2, <2>3, <2>4, <2>6 DEF ReadsInv
<1> QED BY <1>1, <1>2, <1>3, <1>4, <1>5, <1>6 DEF ReadsNext

LEMMA ReadsStarts == ASSUME ReadsInit PROVE ReadsInv
<1> DEFINE d0 == CHOOSE d \in Devices : TRUE
<1>1. d0 \in Devices
  BY ReadsAssumption
<1>2. /\ fixture = [d \in Devices |-> "absent"] /\ rdmEvents = <<>> /\ naming = <<>>
      /\ signalling = FALSE /\ ledger = [d \in Devices |-> Unknown] /\ readQueue = <<>>
      /\ wake = FALSE /\ clearing = {} /\ missed = {} /\ news = 0
      /\ reader = [at |-> "take", device |-> d0, info |-> FALSE, cancelled |-> FALSE]
  BY DEF ReadsInit
<1> HIDE DEF d0
<1>3. Unknown \in Entries /\ Budget(Unknown) /\ Unknown.state = "unknown"
  BY ReadsAssumption DEF Unknown, Entries, States, Budget
<1>4. LedgerOK
  <2>1. readQueue \in Seq(Devices) /\ DOMAIN readQueue = {}
    BY <1>2
  <2> QED BY <1>2, <1>3, <2>1 DEF LedgerOK, Queues, NoneTwice
<1>5. RegistryOK
  <2>1. rdmEvents \in Seq(Events)
    BY <1>2
  <2>2. naming \in Seq(Devices)
    BY <1>2
  <2>3. Len(rdmEvents) = 0
    BY <1>2
  <2>4. Len(rdmEvents) <= RDMEvents
    BY <2>3, ReadsAssumption
  <2>5. fixture \in [Devices -> {"absent", "listed", "read"}]
    BY <1>2
  <2> QED BY <1>2, <2>1, <2>2, <2>4, <2>5 DEF RegistryOK
<1>6. ReaderOK
  <2>1. reader \in [at : {"take", "wait", "pass", "file", "ended"}, device : Devices,
                    info : BOOLEAN, cancelled : BOOLEAN]
    BY <1>1, <1>2
  <2>2. wake \in BOOLEAN
    BY <1>2
  <2>3. news = 0 /\ MaxNews \in Nat
    BY <1>2, ReadsAssumption
  <2>4. news \in 0 .. MaxNews
    BY <2>3
  <2> QED BY <2>1, <2>2, <2>4 DEF ReaderOK
<1>7. NoLostWakeup
  BY <1>2 DEF NoLostWakeup
<1>8. RecordInv
  BY <1>2, <1>3 DEF RecordInv, Heard
<1> QED BY <1>4, <1>5, <1>6, <1>7, <1>8 DEF ReadsInv

LEMMA ReadsAlways == ReadsSpec => []ReadsInv
BY ReadsStarts, ReadsStep, PTL DEF ReadsSpec

(* The automatic reads keep their types and the ledger's order: every device    *)
(* that is pending has one slot in the queue and no other has any, through any   *)
(* interleaving of notes, forgets, passes and clears, and a reader that sleeps   *)
(* beside a queue has been, or is about to be, woken (dropQueuedLocked, take and *)
(* readOne of internal/autoread/autoread.go).                                    *)
THEOREM LedgerIsSound == ReadsSpec => [](ReadsTypeOK /\ PendingIsQueued /\ NoLostWakeup)
<1>1. ASSUME ReadsInv PROVE ReadsTypeOK /\ PendingIsQueued /\ NoLostWakeup
  <2>1. PendingIsQueued
    BY <1>1, QueueCounts DEF ReadsInv, LedgerOK
  <2>2. /\ ledger \in [Devices -> [state : {"unknown", "pending", "reading", "read", "gaveUp"},
                                   attempts : 0 .. MaxAttempts]]
        /\ readQueue \in Seq(Devices)
    BY <1>1 DEF ReadsInv, LedgerOK, Queues, Entries, States
  <2>3. ReadsTypeOK
    BY <1>1, <2>2 DEF ReadsInv, RegistryOK, ReaderOK, ReadsTypeOK
  <2> QED BY <1>1, <2>1, <2>3 DEF ReadsInv
<1> QED BY <1>1, ReadsAlways, PTL

(* A device the ledger calls read has its DEVICE_INFO in the registry, on its    *)
(* way there or counted as dropped, or a clear is about to reach the ledger: the *)
(* two halves of POST /api/devices/clear never leave an empty registry behind a  *)
(* full ledger (internal/autoread/autoread.go, readOne and Forget).              *)
THEOREM ReadsAreOnRecord == ReadsSpec => []ReadIsOnRecord
<1>1. ASSUME ReadsInv PROVE ReadIsOnRecord
  BY <1>1 DEF ReadsInv, RecordInv, Heard, OnRecord, ReadIsOnRecord
<1> QED BY <1>1, ReadsAlways, PTL

--------------------------------------------------------------------------------
(* RigWalk: requests one at a time.                                              *)

Rest == {"idle", "over"}
Ops == [do : Rest \cup {"stop", "build", "leave", "left", "enter", "entered",
                        "retried", "quieted", "silenced", "ended"},
        snap : {noSession} \cup Walks, index : Nat, err : BOOLEAN]

\* A walk visits a device once.
Visits(w) ==
  /\ w \in Walks
  /\ \A i, j \in 1 .. Len(w.devices) : w.devices[i].device = w.devices[j].device => i = j
SameDevices(w, v) ==
  /\ Len(w.devices) = Len(v.devices)
  /\ \A j \in 1 .. Len(w.devices) : w.devices[j].device = v.devices[j].device

\* A device that flashes is in place p, or its entry says so.
Stray(p) ==
  session # noSession =>
    \A j \in 1 .. Len(session.devices) :
      session.devices[j].device \in flashing \ leftover => j = p \/ session.devices[j].err

\* What a request that is under way may count on while it is alone.
OpOK(op) ==
  /\ op.do = "leave" => Stray(session.current)
  /\ op.do = "left" =>
       /\ op.snap = session /\ Visits(op.snap) /\ session # noSession
       /\ op.index \in 1 .. Len(session.devices)
       /\ session.current \in 1 .. Len(session.devices)
       /\ Stray(session.current)
       /\ op.err \/ session.devices[session.current].device \notin flashing
  /\ op.do \in {"enter", "entered"} =>
       /\ Visits(op.snap) /\ op.index \in 1 .. Len(op.snap.devices)
       /\ session # noSession => SameDevices(session, op.snap)
       /\ Stray(op.index)
  /\ op.do \in {"retried", "quieted"} =>
       /\ op.snap = session /\ session # noSession
       /\ session.current \in 1 .. Len(session.devices)
       /\ Stray(session.current)
  /\ op.do = "silenced" =>
       /\ Visits(op.snap)
       /\ session # noSession =>
            /\ SameDevices(session, op.snap)
            /\ \A j \in 1 .. Len(session.devices) :
                 session.devices[j].device \in flashing \ leftover => op.snap.devices[j].err

StoreOK ==
  /\ session = noSession \/ Visits(session)
  /\ disk = noSession \/ Visits(disk)
  /\ flashing \subseteq Fixtures /\ leftover \subseteq Fixtures
Others(r) == \A q \in WalkReqs \ {r} : ops[q].do \in Rest

WalkInv ==
  /\ StoreOK
  /\ ops \in [WalkReqs -> Ops]
  /\ \A r, q \in WalkReqs : r = q \/ ops[r].do \in Rest \/ ops[q].do \in Rest
  /\ \A r \in WalkReqs : OpOK(ops[r])
  /\ (\A r \in WalkReqs : ops[r].do \in Rest) => Stray(session.current)

LEMMA NobodyBusy ==
  ASSUME Overlap = 1, WalkInv, NEW r \in WalkReqs, May(r)
  PROVE  /\ \A q \in WalkReqs : ops[q].do \in Rest
         /\ Others(r) /\ Stray(session.current)
<1>1. IsFiniteSet(Busy) /\ Cardinality(Busy) \in Nat
  BY WalkAssumption, FS_Subset, FS_CardinalityType DEF Busy
<1>2. Cardinality(Busy) = 0
  BY <1>1 DEF May
<1>3. Busy = {}
  BY <1>1, <1>2, FS_EmptySet
<1>4. \A q \in WalkReqs : ops[q].do \in Rest
  BY <1>3 DEF Busy, Rest
<1> QED BY <1>4 DEF WalkInv, Others

LEMMA OthersRest ==
  ASSUME WalkInv, NEW r \in WalkReqs, ops[r].do \notin Rest
  PROVE  Others(r)
BY DEF WalkInv, Others

\* A request's step: what is left of it holds, and the walk is in order when
\* nothing is.
LEMMA WalkMoves ==
  ASSUME WalkInv, NEW r \in WalkReqs, Others(r), StoreOK',
         ops' = [ops EXCEPT ![r] = ops'[r]], ops'[r] \in Ops,
         OpOK(ops[r])', ops'[r].do \in Rest => Stray(session.current)'
  PROVE  WalkInv'
<1>1. ops' \in [WalkReqs -> Ops] /\ \A q \in WalkReqs \ {r} : ops'[q] = ops[q]
  BY DEF WalkInv
<1>2. \A q \in WalkReqs \ {r} : ops'[q].do \in Rest
  BY <1>1 DEF Others
<1>3. \A q \in WalkReqs : OpOK(ops[q])'
  BY <1>2 DEF OpOK, Rest
<1> QED BY <1>1, <1>2, <1>3 DEF WalkInv


\* A mark changes one entry, and not its device.
LEMMA MarkedFacts ==
  ASSUME NEW w, Visits(w), NEW i \in 1 .. Len(w.devices),
         NEW on \in BOOLEAN, NEW err \in BOOLEAN, NEW m, m = Marked(w, i, on, err)
  PROVE  /\ Visits(m) /\ SameDevices(m, w) /\ m.current = w.current
         /\ m.devices[i].err = err
         /\ \A j \in 1 .. Len(w.devices) : j # i => m.devices[j].err = w.devices[j].err
<1> DEFINE e == [w.devices[i] EXCEPT !.on = on, !.err = err]
           s == [w.devices EXCEPT ![i] = e]
<1>1. w \in Walks /\ w.devices \in Seq(Entry) /\ w.devices[i] \in Entry
  BY DEF Visits, Walks
<1>2. e \in Entry /\ e.device = w.devices[i].device /\ e.err = err
  BY <1>1 DEF Entry
<1>3. m = [w EXCEPT !.devices = s]
  BY <1>1 DEF Marked, Walks, Entry
<1> HIDE DEF e
<1>4. /\ s \in Seq(Entry) /\ Len(s) = Len(w.devices)
      /\ \A j \in 1 .. Len(w.devices) : s[j] = IF j = i THEN e ELSE w.devices[j]
  BY <1>1, <1>2, ExceptSeq
<1> HIDE DEF s
<1>5. m \in Walks /\ m.devices = s /\ m.current = w.current
  BY <1>1, <1>3, <1>4 DEF Walks
<1>6. \A j \in 1 .. Len(w.devices) : s[j].device = w.devices[j].device
  BY <1>2, <1>4
<1>7. SameDevices(m, w)
  BY <1>4, <1>5, <1>6 DEF SameDevices
<1>8. Visits(m)
  BY <1>4, <1>5, <1>6 DEF Visits
<1> QED BY <1>2, <1>4, <1>5, <1>7, <1>8

\* A new cursor, or a new value of the switch, leaves the entries alone.
LEMMA CursorFacts ==
  ASSUME NEW w, Visits(w), NEW v, v \in Walks, v.devices = w.devices
  PROVE  Visits(v) /\ SameDevices(v, w)
BY DEF Visits, SameDevices

LEMMA NewWalkFacts ==
  ASSUME NEW ds \in Orders, NEW w, w = NewWalk(ds)
  PROVE  Visits(w)
<1>1. PICK n \in 1 .. Cardinality(Fixtures) : ds \in [1 .. n -> Fixtures]
  BY DEF Orders
<1>2. IsInjective(ds)
  BY DEF Orders
<1>3. ds \in Seq(Fixtures) /\ Len(ds) = n /\ n \in Nat
  BY <1>1
<1> DEFINE E(i) == [device |-> ds[i], status |-> "unvisited", on |-> FALSE, err |-> FALSE]
           s == [i \in 1 .. n |-> E(i)]
<1>4. \A i \in 1 .. n : E(i) \in Entry /\ E(i).device = ds[i]
  BY <1>1 DEF Entry
<1>5. w = [devices |-> s, current |-> 0, auto |-> TRUE]
  BY <1>3 DEF NewWalk
<1> HIDE DEF E
<1>6. s \in Seq(Entry) /\ Len(s) = n /\ \A i \in 1 .. n : s[i] = E(i)
  BY <1>3, <1>4
<1> HIDE DEF s
<1>7. w \in Walks /\ w.devices = s
  BY <1>5, <1>6 DEF Walks
<1>8. \A i, j \in 1 .. n : ds[i] = ds[j] => i = j
  BY <1>1, <1>2 DEF IsInjective
<1> QED BY <1>4, <1>6, <1>7, <1>8 DEF Visits

\* Every entry off, each with its own outcome.
Off(e, bad) == [e EXCEPT !.on = FALSE, !.err = bad]

LEMMA OffFacts ==
  ASSUME NEW s \in Seq(Entry), NEW bad, \A i \in 1 .. Len(s) : bad[i] \in BOOLEAN,
         NEW t, t = [i \in 1 .. Len(s) |-> Off(s[i], bad[i])]
  PROVE  /\ t \in Seq(Entry) /\ Len(t) = Len(s)
         /\ \A i \in 1 .. Len(s) : t[i].device = s[i].device /\ t[i].err = bad[i]
<1>1. Len(s) \in Nat /\ \A i \in 1 .. Len(s) : s[i] \in Entry
  OBVIOUS
<1>2. ASSUME NEW i \in 1 .. Len(s)
      PROVE  /\ Off(s[i], bad[i]) \in Entry
             /\ Off(s[i], bad[i]).device = s[i].device /\ Off(s[i], bad[i]).err = bad[i]
  <2>1. s[i] \in Entry /\ bad[i] \in BOOLEAN
    BY <1>1
  <2> QED BY <2>1 DEF Off, Entry
<1>3. t \in Seq(Entry) /\ Len(t) = Len(s) /\ \A i \in 1 .. Len(s) : t[i] = Off(s[i], bad[i])
  BY <1>1, <1>2
<1> QED BY <1>2, <1>3

LEMMA IdentifyFacts ==
  ASSUME NEW d \in Fixtures, NEW on \in BOOLEAN, NEW err \in Outcomes, flashing \subseteq Fixtures,
         SetIdentify(d, on, err)
  PROVE  /\ err \in BOOLEAN /\ flashing' \subseteq Fixtures
         /\ \A x \in Fixtures \ {d} : x \in flashing' => x \in flashing
         /\ ~on => flashing' \subseteq flashing
         /\ (~on /\ ~err) => d \notin flashing'
<1>1. err \in BOOLEAN
  BY WalkAssumption
<1>2. \/ flashing' = (IF on THEN flashing \cup {d} ELSE flashing \ {d})
      \/ err /\ flashing' = flashing
  BY <1>1 DEF SetIdentify
<1> QED BY <1>1, <1>2

LEMMA CurrentFacts ==
  ASSUME NEW w, w = noSession \/ Visits(w), NEW d \in CurrentDevice(w)
  PROVE  /\ w # noSession /\ Visits(w) /\ w.current \in 1 .. Len(w.devices)
         /\ d = w.devices[w.current].device /\ d \in Fixtures
<1>1. w # noSession /\ w.current \in 1 .. Len(w.devices) /\ d = w.devices[w.current].device
  BY DEF CurrentDevice
<1>2. Visits(w) /\ w.devices \in Seq(Entry)
  BY <1>1 DEF Visits, Walks
<1>3. w.devices[w.current] \in Entry
  BY <1>1, <1>2
<1>4. d \in Fixtures
  BY <1>1, <1>3 DEF Entry
<1> QED BY <1>1, <1>2, <1>4

\* What a step that leaves the store alone keeps.
LEMMA SameStore ==
  ASSUME StoreOK, UNCHANGED <<session, disk, leftover>>, flashing' \subseteq Fixtures
  PROVE  StoreOK'
BY DEF StoreOK

LEMMA FewerStray ==
  ASSUME UNCHANGED <<session, leftover>>, flashing' \subseteq flashing, NEW p, Stray(p)
  PROVE  Stray(p)'
BY DEF Stray

LEMMA StoredOK ==
  ASSUME StoreOK, NEW w, Visits(w), Stored(w), UNCHANGED <<flashing, leftover>>
  PROVE  StoreOK' /\ session' = w
BY DEF StoreOK, Stored

\* The first steps of a start and of a goto.
LEMMA StartKeeps ==
  ASSUME Overlap = 1, WalkInv, NEW r \in WalkReqs,
         Start(r) \/ \E i \in 1 .. Cardinality(Fixtures) : Goto(r, i)
  PROVE  WalkInv'
<1>1. UNCHANGED <<session, disk, flashing, leftover>> /\ May(r)
  BY DEF Start, Goto
<1>2. Others(r) /\ Stray(session.current)
  BY <1>1, NobodyBusy
<1>3. StoreOK' /\ Stray(session.current)'
  BY <1>1, <1>2 DEF WalkInv, StoreOK, Stray
<1>4. ops' = [ops EXCEPT ![r] = ops'[r]] /\ ops'[r] \in Ops /\ ops'[r].do \in {"build", "leave"}
  <2>1. CASE Start(r)
    <3>1. session \in {noSession} \cup Walks
      BY DEF WalkInv, StoreOK, Visits
    <3>2. ops' = [ops EXCEPT ![r] = [Idle EXCEPT !.do = "build", !.snap = session]]
      BY <2>1 DEF Start, Becomes
    <3>3. [Idle EXCEPT !.do = "build", !.snap = session] \in Ops
      BY <3>1 DEF Idle, Ops, Rest
    <3>4. ops'[r] = [Idle EXCEPT !.do = "build", !.snap = session]
      BY <3>2 DEF WalkInv
    <3>5. ops'[r].do = "build"
      BY <3>4 DEF Idle
    <3> QED BY <3>2, <3>3, <3>4, <3>5
  <2>2. ASSUME NEW i \in 1 .. Cardinality(Fixtures), Goto(r, i)
        PROVE  /\ ops' = [ops EXCEPT ![r] = ops'[r]] /\ ops'[r] \in Ops
               /\ ops'[r].do \in {"build", "leave"}
    <3>1. i \in Nat
      OBVIOUS
    <3>2. ops' = [ops EXCEPT ![r] = [Idle EXCEPT !.do = "leave", !.index = i]]
      BY <2>2 DEF Goto, Becomes
    <3>3. [Idle EXCEPT !.do = "leave", !.index = i] \in Ops
      BY <3>1 DEF Idle, Ops, Rest
    <3>4. ops'[r] = [Idle EXCEPT !.do = "leave", !.index = i]
      BY <3>2 DEF WalkInv
    <3>5. ops'[r].do = "leave"
      BY <3>4 DEF Idle
    <3> QED BY <3>2, <3>3, <3>4, <3>5
  <2> QED BY <2>1, <2>2
<1>5. OpOK(ops[r])' /\ ops'[r].do \notin Rest
  BY <1>3, <1>4 DEF OpOK, Rest
<1> QED BY <1>2, <1>3, <1>4, <1>5, WalkMoves

\* Build and Ended: the session is another, or none, and nothing of it flashes.
LEMMA BuildKeeps ==
  ASSUME WalkInv, NEW r \in WalkReqs,
         (\E ds \in Orders : Build(r, ds)) \/ Ended(r)
  PROVE  WalkInv'
<1>1. ASSUME NEW ds \in Orders, Build(r, ds) PROVE WalkInv'
  <2> DEFINE v == NewWalk(ds)
             o == [Idle EXCEPT !.do = "leave", !.index = 1]
  <2>1. /\ ops[r].do = "build" /\ Stored(v) /\ leftover' = flashing' /\ ops' = [ops EXCEPT ![r] = o]
    BY <1>1 DEF Build, Becomes
  <2>2. ops[r].do \notin Rest
    BY <2>1 DEF Rest
  <2>3. Visits(v)
    BY NewWalkFacts
  <2>4. flashing' \subseteq Fixtures
    <3>1. CASE flashing' = flashing
      BY <3>1 DEF WalkInv, StoreOK
    <3>2. ASSUME NEW err \in Outcomes, NEW d \in CurrentDevice(ops[r].snap),
                 SetIdentify(d, FALSE, err)
          PROVE  flashing' \subseteq Fixtures
      <4>1. flashing' \subseteq flashing
        BY <3>2 DEF SetIdentify
      <4> QED BY <4>1 DEF WalkInv, StoreOK
    <3> QED BY <1>1, <3>1, <3>2 DEF Build
  <2> HIDE DEF v
  <2>5. StoreOK'
    BY <2>1, <2>3, <2>4 DEF WalkInv, StoreOK, Stored
  <2>6. o \in Ops /\ o.do = "leave"
    BY DEF Idle, Ops, Rest
  <2> HIDE DEF o
  <2>7. ops'[r] = o /\ ops' = [ops EXCEPT ![r] = ops'[r]]
    BY <2>1 DEF WalkInv
  <2>8. \A p : Stray(p)'
    BY <2>1 DEF Stray
  <2>9. OpOK(ops[r])'
    BY <2>6, <2>7, <2>8 DEF OpOK
  <2> QED BY <2>2, <2>5, <2>6, <2>7, <2>8, <2>9, OthersRest, WalkMoves
<1>2. CASE Ended(r)
  <2> DEFINE o == [Idle EXCEPT !.do = "over"]
  <2>1. /\ ops[r].do = "ended" /\ session' = noSession /\ disk' \in {noSession, disk}
        /\ leftover' = flashing /\ flashing' = flashing /\ ops' = [ops EXCEPT ![r] = o]
    BY <1>2 DEF Ended, Over, Becomes
  <2>2. ops[r].do \notin Rest
    BY <2>1 DEF Rest
  <2>3. StoreOK'
    BY <2>1 DEF WalkInv, StoreOK
  <2>4. o \in Ops /\ o.do = "over"
    BY DEF Idle, Ops, Rest
  <2> HIDE DEF o
  <2>5. ops'[r] = o /\ ops' = [ops EXCEPT ![r] = ops'[r]]
    BY <2>1 DEF WalkInv
  <2>6. Stray(session.current)'
    BY <2>1 DEF Stray
  <2>7. OpOK(ops[r])'
    BY <2>4, <2>5 DEF OpOK
  <2> QED BY <2>2, <2>3, <2>4, <2>5, <2>6, <2>7, OthersRest, WalkMoves
<1> QED BY <1>1, <1>2

\* Leave reads the session and turns the device it leaves off.
LEMMA LeaveKeeps ==
  ASSUME WalkInv, NEW r \in WalkReqs, Leave(r)
  PROVE  WalkInv'
<1> DEFINE i == ops[r].index
           reachable == session # noSession /\ i \in 1 .. Len(session.devices)
           prev == IF reachable THEN CurrentDevice(session) ELSE {}
<1>1. /\ ops[r].do = "leave" /\ UNCHANGED <<session, disk, leftover>>
      /\ ops[r] \in Ops /\ i \in Nat
  <2>1. ops[r] \in Ops
    BY DEF WalkInv
  <2>2. ops[r].index \in Nat
    BY <2>1 DEF Ops
  <2> QED BY <2>1, <2>2 DEF Leave
<1>2. ops[r].do \notin Rest /\ Others(r) /\ Stray(session.current)
  <2>1. ops[r].do \notin Rest
    BY <1>1 DEF Rest
  <2>2. OpOK(ops[r])
    BY DEF WalkInv
  <2> QED BY <1>1, <2>1, <2>2, OthersRest DEF OpOK
<1>3. CASE ~reachable /\ Over(r) /\ UNCHANGED flashing
  <2> DEFINE o == [Idle EXCEPT !.do = "over"]
  <2>1. ops' = [ops EXCEPT ![r] = o]
    BY <1>3 DEF Over, Becomes
  <2>2. o \in Ops /\ o.do = "over"
    BY DEF Idle, Ops, Rest
  <2> HIDE DEF o
  <2>3. ops'[r] = o /\ ops' = [ops EXCEPT ![r] = ops'[r]]
    BY <2>1 DEF WalkInv
  <2>4. OpOK(ops[r])'
    BY <2>2, <2>3 DEF OpOK
  <2>5. StoreOK' /\ Stray(session.current)'
    BY <1>1, <1>2, <1>3 DEF WalkInv, StoreOK, Stray
  <2> QED BY <1>2, <2>2, <2>3, <2>4, <2>5, WalkMoves
<1>4. CASE /\ reachable
           /\ prev = {} \/ session.current = i
           /\ Becomes(r, [ops[r] EXCEPT !.do = "enter", !.snap = session])
           /\ UNCHANGED flashing
  <2> DEFINE o == [ops[r] EXCEPT !.do = "enter", !.snap = session]
  <2>1. ops' = [ops EXCEPT ![r] = o]
    BY <1>4 DEF Becomes
  <2>2. session # noSession /\ Visits(session) /\ i \in 1 .. Len(session.devices)
    BY <1>4 DEF WalkInv, StoreOK
  <2>3. o \in Ops /\ o.do = "enter" /\ o.snap = session /\ o.index = i
    BY <1>1, <2>2 DEF Ops, Visits
  <2>4. Stray(i)
    <3>1. CASE session.current = i
      BY <1>2, <3>1
    <3>2. CASE prev = {}
      <4>1. session.current \notin 1 .. Len(session.devices)
        BY <1>4, <3>2 DEF CurrentDevice
      <4> QED BY <1>2, <4>1 DEF Stray
    <3> QED BY <1>4, <3>1, <3>2
  <2> HIDE DEF o, i
  <2>5. ops'[r] = o /\ ops' = [ops EXCEPT ![r] = ops'[r]]
    BY <2>1 DEF WalkInv
  <2>6. StoreOK'
    BY <1>1, <1>4 DEF WalkInv, StoreOK
  <2>7. Stray(ops[r].index)'
    BY <1>1, <1>4, <2>3, <2>4, <2>5 DEF Stray
  <2>8. OpOK(ops[r])'
    BY <1>1, <2>2, <2>3, <2>5, <2>7 DEF OpOK, SameDevices
  <2>9. ops'[r] \in Ops /\ ops'[r].do \notin Rest
    BY <2>3, <2>5 DEF Rest
  <2> QED BY <1>2, <2>5, <2>6, <2>8, <2>9, WalkMoves
<1>5. ASSUME reachable, NEW err \in Outcomes, NEW d \in prev, SetIdentify(d, FALSE, err),
             Becomes(r, [ops[r] EXCEPT !.do = "left", !.snap = session, !.err = err])
      PROVE  WalkInv'
  <2> DEFINE o == [ops[r] EXCEPT !.do = "left", !.snap = session, !.err = err]
  <2>1. ops' = [ops EXCEPT ![r] = o]
    BY <1>5 DEF Becomes
  <2>2. session # noSession /\ Visits(session) /\ i \in 1 .. Len(session.devices)
    BY <1>5 DEF WalkInv, StoreOK
  <2>3. /\ session.current \in 1 .. Len(session.devices)
        /\ d = session.devices[session.current].device /\ d \in Fixtures
    <3>1. d \in CurrentDevice(session)
      BY <1>5
    <3> QED BY <2>2, <3>1, CurrentFacts
  <2>4. err \in BOOLEAN /\ flashing' \subseteq Fixtures /\ flashing' \subseteq flashing
        /\ (~err => d \notin flashing')
    BY <1>5, <2>3, IdentifyFacts DEF WalkInv, StoreOK
  <2>5. o \in Ops /\ o.do = "left" /\ o.snap = session /\ o.index = i /\ o.err = err
    BY <1>1, <2>2, <2>4 DEF Ops, Visits
  <2> HIDE DEF o, i
  <2>6. ops'[r] = o /\ ops' = [ops EXCEPT ![r] = ops'[r]]
    BY <2>1 DEF WalkInv
  <2>7. StoreOK'
    BY <1>1, <2>4, SameStore DEF WalkInv
  <2>8. Stray(session.current)'
    BY <1>1, <1>2, <2>4 DEF Stray
  <2>9. OpOK(ops[r])'
    <3>1. /\ ops'[r].snap = session' /\ Visits(session') /\ session' # noSession
          /\ ops'[r].index \in 1 .. Len(session'.devices)
          /\ session'.current \in 1 .. Len(session'.devices)
      BY <1>1, <2>2, <2>3, <2>5, <2>6
    <3>2. ops'[r].err \/ session'.devices[session'.current].device \notin flashing'
      BY <1>1, <2>3, <2>4, <2>5, <2>6
    <3> QED BY <2>5, <2>6, <2>8, <3>1, <3>2 DEF OpOK
  <2>10. ops'[r] \in Ops /\ ops'[r].do \notin Rest
    BY <2>5, <2>6 DEF Rest
  <2> QED BY <1>2, <2>6, <2>7, <2>9, <2>10, WalkMoves
<1> QED BY <1>3, <1>4, <1>5 DEF Leave

\* Left: the entry of the device that was left says whether it may still flash.
LEMMA LeftKeeps ==
  ASSUME WalkInv, NEW r \in WalkReqs, Left(r)
  PROVE  WalkInv'
<1> DEFINE p == session.current
           o == [ops[r] EXCEPT !.do = "enter"]
           m == Marked(session, p, FALSE, ops[r].err)
<1>1. ops[r].do = "left" /\ ops[r] \in Ops /\ OpOK(ops[r])
  BY DEF Left, WalkInv
<1>2. /\ ops[r].snap = session /\ Visits(session) /\ session # noSession
      /\ ops[r].index \in 1 .. Len(session.devices) /\ p \in 1 .. Len(session.devices)
      /\ Stray(p)
      /\ ops[r].err \/ session.devices[p].device \notin flashing
  BY <1>1 DEF OpOK
<1>3. ops[r].err \in BOOLEAN
  BY <1>1 DEF Ops
<1>4. Stored(m)
  <2>1. p <= Len(session.devices)
    BY <1>2
  <2> QED BY <1>2, <2>1 DEF Left
<1>5. /\ UNCHANGED <<flashing, leftover>> /\ ops' = [ops EXCEPT ![r] = o]
  BY DEF Left, Becomes
<1>6. /\ Visits(m) /\ SameDevices(m, session)
      /\ m.devices[p].err = ops[r].err
      /\ \A j \in 1 .. Len(session.devices) : j # p => m.devices[j].err = session.devices[j].err
  <2> HIDE DEF m
  <2> DEFINE q == p
             e == ops[r].err
             f == FALSE
  <2>1. q \in 1 .. Len(session.devices) /\ e \in BOOLEAN /\ f \in BOOLEAN
        /\ m = Marked(session, q, f, e)
    BY <1>2, <1>3 DEF m
  <2> HIDE DEF q, e, f
  <2>2. /\ Visits(m) /\ SameDevices(m, session) /\ m.devices[q].err = e
        /\ \A j \in 1 .. Len(session.devices) : j # q => m.devices[j].err = session.devices[j].err
    BY <1>2, <2>1, MarkedFacts
  <2> QED BY <2>2 DEF q, e
<1>7. o \in Ops /\ o.do = "enter" /\ o.snap = session /\ o.index = ops[r].index
  BY <1>1, <1>2 DEF Ops, Rest
<1> HIDE DEF o, m
<1>8. session' = m /\ StoreOK'
  BY <1>4, <1>5, <1>6, StoredOK DEF WalkInv
<1>9. ops'[r] = o /\ ops' = [ops EXCEPT ![r] = ops'[r]]
  BY <1>5 DEF WalkInv
<1>10. \A q : Stray(q)'
  <2> SUFFICES ASSUME NEW j \in 1 .. Len(m.devices), m.devices[j].device \in flashing \ leftover
               PROVE  m.devices[j].err
    BY <1>5, <1>8 DEF Stray
  <2>1. j \in 1 .. Len(session.devices) /\ m.devices[j].device = session.devices[j].device
    BY <1>6 DEF SameDevices
  <2>2. CASE j = p
    BY <1>2, <1>6, <2>1, <2>2
  <2>3. CASE j # p
    BY <1>2, <1>6, <2>1, <2>3 DEF Stray
  <2> QED BY <2>2, <2>3
<1>11. OpOK(ops[r])'
  <2>1. SameDevices(session', ops'[r].snap)
    BY <1>6, <1>7, <1>8, <1>9
  <2>2. Visits(ops'[r].snap) /\ ops'[r].index \in 1 .. Len(ops'[r].snap.devices)
    BY <1>2, <1>7, <1>9
  <2> QED BY <1>7, <1>9, <1>10, <2>1, <2>2 DEF OpOK
<1>12. ops[r].do \notin Rest /\ ops'[r].do \notin Rest /\ ops'[r] \in Ops
  BY <1>1, <1>7, <1>9 DEF Rest
<1> QED BY <1>8, <1>9, <1>11, <1>12, OthersRest, WalkMoves

\* Enter: the device that is entered flashes, and no other begins to.
LEMMA EnterKeeps ==
  ASSUME WalkInv, NEW r \in WalkReqs, Enter(r)
  PROVE  WalkInv'
<1> DEFINE i == ops[r].index
           w == ops[r].snap
           d == w.devices[i].device
<1>1. ops[r].do = "enter" /\ ops[r] \in Ops /\ OpOK(ops[r])
      /\ UNCHANGED <<session, disk, leftover>>
  BY DEF Enter, WalkInv
<1>2. /\ Visits(w) /\ i \in 1 .. Len(w.devices) /\ Stray(i)
      /\ (session # noSession => SameDevices(session, w))
  BY <1>1 DEF OpOK
<1>3. d \in Fixtures
  <2>1. w.devices \in Seq(Entry)
    BY <1>2 DEF Visits, Walks
  <2>2. w.devices[i] \in Entry
    BY <1>2, <2>1
  <2> QED BY <2>2 DEF Entry
<1>4. PICK err \in Outcomes : /\ SetIdentify(d, TRUE, err)
                              /\ Becomes(r, [ops[r] EXCEPT !.do = "entered", !.err = err])
  BY DEF Enter
<1> DEFINE o == [ops[r] EXCEPT !.do = "entered", !.err = err]
<1>5. ops' = [ops EXCEPT ![r] = o]
  BY <1>4 DEF Becomes
<1>6. err \in BOOLEAN
  BY WalkAssumption
<1>7. o \in Ops /\ o.do = "entered" /\ o.snap = w /\ o.index = i
  BY <1>1, <1>6 DEF Ops, Rest
<1> HIDE DEF o
<1>8. flashing' \subseteq Fixtures /\ \A x \in Fixtures \ {d} : x \in flashing' => x \in flashing
  <2> HIDE DEF d
  <2> DEFINE c == d
  <2>1. c \in Fixtures /\ SetIdentify(c, TRUE, err)
    BY <1>3, <1>4 DEF c, d
  <2> HIDE DEF c
  <2>2. flashing' \subseteq Fixtures /\ \A x \in Fixtures \ {c} : x \in flashing' => x \in flashing
    BY <2>1, IdentifyFacts DEF WalkInv, StoreOK
  <2> QED BY <2>2 DEF c
<1>9. ops'[r] = o /\ ops' = [ops EXCEPT ![r] = ops'[r]]
  BY <1>5 DEF WalkInv
<1>10. StoreOK'
  BY <1>1, <1>8, SameStore DEF WalkInv
<1>11. ASSUME session # noSession, NEW j \in 1 .. Len(session.devices), j # i,
              session.devices[j].device \in flashing' \ leftover
       PROVE  session.devices[j].err
  <2>1. Len(session.devices) = Len(w.devices) /\ session.devices[j].device = w.devices[j].device
    BY <1>2, <1>11 DEF SameDevices
  <2>2. session.devices[j].device # d
    BY <1>2, <1>11, <2>1 DEF Visits
  <2>3. session.devices[j].device \in flashing \ leftover
    BY <1>8, <1>10, <1>11, <2>2
  <2> QED BY <1>2, <1>11, <2>3 DEF Stray
<1>12. Stray(ops[r].index)'
  BY <1>1, <1>7, <1>9, <1>11 DEF Stray
<1>13. OpOK(ops[r])'
  <2>1. session' # noSession => SameDevices(session', ops'[r].snap)
    BY <1>1, <1>2, <1>7, <1>9
  <2>2. Visits(ops'[r].snap) /\ ops'[r].index \in 1 .. Len(ops'[r].snap.devices)
    BY <1>2, <1>7, <1>9
  <2> QED BY <1>7, <1>9, <1>12, <2>1, <2>2 DEF OpOK
<1>14. ops[r].do \notin Rest /\ ops'[r].do \notin Rest /\ ops'[r] \in Ops
  BY <1>1, <1>7, <1>9 DEF Rest
<1> QED BY <1>9, <1>10, <1>13, <1>14, OthersRest, WalkMoves

\* Entered: the cursor moves to the device that was entered.
LEMMA EnteredKeeps ==
  ASSUME WalkInv, NEW r \in WalkReqs, Entered(r)
  PROVE  WalkInv'
<1> DEFINE i == ops[r].index
           o == [Idle EXCEPT !.do = "over"]
           e == ops[r].err
           at == [session EXCEPT !.current = i]
<1>1. ops[r].do = "entered" /\ ops[r] \in Ops /\ OpOK(ops[r])
      /\ UNCHANGED <<flashing, leftover>> /\ ops' = [ops EXCEPT ![r] = o]
  BY DEF Entered, WalkInv, Over, Becomes
<1>2. /\ i \in 1 .. Len(ops[r].snap.devices) /\ Stray(i) /\ e \in BOOLEAN
      /\ (session # noSession => SameDevices(session, ops[r].snap))
  BY <1>1 DEF OpOK, Ops
<1>3. o \in Ops /\ o.do = "over"
  BY DEF Idle, Ops, Rest
<1> HIDE DEF o
<1>4. ops'[r] = o /\ ops' = [ops EXCEPT ![r] = ops'[r]]
  BY <1>1 DEF WalkInv
<1>5. StoreOK' /\ Stray(session.current)'
  <2>1. CASE session = noSession
    <3>1. session' = session /\ disk' = disk
      BY <2>1 DEF Entered
    <3> QED BY <1>1, <2>1, <3>1 DEF WalkInv, StoreOK, Stray
  <2>2. CASE session # noSession
    <3>1. Visits(session) /\ i \in 1 .. Len(session.devices) /\ i \in Nat
      BY <1>2, <2>2 DEF WalkInv, StoreOK, SameDevices
    <3>2. /\ Visits(at) /\ at.current = i /\ at.devices = session.devices
      BY <3>1 DEF Visits, Walks
    <3>3. i <= Len(session.devices)
      BY <3>1
    <3> DEFINE m == Marked(at, i, ~e, e)
    <3>4. Stored(m)
      BY <2>2, <3>3 DEF Entered
    <3> DEFINE on == ~e
    <3>5. on \in BOOLEAN /\ e \in BOOLEAN /\ m = Marked(at, i, on, e)
      BY <1>2
    <3>6. i \in 1 .. Len(at.devices)
      BY <3>1, <3>2
    <3> HIDE DEF at, i, e, on, m
    <3>7. /\ Visits(m) /\ SameDevices(m, at) /\ m.current = at.current
          /\ m.devices[i].err = e
          /\ \A j \in 1 .. Len(at.devices) : j # i => m.devices[j].err = at.devices[j].err
      BY <3>2, <3>5, <3>6, MarkedFacts
    <3>8. StoreOK' /\ session' = m
      BY <1>1, <3>4, <3>7, StoredOK DEF WalkInv
    <3>9. ASSUME NEW j \in 1 .. Len(m.devices), j # i, m.devices[j].device \in flashing \ leftover
          PROVE  m.devices[j].err
      <4>1. /\ j \in 1 .. Len(session.devices) /\ m.devices[j].device = session.devices[j].device
            /\ m.devices[j].err = session.devices[j].err
        BY <3>2, <3>7, <3>9 DEF SameDevices
      <4> QED BY <1>2, <2>2, <3>9, <4>1 DEF Stray
    <3>10. m.current = i
      BY <3>2, <3>7
    <3> QED BY <1>1, <3>8, <3>9, <3>10 DEF Stray
  <2> QED BY <2>1, <2>2
<1>6. OpOK(ops[r])'
  BY <1>3, <1>4 DEF OpOK
<1>7. ops[r].do \notin Rest /\ ops'[r] \in Ops
  BY <1>1, <1>3, <1>4 DEF Rest
<1> QED BY <1>4, <1>5, <1>6, <1>7, OthersRest, WalkMoves

\* A status, and the switch, change no device, no outcome and no cursor.
LEMMA StatusFacts ==
  ASSUME NEW w, Visits(w), NEW i \in 1 .. Len(w.devices),
         NEW st \in {"unvisited", "confirmed", "problem"},
         NEW m, m = [w EXCEPT !.devices[i].status = st]
  PROVE  /\ Visits(m) /\ SameDevices(m, w) /\ m.current = w.current
         /\ \A j \in 1 .. Len(w.devices) : m.devices[j].err = w.devices[j].err
<1> DEFINE e == [w.devices[i] EXCEPT !.status = st]
           s == [w.devices EXCEPT ![i] = e]
<1>1. w \in Walks /\ w.devices \in Seq(Entry) /\ w.devices[i] \in Entry
  BY DEF Visits, Walks
<1>2. e \in Entry /\ e.device = w.devices[i].device /\ e.err = w.devices[i].err
  BY <1>1 DEF Entry
<1>3. m = [w EXCEPT !.devices = s]
  BY <1>1 DEF Walks, Entry
<1> HIDE DEF e
<1>4. /\ s \in Seq(Entry) /\ Len(s) = Len(w.devices)
      /\ \A j \in 1 .. Len(w.devices) : s[j] = IF j = i THEN e ELSE w.devices[j]
  BY <1>1, <1>2, ExceptSeq
<1> HIDE DEF s
<1>5. m \in Walks /\ m.devices = s /\ m.current = w.current
  BY <1>1, <1>3, <1>4 DEF Walks
<1>6. \A j \in 1 .. Len(w.devices) : s[j].device = w.devices[j].device /\ s[j].err = w.devices[j].err
  BY <1>2, <1>4
<1>7. SameDevices(m, w)
  BY <1>4, <1>5, <1>6 DEF SameDevices
<1>8. Visits(m)
  BY <1>4, <1>5, <1>6 DEF Visits
<1> QED BY <1>4, <1>5, <1>6, <1>7, <1>8

\* The strays of a session that has the same devices, outcomes and cursor.
LEMMA SameStray ==
  ASSUME session # noSession, NEW m, session' = m, SameDevices(m, session),
         m.current = session.current, UNCHANGED <<flashing, leftover>>,
         \A j \in 1 .. Len(session.devices) : m.devices[j].err = session.devices[j].err,
         Stray(session.current)
  PROVE  Stray(session.current)'
<1> SUFFICES ASSUME NEW j \in 1 .. Len(m.devices), m.devices[j].device \in flashing \ leftover
             PROVE  j = m.current \/ m.devices[j].err
  BY DEF Stray
<1>1. j \in 1 .. Len(session.devices) /\ m.devices[j].device = session.devices[j].device
  BY DEF SameDevices
<1> QED BY <1>1 DEF Stray

LEMMA StatusKeeps ==
  ASSUME Overlap = 1, WalkInv, NEW r \in WalkReqs, NEW d \in Fixtures,
         NEW st \in {"unvisited", "confirmed", "problem"},
         SetStatus(r, d, st)
  PROVE  WalkInv'
<1>1. /\ May(r) /\ session # noSession /\ UNCHANGED <<flashing, leftover>>
      /\ Visits(session)
  BY DEF SetStatus, WalkInv, StoreOK
<1>2. Others(r) /\ Stray(session.current)
  BY <1>1, NobodyBusy
<1>3. PICK i \in IndexOf(session, d) :
        /\ Stored([session EXCEPT !.devices[i].status = st])
        /\ IF st = "confirmed" /\ session.auto /\ i = session.current /\ i < Len(session.devices)
           THEN Becomes(r, [Idle EXCEPT !.do = "leave", !.index = i + 1])
           ELSE Over(r)
  BY DEF SetStatus
<1>4. i \in 1 .. Len(session.devices) /\ i + 1 \in Nat
  BY DEF IndexOf
<1> DEFINE m == [session EXCEPT !.devices[i].status = st]
           o1 == [Idle EXCEPT !.do = "leave", !.index = i + 1]
           o2 == [Idle EXCEPT !.do = "over"]
<1>5. Stored(m)
  BY <1>3
<1>6. ops' = [ops EXCEPT ![r] = o1] \/ ops' = [ops EXCEPT ![r] = o2]
  BY <1>3 DEF Becomes, Over
<1>7. o1 \in Ops /\ o1.do = "leave" /\ o2 \in Ops /\ o2.do = "over"
  BY <1>4 DEF Idle, Ops, Rest
<1> HIDE DEF o1, o2
<1>8. /\ Visits(m) /\ SameDevices(m, session) /\ m.current = session.current
      /\ \A j \in 1 .. Len(session.devices) : m.devices[j].err = session.devices[j].err
  BY <1>1, <1>4, StatusFacts
<1> HIDE DEF m
<1>9. StoreOK' /\ session' = m
  BY <1>1, <1>5, <1>8, StoredOK DEF WalkInv
<1>10. Stray(session.current)'
  BY <1>1, <1>2, <1>8, <1>9, SameStray
<1>11. /\ ops' = [ops EXCEPT ![r] = ops'[r]] /\ ops'[r] \in Ops
       /\ ops'[r].do \in {"leave", "over"}
  BY <1>6, <1>7 DEF WalkInv
<1>12. OpOK(ops[r])'
  BY <1>10, <1>11 DEF OpOK
<1> QED BY <1>2, <1>9, <1>10, <1>11, <1>12, WalkMoves

LEMMA ToggleKeeps ==
  ASSUME Overlap = 1, WalkInv, NEW r \in WalkReqs, ToggleAuto(r)
  PROVE  WalkInv'
<1> DEFINE m == [session EXCEPT !.auto = ~@]
           o == [Idle EXCEPT !.do = "over"]
<1>1. /\ May(r) /\ session # noSession /\ UNCHANGED <<flashing, leftover>>
      /\ Visits(session) /\ Stored(m) /\ ops' = [ops EXCEPT ![r] = o]
  BY DEF ToggleAuto, Over, Becomes, WalkInv, StoreOK
<1>2. Others(r) /\ Stray(session.current)
  BY <1>1, NobodyBusy
<1>3. o \in Ops /\ o.do = "over"
  BY DEF Idle, Ops, Rest
<1> HIDE DEF o
<1>4. m \in Walks /\ m.devices = session.devices /\ m.current = session.current
  BY <1>1 DEF Visits, Walks
<1> HIDE DEF m
<1>5. Visits(m) /\ SameDevices(m, session)
  BY <1>1, <1>4, CursorFacts
<1>6. StoreOK' /\ session' = m
  BY <1>1, <1>5, StoredOK DEF WalkInv
<1>7. Stray(session.current)'
  BY <1>1, <1>2, <1>4, <1>5, <1>6, SameStray
<1>8. /\ ops' = [ops EXCEPT ![r] = ops'[r]] /\ ops'[r] \in Ops /\ ops'[r].do = "over"
  BY <1>1, <1>3 DEF WalkInv
<1>9. OpOK(ops[r])'
  BY <1>8 DEF OpOK
<1> QED BY <1>2, <1>6, <1>7, <1>8, <1>9, WalkMoves

\* identify/retry and identify/off, and the note that follows.
LEMMA IdentifyKeeps ==
  ASSUME Overlap = 1, WalkInv, NEW r \in WalkReqs, NEW on \in BOOLEAN, Identify(r, on)
  PROVE  WalkInv'
<1>1. PICK err \in Outcomes, d \in CurrentDevice(session) :
        /\ SetIdentify(d, on, err)
        /\ Becomes(r, [Idle EXCEPT !.do = IF on THEN "retried" ELSE "quieted",
                                 !.snap = session, !.err = err])
  BY DEF Identify
<1> DEFINE do == IF on THEN "retried" ELSE "quieted"
           o == [Idle EXCEPT !.do = do, !.snap = session, !.err = err]
<1>2. May(r) /\ UNCHANGED <<session, disk, leftover>> /\ ops' = [ops EXCEPT ![r] = o]
  BY <1>1 DEF Identify, Becomes
<1>3. Others(r) /\ Stray(session.current)
  BY <1>2, NobodyBusy
<1>4. /\ session # noSession /\ Visits(session) /\ session.current \in 1 .. Len(session.devices)
      /\ d = session.devices[session.current].device /\ d \in Fixtures
  BY CurrentFacts DEF WalkInv, StoreOK
<1>5. /\ err \in BOOLEAN /\ flashing' \subseteq Fixtures
      /\ \A x \in Fixtures \ {d} : x \in flashing' => x \in flashing
  BY <1>1, <1>4, IdentifyFacts DEF WalkInv, StoreOK
<1>6. do \in {"retried", "quieted"}
  OBVIOUS
<1> HIDE DEF do
<1>7. o \in Ops /\ o.do = do /\ o.snap = session
  BY <1>4, <1>5, <1>6 DEF Idle, Ops, Rest, Visits
<1> HIDE DEF o
<1>8. ops'[r] = o /\ ops' = [ops EXCEPT ![r] = ops'[r]]
  BY <1>2 DEF WalkInv
<1>9. StoreOK'
  BY <1>2, <1>5, SameStore DEF WalkInv
<1>10. Stray(session.current)'
  <2> SUFFICES ASSUME NEW j \in 1 .. Len(session.devices), j # session.current,
                      session.devices[j].device \in flashing' \ leftover
               PROVE  session.devices[j].err
    BY <1>2 DEF Stray
  <2>1. session.devices[j].device # d
    BY <1>4 DEF Visits
  <2>2. session.devices[j].device \in flashing
    BY <1>5, <2>1
  <2> QED BY <1>3, <1>4, <2>2 DEF Stray
<1>11. OpOK(ops[r])'
  <2>1. /\ ops'[r].snap = session' /\ session' # noSession
        /\ session'.current \in 1 .. Len(session'.devices)
    BY <1>2, <1>4, <1>7, <1>8
  <2> QED BY <1>6, <1>7, <1>8, <1>10, <2>1 DEF OpOK
<1>12. ops'[r].do \notin Rest /\ ops'[r] \in Ops
  BY <1>6, <1>7, <1>8 DEF Rest
<1> QED BY <1>3, <1>8, <1>9, <1>11, <1>12, WalkMoves

LEMMA IdentifiedKeeps ==
  ASSUME WalkInv, NEW r \in WalkReqs, Identified(r)
  PROVE  WalkInv'
<1> DEFINE o == [Idle EXCEPT !.do = "over"]
           p == session.current
           e == ops[r].err
           on == ops[r].do = "retried" /\ ~ops[r].err
           m == Marked(session, p, on, e)
<1>1. ops[r].do \in {"retried", "quieted"} /\ ops[r] \in Ops /\ OpOK(ops[r])
      /\ UNCHANGED <<flashing, leftover>> /\ ops' = [ops EXCEPT ![r] = o]
  BY DEF Identified, WalkInv, Over, Becomes
<1>2. /\ ops[r].snap = session /\ session # noSession /\ p \in 1 .. Len(session.devices)
      /\ Stray(p) /\ Visits(session)
  BY <1>1 DEF OpOK, WalkInv, StoreOK
<1>3. e \in BOOLEAN
  BY <1>1 DEF Ops
<1>4. Stored(m)
  BY <1>2 DEF Identified
<1>5. on \in BOOLEAN
  OBVIOUS
<1>6. o \in Ops /\ o.do = "over"
  BY DEF Idle, Ops, Rest
<1> HIDE DEF o
<1>7. ops' = [ops EXCEPT ![r] = ops'[r]] /\ ops'[r] \in Ops /\ ops'[r].do = "over"
  BY <1>1, <1>6 DEF WalkInv
<1>8. m = Marked(session, p, on, e)
  OBVIOUS
<1> HIDE DEF on, m, e, p
<1>9. /\ Visits(m) /\ SameDevices(m, session) /\ m.current = session.current
      /\ \A j \in 1 .. Len(session.devices) : j # p => m.devices[j].err = session.devices[j].err
  BY <1>2, <1>3, <1>5, <1>8, MarkedFacts
<1>10. StoreOK' /\ session' = m
  BY <1>1, <1>4, <1>9, StoredOK DEF WalkInv
<1>11. Stray(session.current)'
  <2> SUFFICES ASSUME NEW j \in 1 .. Len(m.devices), m.devices[j].device \in flashing \ leftover,
                      j # m.current
               PROVE  m.devices[j].err
    BY <1>1, <1>10 DEF Stray
  <2>1. /\ j \in 1 .. Len(session.devices) /\ m.devices[j].device = session.devices[j].device
        /\ j # p
    BY <1>9 DEF SameDevices, p
  <2>2. session.devices[j].err
    BY <1>2, <2>1 DEF Stray
  <2> QED BY <1>9, <2>1, <2>2
<1>12. OpOK(ops[r])'
  BY <1>7 DEF OpOK
<1>13. ops[r].do \notin Rest
  BY <1>1 DEF Rest
<1> QED BY <1>7, <1>10, <1>11, <1>12, <1>13, OthersRest, WalkMoves

\* identify/all-off, and the note that follows.
LEMMA AllOffKeeps ==
  ASSUME Overlap = 1, WalkInv, NEW r \in WalkReqs, NEW failed \in SUBSET Fixtures,
         AllOff(r, failed)
  PROVE  WalkInv'
<1> DEFINE s == session.devices
           bad == [i \in 1 .. Len(s) |-> s[i].device \in failed]
           t == [i \in 1 .. Len(s) |-> Off(s[i], bad[i])]
           ds == {s[i].device : i \in 1 .. Len(s)}
           v == [session EXCEPT !.devices = t]
           o == [Idle EXCEPT !.do = "silenced", !.snap = v]
<1>1. /\ May(r) /\ session # noSession /\ UNCHANGED <<session, disk, leftover>>
      /\ failed \subseteq ds /\ \E deaf \in SUBSET failed : flashing' = flashing \ (ds \ deaf)
  BY DEF AllOff
<1>2. Others(r) /\ Stray(session.current)
  BY <1>1, NobodyBusy
<1>3. Visits(session) /\ session \in Walks /\ s \in Seq(Entry)
  BY <1>1 DEF WalkInv, StoreOK, Visits, Walks
<1>4. ops' = [ops EXCEPT ![r] = o]
  <2>1. t = [i \in 1 .. Len(s) |-> [s[i] EXCEPT !.on = FALSE, !.err = s[i].device \in failed]]
    BY DEF Off
  <2>2. v = Quieted(session, LAMBDA i : session.devices[i].device \in failed)
    BY <2>1 DEF Quieted
  <2> HIDE DEF v
  <2> QED BY <2>2 DEF AllOff, Becomes
<1>5. \A i \in 1 .. Len(s) : bad[i] \in BOOLEAN /\ (bad[i] <=> s[i].device \in failed)
  <2> DEFINE B(i) == s[i].device \in failed
  <2>1. bad = [i \in 1 .. Len(s) |-> B(i)]
    OBVIOUS
  <2>2. \A i \in 1 .. Len(s) : B(i) \in BOOLEAN
    OBVIOUS
  <2> HIDE DEF B, bad, s
  <2>3. \A i \in 1 .. Len(s) : bad[i] = B(i)
    BY <2>1, Zenon
  <2> QED BY <2>2, <2>3 DEF B
<1> HIDE DEF bad
<1>6. /\ t \in Seq(Entry) /\ Len(t) = Len(s)
      /\ \A i \in 1 .. Len(s) : t[i].device = s[i].device /\ t[i].err = bad[i]
  <2> HIDE DEF s
  <2>1. \A i \in 1 .. Len(s) : bad[i] \in BOOLEAN
    BY <1>5
  <2>2. t = [i \in 1 .. Len(s) |-> Off(s[i], bad[i])]
    OBVIOUS
  <2> HIDE DEF t
  <2> QED BY <1>3, <2>1, <2>2, OffFacts
<1> HIDE DEF t
<1>7. v \in Walks /\ v.devices = t
  BY <1>3, <1>6 DEF Walks
<1> HIDE DEF v
<1>8. SameDevices(session, v) /\ Visits(v)
  BY <1>3, <1>6, <1>7 DEF SameDevices, Visits
<1>9. o \in Ops /\ o.do = "silenced" /\ o.snap = v
  BY <1>7 DEF Idle, Ops, Rest
<1> HIDE DEF o
<1>10. ops'[r] = o /\ ops' = [ops EXCEPT ![r] = ops'[r]]
  BY <1>4 DEF WalkInv
<1>11. flashing' \subseteq flashing /\ \A x \in ds : x \in flashing' => x \in failed
  BY <1>1
<1>12. StoreOK'
  BY <1>1, <1>11 DEF WalkInv, StoreOK
<1>13. ASSUME NEW j \in 1 .. Len(s), s[j].device \in flashing' \ leftover
       PROVE  v.devices[j].err
  <2>1. s[j].device \in ds
    OBVIOUS
  <2>2. s[j].device \in failed
    BY <1>11, <1>13, <2>1
  <2> QED BY <1>5, <1>6, <1>7, <2>2
<1>14. OpOK(ops[r])'
  <2>1. Visits(ops'[r].snap) /\ SameDevices(session', ops'[r].snap)
    BY <1>1, <1>8, <1>9, <1>10
  <2>2. \A j \in 1 .. Len(session'.devices) :
          session'.devices[j].device \in flashing' \ leftover' => ops'[r].snap.devices[j].err
    BY <1>1, <1>9, <1>10, <1>13
  <2> QED BY <1>9, <1>10, <2>1, <2>2 DEF OpOK
<1>15. ops'[r].do \notin Rest /\ ops'[r] \in Ops
  BY <1>9, <1>10 DEF Rest
<1> QED BY <1>2, <1>10, <1>12, <1>14, <1>15, WalkMoves

\* The whole of a list and what follows it.
LEMMA WholeSeq ==
  ASSUME NEW S, NEW s \in Seq(S)
  PROVE  SubSeq(s, 1, Len(s)) = s /\ SubSeq(s, Len(s) + 1, Len(s)) = <<>>
<1>1. Len(s) \in Nat
  OBVIOUS
<1>2. SubSeq(s, 1, Len(s)) \in Seq(S) /\ Len(SubSeq(s, 1, Len(s))) = Len(s)
      /\ \A i \in 1 .. Len(s) : SubSeq(s, 1, Len(s))[i] = s[i]
  BY <1>1
<1>3. SubSeq(s, 1, Len(s)) = s
  BY <1>2, SeqEqual
<1>4. SubSeq(s, Len(s) + 1, Len(s)) = <<>>
  BY <1>1
<1> QED BY <1>3, <1>4

LEMMA SilencedKeeps ==
  ASSUME WalkInv, NEW r \in WalkReqs, Silenced(r)
  PROVE  WalkInv'
<1> DEFINE o == [Idle EXCEPT !.do = "over"]
           s == session.devices
           was == ops[r].snap.devices
           bad == [i \in 1 .. Len(s) |-> was[i].err]
           t == [i \in 1 .. Len(s) |-> Off(s[i], bad[i])]
           v == [session EXCEPT !.current = 0, !.devices = t]
<1>1. ops[r].do = "silenced" /\ ops[r] \in Ops /\ OpOK(ops[r])
      /\ UNCHANGED <<flashing, leftover>> /\ ops' = [ops EXCEPT ![r] = o]
  BY DEF Silenced, WalkInv, Over, Becomes
<1>2. Visits(ops[r].snap) /\ was \in Seq(Entry)
  BY <1>1 DEF OpOK, Visits, Walks
<1>3. o \in Ops /\ o.do = "over"
  BY DEF Idle, Ops, Rest
<1> HIDE DEF o
<1>4. ops' = [ops EXCEPT ![r] = ops'[r]] /\ ops'[r] \in Ops /\ ops'[r].do = "over"
  BY <1>1, <1>3 DEF WalkInv
<1>5. ASSUME session = noSession PROVE StoreOK' /\ Stray(session.current)'
  <2>1. session' = session /\ disk' = disk
    BY <1>5 DEF Silenced
  <2> QED BY <1>1, <1>5, <2>1 DEF WalkInv, StoreOK, Stray
<1>6. ASSUME session # noSession PROVE StoreOK' /\ Stray(session.current)'
  <2>1. /\ Visits(session) /\ session \in Walks /\ s \in Seq(Entry) /\ Len(s) \in Nat
    BY <1>6 DEF WalkInv, StoreOK, Visits, Walks
  <2>2. /\ Len(s) = Len(was)
        /\ \A k \in 1 .. Len(s) : s[k].device \in flashing \ leftover => was[k].err
    BY <1>1, <1>6 DEF OpOK, SameDevices
  <2>3. \A k \in 1 .. Len(s) : was[k] \in Entry
    BY <1>2, <2>2
  <2>4. \A k \in 1 .. Len(s) : bad[k] \in BOOLEAN /\ bad[k] = was[k].err
    BY <2>3 DEF Entry
  <2>5. t = [i \in 1 .. Len(s) |-> [s[i] EXCEPT !.on = FALSE, !.err = was[i].err]]
    BY DEF Off
  <2> HIDE DEF bad
  <2>6. /\ t \in Seq(Entry) /\ Len(t) = Len(s)
        /\ \A i \in 1 .. Len(s) : t[i].device = s[i].device /\ t[i].err = bad[i]
    <3> HIDE DEF s
    <3>1. \A i \in 1 .. Len(s) : bad[i] \in BOOLEAN
      BY <2>4
    <3>2. t = [i \in 1 .. Len(s) |-> Off(s[i], bad[i])]
      OBVIOUS
    <3> HIDE DEF t
    <3> QED BY <2>1, <3>1, <3>2, OffFacts
  <2> HIDE DEF t
  <2>7. Stored(v)
    <3> DEFINE cut == SubSeq(s, 1, Shorter(Len(s), Len(was)))
               c == [session EXCEPT !.devices = SubSeq(@, 1, Shorter(Len(@), Len(was)))]
               q == Quieted(c, LAMBDA i : was[i].err)
               z == [q EXCEPT !.current = 0,
                              !.devices = @ \o SubSeq(s, Len(@) + 1, Len(s))]
    <3>1. Stored(z)
      BY <1>6 DEF Silenced
    <3>2. Shorter(Len(s), Len(was)) = Len(s)
      BY <2>1, <2>2 DEF Shorter
    <3>3. cut = s
      BY <2>1, <3>2, WholeSeq
    <3>4. c = session
      <4>1. c = [session EXCEPT !.devices = cut]
        BY <2>1 DEF Walks
      <4> HIDE DEF c, cut
      <4> QED BY <2>1, <3>3, <4>1 DEF Walks
    <3>5. q = [session EXCEPT !.devices = t]
      <4> HIDE DEF c
      <4>1. q = [c EXCEPT !.devices = [i \in 1 .. Len(c.devices) |->
                    [c.devices[i] EXCEPT !.on = FALSE, !.err = was[i].err]]]
        BY DEF Quieted
      <4> QED BY <2>5, <3>4, <4>1
    <3> HIDE DEF q
    <3>6. q.devices = t
      BY <2>1, <3>5 DEF Walks
    <3>7. t \o SubSeq(s, Len(t) + 1, Len(s)) = t
      <4>1. SubSeq(s, Len(t) + 1, Len(s)) = <<>>
        BY <2>1, <2>6, WholeSeq
      <4> QED BY <2>6, <4>1
    <3>8. z = v
      <4>1. z = [q EXCEPT !.current = 0, !.devices = t \o SubSeq(s, Len(t) + 1, Len(s))]
        BY <2>1, <3>5, <3>6 DEF Walks
      <4> HIDE DEF z
      <4>2. z = [q EXCEPT !.current = 0, !.devices = t]
        BY <3>7, <4>1
      <4> QED BY <2>1, <3>5, <4>2 DEF Walks
    <3> QED BY <3>1, <3>8
  <2>8. v \in Walks /\ v.devices = t /\ v.current = 0
    BY <2>1, <2>6 DEF Walks
  <2> HIDE DEF v
  <2>9. Visits(v)
    BY <2>1, <2>6, <2>8 DEF Visits
  <2>10. StoreOK' /\ session' = v
    BY <1>1, <2>7, <2>9, StoredOK DEF WalkInv
  <2>11. Stray(session.current)'
    BY <1>1, <2>2, <2>4, <2>6, <2>8, <2>10 DEF Stray
  <2> QED BY <2>10, <2>11
<1>7. StoreOK' /\ Stray(session.current)'
  BY <1>5, <1>6
<1>8. OpOK(ops[r])'
  BY <1>4 DEF OpOK
<1>9. ops[r].do \notin Rest
  BY <1>1 DEF Rest
<1> QED BY <1>4, <1>7, <1>8, <1>9, OthersRest, WalkMoves

LEMMA EndKeeps ==
  ASSUME Overlap = 1, WalkInv, NEW r \in WalkReqs, End(r)
  PROVE  WalkInv'
<1> DEFINE o == [Idle EXCEPT !.do = "ended"]
<1>1. May(r) /\ UNCHANGED <<session, disk, leftover>> /\ ops' = [ops EXCEPT ![r] = o]
  BY DEF End, Becomes
<1>2. Others(r)
  BY <1>1, NobodyBusy
<1>3. flashing' \subseteq Fixtures
  <2>1. CASE flashing' = flashing
    BY <2>1 DEF WalkInv, StoreOK
  <2>2. ASSUME NEW err \in Outcomes, NEW d \in CurrentDevice(session), SetIdentify(d, FALSE, err)
        PROVE  flashing' \subseteq Fixtures
    <3>1. flashing' \subseteq flashing
      BY <2>2 DEF SetIdentify
    <3> QED BY <3>1 DEF WalkInv, StoreOK
  <2> QED BY <2>1, <2>2 DEF End
<1>4. o \in Ops /\ o.do = "ended"
  BY DEF Idle, Ops, Rest
<1> HIDE DEF o
<1>5. ops'[r] = o /\ ops' = [ops EXCEPT ![r] = ops'[r]]
  BY <1>1 DEF WalkInv
<1>6. StoreOK'
  BY <1>1, <1>3, SameStore DEF WalkInv
<1>7. OpOK(ops[r])' /\ ops'[r].do \notin Rest
  BY <1>4, <1>5 DEF OpOK, Rest
<1> QED BY <1>2, <1>4, <1>5, <1>6, <1>7, WalkMoves

LEMMA CrashKeeps ==
  ASSUME WalkInv, CrashAndRestart
  PROVE  WalkInv'
<1> DEFINE o == [Idle EXCEPT !.do = "over"]
<1>1. /\ session' = disk /\ disk' = disk /\ leftover' = flashing /\ flashing' = flashing
      /\ ops' = [r \in WalkReqs |-> IF ops[r].do = "idle" THEN Idle ELSE o]
  BY DEF CrashAndRestart
<1>2. Idle \in Ops /\ Idle.do = "idle" /\ o \in Ops /\ o.do = "over"
  BY DEF Idle, Ops, Rest
<1> HIDE DEF o
<1>3. ops' \in [WalkReqs -> Ops] /\ \A r \in WalkReqs : ops'[r].do \in Rest
  BY <1>1, <1>2 DEF Rest
<1>4. \A r \in WalkReqs : OpOK(ops[r])'
  BY <1>3 DEF OpOK, Rest
<1>5. StoreOK' /\ Stray(session.current)'
  BY <1>1 DEF WalkInv, StoreOK, Stray
<1> QED BY <1>3, <1>4, <1>5 DEF WalkInv

LEMMA WalkStep ==
  ASSUME Overlap = 1, WalkInv, [WalkNext]_walkVars
  PROVE  WalkInv'
<1>1. ASSUME NEW r \in WalkReqs, RequestStep(r) PROVE WalkInv'
  <2>1. CASE Start(r) \/ \E i \in 1 .. Cardinality(Fixtures) : Goto(r, i)
    BY <2>1, StartKeeps
  <2>2. CASE (\E ds \in Orders : Build(r, ds)) \/ Ended(r)
    BY <2>2, BuildKeeps
  <2>3. CASE Leave(r)
    BY <2>3, LeaveKeeps
  <2>4. CASE Left(r)
    BY <2>4, LeftKeeps
  <2>5. CASE Enter(r)
    BY <2>5, EnterKeeps
  <2>6. CASE Entered(r)
    BY <2>6, EnteredKeeps
  <2>7. CASE \E d \in Fixtures, st \in {"unvisited", "confirmed", "problem"} : SetStatus(r, d, st)
    BY <2>7, StatusKeeps
  <2>8. CASE ToggleAuto(r)
    BY <2>8, ToggleKeeps
  <2>9. CASE \E on \in BOOLEAN : Identify(r, on)
    BY <2>9, IdentifyKeeps
  <2>10. CASE Identified(r)
    BY <2>10, IdentifiedKeeps
  <2>11. CASE \E failed \in SUBSET Fixtures :
                (failed = {} \/ TRUE \in Outcomes) /\ AllOff(r, failed)
    BY <2>11, AllOffKeeps
  <2>12. CASE Silenced(r)
    BY <2>12, SilencedKeeps
  <2>13. CASE End(r)
    BY <2>13, EndKeeps
  <2> QED BY <1>1, <2>1, <2>2, <2>3, <2>4, <2>5, <2>6, <2>7, <2>8, <2>9, <2>10, <2>11,
             <2>12, <2>13 DEF RequestStep
<1>2. CASE CrashAndRestart
  BY <1>2, CrashKeeps
<1>3. CASE UNCHANGED walkVars
  <2>1. /\ session' = session /\ disk' = disk /\ flashing' = flashing
        /\ leftover' = leftover /\ ops' = ops
    BY <1>3 DEF walkVars
  <2>2. StoreOK'
    BY <2>1 DEF WalkInv, StoreOK
  <2>3. \A p : Stray(p) => Stray(p)'
    BY <2>1 DEF Stray
  <2>4. \A r \in WalkReqs : OpOK(ops[r])'
    <3> SUFFICES ASSUME NEW r \in WalkReqs PROVE OpOK(ops[r])'
      OBVIOUS
    <3>1. OpOK(ops[r])
      BY DEF WalkInv
    <3> QED BY <2>1, <3>1 DEF OpOK, Stray
  <2>5. (\A r \in WalkReqs : ops'[r].do \in Rest) => Stray(session.current)'
    BY <2>1 DEF WalkInv, Stray
  <2> QED BY <2>1, <2>2, <2>4, <2>5 DEF WalkInv
<1> QED BY <1>1, <1>2, <1>3 DEF WalkNext

LEMMA WalkStarts == ASSUME WalkInit PROVE WalkInv
<1>1. /\ session = noSession /\ disk = noSession /\ flashing = {} /\ leftover = {}
      /\ ops = [r \in WalkReqs |-> Idle]
  BY DEF WalkInit
<1>2. Idle \in Ops /\ Idle.do = "idle"
  BY DEF Idle, Ops, Rest
<1>3. ops \in [WalkReqs -> Ops] /\ \A r \in WalkReqs : ops[r].do = "idle"
  BY <1>1, <1>2
<1>4. \A r \in WalkReqs : OpOK(ops[r])
  BY <1>3 DEF OpOK
<1> QED BY <1>1, <1>3, <1>4 DEF WalkInv, StoreOK, Stray, Rest

(* As long as requests come one at a time, whatever each does, whatever the rig  *)
(* answers and whenever the process dies: a device of the session that flashes   *)
(* beside the one under the cursor has an entry that says so, and the browser    *)
(* can offer to retry (walkAdvanceTo and the identify handlers of                *)
(* internal/web/walk.go).                                                        *)
THEOREM StraysAreRecorded ==
  ASSUME Overlap = 1
  PROVE  WalkSpec => [](WalkTypeOK /\ StrayIsRecorded)
<1>1. WalkInit => WalkInv
  BY WalkStarts
<1>2. WalkInv /\ [WalkNext]_walkVars => WalkInv'
  BY WalkStep
<1>3. ASSUME WalkInv PROVE WalkTypeOK /\ StrayIsRecorded
  <2>1. WalkTypeOK
    BY <1>3 DEF WalkInv, StoreOK, Visits, WalkTypeOK, Ops, Rest
  <2>2. StrayIsRecorded
    <3> SUFFICES ASSUME Busy = {}, session # noSession, NEW i \in 1 .. Len(session.devices),
                        session.devices[i].device \in flashing \ leftover
                 PROVE  i = session.current \/ session.devices[i].err
      BY DEF StrayIsRecorded
    <3>1. \A r \in WalkReqs : ops[r].do \in Rest
      BY DEF Busy, Rest
    <3> QED BY <1>3, <3>1 DEF WalkInv, Stray
  <2> QED BY <2>1, <2>2
<1> QED BY <1>1, <1>2, <1>3, PTL DEF WalkSpec

--------------------------------------------------------------------------------
(* LiveFeed: what a browser is sent.                                             *)

Increasing(s) == \A i, j \in DOMAIN s : i < j => s[i] < s[j]

LEMMA ElementsBelong ==
  ASSUME NEW S, NEW T, NEW s \in Seq(S), \A i \in DOMAIN s : s[i] \in T
  PROVE  s \in Seq(T)
OBVIOUS

\* Leaving entries out keeps the order of the rest.
LEMMA WithoutIncreases ==
  ASSUME NEW s \in Seq(Nat), NEW ds, Increasing(s)
  PROVE  /\ Without(s, ds) \in Seq(Nat) /\ Increasing(Without(s, ds))
         /\ Kept(Without(s, ds), s, ds, Len(s))
<1>1. PICK k : IsKept(s, ds, k, Len(s)) /\ Without(s, ds) = k[Len(s)]
  BY WithoutIsKept
<1>2. Len(s) \in Nat /\ DOMAIN s = 1 .. Len(s) /\ \A i \in DOMAIN s : s[i] \in Nat
  OBVIOUS
<1>3. \A n \in 0 .. Len(s) : k[n] = Body(s, ds, k, n)
  BY <1>1 DEF IsKept
<1>4. NoneTwice(s)
  BY <1>2 DEF Increasing, NoneTwice
<1> DEFINE Good(n) == /\ k[n] \in Seq(Nat) /\ Increasing(k[n])
                      /\ \A i \in DOMAIN k[n] : \E j \in 1 .. n : k[n][i] = s[j]
           T == {n \in Nat : n <= Len(s) => Good(n)}
<1>5. 0 \in T
  <2>1. k[0] = <<>>
    BY <1>2, <1>3 DEF Body
  <2>2. Good(0)
    BY <2>1 DEF Increasing
  <2> QED BY <2>2
<1>6. ASSUME NEW n \in T PROVE n + 1 \in T
  <2> SUFFICES ASSUME n + 1 <= Len(s) PROVE Good(n + 1)
    OBVIOUS
  <2>1. n \in Nat /\ n + 1 \in 0 .. Len(s) /\ n + 1 # 0 /\ (n + 1) - 1 = n /\ n <= Len(s)
        /\ n + 1 \in DOMAIN s /\ 1 .. n \subseteq 1 .. n + 1 /\ n + 1 \in 1 .. n + 1
    BY <1>2
  <2>2. Good(n)
    BY <2>1
  <2>3. k[n + 1] = IF s[n + 1] \in ds THEN k[n] ELSE Append(k[n], s[n + 1])
    BY <1>3, <2>1 DEF Body
  <2>4. CASE s[n + 1] \in ds
    BY <2>1, <2>2, <2>3, <2>4
  <2>5. CASE s[n + 1] \notin ds
    <3> DEFINE q == k[n]
               x == s[n + 1]
               a == k[n + 1]
               l == Len(q)
    <3>1. q \in Seq(Nat) /\ l \in Nat /\ DOMAIN q = 1 .. l /\ x \in Nat /\ a = Append(q, x)
      BY <1>2, <2>1, <2>2, <2>3, <2>5
    <3>2. a \in Seq(Nat) /\ DOMAIN a = 1 .. l + 1 /\ a[l + 1] = x /\ \A i \in 1 .. l : a[i] = q[i]
      BY <3>1
    <3>3. \A i \in 1 .. l : \E j \in 1 .. n : q[i] = s[j]
      BY <2>2, <3>1
    <3>4. \A i \in 1 .. l : q[i] < x
      <4> SUFFICES ASSUME NEW i \in 1 .. l PROVE q[i] < x
        OBVIOUS
      <4>1. PICK j \in 1 .. n : q[i] = s[j]
        BY <3>3
      <4>2. j \in DOMAIN s /\ j < n + 1
        BY <1>2, <2>1
      <4> QED BY <2>1, <4>1, <4>2 DEF Increasing
    <3> HIDE DEF x, q, a, l
    <3>5. Increasing(q)
      BY <2>2 DEF q
    <3>6. Increasing(a)
      <4> SUFFICES ASSUME NEW i \in 1 .. l + 1, NEW j \in 1 .. l + 1, i < j PROVE a[i] < a[j]
        BY <3>2 DEF Increasing
      <4>1. i \in 1 .. l
        BY <3>1
      <4>2. CASE j = l + 1
        BY <3>2, <3>4, <4>1, <4>2
      <4>3. CASE j # l + 1
        <5>1. j \in 1 .. l
          BY <3>1, <4>3
        <5> QED BY <3>1, <3>2, <3>5, <4>1, <5>1 DEF Increasing
      <4> QED BY <4>2, <4>3
    <3>7. \A i \in DOMAIN a : \E j \in 1 .. n + 1 : a[i] = s[j]
      <4> SUFFICES ASSUME NEW i \in 1 .. l + 1 PROVE \E j \in 1 .. n + 1 : a[i] = s[j]
        BY <3>2
      <4>1. CASE i = l + 1
        BY <2>1, <3>2, <4>1 DEF x
      <4>2. CASE i # l + 1
        <5>1. i \in 1 .. l
          BY <3>1, <4>2
        <5> QED BY <2>1, <3>2, <3>3, <5>1
      <4> QED BY <4>1, <4>2
    <3> QED BY <3>2, <3>6, <3>7 DEF a
  <2> QED BY <2>4, <2>5
<1>7. T = Nat
  <2> HIDE DEF T
  <2>1. T \subseteq Nat
    BY DEF T
  <2> QED BY <1>5, <1>6, <2>1, NatSetInduction
<1>8. Good(Len(s))
  BY <1>2, <1>7
<1>9. Kept(Without(s, ds), s, ds, Len(s))
  BY <1>4, WithoutKeeps
<1> QED BY <1>1, <1>8, <1>9

WireOK ==
  /\ socketOpen \in BOOLEAN /\ panicked \in BOOLEAN /\ ~panicked
  /\ inbound \in Seq(DatagramKinds) /\ Len(inbound) <= InSlots
  /\ engineIn \in [Engines -> Seq(DatagramKinds)]
  /\ rdmLog \in Seq(DatagramKinds \cup {"suppressed"}) /\ sightings \in Nat

RingOK ==
  /\ ringSeq \in 0 .. MaxEntries
  /\ ring \in Seq(Nat) /\ Increasing(ring) /\ Len(ring) <= RingSlots
  /\ ToSet(ring) \subseteq 1 .. ringSeq

\* A Publish goes on with what it copied; the ring, beside it, loses old entries
\* and gets new ones.
PubOK ==
  /\ publishing \in [todo : SUBSET Browsers, snapshot : Seq(Nat),
                     to : SUBSET Browsers, batch : Seq(Nat)]
  /\ Increasing(publishing.snapshot) /\ ToSet(publishing.snapshot) \subseteq 1 .. ringSeq
  /\ Increasing(publishing.batch)
  /\ \A b, c \in publishing.to : b = c
  /\ \A s \in ToSet(ring), x \in ToSet(publishing.snapshot) :
       s <= x => s \in ToSet(publishing.snapshot)

ViewOK ==
  /\ browser \in [Browsers -> {"new", "open", "closed"}]
  /\ batches \in [Browsers -> Seq(Seq(Nat))] /\ \A b \in Browsers : Len(batches[b]) <= BatchSlots
  /\ lastSeq \in [Browsers -> Nat] /\ \A b \in Browsers : lastSeq[b] <= ringSeq
  /\ given \in [Browsers -> Seq(Nat)] /\ dropped \in [Browsers -> SUBSET Nat]

\* What one browser was given, and is about to be.
BrowserOK(b) ==
  /\ Increasing(given[b]) /\ \A s \in ToSet(given[b]) : s <= lastSeq[b]
  /\ b \in publishing.to => \A x \in ToSet(publishing.batch) :
       x <= lastSeq[b] /\ \A s \in ToSet(given[b]) : s < x
  /\ browser[b] = "new" => lastSeq[b] = 0 /\ b \notin publishing.todo \cup publishing.to
  /\ browser[b] = "open" =>
       \A s \in ToSet(ring) : s <= lastSeq[b] =>
         s \in ToSet(given[b]) \cup dropped[b]
           \/ (b \in publishing.to /\ s \in ToSet(publishing.batch))

FeedInv == WireOK /\ RingOK /\ PubOK /\ ViewOK /\ \A b \in Browsers : BrowserOK(b)

\* Channels of any capacity.
LEMMA OfferedFacts ==
  ASSUME NEW S, NEW ch \in Seq(S), NEW x \in S, NEW slots \in Nat
  PROVE  /\ Offered(ch, x, slots) \in Seq(S)
         /\ (Len(ch) <= slots => Len(Offered(ch, x, slots)) <= slots)
<1>1. Len(ch) \in Nat
  OBVIOUS
<1>2. CASE Len(ch) < slots
  <2>1. Append(ch, x) \in Seq(S) /\ Len(Append(ch, x)) = Len(ch) + 1
    OBVIOUS
  <2> QED BY <1>1, <1>2, <2>1 DEF Offered
<1>3. CASE ~(Len(ch) < slots)
  BY <1>3 DEF Offered
<1> QED BY <1>2, <1>3

LEMMA TailFacts ==
  ASSUME NEW S, NEW s \in Seq(S), s # <<>>
  PROVE  /\ Tail(s) \in Seq(S) /\ Len(Tail(s)) = Len(s) - 1 /\ Head(s) \in S
         /\ Len(s) \in Nat \ {0} /\ ToSet(Tail(s)) \subseteq ToSet(s)
<1>1. /\ Tail(s) \in Seq(S) /\ Len(Tail(s)) = Len(s) - 1 /\ Head(s) \in S
      /\ Len(s) \in Nat \ {0}
      /\ \A i \in 1 .. Len(s) - 1 : Tail(s)[i] = s[i + 1]
  OBVIOUS
<1>2. ASSUME NEW i \in DOMAIN Tail(s) PROVE Tail(s)[i] \in ToSet(s)
  <2>1. i \in 1 .. Len(s) - 1
    BY <1>1
  <2>2. i + 1 \in DOMAIN s /\ Tail(s)[i] = s[i + 1]
    BY <1>1, <2>1
  <2> QED BY <2>2 DEF ToSet
<1>3. ToSet(Tail(s)) \subseteq ToSet(s)
  BY <1>2 DEF ToSet
<1> QED BY <1>1, <1>3

LEMMA TailIncreases ==
  ASSUME NEW s \in Seq(Nat), s # <<>>, Increasing(s)
  PROVE  Increasing(Tail(s))
<1>1. /\ Tail(s) \in Seq(Nat) /\ Len(Tail(s)) = Len(s) - 1 /\ Len(s) \in Nat \ {0}
      /\ \A i \in 1 .. Len(s) - 1 : Tail(s)[i] = s[i + 1]
  OBVIOUS
<1> SUFFICES ASSUME NEW i \in 1 .. Len(s) - 1, NEW j \in 1 .. Len(s) - 1, i < j
             PROVE  s[i + 1] < s[j + 1]
  BY <1>1 DEF Increasing
<1>2. i + 1 \in DOMAIN s /\ j + 1 \in DOMAIN s /\ i + 1 < j + 1
  BY <1>1
<1> QED BY <1>2 DEF Increasing

\* One increasing list after another.
LEMMA ConcatIncreases ==
  ASSUME NEW s \in Seq(Nat), NEW t \in Seq(Nat), Increasing(s), Increasing(t),
         \A x \in ToSet(s), y \in ToSet(t) : x < y
  PROVE  s \o t \in Seq(Nat) /\ Increasing(s \o t) /\ ToSet(s \o t) = ToSet(s) \cup ToSet(t)
<1> DEFINE m == Len(s)
           n == Len(t)
           a == s \o t
<1>1. /\ m \in Nat /\ n \in Nat /\ a \in Seq(Nat) /\ DOMAIN a = 1 .. m + n
      /\ DOMAIN s = 1 .. m /\ DOMAIN t = 1 .. n
      /\ \A i \in 1 .. m : s[i] \in Nat
  OBVIOUS
<1>2. \A i \in 1 .. m + n : i <= m => a[i] = s[i]
  OBVIOUS
<1>3. \A i \in 1 .. m + n : i > m => a[i] = t[i - m]
  OBVIOUS
<1> HIDE DEF a, m, n
<1>4. \A i \in 1 .. m : s[i] \in ToSet(s)
  BY <1>1 DEF ToSet
<1>5. \A i \in 1 .. n : t[i] \in ToSet(t)
  BY <1>1 DEF ToSet
<1>6. Increasing(a)
  <2> SUFFICES ASSUME NEW i \in 1 .. m + n, NEW j \in 1 .. m + n, i < j PROVE a[i] < a[j]
    BY <1>1 DEF Increasing
  <2>1. CASE j <= m
    <3>1. i \in DOMAIN s /\ j \in DOMAIN s /\ i <= m
      BY <1>1, <2>1
    <3> QED BY <1>2, <2>1, <3>1 DEF Increasing
  <2>2. CASE i <= m /\ j > m
    <3>1. i \in 1 .. m /\ j - m \in 1 .. n
      BY <1>1, <2>2
    <3>2. s[i] < t[j - m]
      BY <1>4, <1>5, <3>1
    <3> QED BY <1>2, <1>3, <2>2, <3>2
  <2>3. CASE i > m
    <3>1. i - m \in DOMAIN t /\ j - m \in DOMAIN t /\ i - m < j - m /\ j > m
      BY <1>1, <2>3
    <3>2. t[i - m] < t[j - m]
      BY <3>1 DEF Increasing
    <3> QED BY <1>3, <2>3, <3>1, <3>2
  <2> QED BY <1>1, <2>1, <2>2, <2>3
<1>7. ToSet(a) \subseteq ToSet(s) \cup ToSet(t)
  <2> SUFFICES ASSUME NEW i \in 1 .. m + n PROVE a[i] \in ToSet(s) \cup ToSet(t)
    BY <1>1 DEF ToSet
  <2>1. CASE i <= m
    <3>1. i \in 1 .. m
      BY <1>1, <2>1
    <3> QED BY <1>2, <1>4, <2>1, <3>1
  <2>2. CASE i > m
    <3>1. i - m \in 1 .. n
      BY <1>1, <2>2
    <3> QED BY <1>3, <1>5, <2>2, <3>1
  <2> QED BY <1>1, <2>1, <2>2
<1>8. ToSet(s) \subseteq ToSet(a)
  <2> SUFFICES ASSUME NEW i \in 1 .. m PROVE s[i] \in ToSet(a)
    BY <1>1 DEF ToSet
  <2>1. i \in 1 .. m + n /\ i <= m
    BY <1>1
  <2> QED BY <1>1, <1>2, <2>1 DEF ToSet
<1>9. ToSet(t) \subseteq ToSet(a)
  <2> SUFFICES ASSUME NEW i \in 1 .. n PROVE t[i] \in ToSet(a)
    BY <1>1 DEF ToSet
  <2>1. m + i \in 1 .. m + n /\ m + i > m /\ (m + i) - m = i
    BY <1>1
  <2>2. a[m + i] = t[i]
    BY <1>3, <2>1
  <2> QED BY <1>1, <2>1, <2>2 DEF ToSet
<1> QED BY <1>1, <1>6, <1>7, <1>8, <1>9 DEF a

\* A capture: the newest entry has the highest number, and the oldest may go.
LEMMA TappedFacts ==
  ASSUME WireOK, RingOK, NEW kind \in DatagramKinds, NEW in \in BOOLEAN, Tapped(kind, in)
  PROVE  /\ RingOK' /\ ringSeq' = ringSeq + 1
         /\ \A s \in ToSet(ring)' : s \in ToSet(ring) \/ s > ringSeq
         /\ rdmLog' \in Seq(DatagramKinds \cup {"suppressed"}) /\ sightings' \in Nat
<1>1. /\ ringSeq \in 0 .. MaxEntries /\ ringSeq < MaxEntries /\ ringSeq' = ringSeq + 1
      /\ MaxEntries \in Nat /\ RingSlots \in Nat \ {0}
      /\ ring \in Seq(Nat) /\ Increasing(ring) /\ Len(ring) <= RingSlots
      /\ ToSet(ring) \subseteq 1 .. ringSeq
  BY FeedAssumption DEF RingOK, Tapped
<1> DEFINE new == ringSeq + 1
           r == Append(ring, new)
<1>2. ring' = r \/ (ring' = Tail(r) /\ Len(r) > RingSlots)
  BY DEF Tapped
<1>3. Len(r) > RingSlots => ring' = Tail(r)
  BY DEF Tapped
<1>4. r \in Seq(Nat) /\ Len(r) = Len(ring) + 1 /\ r # <<>>
  <2>1. new \in Nat
    BY <1>1
  <2> HIDE DEF new
  <2>2. r \in Seq(Nat) /\ Len(r) = Len(ring) + 1
    BY <1>1, <2>1
  <2>3. Len(r) # 0
    BY <1>1, <2>2
  <2> QED BY <2>2, <2>3
<1>5. Increasing(r) /\ ToSet(r) = ToSet(ring) \cup {new}
  <2>1. /\ DOMAIN ring = 1 .. Len(ring) /\ DOMAIN r = 1 .. Len(ring) + 1 /\ Len(ring) \in Nat
        /\ r[Len(ring) + 1] = new /\ \A i \in 1 .. Len(ring) : r[i] = ring[i]
    BY <1>1
  <2> DEFINE n == Len(ring)
  <2> HIDE DEF r, n
  <2>2. \A i \in 1 .. n : ring[i] \in 1 .. ringSeq
    BY <1>1, <2>1 DEF ToSet, n
  <2>3. \A i \in 1 .. n : r[i] < new
    BY <1>1, <2>1, <2>2 DEF n
  <2>4. Increasing(r)
    <3> SUFFICES ASSUME NEW i \in 1 .. n + 1, NEW j \in 1 .. n + 1, i < j PROVE r[i] < r[j]
      BY <2>1 DEF Increasing, n
    <3>1. n \in Nat /\ i \in 1 .. n
      BY <2>1 DEF n
    <3>2. CASE j = n + 1
      BY <2>1, <2>3, <3>1, <3>2 DEF n
    <3>3. CASE j # n + 1
      <4>1. j \in 1 .. n
        BY <3>1, <3>3
      <4>2. ring[i] < ring[j]
        BY <1>1, <2>1, <3>1, <4>1 DEF Increasing, n
      <4> QED BY <2>1, <3>1, <4>1, <4>2 DEF n
    <3> QED BY <3>2, <3>3
  <2>5. ToSet(r) \subseteq ToSet(ring) \cup {new}
    <3> SUFFICES ASSUME NEW i \in 1 .. n + 1 PROVE r[i] \in ToSet(ring) \cup {new}
      BY <2>1 DEF ToSet, n
    <3>1. CASE i = n + 1
      BY <2>1, <3>1 DEF n
    <3>2. CASE i # n + 1
      <4>1. i \in 1 .. n
        BY <2>1, <3>2 DEF n
      <4> QED BY <2>1, <4>1 DEF ToSet, n
    <3> QED BY <3>1, <3>2
  <2>6. ToSet(ring) \cup {new} \subseteq ToSet(r)
    <3>1. n + 1 \in DOMAIN r /\ \A i \in 1 .. n : i \in DOMAIN r
      BY <2>1 DEF n
    <3>2. new \in ToSet(r)
      BY <2>1, <3>1 DEF ToSet, n
    <3>3. \A i \in DOMAIN ring : ring[i] \in ToSet(r)
      BY <2>1, <3>1 DEF ToSet, n
    <3> QED BY <3>2, <3>3 DEF ToSet
  <2> QED BY <2>4, <2>5, <2>6
<1>6. ToSet(r) \subseteq 1 .. ringSeq + 1
  BY <1>1, <1>5
<1> HIDE DEF r
<1>7. /\ ring' \in Seq(Nat) /\ Increasing(ring') /\ ToSet(ring') \subseteq ToSet(r)
      /\ Len(ring') <= RingSlots
  <2>0. Len(ring) \in Nat
    BY <1>1
  <2>1. CASE Len(r) > RingSlots
    <3>1. Tail(r) \in Seq(Nat) /\ Len(Tail(r)) = Len(r) - 1 /\ ToSet(Tail(r)) \subseteq ToSet(r)
      BY <1>4, TailFacts
    <3>2. Increasing(Tail(r))
      BY <1>4, <1>5, TailIncreases
    <3> DEFINE t == Tail(r)
    <3>3. ring' = t /\ t \in Seq(Nat) /\ Increasing(t) /\ ToSet(t) \subseteq ToSet(r)
      BY <1>3, <2>1, <3>1, <3>2
    <3>4. Len(t) <= RingSlots
      <4>1. Len(t) = Len(ring)
        BY <1>4, <2>0, <3>1
      <4> QED BY <1>1, <4>1
    <3> HIDE DEF t
    <3> QED BY <3>3, <3>4
  <2>2. CASE ~(Len(r) > RingSlots)
    BY <1>1, <1>2, <1>4, <1>5, <2>0, <2>2
  <2> QED BY <2>1, <2>2
<1>8. RingOK'
  <2>1. ToSet(ring)' = ToSet(ring')
    BY DEF ToSet
  <2>2. Increasing(ring)' = Increasing(ring')
    BY DEF Increasing
  <2>3. ringSeq' \in 0 .. MaxEntries
    BY <1>1
  <2> QED BY <1>1, <1>6, <1>7, <2>1, <2>2, <2>3 DEF RingOK
<1>9. \A s \in ToSet(ring)' : s \in ToSet(ring) \/ s > ringSeq
  <2>1. ToSet(ring)' = ToSet(ring')
    BY DEF ToSet
  <2>2. new > ringSeq
    BY <1>1
  <2> QED BY <1>5, <1>7, <2>1, <2>2
<1>10. sightings' \in Nat
  BY DEF Tapped, WireOK
<1>11. rdmLog' \in Seq(DatagramKinds \cup {"suppressed"})
  <2> DEFINE K == DatagramKinds \cup {"suppressed"}
  <2> SUFFICES rdmLog' \in Seq(K)
    OBVIOUS
  <2>1. rdmLog \in Seq(K)
    BY DEF WireOK
  <2>2. CASE kind = "rdm"
    <3>1. rdmLog' = Append(rdmLog, "rdm") /\ "rdm" \in K
      BY <2>2 DEF Tapped
    <3> HIDE DEF K
    <3> DEFINE x == "rdm"
    <3>2. x \in K /\ rdmLog' = Append(rdmLog, x)
      BY <3>1
    <3> HIDE DEF x
    <3> QED BY <2>1, <3>2, AppendProperties
  <2>3. CASE kind = "strange" /\ in
    <3>1. rdmLog' = rdmLog \o LogLines(sightings + 1) /\ "strange" \in K /\ "suppressed" \in K
      BY <2>3 DEF Tapped
    <3> HIDE DEF K
    <3>2. LogLines(sightings + 1) \in Seq(K)
      BY <3>1 DEF LogLines
    <3> DEFINE ll == LogLines(sightings + 1)
    <3>3. ll \in Seq(K) /\ rdmLog' = rdmLog \o ll
      BY <3>1, <3>2
    <3> HIDE DEF ll
    <3> QED BY <2>1, <3>3, ConcatProperties
  <2>4. CASE kind # "rdm" /\ ~(kind = "strange" /\ in)
    BY <2>1, <2>4 DEF Tapped
  <2> QED BY <2>2, <2>3, <2>4
<1> QED BY <1>1, <1>8, <1>9, <1>10, <1>11

\* Whatever the ring gains and loses, no browser is given anything else for it.
LEMMA RingMoves ==
  ASSUME FeedInv, RingOK', ringSeq' \in Nat, ringSeq <= ringSeq',
         \A s \in ToSet(ring)' : s \in ToSet(ring) \/ s > ringSeq,
         UNCHANGED viewVars
  PROVE  PubOK' /\ ViewOK' /\ \A b \in Browsers : BrowserOK(b)'
<1>1. /\ browser' = browser /\ batches' = batches /\ lastSeq' = lastSeq
      /\ publishing' = publishing /\ given' = given /\ dropped' = dropped
  BY DEF viewVars
<1>2. ringSeq \in Nat
  BY DEF FeedInv, RingOK
<1>3. PubOK'
  <2> DEFINE snap == ToSet(publishing.snapshot)
  <2>0. /\ publishing \in [todo : SUBSET Browsers, snapshot : Seq(Nat),
                           to : SUBSET Browsers, batch : Seq(Nat)]
        /\ Increasing(publishing.snapshot) /\ snap \subseteq 1 .. ringSeq
        /\ Increasing(publishing.batch) /\ \A b, c \in publishing.to : b = c
        /\ \A s \in ToSet(ring), x \in snap : s <= x => s \in snap
    BY DEF FeedInv, PubOK
  <2>1. snap \subseteq 1 .. ringSeq'
    BY <1>2, <2>0
  <2>2. ASSUME NEW s \in ToSet(ring)', NEW x \in snap, s <= x
        PROVE  s \in snap
    <3>1. x \in 1 .. ringSeq
      BY <2>0
    <3>2. s \in ToSet(ring)
      BY <1>2, <2>2, <3>1
    <3> QED BY <2>0, <2>2, <3>2
  <2>3. snap' = snap
    BY <1>1 DEF ToSet
  <2> HIDE DEF snap
  <2>4. \A s \in ToSet(ring)', x \in snap' : s <= x => s \in snap'
    BY <2>2, <2>3
  <2> QED BY <1>1, <2>0, <2>1, <2>3, <2>4 DEF PubOK, Increasing, snap
<1>4. ViewOK'
  <2>1. \A b \in Browsers : lastSeq'[b] <= ringSeq' /\ lastSeq[b] \in Nat
    BY <1>1, <1>2 DEF FeedInv, ViewOK
  <2> QED BY <1>1, <2>1 DEF FeedInv, ViewOK
<1>5. ASSUME NEW b \in Browsers PROVE BrowserOK(b)'
  <2>1. BrowserOK(b) /\ lastSeq[b] \in Nat /\ lastSeq[b] <= ringSeq
    BY DEF FeedInv, ViewOK
  <2>2. ASSUME browser[b] = "open", NEW s \in ToSet(ring)', s <= lastSeq[b]
        PROVE  s \in ToSet(given[b]) \cup dropped[b]
                 \/ (b \in publishing.to /\ s \in ToSet(publishing.batch))
    <3>1. s \in Nat
      <4>1. ToSet(ring)' \subseteq 1 .. ringSeq'
        BY DEF RingOK
      <4> QED BY <2>2, <4>1
    <3>2. s \in ToSet(ring)
      BY <1>2, <2>1, <2>2, <3>1
    <3> QED BY <2>1, <2>2, <3>2 DEF BrowserOK
  <2>3. ToSet(given[b])' = ToSet(given[b]) /\ ToSet(publishing.batch)' = ToSet(publishing.batch)
    BY <1>1 DEF ToSet
  <2>4. Increasing(given[b])' = Increasing(given[b])
    BY <1>1 DEF Increasing
  <2> QED BY <1>1, <2>1, <2>2, <2>3, <2>4 DEF BrowserOK
<1> QED BY <1>3, <1>4, <1>5

LEMMA WireKeeps ==
  ASSUME FeedInv,
         \/ \E k \in DatagramKinds : Receive(k)
         \/ \E g \in Engines : EngineTakes(g)
         \/ CloseSocket
  PROVE  FeedInv'
<1>1. UNCHANGED <<captureVars, viewVars>>
  BY DEF Receive, EngineTakes, CloseSocket
<1>2. /\ ring' = ring /\ ringSeq' = ringSeq /\ rdmLog' = rdmLog /\ sightings' = sightings
      /\ panicked' = panicked
  BY <1>1 DEF captureVars, viewVars
<1>3. RingOK'
  BY <1>2 DEF FeedInv, RingOK, Increasing, ToSet
<1>4. PubOK' /\ ViewOK' /\ \A b \in Browsers : BrowserOK(b)'
  <2>1. ringSeq' \in Nat /\ ringSeq <= ringSeq'
    BY <1>2 DEF FeedInv, RingOK
  <2>2. \A s \in ToSet(ring)' : s \in ToSet(ring)
    BY <1>2 DEF ToSet
  <2> QED BY <1>1, <1>3, <2>1, <2>2, RingMoves
<1>5. WireOK'
  <2>1. ASSUME NEW k \in DatagramKinds, Receive(k) PROVE WireOK'
    <3>1. inbound' = Offered(inbound, k, InSlots) /\ socketOpen' = socketOpen /\ engineIn' = engineIn
      BY <2>1 DEF Receive
    <3>2. InSlots \in Nat
      BY FeedAssumption
    <3>3. inbound' \in Seq(DatagramKinds) /\ Len(inbound') <= InSlots
      BY <3>1, <3>2, OfferedFacts DEF FeedInv, WireOK
    <3> QED BY <1>2, <3>1, <3>3 DEF FeedInv, WireOK
  <2>2. ASSUME NEW g \in Engines, EngineTakes(g) PROVE WireOK'
    <3>1. /\ engineIn' = [engineIn EXCEPT ![g] = Tail(engineIn[g])] /\ engineIn[g] # <<>>
          /\ inbound' = inbound /\ socketOpen' = socketOpen
      BY <2>2 DEF EngineTakes
    <3>2. engineIn[g] \in Seq(DatagramKinds)
      BY DEF FeedInv, WireOK
    <3>3. Tail(engineIn[g]) \in Seq(DatagramKinds)
      BY <3>1, <3>2, TailFacts
    <3>4. engineIn' \in [Engines -> Seq(DatagramKinds)]
      BY <3>1, <3>3 DEF FeedInv, WireOK
    <3> QED BY <1>2, <3>1, <3>4 DEF FeedInv, WireOK
  <2>3. CASE CloseSocket
    <3>1. socketOpen' = FALSE /\ inbound' = inbound /\ engineIn' = engineIn
      BY <2>3 DEF CloseSocket
    <3> QED BY <1>2, <3>1 DEF FeedInv, WireOK
  <2> QED BY <2>1, <2>2, <2>3
<1> QED BY <1>3, <1>4, <1>5 DEF FeedInv

LEMMA CaptureKeeps ==
  ASSUME FeedInv, Pump \/ (\E k \in DatagramKinds \ {"strange"} : SendOut(k)) \/ ClearRing
  PROVE  FeedInv'
<1>1. UNCHANGED viewVars /\ panicked' = panicked
  BY DEF Pump, SendOut, ClearRing, viewVars
<1>2. ASSUME RingOK', ringSeq' \in Nat, ringSeq <= ringSeq', WireOK',
             \A s \in ToSet(ring)' : s \in ToSet(ring) \/ s > ringSeq
      PROVE  FeedInv'
  BY <1>1, <1>2, RingMoves DEF FeedInv
<1>3. CASE Pump
  <2>1. /\ inbound # <<>> /\ inbound' = Tail(inbound) /\ Tapped(Head(inbound), TRUE)
        /\ engineIn' = [g \in Engines |-> Offered(engineIn[g], Head(inbound), EngineSlots)]
        /\ socketOpen' = socketOpen
    BY <1>3 DEF Pump
  <2>2. /\ Head(inbound) \in DatagramKinds /\ inbound' \in Seq(DatagramKinds)
        /\ Len(inbound') <= InSlots
    <3>1. inbound \in Seq(DatagramKinds) /\ Len(inbound) <= InSlots /\ InSlots \in Nat
      BY FeedAssumption DEF FeedInv, WireOK
    <3>2. /\ Tail(inbound) \in Seq(DatagramKinds) /\ Len(Tail(inbound)) = Len(inbound) - 1
          /\ Head(inbound) \in DatagramKinds /\ Len(inbound) \in Nat \ {0}
      BY <2>1, <3>1, TailFacts
    <3> QED BY <2>1, <3>1, <3>2
  <2> DEFINE h == Head(inbound)
             in == TRUE
  <2>3. h \in DatagramKinds /\ in \in BOOLEAN /\ Tapped(h, in)
    BY <2>1, <2>2
  <2>4. engineIn' = [g \in Engines |-> Offered(engineIn[g], h, EngineSlots)]
    BY <2>1
  <2> HIDE DEF h, in
  <2>5. /\ RingOK' /\ ringSeq' = ringSeq + 1
        /\ \A s \in ToSet(ring)' : s \in ToSet(ring) \/ s > ringSeq
        /\ rdmLog' \in Seq(DatagramKinds \cup {"suppressed"}) /\ sightings' \in Nat
    BY <2>3, TappedFacts DEF FeedInv
  <2>6. engineIn' \in [Engines -> Seq(DatagramKinds)]
    <3>1. EngineSlots \in Nat
      BY FeedAssumption
    <3>2. \A g \in Engines : Offered(engineIn[g], h, EngineSlots) \in Seq(DatagramKinds)
      BY <2>3, <3>1, OfferedFacts DEF FeedInv, WireOK
    <3> QED BY <2>4, <3>2
  <2>7. WireOK'
    BY <1>1, <2>1, <2>2, <2>5, <2>6 DEF FeedInv, WireOK
  <2>8. ringSeq \in Nat
    BY DEF FeedInv, RingOK
  <2> QED BY <1>2, <2>5, <2>7, <2>8
<1>4. ASSUME NEW k \in DatagramKinds, SendOut(k) PROVE FeedInv'
  <2> DEFINE in == FALSE
  <2>1. Tapped(k, in) /\ socketOpen' = socketOpen /\ inbound' = inbound /\ engineIn' = engineIn
    BY <1>4 DEF SendOut, wireVars
  <2>2. in \in BOOLEAN
    OBVIOUS
  <2> HIDE DEF in
  <2>3. /\ RingOK' /\ ringSeq' = ringSeq + 1
        /\ \A s \in ToSet(ring)' : s \in ToSet(ring) \/ s > ringSeq
        /\ rdmLog' \in Seq(DatagramKinds \cup {"suppressed"}) /\ sightings' \in Nat
    BY <2>1, <2>2, TappedFacts DEF FeedInv
  <2>4. WireOK'
    BY <1>1, <2>1, <2>3 DEF FeedInv, WireOK
  <2>5. ringSeq \in Nat
    BY DEF FeedInv, RingOK
  <2> QED BY <1>2, <2>3, <2>4, <2>5
<1>5. CASE ClearRing
  <2>1. /\ ring' = <<>> /\ ringSeq' = ringSeq /\ rdmLog' = rdmLog /\ sightings' = sightings
        /\ socketOpen' = socketOpen /\ inbound' = inbound /\ engineIn' = engineIn
    BY <1>5 DEF ClearRing, wireVars
  <2>2. ToSet(ring)' = {}
    BY <2>1 DEF ToSet
  <2>3. RingOK'
    <3>1. ring' \in Seq(Nat) /\ Len(ring') = 0
      BY <2>1
    <3>2. Increasing(ring)'
      BY <2>1 DEF Increasing
    <3>3. Len(ring') <= RingSlots
      BY <3>1, FeedAssumption
    <3> QED BY <2>1, <2>2, <3>1, <3>2, <3>3 DEF FeedInv, RingOK
  <2>4. WireOK'
    BY <1>1, <2>1 DEF FeedInv, WireOK
  <2>5. ringSeq' \in Nat /\ ringSeq <= ringSeq'
    BY <2>1 DEF FeedInv, RingOK
  <2> QED BY <1>2, <2>2, <2>3, <2>4, <2>5
<1> QED BY <1>3, <1>4, <1>5

\* A Publish holds nothing, what it held before, or what the ring holds.
LEMMA PubMoves ==
  ASSUME RingOK, PubOK, ring' = ring, ringSeq' = ringSeq,
         publishing' \in [todo : SUBSET Browsers, snapshot : Seq(Nat),
                          to : SUBSET Browsers, batch : Seq(Nat)],
         publishing'.snapshot \in {publishing.snapshot, <<>>, ring},
         Increasing(publishing'.batch), \A b, c \in publishing'.to : b = c
  PROVE  PubOK'
<1> DEFINE old == publishing.snapshot
           new == publishing'.snapshot
<1>1. /\ Increasing(old) /\ ToSet(old) \subseteq 1 .. ringSeq
      /\ \A s \in ToSet(ring), x \in ToSet(old) : s <= x => s \in ToSet(old)
  BY DEF PubOK
<1>2. Increasing(ring) /\ ToSet(ring) \subseteq 1 .. ringSeq
  BY DEF RingOK
<1>3. Increasing(<<>>) /\ ToSet(<<>>) = {}
  BY DEF Increasing, ToSet
<1>4. ToSet(publishing.snapshot)' = ToSet(new) /\ ToSet(ring)' = ToSet(ring)
  BY DEF ToSet
<1>5. /\ Increasing(publishing.snapshot)' = Increasing(new)
      /\ Increasing(publishing.batch)' = Increasing(publishing'.batch)
  BY DEF Increasing
<1>6. new = old \/ new = <<>> \/ new = ring
  OBVIOUS
<1> HIDE DEF old, new
<1>7. /\ Increasing(new) /\ ToSet(new) \subseteq 1 .. ringSeq
      /\ \A s \in ToSet(ring), x \in ToSet(new) : s <= x => s \in ToSet(new)
  <2>1. CASE new = old
    BY <1>1, <2>1
  <2>2. CASE new = <<>>
    BY <1>3, <2>2
  <2>3. CASE new = ring
    BY <1>2, <2>3
  <2> QED BY <1>6, <2>1, <2>2, <2>3
<1> QED BY <1>4, <1>5, <1>7 DEF PubOK

\* A step of one connection, or of a Publish for it, leaves the others alone.
LEMMA BrowserStays ==
  ASSUME NEW c \in Browsers, BrowserOK(c), c \notin publishing.to, c \notin publishing'.to,
         ring' = ring, given'[c] = given[c], dropped'[c] = dropped[c], lastSeq'[c] = lastSeq[c],
         browser'[c] = browser[c] \/ browser'[c] = "closed",
         c \in publishing'.todo => c \in publishing.todo \/ browser[c] # "new"
  PROVE  BrowserOK(c)'
<1>1. /\ ToSet(given[c])' = ToSet(given[c]) /\ Increasing(given[c])' = Increasing(given[c])
      /\ ToSet(ring)' = ToSet(ring)
  BY DEF ToSet, Increasing
<1>2. /\ Increasing(given[c]) /\ \A s \in ToSet(given[c]) : s <= lastSeq[c]
      /\ browser[c] = "new" => lastSeq[c] = 0 /\ c \notin publishing.todo
      /\ browser[c] = "open" =>
           \A s \in ToSet(ring) : s <= lastSeq[c] => s \in ToSet(given[c]) \cup dropped[c]
  BY DEF BrowserOK
<1>3. browser'[c] = "new" => lastSeq'[c] = 0 /\ c \notin publishing'.todo \cup publishing'.to
  BY <1>2
<1>4. browser'[c] = "open" =>
        \A s \in ToSet(ring) : s <= lastSeq'[c] => s \in ToSet(given[c]) \cup dropped'[c]
  BY <1>2
<1> QED BY <1>1, <1>2, <1>3, <1>4 DEF BrowserOK

LEMMA ViewSteps ==
  ASSUME FeedInv, UNCHANGED <<wireVars, captureVars, panicked>>,
         PubOK', ViewOK', \A c \in Browsers : BrowserOK(c)'
  PROVE  FeedInv'
<1>1. /\ socketOpen' = socketOpen /\ inbound' = inbound /\ engineIn' = engineIn
      /\ ring' = ring /\ ringSeq' = ringSeq /\ rdmLog' = rdmLog /\ sightings' = sightings
      /\ panicked' = panicked
  BY DEF wireVars, captureVars
<1>2. WireOK'
  BY <1>1 DEF FeedInv, WireOK
<1>3. RingOK'
  <2>1. ToSet(ring)' = ToSet(ring) /\ Increasing(ring)' = Increasing(ring)
    BY <1>1 DEF ToSet, Increasing
  <2> QED BY <1>1, <2>1 DEF FeedInv, RingOK
<1> QED BY <1>2, <1>3 DEF FeedInv

\* Connections come, read and go.
LEMMA ConnectionKeeps ==
  ASSUME FeedInv, NEW b \in Browsers, Connect(b) \/ TakeBatch(b) \/ Disconnect(b)
  PROVE  FeedInv'
<1>1. /\ UNCHANGED <<wireVars, captureVars, panicked>> /\ ring' = ring /\ ringSeq' = ringSeq
      /\ lastSeq' = lastSeq /\ publishing' = publishing /\ given' = given /\ dropped' = dropped
  BY DEF Connect, TakeBatch, Disconnect, captureVars
<1>2. /\ RingOK /\ PubOK /\ ViewOK /\ \A c \in Browsers : BrowserOK(c)
  BY DEF FeedInv
<1>3. PubOK'
  <2>1. ToSet(ring)' = ToSet(ring) /\ ToSet(publishing.snapshot)' = ToSet(publishing.snapshot)
    BY <1>1 DEF ToSet
  <2>2. /\ Increasing(publishing.snapshot)' = Increasing(publishing.snapshot)
        /\ Increasing(publishing.batch)' = Increasing(publishing.batch)
    BY <1>1 DEF Increasing
  <2> QED BY <1>1, <1>2, <2>1, <2>2 DEF PubOK
<1>4. ViewOK'
  <2>1. browser' \in [Browsers -> {"new", "open", "closed"}]
    BY <1>2 DEF ViewOK, Connect, TakeBatch, Disconnect
  <2>2. batches' \in [Browsers -> Seq(Seq(Nat))] /\ \A c \in Browsers : Len(batches'[c]) <= BatchSlots
    <3>1. CASE batches' = batches
      BY <1>2, <3>1 DEF ViewOK
    <3>2. CASE TakeBatch(b)
      <4>1. batches' = [batches EXCEPT ![b] = Tail(batches[b])] /\ batches[b] # <<>>
        BY <3>2 DEF TakeBatch
      <4>2. /\ batches[b] \in Seq(Seq(Nat)) /\ Len(batches[b]) <= BatchSlots
            /\ \A c \in Browsers : Len(batches[c]) <= BatchSlots
            /\ batches \in [Browsers -> Seq(Seq(Nat))]
        BY <1>2 DEF ViewOK
      <4> DEFINE S == Seq(Nat)
                 ch == batches[b]
                 left == Tail(ch)
      <4>3. BatchSlots \in Nat
        BY FeedAssumption
      <4> HIDE DEF S
      <4>4. ch \in Seq(S) /\ ch # <<>>
        BY <4>1, <4>2 DEF S
      <4> HIDE DEF ch
      <4>5. left \in Seq(S) /\ Len(left) = Len(ch) - 1 /\ Len(ch) \in Nat \ {0}
        BY <4>4, TailFacts
      <4>6. Len(left) <= BatchSlots
        BY <4>2, <4>3, <4>5 DEF ch
      <4>7. batches' = [batches EXCEPT ![b] = left]
        BY <4>1 DEF ch
      <4> HIDE DEF left
      <4>8. \A c \in Browsers : batches'[c] = IF c = b THEN left ELSE batches[c]
        BY <4>2, <4>7
      <4>9. \A c \in Browsers : Len(batches'[c]) <= BatchSlots
        BY <4>2, <4>6, <4>8
      <4>10. batches' \in [Browsers -> Seq(S)]
        BY <4>2, <4>5, <4>7 DEF S
      <4> QED BY <4>9, <4>10 DEF S
    <3> QED BY <3>1, <3>2 DEF Connect, Disconnect
  <2> QED BY <1>1, <1>2, <2>1, <2>2 DEF ViewOK
<1>5. ASSUME NEW c \in Browsers PROVE BrowserOK(c)'
  <2>1. /\ ToSet(given[c])' = ToSet(given[c]) /\ Increasing(given[c])' = Increasing(given[c])
        /\ ToSet(ring)' = ToSet(ring) /\ ToSet(publishing.batch)' = ToSet(publishing.batch)
    BY <1>1 DEF ToSet, Increasing
  <2>2. \/ browser'[c] = browser[c] \/ browser'[c] = "closed"
        \/ browser[c] = "new" /\ browser'[c] = "open"
    BY <1>2 DEF ViewOK, Connect, TakeBatch, Disconnect
  <2>3. browser[c] = "new" => \A s \in ToSet(ring) : ~(s <= lastSeq[c])
    <3>1. ToSet(ring) \subseteq 1 .. ringSeq
      BY <1>2 DEF RingOK
    <3>2. browser[c] = "new" => lastSeq[c] = 0
      BY <1>2 DEF BrowserOK
    <3> QED BY <3>1, <3>2
  <2>4. /\ Increasing(given[c]) /\ \A s \in ToSet(given[c]) : s <= lastSeq[c]
        /\ c \in publishing.to => \A x \in ToSet(publishing.batch) :
             x <= lastSeq[c] /\ \A s \in ToSet(given[c]) : s < x
        /\ browser[c] = "new" => lastSeq[c] = 0 /\ c \notin publishing.todo \cup publishing.to
    BY <1>2 DEF BrowserOK
  <2>5. browser'[c] = "open" =>
          \A s \in ToSet(ring) : s <= lastSeq[c] =>
            s \in ToSet(given[c]) \cup dropped[c]
              \/ (c \in publishing.to /\ s \in ToSet(publishing.batch))
    BY <1>2, <2>2, <2>3 DEF BrowserOK
  <2>6. browser'[c] = "new" => browser[c] = "new"
    BY <2>2
  <2> QED BY <1>1, <2>1, <2>4, <2>5, <2>6 DEF BrowserOK
<1> QED BY <1>1, <1>3, <1>4, <1>5, ViewSteps

\* What a Publish collects for one subscriber: what is beyond its mark, all of it.
LEMMA CollectedFacts ==
  ASSUME NEW snap \in Seq(Nat), Increasing(snap), NEW mark \in Nat
  PROVE  LET new == Without(snap, 0 .. mark)
         IN /\ new \in Seq(Nat) /\ Increasing(new)
            /\ \A x \in ToSet(new) : x \in ToSet(snap) /\ x > mark
            /\ \A x \in ToSet(snap) : x > mark => x \in ToSet(new)
            /\ new # <<>> => Last(new) \in ToSet(new) /\ \A x \in ToSet(new) : x <= Last(new)
<1> DEFINE D == 0 .. mark
           new == Without(snap, D)
<1>1. new \in Seq(Nat) /\ Increasing(new) /\ Kept(new, snap, D, Len(snap))
  BY WithoutIncreases
<1>2. \A x \in Nat : (x \in D) <=> ~(x > mark)
  OBVIOUS
<1> HIDE DEF new, D
<1>3. /\ DOMAIN snap = 1 .. Len(snap) /\ \A j \in 1 .. Len(snap) : snap[j] \in Nat
      /\ DOMAIN new = 1 .. Len(new) /\ Len(new) \in Nat /\ \A i \in DOMAIN new : new[i] \in Nat
  BY <1>1
<1>4. \A x \in ToSet(new) : x \in ToSet(snap) /\ x > mark
  <2> SUFFICES ASSUME NEW i \in DOMAIN new PROVE new[i] \in ToSet(snap) /\ new[i] > mark
    BY DEF ToSet
  <2>1. new[i] \notin D /\ \E j \in 1 .. Len(snap) : new[i] = snap[j]
    BY <1>1 DEF Kept
  <2>2. new[i] \in ToSet(snap)
    BY <1>3, <2>1 DEF ToSet
  <2> QED BY <1>2, <1>3, <2>1, <2>2
<1>5. \A x \in ToSet(snap) : x > mark => x \in ToSet(new)
  <2> SUFFICES ASSUME NEW j \in 1 .. Len(snap), snap[j] > mark PROVE snap[j] \in ToSet(new)
    BY <1>3 DEF ToSet
  <2>1. snap[j] \notin D
    BY <1>2, <1>3
  <2>2. \E i \in DOMAIN new : new[i] = snap[j]
    BY <1>1, <2>1 DEF Kept
  <2> QED BY <2>2 DEF ToSet
<1>6. ASSUME new # <<>>
      PROVE  Last(new) \in ToSet(new) /\ \A x \in ToSet(new) : x <= Last(new)
  <2>1. Len(new) # 0
    BY <1>1, <1>6
  <2>2. Len(new) \in DOMAIN new
    BY <1>3, <2>1
  <2>3. Last(new) \in ToSet(new)
    BY <2>2 DEF ToSet, Last
  <2>4. ASSUME NEW i \in DOMAIN new PROVE new[i] <= Last(new)
    <3>1. CASE i = Len(new)
      BY <1>3, <3>1 DEF Last
    <3>2. CASE i # Len(new)
      <4>1. i < Len(new)
        BY <1>3, <3>2
      <4>2. new[i] < new[Len(new)]
        BY <1>1, <2>2, <4>1 DEF Increasing
      <4> QED BY <1>3, <2>2, <4>2 DEF Last
    <3> QED BY <3>1, <3>2
  <2> QED BY <2>3, <2>4 DEF ToSet
<1> QED BY <1>1, <1>4, <1>5, <1>6 DEF new, D

LEMMA BeginsKeeps ==
  ASSUME FeedInv, PublishBegins PROVE FeedInv'
<1>1. /\ UNCHANGED <<wireVars, captureVars, panicked>> /\ ring' = ring /\ ringSeq' = ringSeq
      /\ lastSeq' = lastSeq /\ given' = given /\ dropped' = dropped
      /\ browser' = browser /\ batches' = batches
  BY DEF PublishBegins, captureVars
<1>2. /\ RingOK /\ PubOK /\ ViewOK /\ \A c \in Browsers : BrowserOK(c)
  BY DEF FeedInv
<1>3. /\ publishing.to = {}
      /\ publishing' = [todo |-> {b \in Browsers : browser[b] = "open"}, snapshot |-> ring,
                        to |-> {}, batch |-> <<>>]
  BY DEF PublishBegins, NoPublish
<1>4. PubOK'
  <2>1. ring \in Seq(Nat) /\ <<>> \in Seq(Nat) /\ Increasing(<<>>)
    BY <1>2 DEF RingOK, Increasing
  <2>2. /\ publishing'.snapshot = ring /\ publishing'.batch = <<>> /\ publishing'.to = {}
        /\ publishing' \in [todo : SUBSET Browsers, snapshot : Seq(Nat),
                            to : SUBSET Browsers, batch : Seq(Nat)]
    BY <1>3, <2>1
  <2>3. Increasing(publishing'.batch)
    BY <2>1, <2>2
  <2> QED BY <1>1, <1>2, <2>2, <2>3, PubMoves
<1>5. ViewOK'
  BY <1>1, <1>2 DEF ViewOK
<1>6. ASSUME NEW c \in Browsers PROVE BrowserOK(c)'
  <2>1. c \notin publishing'.to /\ (c \in publishing'.todo => browser[c] # "new")
    BY <1>3
  <2> QED BY <1>1, <1>2, <1>3, <2>1, BrowserStays
<1> QED BY <1>1, <1>4, <1>5, <1>6, ViewSteps

LEMMA PreparesKeeps ==
  ASSUME FeedInv, NEW b \in Browsers, PublishPrepares(b) PROVE FeedInv'
<1> DEFINE snap == publishing.snapshot
           new == Without(snap, 0 .. lastSeq[b])
           rest == publishing.todo \ {b}
<1>1. /\ UNCHANGED <<wireVars, captureVars, panicked>> /\ ring' = ring /\ ringSeq' = ringSeq
      /\ given' = given /\ dropped' = dropped /\ browser' = browser /\ batches' = batches
      /\ publishing.to = {} /\ b \in publishing.todo
  BY DEF PublishPrepares, captureVars
<1>2. /\ RingOK /\ PubOK /\ ViewOK /\ \A c \in Browsers : BrowserOK(c)
  BY DEF FeedInv
<1>3. /\ publishing \in [todo : SUBSET Browsers, snapshot : Seq(Nat),
                         to : SUBSET Browsers, batch : Seq(Nat)]
      /\ Increasing(snap) /\ ToSet(snap) \subseteq 1 .. ringSeq
      /\ \A s \in ToSet(ring), x \in ToSet(snap) : s <= x => s \in ToSet(snap)
  BY <1>2 DEF PubOK
<1>4. lastSeq \in [Browsers -> Nat] /\ lastSeq[b] \in Nat /\ ringSeq \in Nat
  BY <1>2 DEF ViewOK, RingOK
<1>5. /\ new \in Seq(Nat) /\ Increasing(new)
      /\ \A x \in ToSet(new) : x \in ToSet(snap) /\ x > lastSeq[b]
      /\ \A x \in ToSet(snap) : x > lastSeq[b] => x \in ToSet(new)
      /\ new # <<>> => Last(new) \in ToSet(new) /\ \A x \in ToSet(new) : x <= Last(new)
  BY <1>3, <1>4, CollectedFacts
<1>6. CASE new # <<>>
  <2>1. /\ publishing' = [publishing EXCEPT !.todo = rest, !.to = {b}, !.batch = new]
        /\ lastSeq' = [lastSeq EXCEPT ![b] = Last(new)]
    BY <1>6 DEF PublishPrepares
  <2> HIDE DEF new
  <2> DEFINE top == Last(new)
  <2>2. /\ publishing'.todo = rest /\ publishing'.to = {b} /\ publishing'.batch = new
        /\ publishing'.snapshot = snap
        /\ publishing' \in [todo : SUBSET Browsers, snapshot : Seq(Nat),
                            to : SUBSET Browsers, batch : Seq(Nat)]
    BY <1>3, <1>5, <2>1
  <2>3. /\ top \in ToSet(new) /\ \A x \in ToSet(new) : x <= top
        /\ lastSeq' = [lastSeq EXCEPT ![b] = top]
    BY <1>5, <1>6, <2>1
  <2> HIDE DEF top, snap, rest
  <2>4. top \in Nat /\ top > lastSeq[b] /\ top <= ringSeq /\ top \in ToSet(snap)
    BY <1>3, <1>4, <1>5, <2>3
  <2>5. /\ lastSeq' \in [Browsers -> Nat]
        /\ \A c \in Browsers : lastSeq'[c] = IF c = b THEN top ELSE lastSeq[c]
    BY <1>4, <2>3, <2>4
  <2>6. PubOK'
    <3>1. Increasing(publishing'.batch) /\ \A c, d \in publishing'.to : c = d
      BY <1>5, <2>2
    <3>2. publishing'.snapshot \in {publishing.snapshot, <<>>, ring}
      BY <2>2 DEF snap
    <3> QED BY <1>1, <1>2, <2>2, <3>1, <3>2, PubMoves
  <2>7. ViewOK'
    <3>1. \A c \in Browsers : lastSeq'[c] <= ringSeq'
      BY <1>1, <1>2, <2>4, <2>5 DEF ViewOK
    <3> QED BY <1>1, <1>2, <2>5, <3>1 DEF ViewOK
  <2>8. BrowserOK(b)'
    <3>1. /\ ToSet(given[b])' = ToSet(given[b]) /\ Increasing(given[b])' = Increasing(given[b])
          /\ ToSet(ring)' = ToSet(ring) /\ ToSet(publishing.batch)' = ToSet(new)
      BY <1>1, <2>2 DEF ToSet, Increasing
    <3>2. /\ Increasing(given[b]) /\ \A s \in ToSet(given[b]) : s <= lastSeq[b]
          /\ browser[b] # "new"
          /\ browser[b] = "open" =>
               \A s \in ToSet(ring) : s <= lastSeq[b] => s \in ToSet(given[b]) \cup dropped[b]
      BY <1>1, <1>2 DEF BrowserOK
    <3>3. \A s \in ToSet(given[b]) : s \in Nat
      BY <1>2 DEF ViewOK, ToSet
    <3>4. lastSeq'[b] = top
      BY <2>5
    <3>5. \A s \in ToSet(given[b]) : s <= top
      BY <1>4, <2>4, <3>2, <3>3
    <3>6. \A x \in ToSet(new) : x <= top /\ \A s \in ToSet(given[b]) : s < x
      <4>1. \A x \in ToSet(new) : x \in Nat /\ x > lastSeq[b]
        BY <1>3, <1>4, <1>5
      <4> QED BY <1>4, <2>3, <3>2, <3>3, <4>1
    <3>7. browser[b] = "open" =>
            \A s \in ToSet(ring) : s <= top =>
              s \in ToSet(given[b]) \cup dropped[b] \/ s \in ToSet(new)
      <4> SUFFICES ASSUME browser[b] = "open", NEW s \in ToSet(ring), s <= top
                   PROVE  s \in ToSet(given[b]) \cup dropped[b] \/ s \in ToSet(new)
        OBVIOUS
      <4>1. s \in Nat
        BY <1>2 DEF RingOK
      <4>2. CASE s <= lastSeq[b]
        BY <3>2, <4>2
      <4>3. CASE s > lastSeq[b]
        <5>1. s \in ToSet(snap)
          BY <1>3, <2>4
        <5> QED BY <1>5, <4>3, <5>1
      <4> QED BY <1>4, <4>1, <4>2, <4>3
    <3>8. b \in publishing'.to
      BY <2>2
    <3> QED BY <1>1, <3>1, <3>2, <3>4, <3>5, <3>6, <3>7, <3>8 DEF BrowserOK
  <2>9. ASSUME NEW c \in Browsers \ {b} PROVE BrowserOK(c)'
    <3>1. /\ c \notin publishing.to /\ c \notin publishing'.to /\ lastSeq'[c] = lastSeq[c]
          /\ (c \in publishing'.todo => c \in publishing.todo)
      BY <1>1, <2>2, <2>5 DEF rest
    <3> QED BY <1>1, <1>2, <3>1, BrowserStays
  <2> QED BY <1>1, <2>6, <2>7, <2>8, <2>9, ViewSteps
<1>7. CASE new = <<>>
  <2>1. /\ publishing' = NoPublish \/ publishing' = [publishing EXCEPT !.todo = rest]
        /\ lastSeq' = lastSeq
    BY <1>7 DEF PublishPrepares
  <2> HIDE DEF new
  <2>2. /\ publishing'.to = {} /\ publishing'.todo \subseteq publishing.todo
        /\ publishing'.snapshot \in {publishing.snapshot, <<>>, ring}
        /\ publishing'.batch \in {publishing.batch, <<>>}
        /\ publishing' \in [todo : SUBSET Browsers, snapshot : Seq(Nat),
                            to : SUBSET Browsers, batch : Seq(Nat)]
    <3>1. CASE publishing' = NoPublish
      BY <3>1 DEF NoPublish
    <3>2. CASE publishing' = [publishing EXCEPT !.todo = rest]
      BY <1>1, <1>3, <3>2
    <3> QED BY <2>1, <3>1, <3>2
  <2>3. PubOK'
    <3>1. Increasing(publishing.batch) /\ Increasing(<<>>)
      BY <1>2 DEF PubOK, Increasing
    <3>2. Increasing(publishing'.batch)
      BY <2>2, <3>1
    <3> QED BY <1>1, <1>2, <2>2, <3>2, PubMoves
  <2>4. ViewOK'
    BY <1>1, <1>2, <2>1 DEF ViewOK
  <2>5. ASSUME NEW c \in Browsers PROVE BrowserOK(c)'
    BY <1>1, <1>2, <2>1, <2>2, BrowserStays
  <2> QED BY <1>1, <2>3, <2>4, <2>5, ViewSteps
<1> QED BY <1>6, <1>7

LEMMA SendsKeeps ==
  ASSUME FeedInv, NEW b \in Browsers, PublishSends(b) PROVE FeedInv'
<1> DEFINE batch == publishing.batch
<1>1. /\ UNCHANGED <<wireVars, captureVars, panicked>> /\ ring' = ring /\ ringSeq' = ringSeq
      /\ lastSeq' = lastSeq /\ browser' = browser
      /\ publishing' = Sent /\ b \in publishing.to
  BY DEF PublishSends, captureVars
<1>2. /\ RingOK /\ PubOK /\ ViewOK /\ \A c \in Browsers : BrowserOK(c)
  BY DEF FeedInv
<1>3. /\ publishing \in [todo : SUBSET Browsers, snapshot : Seq(Nat),
                         to : SUBSET Browsers, batch : Seq(Nat)]
      /\ batch \in Seq(Nat) /\ Increasing(batch) /\ \A c \in publishing.to : c = b
  BY <1>1, <1>2 DEF PubOK
<1>4. /\ publishing'.to = {} /\ publishing'.batch = <<>>
      /\ publishing'.todo \subseteq publishing.todo
      /\ publishing'.snapshot \in {publishing.snapshot, <<>>, ring}
      /\ publishing' \in [todo : SUBSET Browsers, snapshot : Seq(Nat),
                          to : SUBSET Browsers, batch : Seq(Nat)]
  <2>1. CASE publishing' = NoPublish
    BY <2>1 DEF NoPublish
  <2>2. CASE publishing' = [publishing EXCEPT !.to = {}, !.batch = <<>>]
    <3> DEFINE none1 == {}
               none2 == <<>>
    <3>1. none1 \in SUBSET Browsers /\ none2 \in Seq(Nat)
      OBVIOUS
    <3>2. publishing' = [publishing EXCEPT !.to = none1, !.batch = none2]
      BY <2>2
    <3> HIDE DEF none1, none2
    <3>3. publishing' \in [todo : SUBSET Browsers, snapshot : Seq(Nat),
                          to : SUBSET Browsers, batch : Seq(Nat)]
      BY <1>3, <3>1, <3>2
    <3>4. /\ publishing'.to = none1 /\ publishing'.batch = none2
          /\ publishing'.todo = publishing.todo /\ publishing'.snapshot = publishing.snapshot
      BY <1>3, <3>2
    <3> QED BY <3>3, <3>4 DEF none1, none2
  <2> QED BY <1>1, <2>1, <2>2 DEF Sent
<1>5. PubOK'
  <2>1. Increasing(<<>>)
    BY DEF Increasing
  <2>2. Increasing(publishing'.batch)
    BY <1>4, <2>1
  <2> QED BY <1>1, <1>2, <1>4, <2>2, PubMoves
<1>6. /\ batches \in [Browsers -> Seq(Seq(Nat))] /\ given \in [Browsers -> Seq(Nat)]
      /\ dropped \in [Browsers -> SUBSET Nat] /\ \A c \in Browsers : Len(batches[c]) <= BatchSlots
  BY <1>2 DEF ViewOK
<1>7. /\ Increasing(given[b]) /\ \A s \in ToSet(given[b]) : s <= lastSeq[b]
      /\ \A x \in ToSet(batch) : x <= lastSeq[b] /\ \A s \in ToSet(given[b]) : s < x
      /\ browser[b] # "new"
      /\ browser[b] = "open" =>
           \A s \in ToSet(ring) : s <= lastSeq[b] =>
             s \in ToSet(given[b]) \cup dropped[b] \/ s \in ToSet(batch)
  BY <1>1, <1>2 DEF BrowserOK
<1>8. ToSet(ring)' = ToSet(ring) /\ ToSet(batch) \subseteq Nat
  BY <1>1, <1>3 DEF ToSet
\* The others see nothing of it.
<1>9. ASSUME NEW c \in Browsers \ {b}, given'[c] = given[c], dropped'[c] = dropped[c]
      PROVE  BrowserOK(c)'
  <2>1. c \notin publishing.to
    BY <1>3
  <2> QED BY <1>1, <1>2, <1>4, <1>9, <2>1, BrowserStays
\* It is enough that b has lost nothing.
<1>10. ASSUME NEW g \in Seq(Nat), NEW d \in SUBSET Nat,
              given' = [given EXCEPT ![b] = g], dropped' = [dropped EXCEPT ![b] = d],
              batches' \in [Browsers -> Seq(Seq(Nat))],
              \A c \in Browsers : Len(batches'[c]) <= BatchSlots,
              Increasing(g), \A s \in ToSet(g) : s <= lastSeq[b],
              browser[b] = "open" =>
                \A s \in ToSet(ring) : s <= lastSeq[b] => s \in ToSet(g) \cup d
       PROVE  FeedInv'
  <2>1. /\ given' \in [Browsers -> Seq(Nat)] /\ dropped' \in [Browsers -> SUBSET Nat]
        /\ given'[b] = g /\ dropped'[b] = d
        /\ \A c \in Browsers \ {b} : given'[c] = given[c] /\ dropped'[c] = dropped[c]
    BY <1>6, <1>10
  <2>2. ViewOK'
    BY <1>1, <1>2, <1>10, <2>1 DEF ViewOK
  <2>3. BrowserOK(b)'
    <3>1. ToSet(given[b])' = ToSet(g) /\ Increasing(given[b])' = Increasing(g)
      BY <2>1 DEF ToSet, Increasing
    <3>2. b \notin publishing'.to
      BY <1>4
    <3> QED BY <1>1, <1>7, <1>8, <1>10, <2>1, <3>1, <3>2 DEF BrowserOK
  <2> QED BY <1>1, <1>5, <1>9, <2>1, <2>2, <2>3, ViewSteps
<1>11. given[b] \in Seq(Nat) /\ dropped[b] \in SUBSET Nat
  BY <1>6
<1>12. CASE browser[b] = "closed"
  <2>1. batches' = batches /\ given' = given /\ dropped' = dropped
    BY <1>12 DEF PublishSends
  <2>2. given' = [given EXCEPT ![b] = given[b]] /\ dropped' = [dropped EXCEPT ![b] = dropped[b]]
    BY <1>6, <2>1
  <2> QED BY <1>6, <1>7, <1>10, <1>11, <1>12, <2>1, <2>2
<1>13. CASE browser[b] # "closed" /\ Len(batches[b]) < BatchSlots
  <2> DEFINE q == Append(batches[b], batch)
             g == given[b] \o batch
  <2>1. /\ batches' = [batches EXCEPT ![b] = q] /\ given' = [given EXCEPT ![b] = g]
        /\ dropped' = dropped
    BY <1>13 DEF PublishSends
  <2>2. q \in Seq(Seq(Nat)) /\ Len(q) <= BatchSlots
    <3> DEFINE S == Seq(Nat)
               ch == batches[b]
    <3>1. batch \in S /\ ch \in Seq(S) /\ BatchSlots \in Nat /\ Len(ch) < BatchSlots
      BY <1>3, <1>6, <1>13, FeedAssumption
    <3>2. q = Append(ch, batch)
      OBVIOUS
    <3> HIDE DEF S, ch, q, batch
    <3>3. q \in Seq(S) /\ Len(q) = Len(ch) + 1 /\ Len(ch) \in Nat
      BY <3>1, <3>2
    <3> QED BY <3>1, <3>3 DEF S
  <2>3. g \in Seq(Nat) /\ Increasing(g) /\ ToSet(g) = ToSet(given[b]) \cup ToSet(batch)
    <3>1. \A x \in ToSet(given[b]), y \in ToSet(batch) : x < y
      BY <1>7
    <3> HIDE DEF batch
    <3> QED BY <1>3, <1>7, <1>11, <3>1, ConcatIncreases
  <2> HIDE DEF q, g
  <2>4. /\ batches' \in [Browsers -> Seq(Seq(Nat))]
        /\ \A c \in Browsers : Len(batches'[c]) <= BatchSlots
    <3>1. \A c \in Browsers : batches'[c] = IF c = b THEN q ELSE batches[c]
      BY <1>6, <2>1
    <3> QED BY <1>6, <2>1, <2>2, <3>1
  <2>5. dropped' = [dropped EXCEPT ![b] = dropped[b]]
    BY <1>6, <2>1
  <2>6. \A s \in ToSet(g) : s <= lastSeq[b]
    BY <1>7, <2>3
  <2>7. browser[b] = "open" =>
          \A s \in ToSet(ring) : s <= lastSeq[b] => s \in ToSet(g) \cup dropped[b]
    BY <1>7, <2>3
  <2> QED BY <1>10, <1>11, <2>1, <2>3, <2>4, <2>5, <2>6, <2>7
<1>14. CASE browser[b] # "closed" /\ ~(Len(batches[b]) < BatchSlots)
  <2> DEFINE d == dropped[b] \cup ToSet(batch)
  <2>1. batches' = batches /\ given' = given /\ dropped' = [dropped EXCEPT ![b] = d]
    BY <1>14 DEF PublishSends
  <2>2. d \in SUBSET Nat
    BY <1>8, <1>11
  <2>3. given' = [given EXCEPT ![b] = given[b]]
    BY <1>6, <2>1
  <2>4. browser[b] = "open" =>
          \A s \in ToSet(ring) : s <= lastSeq[b] => s \in ToSet(given[b]) \cup d
    BY <1>7
  <2> HIDE DEF d
  <2> QED BY <1>6, <1>7, <1>10, <1>11, <2>1, <2>2, <2>3, <2>4
<1> QED BY <1>12, <1>13, <1>14

LEMMA FeedStarts == ASSUME FeedInit PROVE FeedInv
<1> USE FeedAssumption DEF FeedInit
<1>1. <<>> \in Seq(DatagramKinds) /\ <<>> \in Seq(DatagramKinds \cup {"suppressed"})
  OBVIOUS
<1>2. Increasing(<<>>) /\ ToSet(<<>>) = {}
  BY DEF Increasing, ToSet
<1>3. WireOK
  <2>1. /\ inbound \in Seq(DatagramKinds) /\ Len(inbound) <= InSlots
        /\ rdmLog \in Seq(DatagramKinds \cup {"suppressed"}) /\ sightings \in Nat
    BY <1>1
  <2>2. engineIn \in [Engines -> Seq(DatagramKinds)]
    BY <1>1
  <2>3. socketOpen \in BOOLEAN /\ panicked \in BOOLEAN /\ ~panicked
    OBVIOUS
  <2> QED BY ONLY <2>1, <2>2, <2>3 DEF WireOK
<1>4. RingOK
  BY <1>2 DEF RingOK
<1>5. PubOK
  <2>1. publishing = [todo |-> {}, snapshot |-> <<>>, to |-> {}, batch |-> <<>>]
    BY DEF NoPublish
  <2> QED BY <1>2, <2>1 DEF PubOK
<1>6. ViewOK
  <2>1. \A b \in Browsers : Len(batches[b]) <= BatchSlots
    OBVIOUS
  <2> QED BY <2>1 DEF ViewOK
<1>7. ASSUME NEW b \in Browsers PROVE BrowserOK(b)
  <2>1. ring = <<>> /\ given[b] = <<>> /\ browser[b] = "new" /\ lastSeq[b] = 0
    OBVIOUS
  <2>2. b \notin publishing.todo \cup publishing.to
    BY DEF NoPublish
  <2> QED BY <1>2, <2>1, <2>2 DEF BrowserOK
<1> QED BY <1>3, <1>4, <1>5, <1>6, <1>7 DEF FeedInv

LEMMA FeedStep == ASSUME FeedInv, [FeedNext]_feedVars PROVE FeedInv'
<1>1. CASE \/ \E k \in DatagramKinds : Receive(k)
           \/ \E g \in Engines : EngineTakes(g)
           \/ CloseSocket
  BY <1>1, WireKeeps
<1>2. CASE Pump \/ (\E k \in DatagramKinds \ {"strange"} : SendOut(k)) \/ ClearRing
  BY <1>2, CaptureKeeps
<1>3. CASE \E b \in Browsers : Connect(b) \/ TakeBatch(b) \/ Disconnect(b)
  BY <1>3, ConnectionKeeps
<1>4. CASE PublishBegins
  BY <1>4, BeginsKeeps
<1>5. CASE \E b \in Browsers : PublishPrepares(b) \/ PublishSends(b)
  BY <1>5, PreparesKeeps, SendsKeeps
<1>6. CASE UNCHANGED feedVars
  <2>1. /\ UNCHANGED <<wireVars, captureVars, panicked>> /\ ring' = ring /\ ringSeq' = ringSeq
        /\ UNCHANGED viewVars
    BY <1>6 DEF feedVars, wireVars, captureVars, viewVars
  <2>2. RingOK /\ ringSeq \in Nat
    BY DEF FeedInv, RingOK
  <2>3. RingOK'
    <3>1. ToSet(ring)' = ToSet(ring) /\ Increasing(ring)' = Increasing(ring)
      BY <2>1 DEF ToSet, Increasing
    <3> QED BY <2>1, <2>2, <3>1 DEF RingOK
  <2>4. \A s \in ToSet(ring)' : s \in ToSet(ring)
    BY <2>1 DEF ToSet
  <2>5. ringSeq' \in Nat /\ ringSeq <= ringSeq'
    BY <2>1, <2>2
  <2> QED BY <2>1, <2>3, <2>4, <2>5, RingMoves, ViewSteps
<1> QED BY <1>1, <1>2, <1>3, <1>4, <1>5, <1>6 DEF FeedNext

\* LiveFeed: however long the program runs, whatever a browser leaves unread and
\* whenever the capture is cleared or overflows, what each browser is given has
\* rising numbers, and an entry the ring still has is missing for an open browser
\* only because a batch did not fit or is on its way (Ring.Publish).
THEOREM FeedReachesBrowsers == FeedSpec => [](FeedTypeOK /\ FeedIsExact)
<1>1. FeedInit => FeedInv
  BY FeedStarts
<1>2. FeedInv /\ [FeedNext]_feedVars => FeedInv'
  BY FeedStep
<1>3. FeedInv => FeedTypeOK /\ FeedIsExact
  <2> SUFFICES ASSUME FeedInv PROVE FeedTypeOK /\ FeedIsExact
    OBVIOUS
  <2>1. WireOK /\ RingOK /\ PubOK /\ ViewOK /\ \A b \in Browsers : BrowserOK(b)
    BY DEF FeedInv
  <2>2. FeedTypeOK
    <3>1. ring \in Seq(1 .. MaxEntries)
      <4>1. ring \in Seq(Nat) /\ \A i \in DOMAIN ring : ring[i] \in 1 .. ringSeq
        BY <2>1 DEF RingOK, ToSet
      <4>2. /\ DOMAIN ring = 1 .. Len(ring) /\ Len(ring) \in Nat
            /\ \A i \in DOMAIN ring : ring[i] \in 1 .. MaxEntries
        BY <2>1, <4>1, FeedAssumption DEF RingOK
      <4> QED BY <4>1, <4>2, ElementsBelong
    <3>2. lastSeq \in [Browsers -> 0 .. MaxEntries]
      <4>1. ringSeq \in 0 .. MaxEntries /\ MaxEntries \in Nat /\ lastSeq \in [Browsers -> Nat]
        BY <2>1, FeedAssumption DEF RingOK, ViewOK
      <4>2. \A b \in Browsers : lastSeq[b] \in 0 .. MaxEntries
        BY <2>1, <4>1 DEF ViewOK
      <4> QED BY <4>1, <4>2
    <3>3. publishing.todo \cup publishing.to \subseteq Browsers
      BY <2>1 DEF PubOK
    <3> QED BY <2>1, <3>1, <3>2, <3>3 DEF FeedTypeOK, WireOK, RingOK, ViewOK
  <2>3. FeedIsExact
    <3> SUFFICES ASSUME NEW b \in Browsers
                 PROVE  /\ \A i, j \in 1 .. Len(given[b]) : i < j => given[b][i] < given[b][j]
                        /\ browser[b] = "open" =>
                             \A s \in ToSet(ring) :
                               s <= lastSeq[b] => \/ s \in ToSet(given[b]) \cup dropped[b]
                                                  \/ b \in publishing.to /\ s \in ToSet(publishing.batch)
      BY DEF FeedIsExact
    <3>1. DOMAIN given[b] = 1 .. Len(given[b])
      BY <2>1 DEF ViewOK
    <3>2. \A i, j \in 1 .. Len(given[b]) : i < j => given[b][i] < given[b][j]
      BY <2>1, <3>1 DEF BrowserOK, Increasing
    <3> QED BY <2>1, <3>2 DEF BrowserOK
  <2> QED BY <2>2, <2>3
<1> QED BY <1>1, <1>2, <1>3, PTL DEF FeedSpec

--------------------------------------------------------------------------------
(* The composition (MCNodeSide). *)

LEMMA PartsStep ==
  ASSUME [Next]_allVars
  PROVE  /\ [SessionNext]_sessionVars /\ [ReadsNext]_devVars
         /\ [WalkNext]_walkVars /\ [FeedNext]_feedVars
<1>1. CASE Next
  BY <1>1 DEF Next
<1>2. CASE UNCHANGED allVars
  <2>1. UNCHANGED sessionVars /\ UNCHANGED devVars /\ UNCHANGED walkVars /\ UNCHANGED feedVars
    BY <1>2 DEF allVars
  <2> QED BY <2>1
<1> QED BY <1>1, <1>2

\* The four components beside one another, which is what the run composes: each
\* behaves as it does alone, so calls wait under their keys, the ledger's queue is
\* in order, no entry is given twice and nothing is sent on a closed channel
\* (waiters of the Art-Net session, autoread's Ledger, capture's Ring), for any
\* instance with one walk request at a time.
THEOREM NodeSideIsSound ==
  ASSUME Overlap = 1
  PROVE  Spec => []NodeSideInvariant
<1>1. Init => SessionInit /\ ReadsInit /\ WalkInit /\ FeedInit
  BY DEF Init
<1>2. [Next]_allVars => /\ [SessionNext]_sessionVars /\ [ReadsNext]_devVars
                        /\ [WalkNext]_walkVars /\ [FeedNext]_feedVars
  BY PartsStep
<1>3. Init /\ [][Next]_allVars => SessionSpec /\ ReadsSpec /\ WalkSpec /\ FeedSpec
  BY <1>1, <1>2, PTL DEF SessionSpec, ReadsSpec, WalkSpec, FeedSpec
<1>4. FeedSpec => [](FeedTypeOK /\ NoSendOnClosed)
  <2>1. FeedInit => FeedInv
    BY FeedStarts
  <2>2. FeedInv /\ [FeedNext]_feedVars => FeedInv'
    BY FeedStep
  <2>3. FeedInv => NoSendOnClosed
    BY DEF FeedInv, WireOK, NoSendOnClosed
  <2> QED BY <2>1, <2>2, <2>3, FeedReachesBrowsers, PTL DEF FeedSpec
<1>5. WalkSpec => []WalkTypeOK
  BY StraysAreRecorded, PTL
<1>6. /\ SessionTypeOK /\ WaitersAreCalls /\ TargetWhileAlone /\ OnePollChain
      /\ ReadsTypeOK /\ PendingIsQueued /\ NoLostWakeup
      /\ WalkTypeOK /\ FeedTypeOK /\ NoSendOnClosed
      => NodeSideInvariant
  BY DEF NodeSideInvariant
<1>7. Spec => Init /\ [][Next]_allVars
  BY PTL DEF Spec
<1> QED BY <1>3, <1>4, <1>5, <1>6, <1>7, WaitersAreSound, LedgerIsSound, PTL
================================================================================
