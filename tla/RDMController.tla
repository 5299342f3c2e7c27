--------------------------- MODULE RDMController ---------------------------
(***************************************************************************)
(* The RDM-over-Art-Net client state machine (internal/session:            *)
(* rdmcontroller.go, rdmacktimer.go, rdmqueued.go, rdmproxy.go) in its     *)
(* default configuration: one queue per node port (ScopeNodePort),         *)
(* CollectQueuedMessageFirst and DrainOnProxyRecovery.                     *)
(*                                                                         *)
(* Every handler takes the controller's mutex, so each is one action; what *)
(* interleaves is which handler gets it next.  A timer that has fired is a *)
(* callback waiting for the mutex (late) until it runs, and a response to  *)
(* any transmission may arrive at any time, any number of times, or never. *)
(* A packet does not outlive a full cycle of the transaction numbers.      *)
(***************************************************************************)
EXTENDS DeviceHealth, Sequences, FiniteSets

CONSTANTS
  Links,            \* node ports
  UIDs,             \* responder UIDs, each reachable through any port
  Broadcast,        \* the broadcast UID
  PIDs,             \* parameter ids, among them the three below
  QueuedMessage, StatusMessages, DeviceInfo,
  Retries,          \* retransmissions of one transaction
  MaxAckTimerCollect,    \* foreign messages one command may collect
  ProxyBackoffAttempts,  \* refusals one command backs off from
  MaxQueuedMessageDrain, \* commands of one drain pass
  TNs,              \* transaction numbers before they wrap
  Workload,         \* the requests callers may submit
  MaxCmds,          \* bound: commands submitted in a behaviour
  MaxReplies,       \* bound: responses arriving in a behaviour
  MaxLate           \* bound: callbacks waiting for the mutex at a time

Request == [link : Links, uid : UIDs \cup {Broadcast},
            class : {"get", "set"}, pid : PIDs]

ASSUME ControllerAssumption ==
  /\ Links # {} /\ Broadcast \notin UIDs
  /\ {QueuedMessage, StatusMessages, DeviceInfo} \subseteq PIDs
  /\ Retries \in Nat /\ ProxyBackoffAttempts \in Nat
  /\ MaxAckTimerCollect \in Nat \ {0} /\ MaxQueuedMessageDrain \in Nat \ {0}
  /\ TNs \in Nat \ {0} /\ MaxCmds \in Nat /\ MaxReplies \in Nat
  /\ MaxLate \in Nat \ {0}
  /\ Workload \subseteq Request

Ids     == 1..MaxCmds      \* commands; 0 is no command
Devices == Links \X (UIDs \cup {Broadcast})
Timers  == {"none", "response", "ackTimer", "backoff"}
Results == {"none", "ack", "nack", "timeout", "deadline", "aborted", "full",
            "broadcast", "unreachable", "unverified"}

VARIABLES
  cmd,          \* cmd[c]: the Command with id c
  nextID,       \* id of the latest command
  queue,        \* queue[l]: the port's cmdQueue
  inflightByTN, \* command registered under each transaction number, or 0
  tn,           \* the next transaction number
  overflowUID,  \* command holding each UID for an ACK_OVERFLOW, or 0
  health,       \* devices: the breaker record of each device
  links,        \* linkEvidence of each port
  drains,       \* the QUEUED_MESSAGE drain pass of each device
  stopped,
  sent,         \* requests on the network, which may still be answered
  replies       \* responses that have arrived

breakers == <<health, links>>
network  == <<sent, replies>>
vars == <<cmd, nextID, queue, inflightByTN, tn, overflowUID, breakers, drains,
          stopped, network>>

-----------------------------------------------------------------------------
\* Command and drain records.

NewCommand(req) ==
  [req |-> req, st |-> "pending", tn |-> 0, attempt |-> 0, heard |-> FALSE,
   ackTimers |-> FALSE, collecting |-> FALSE, collectOrphans |-> 0,
   answerPID |-> req.pid, answerPIDSet |-> FALSE, overflow |-> FALSE,
   blocks |-> <<>>, proxyRefusals |-> 0, timer |-> "none", deadline |-> FALSE,
   late |-> {}, result |-> "none"]

Unsubmitted ==
  [NewCommand([link |-> CHOOSE l \in Links : TRUE, uid |-> Broadcast,
               class |-> "get", pid |-> QueuedMessage]) EXCEPT !.st = "unused"]

NoDrain == [on |-> FALSE, iterations |-> 0, cmd |-> 0]

Dev(r)  == <<r.link, r.uid>>
IsQueuedMessageRequest(r) == r.class = "get" /\ r.pid = QueuedMessage

\* The class and parameter of the request on the wire: a collecting command
\* puts GET QUEUED_MESSAGE there.
WireClass(r) == IF r.collecting THEN "get" ELSE r.req.class
WirePID(r)   == IF r.collecting THEN QueuedMessage ELSE r.req.pid

\* gen++: callbacks already waiting for the mutex no longer match.  The
\* deadline's callback carries no generation.
Superseded(late) ==
  {<<x[1], x[1] = "deadline">> : x \in late}

\* Replace the command's timer.
TimerSet(r, kind) == [r EXCEPT !.timer = kind, !.late = Superseded(@)]

\* completeLocked, on the command.  What nothing reads afterwards is reset.
Completed(r, kind) ==
  [NewCommand(r.req) EXCEPT !.st = "done", !.result = kind,
                            !.blocks = IF kind = "ack" THEN r.blocks ELSE <<>>,
                            !.late = Superseded(r.late)]

\* issueLocked with a new transaction number, on the command.
Issued(r, n) ==
  [TimerSet(r, "response") EXCEPT !.st = "wire", !.tn = n, !.attempt = 0,
                                !.deadline = (r.st = "pending") \/ @]

Packet(c, r, n) == [cmd |-> c, tn |-> n, class |-> WireClass(r)]

\* Seeded bug: a transaction number is never given back.
TNKept(c) == inflightByTN

\* releaseTNLocked.
TNReleased(c) ==
  [inflightByTN EXCEPT ![cmd[c].tn] = IF @ = c THEN 0 ELSE @]

\* Seeded bug: an abandoned sequence keeps its data.
BlocksKept(r) == [r EXCEPT !.overflow = FALSE]

\* resetBlocksLocked.
BlocksReset(r) == [r EXCEPT !.blocks = <<>>, !.overflow = FALSE]
HoldReset(c) ==
  [overflowUID EXCEPT ![cmd[c].req.uid] = IF @ = c THEN 0 ELSE @]

\* Seeded bugs: requeueing loses the commands it should move; it moves the
\* head of the queue, whatever follows it.
RequeueLoses(p, u, hold) == {SelectSeq(p, LAMBDA c : cmd[c].req.uid # u)}
RequeueHead(p, u, hold) == {IF p = <<>> THEN p ELSE Append(Tail(p), Head(p))}

\* requeueBehind: the commands for u go behind the others, and both keep their
\* own order.  (The set of the one queue that is left.)
RequeueBehind(p, u, hold) ==
  LET Mine(i) == cmd[p[i]].req.uid = u
      Precedes(i, j) == IF Mine(i) <=> Mine(j) THEN i < j ELSE Mine(j)
      orders == {f \in [1..Len(p) -> 1..Len(p)] :
                   /\ \A i, j \in 1..Len(p) : i < j => Precedes(f[i], f[j])
                   /\ \A j \in 1..Len(p) : \E i \in 1..Len(p) : f[i] = j}
  IN IF \E i \in 1..Len(p) : hold[cmd[p[i]].req.uid] \notin {0, p[i]}
     THEN {p}
     ELSE {[i \in 1..Len(p) |-> p[f[i]]] : f \in orders}

-----------------------------------------------------------------------------
(***************************************************************************)
(* pumpLocked, the last step of every handler that queues or completes a   *)
(* command.  cm, qu, by, hold and he are the values the handler has left.  *)
(* Each free queue is walked from its head.  A command whose device the    *)
(* breaker holds fails unsent and a broadcast completes as soon as it is   *)
(* sent, so the walk passes both; it stops at a command whose UID another  *)
(* one holds for an overflow, or puts the first other one on the wire.     *)
(* Queues are visited in any order, which decides who gets which number.   *)
(* (A drain's command is never among those passed: the breaker exempts it, *)
(* and only responders are drained.)                                       *)
(***************************************************************************)
Blocked(cm, hold, c) == hold[cm[c].req.uid] \notin {0, c}
Held(cm, he, c) == Holds(he[Dev(cm[c].req)], IsQueuedMessageRequest(cm[c].req))
Passes(cm, hold, he, c) ==
  /\ ~Blocked(cm, hold, c)
  /\ Held(cm, he, c) \/ cm[c].req.uid = Broadcast

\* The walk of l takes the first n commands off its queue.
WalkTakes(cm, qu, hold, he, l, n) ==
  LET p == qu[l].pending
  IN IF stopped \/ qu[l].inflight # 0 THEN n = 0
     ELSE /\ n =< Len(p)
          /\ \A i \in 1..n : ~Blocked(cm, hold, p[i])
          /\ \A i \in 1..(n - 1) : Passes(cm, hold, he, p[i])
          /\ n < Len(p) =>
               Blocked(cm, hold, p[n + 1]) \/ (n > 0 /\ ~Passes(cm, hold, he, p[n]))

Pump(cm, qu, by, hold, he) ==
  \E walked \in [Links -> 0..MaxCmds] :
    LET taken(l) == {qu[l].pending[i] : i \in 1..walked[l]}
        visited == UNION {taken(l) : l \in Links}
        started == {c \in visited : ~Passes(cm, hold, he, c)}
        failed  == {c \in visited : Held(cm, he, c)} \ started
        onWire  == visited \ failed
    IN /\ \A l \in Links : WalkTakes(cm, qu, hold, he, l, walked[l])
       /\ \E rank \in [onWire -> 0..(Cardinality(onWire) - 1)] :
            /\ \A c, e \in onWire : rank[c] = rank[e] => c = e
            /\ LET n == [c \in onWire |-> (tn + rank[c]) % TNs]
                   used == {n[c] : c \in onWire}
               IN /\ cmd' = [c \in Ids |->
                               IF c \in started THEN Issued(cm[c], n[c])
                               ELSE IF c \in failed THEN Completed(cm[c], "unreachable")
                               ELSE IF c \in visited THEN Completed(cm[c], "broadcast")
                               ELSE cm[c]]
                  /\ inflightByTN' = [t \in 0..(TNs - 1) |->
                       IF t \notin used THEN by[t]
                       ELSE LET c == CHOOSE c \in onWire : n[c] = t
                            IN IF c \in started THEN c ELSE 0]
                  /\ sent' = {k \in sent : k.tn \notin used}
                               \cup {Packet(c, cm[c], n[c]) : c \in started}
       /\ queue' = [l \in Links |->
            [inflight |-> IF taken(l) \cap started = {} THEN qu[l].inflight
                          ELSE CHOOSE c \in taken(l) \cap started : TRUE,
             pending  |-> SubSeq(qu[l].pending, walked[l] + 1, Len(qu[l].pending))]]
       /\ health' = [d \in Devices |->
            LET here == {c \in started : Dev(cm[c].req) = d}
            IN IF here = {} THEN he[d]
               ELSE Admitted(he[d], \E c \in here :
                               IsQueuedMessageRequest(cm[c].req))]
       /\ tn' = (tn + Cardinality(onWire)) % TNs
       /\ overflowUID' = hold

\* submitLocked.
SubmitLocked(req) ==
  LET c == nextID + 1
  IN /\ nextID < MaxCmds
     /\ nextID' = c
     /\ IF stopped
        THEN /\ cmd' = [cmd EXCEPT ![c] = Completed(NewCommand(req), "aborted")]
             /\ UNCHANGED <<queue, inflightByTN, tn, overflowUID, health, sent>>
        ELSE Pump([cmd EXCEPT ![c] = NewCommand(req)],
                  [queue EXCEPT ![req.link].pending = Append(@, c)],
                  inflightByTN, overflowUID, health)

\* issueLocked for a command that already has its queue's slot: a fresh
\* transaction, no pump.
Issue(c, r, hold) ==
  /\ cmd' = [cmd EXCEPT ![c] = Issued(r, tn)]
  /\ inflightByTN' = [TNReleased(c) EXCEPT ![tn] = c]
  /\ tn' = (tn + 1) % TNs
  /\ sent' = {k \in sent : k.tn # tn} \cup {Packet(c, r, tn)}
  /\ overflowUID' = hold
  /\ UNCHANGED <<queue, links, drains>>

\* maybeAutoDrainLocked, and startDrainLocked's one pass per device.
AutoDrains(d, he) == he[d].collect # "reissue" /\ ~drains[d].on

\* drainAdvanceLocked: an answer from the queue asks for the next step; an
\* empty queue, a refusal or a failure ends the pass.
DrainAdvanced(pass, kind, empty) ==
  IF kind = "ack" /\ ~empty THEN [pass EXCEPT !.cmd = 0] ELSE NoDrain

(***************************************************************************)
(* finishLocked: r is the command as the handler leaves it, kind its       *)
(* result, hold and he the overflow holds and breakers before finishing;   *)
(* empty: the answer says that the responder's message queue is empty.     *)
(***************************************************************************)
Finish(c, r, kind, hold, he, empty) ==
  LET l == r.req.link
      u == r.req.uid
      d == Dev(r.req)
      drain    == IsQueuedMessageRequest(r.req)
      answered == kind \in {"ack", "nack"}
      refused  == kind = "full" /\ ~drain
      silent   == kind = "timeout" /\ ~r.heard /\ ~drain
      answers  == links[l].answers + 1
      hold1 == [hold EXCEPT ![u] = IF @ = c THEN 0 ELSE @]
      \* noteDeviceRespondedLocked, noteProxyRefusalLocked, noteSilenceLocked
      he1 == [he EXCEPT ![d] =
                CASE answered -> Responded(@, answers)
                  [] refused  -> Refused(@, links[l].answers)
                  [] silent   -> Silent(@, links[l].answers, links[l].last = u)
                  [] OTHER    -> @]
      \* openBreakerLocked: a breaker that refusals open drains the device
      rescue == refused /\ RefusalOpens(he[d]) /\ AutoDrains(d, he)
      dr1 == [drains EXCEPT ![d] =
                CASE rescue    -> [NoDrain EXCEPT !.on = TRUE]
                  [] @.cmd = c -> DrainAdvanced(@, kind, empty)
                  [] OTHER     -> @]
      p == queue[l].pending
      Pending == IF silent THEN RequeueBehind(p, u, hold1) ELSE {p}
  IN /\ \E left \in Pending :
          Pump([cmd EXCEPT ![c] = Completed(r, kind)],
               [queue EXCEPT ![l] = [inflight |-> 0, pending |-> left]],
               TNReleased(c), hold1, he1)
     /\ drains' = dr1
     /\ links' = IF answered
                 THEN [links EXCEPT ![l] = [answers |-> answers, last |-> u]]
                 ELSE links

-----------------------------------------------------------------------------
Init ==
  /\ cmd = [c \in Ids |-> Unsubmitted]
  /\ nextID = 0
  /\ queue = [l \in Links |-> [inflight |-> 0, pending |-> <<>>]]
  /\ inflightByTN = [t \in 0..(TNs - 1) |-> 0]
  /\ tn = 0
  /\ overflowUID = [u \in UIDs \cup {Broadcast} |-> 0]
  /\ health = [d \in Devices |-> NoHealth]
  /\ links = [l \in Links |-> [answers |-> 0, last |-> Broadcast]]
  /\ drains = [d \in Devices |-> NoDrain]
  /\ stopped = FALSE
  /\ sent = {}
  /\ replies = 0

\* Submit.
Submit(req) ==
  /\ SubmitLocked(req)
  /\ UNCHANGED <<links, drains, stopped, replies>>

\* Seeded bug: stopping leaves the drains going.
StopKeepsDrains ==
  /\ ~stopped
  /\ stopped' = TRUE
  /\ cmd' = [c \in Ids |-> IF cmd[c].st \in {"pending", "wire"}
                           THEN Completed(cmd[c], "aborted") ELSE cmd[c]]
  /\ queue' = [l \in Links |-> [inflight |-> 0, pending |-> <<>>]]
  /\ UNCHANGED <<nextID, inflightByTN, tn, overflowUID, health, links, drains,
                 network>>

\* Stop: every command ends, every drain is retired, no probe stays armed.
Stop ==
  /\ ~stopped
  /\ stopped' = TRUE
  /\ cmd' = [c \in Ids |-> IF cmd[c].st \in {"pending", "wire"}
                           THEN Completed(cmd[c], "aborted") ELSE cmd[c]]
  /\ queue' = [l \in Links |-> [inflight |-> 0, pending |-> <<>>]]
  /\ inflightByTN' = [t \in 0..(TNs - 1) |->
                        LET c == inflightByTN[t]
                        IN IF c # 0 /\ cmd[c].tn = t THEN 0 ELSE c]
  /\ overflowUID' = [u \in UIDs \cup {Broadcast} |-> 0]
  /\ health' = [d \in Devices |-> [health[d] EXCEPT !.probeTimer = FALSE]]
  /\ drains' = [d \in Devices |-> NoDrain]
  /\ UNCHANGED <<nextID, tn, links, network>>

-----------------------------------------------------------------------------
(* Timers.                                                                 *)

Waiting == UNION {{<<c, x>> : x \in cmd[c].late} : c \in Ids}

\* The command's timer, or its deadline, fires: its callback now waits for
\* the mutex.
TimerFires(c) ==
  /\ cmd[c].timer # "none"
  /\ Cardinality(Waiting) < MaxLate
  /\ cmd' = [cmd EXCEPT ![c].timer = "none",
                        ![c].late = @ \cup {<<cmd[c].timer, TRUE>>}]
  /\ UNCHANGED <<nextID, queue, inflightByTN, tn, overflowUID, breakers,
                 drains, stopped, network>>

DeadlineFires(c) ==
  /\ cmd[c].deadline
  /\ Cardinality(Waiting) < MaxLate
  /\ cmd' = [cmd EXCEPT ![c].deadline = FALSE,
                        ![c].late = @ \cup {<<"deadline", TRUE>>}]
  /\ UNCHANGED <<nextID, queue, inflightByTN, tn, overflowUID, breakers,
                 drains, stopped, network>>

\* The callback of kind k gets the mutex, and finished and gen let it go on.
Runs(c, k) == <<k, TRUE>> \in cmd[c].late /\ cmd[c].st # "done"
Ran(c, k)  == [cmd[c] EXCEPT !.late = @ \ {<<k, TRUE>>}]

\* A callback returns at once: the command is finished, or its timer has been
\* replaced since.
StaleCallback(c) ==
  \E x \in cmd[c].late :
    /\ cmd[c].st = "done" \/ ~x[2]
    /\ cmd' = [cmd EXCEPT ![c].late = @ \ {x}]
    /\ UNCHANGED <<nextID, queue, inflightByTN, tn, overflowUID, breakers,
                   drains, stopped, network>>

\* finishSetUnverifiedLocked.
FinishSetUnverified(c, r, he) ==
  Finish(c, BlocksReset(r), "unverified", HoldReset(c), he, FALSE)

\* beginCollectLocked: probe with GET QUEUED_MESSAGE instead of re-issuing.
BeginCollect(c, r) ==
  Issue(c, [BlocksReset(r) EXCEPT !.collecting = TRUE,
              !.answerPID = QueuedMessage, !.answerPIDSet = FALSE],
        HoldReset(c))

\* abandonCollectLocked: ask again directly, unless the command is a SET.
AbandonCollect(c, r, he) ==
  LET back == [r EXCEPT !.collecting = FALSE]
  IN IF r.req.class = "set" THEN FinishSetUnverified(c, back, he)
     ELSE /\ Issue(c, [BlocksReset(back) EXCEPT !.answerPID = r.req.pid,
                                                !.answerPIDSet = FALSE],
                   HoldReset(c))
          /\ health' = he

\* noteCollectModeLocked.
ModeLearned(c, mode) == [health EXCEPT ![Dev(cmd[c].req)] = Learned(@, mode)]

\* onResponseTimeout: a silent probe is given up (collectTimedOutLocked);
\* otherwise retransmit under the same number, or give up.
OnResponseTimeout(c) ==
  LET r == Ran(c, "response")
  IN /\ Runs(c, "response")
     /\ \/ /\ r.collecting
           /\ AbandonCollect(c, r, ModeLearned(c, "reissue"))
        \/ /\ ~r.collecting /\ r.attempt < Retries
           /\ cmd' = [cmd EXCEPT ![c] =
                        [TimerSet(r, "response") EXCEPT !.attempt = @ + 1]]
           /\ UNCHANGED <<queue, inflightByTN, tn, overflowUID, breakers,
                          drains, sent>>
        \/ /\ ~r.collecting /\ r.attempt >= Retries
           /\ Finish(c, r, "timeout", overflowUID, health, FALSE)
     /\ UNCHANGED <<nextID, stopped, replies>>

\* onDeadline.
OnDeadline(c) ==
  /\ Runs(c, "deadline")
  /\ Finish(c, Ran(c, "deadline"), "deadline", overflowUID, health, FALSE)
  /\ UNCHANGED <<nextID, stopped, replies>>

\* ackTimerCollectsLocked.
AckTimerCollects(r) ==
  /\ ~IsQueuedMessageRequest(r.req)
  /\ r.collectOrphans < MaxAckTimerCollect
  /\ health[Dev(r.req)].collect # "reissue"

\* onAckTimerElapsed.
OnAckTimerElapsed(c) ==
  LET r == Ran(c, "ackTimer")
  IN /\ Runs(c, "ackTimer")
     /\ IF AckTimerCollects(r) THEN BeginCollect(c, r) /\ UNCHANGED health
        ELSE IF r.collecting THEN AbandonCollect(c, r, health)
        ELSE IF r.req.class = "set" THEN FinishSetUnverified(c, r, health)
        ELSE Issue(c, r, overflowUID) /\ UNCHANGED health
     /\ UNCHANGED <<nextID, stopped, replies>>

\* onProxyBackoffElapsed.
OnProxyBackoffElapsed(c) ==
  /\ Runs(c, "backoff")
  /\ Issue(c, Ran(c, "backoff"), overflowUID)
  /\ UNCHANGED <<nextID, health, stopped, replies>>

-----------------------------------------------------------------------------
(* HandleRDMResponse.  A response is matched by transaction number,        *)
(* responder and command class; one that matches nothing is a stray and    *)
(* changes nothing here.                                                   *)

Matches(k) ==
  LET c == inflightByTN[k.tn]
  IN /\ c # 0
     /\ cmd[c].st = "wire"
     /\ cmd[c].req.uid = cmd[k.cmd].req.uid
     /\ WireClass(cmd[c]) = k.class

\* queuedMessagePIDFloats: may the answer come under another parameter?
QueuedMessagePIDFloats(r, t) ==
  /\ r.collecting \/ r.req.pid = QueuedMessage
  /\ ~r.answerPIDSet
  /\ t # "ackTimer"
  /\ ~r.overflow

Fits(r, t, pid) == pid = r.answerPID \/ QueuedMessagePIDFloats(r, t)

\* The command once the response is counted and the answering PID pinned.
Received(r, t, pid) ==
  [r EXCEPT !.heard = TRUE,
            !.answerPID = IF ~r.answerPIDSet /\ t # "ackTimer" THEN pid ELSE @,
            !.answerPIDSet = @ \/ t # "ackTimer"]

\* The data block of a response to request k.
WithBlock(r, k, pid) ==
  [r EXCEPT !.blocks = Append(@, [tn |-> k.tn, pid |-> pid])]

\* A response of any type that answers the wrong question ends the command.
RespondWrongPID(k, pid) ==
  LET c == inflightByTN[k.tn]
  IN /\ \E t \in {"ack", "ackTimer"} : ~Fits(cmd[c], t, pid)
     /\ Finish(c, [cmd[c] EXCEPT !.heard = TRUE], "aborted", overflowUID,
               health, FALSE)

\* ACK to the request itself.  empty: STATUS_MESSAGES that report nothing.
RespondAck(k, pid, empty) ==
  LET c == inflightByTN[k.tn]
      r == Received(cmd[c], "ack", pid)
  IN /\ Fits(cmd[c], "ack", pid) /\ ~r.collecting
     /\ Finish(c, WithBlock(r, k, pid), "ack", overflowUID, health,
               empty)

\* handleCollectAckLocked: the probe was answered, with the parameter this
\* command waits for, with the empty-queue marker, or with an orphan.
RespondCollectAck(k, pid, empty) ==
  LET c  == inflightByTN[k.tn]
      r  == WithBlock(Received(cmd[c], "ack", pid), k, pid)
      o  == [r EXCEPT !.collectOrphans = @ + 1]
      he == ModeLearned(c, "queued")
  IN /\ Fits(cmd[c], "ack", pid) /\ r.collecting
     /\ \/ /\ pid = r.req.pid
           /\ Finish(c, [r EXCEPT !.collecting = FALSE], "ack", overflowUID,
                     he, FALSE)
        \/ /\ pid # r.req.pid /\ empty
           /\ AbandonCollect(c, r, he)
        \/ /\ pid # r.req.pid /\ ~empty
           /\ IF o.collectOrphans >= MaxAckTimerCollect
              THEN AbandonCollect(c, o, he)
              ELSE BeginCollect(c, o) /\ health' = he

\* handleCollectNackLocked.
RespondCollectNack(k, t, pid) ==
  LET c == inflightByTN[k.tn]
      r == Received(cmd[c], t, pid)
  IN /\ t \in {"nack", "unknownPID", "full"}
     /\ Fits(cmd[c], t, pid) /\ r.collecting
     /\ AbandonCollect(c, r, IF t = "unknownPID" THEN ModeLearned(c, "reissue")
                             ELSE health)

\* ACK_TIMER: wait, unless the wait would outlast the deadline (cut).
RespondAckTimer(k, pid, cut) ==
  LET c == inflightByTN[k.tn]
      r == [Received(cmd[c], "ackTimer", pid) EXCEPT !.ackTimers = TRUE]
  IN /\ Fits(cmd[c], "ackTimer", pid)
     /\ IF cut THEN Finish(c, r, "deadline", overflowUID, health, FALSE)
        ELSE /\ cmd' = [cmd EXCEPT ![c] = TimerSet(r, "ackTimer")]
             /\ UNCHANGED <<queue, inflightByTN, tn, overflowUID, breakers,
                            drains, sent>>

\* NACK other than PROXY_BUFFER_FULL.
RespondNack(k, t, pid) ==
  LET c == inflightByTN[k.tn]
      r == Received(cmd[c], t, pid)
  IN /\ t \in {"nack", "unknownPID"}
     /\ Fits(cmd[c], t, pid) /\ ~r.collecting
     /\ Finish(c, r, "nack", overflowUID, health, FALSE)

\* onProxyBufferFullLocked: back off and re-issue, until too many refusals
\* or too little time is left.
RespondFull(k, pid, cut) ==
  LET c == inflightByTN[k.tn]
      r == [Received(cmd[c], "full", pid) EXCEPT !.proxyRefusals = @ + 1]
  IN /\ Fits(cmd[c], "full", pid) /\ ~r.collecting
     /\ IF r.proxyRefusals > ProxyBackoffAttempts \/ cut
        THEN Finish(c, r, "full", overflowUID, health, FALSE)
        ELSE /\ cmd' = [cmd EXCEPT ![c] = TimerSet(r, "backoff")]
             /\ inflightByTN' = TNReleased(c)
             /\ UNCHANGED <<queue, tn, overflowUID, breakers, drains, sent>>

\* ACK_OVERFLOW: take the block, hold the UID, ask for the next block.
RespondOverflow(k, pid, cut) ==
  LET c == inflightByTN[k.tn]
      q == cmd[c].req
      r == [WithBlock(Received(cmd[c], "overflow", pid), k, pid)
              EXCEPT !.overflow = TRUE]
      hold == IF cmd[c].overflow THEN overflowUID
              ELSE [overflowUID EXCEPT ![q.uid] = c]
  IN /\ Fits(cmd[c], "overflow", pid)
     /\ IF cut THEN Finish(c, r, "deadline", hold, health, FALSE)
        ELSE Issue(c, r, hold) /\ UNCHANGED health

\* A response type RDM does not define.
RespondUnknown(k, pid) ==
  LET c == inflightByTN[k.tn]
  IN /\ Fits(cmd[c], "unknown", pid)
     /\ Finish(c, Received(cmd[c], "unknown", pid), "aborted", overflowUID,
               health, FALSE)

HandleRDMResponse(k) ==
  /\ replies < MaxReplies
  /\ replies' = replies + 1
  /\ Matches(k)
  /\ \E pid \in PIDs :
       \/ RespondWrongPID(k, pid)
       \/ \E empty \in {FALSE, pid = StatusMessages} :
            RespondAck(k, pid, empty) \/ RespondCollectAck(k, pid, empty)
       \/ \E cut \in BOOLEAN :
            \/ RespondAckTimer(k, pid, cut)
            \/ RespondFull(k, pid, cut)
            \/ RespondOverflow(k, pid, cut)
       \/ \E t \in {"nack", "unknownPID", "full"} :
            RespondNack(k, t, pid) \/ RespondCollectNack(k, t, pid)
       \/ RespondUnknown(k, pid)
  /\ UNCHANGED <<nextID, stopped>>

-----------------------------------------------------------------------------
(* Drains and silence probes.                                              *)

\* DrainQueuedMessages: a pass starts unless one is running for the device.
DrainQueuedMessages(d) ==
  /\ ~stopped /\ ~drains[d].on
  /\ drains' = [drains EXCEPT ![d] = [NoDrain EXCEPT !.on = TRUE]]
  /\ UNCHANGED <<cmd, nextID, queue, inflightByTN, tn, overflowUID, breakers,
                 stopped, network>>

\* drainStep, the callback of the zero-delay timer.
DrainStep(d) ==
  /\ drains[d].on /\ drains[d].cmd = 0
  /\ IF drains[d].iterations >= MaxQueuedMessageDrain
     THEN /\ drains' = [drains EXCEPT ![d] = NoDrain]
          /\ UNCHANGED <<cmd, nextID, queue, inflightByTN, tn, overflowUID,
                         health, sent>>
     ELSE /\ SubmitLocked([link |-> d[1], uid |-> d[2], class |-> "get",
                           pid |-> QueuedMessage])
          /\ drains' = [drains EXCEPT ![d].iterations = @ + 1,
                                      ![d].cmd = nextID']
  /\ UNCHANGED <<links, stopped, replies>>

\* Time passes an open breaker's cool-down.
CooldownElapses(d) ==
  /\ health[d].openUntil = "open"
  /\ health' = [health EXCEPT ![d] = Expired(@)]
  /\ UNCHANGED <<cmd, nextID, queue, inflightByTN, tn, overflowUID, links,
                 drains, stopped, network>>

\* commandForLocked.
CommandFor(d) ==
  \E c \in Ids : cmd[c].st \in {"pending", "wire"} /\ Dev(cmd[c].req) = d

\* onSilenceProbeDue: GET DEVICE_INFO, unless a command for the device is
\* queued or the table of devices no longer lists it; then look again after
\* another cool-down.  listed is the table's part.
SilenceProbeDue(d, listed) ==
  LET quiet == [health EXCEPT ![d].probeTimer = FALSE]
  IN /\ health[d].probeTimer
     /\ health[d].openUntil # "open"
     /\ IF ProbeWanted(health[d]) /\ ~CommandFor(d) /\ listed
        THEN \* submitLocked
          /\ nextID < MaxCmds
          /\ nextID' = nextID + 1
          /\ LET req == [link |-> d[1], uid |-> d[2], class |-> "get",
                         pid |-> DeviceInfo]
             IN Pump([cmd EXCEPT ![nextID'] = NewCommand(req)],
                     [queue EXCEPT ![d[1]].pending = Append(@, nextID')],
                     inflightByTN, overflowUID, quiet)
        ELSE /\ health' = IF ProbeWanted(health[d]) THEN health ELSE quiet
             /\ UNCHANGED <<cmd, nextID, queue, inflightByTN, tn, overflowUID,
                            sent>>
     /\ UNCHANGED <<links, drains, stopped, replies>>

-----------------------------------------------------------------------------
\* Every command is finished and nothing is left to run but time.
Quiescent ==
  /\ \A c \in Ids : cmd[c].st \in {"done", "unused"} /\ cmd[c].late = {}
  /\ UNCHANGED vars

Callbacks(c) ==
  \/ OnResponseTimeout(c)
  \/ OnDeadline(c)
  \/ OnAckTimerElapsed(c)
  \/ OnProxyBackoffElapsed(c)
  \/ StaleCallback(c)

Next ==
  \/ \E req \in Workload : Submit(req)
  \/ Stop
  \/ \E c \in Ids :
       \/ TimerFires(c) \/ DeadlineFires(c)
       \/ Callbacks(c)
  \/ \E k \in sent : HandleRDMResponse(k)
  \/ \E d \in Links \X UIDs :
       \/ DrainQueuedMessages(d)
       \/ DrainStep(d)
       \/ CooldownElapses(d)
       \/ \E listed \in BOOLEAN : SilenceProbeDue(d, listed)
  \/ Quiescent

Spec == Init /\ [][Next]_vars

\* Timers fire and their callbacks get the mutex.  Nothing is assumed of the
\* responders, the callers or the network.
Fairness ==
  \A c \in Ids : /\ WF_vars(TimerFires(c)) /\ WF_vars(DeadlineFires(c))
                 /\ WF_vars(Callbacks(c))

FairSpec == Spec /\ Fairness

-----------------------------------------------------------------------------
OnWire == {c \in Ids : cmd[c].st = "wire"}

Command ==
  [req : Request, st : {"unused", "pending", "wire", "done"},
   tn : 0..(TNs - 1), attempt : 0..Retries, heard : BOOLEAN,
   ackTimers : BOOLEAN, collecting : BOOLEAN,
   collectOrphans : 0..MaxAckTimerCollect, answerPID : PIDs,
   answerPIDSet : BOOLEAN, overflow : BOOLEAN,
   blocks : Seq([tn : 0..(TNs - 1), pid : PIDs]),
   proxyRefusals : 0..ProxyBackoffAttempts, timer : Timers,
   deadline : BOOLEAN,
   late : SUBSET ({"response", "ackTimer", "backoff", "deadline"} \X BOOLEAN),
   result : Results]

TypeOK ==
  /\ cmd \in [Ids -> Command]
  /\ nextID \in 0..MaxCmds
  /\ queue \in [Links -> [inflight : Ids \cup {0}, pending : Seq(Ids)]]
  /\ inflightByTN \in [0..(TNs - 1) -> Ids \cup {0}]
  /\ tn \in 0..(TNs - 1)
  /\ overflowUID \in [UIDs \cup {Broadcast} -> Ids \cup {0}]
  /\ health \in [Devices -> Health]
  /\ links \in [Links -> [answers : Nat, last : UIDs \cup {Broadcast}]]
  /\ drains \in [Devices -> [on : BOOLEAN,
                             iterations : 0..MaxQueuedMessageDrain,
                             cmd : Ids \cup {0}]]
  /\ stopped \in BOOLEAN
  /\ sent \subseteq [cmd : Ids, tn : 0..(TNs - 1), class : {"get", "set"}]
  /\ replies \in 0..MaxReplies

\* The queues and the commands agree: a port's slot holds its one command on
\* the wire, and every pending command waits exactly once in its own queue.
\* A slot that leaks stops its port for good.
QueuesConsistent ==
  \A l \in Links :
    LET p == queue[l].pending
        here == {c \in Ids : cmd[c].req.link = l}
    IN /\ {c \in here : cmd[c].st = "wire"} = {queue[l].inflight} \ {0}
       /\ {c \in here : cmd[c].st = "pending"} = {p[i] : i \in DOMAIN p}
       /\ \A i, j \in DOMAIN p : p[i] = p[j] => i = j

\* Whoever holds a UID for an overflow is a command on the wire to that UID,
\* still reassembling: a hold with a dead owner would block the UID forever.
HoldOwnerReassembles ==
  \A x \in UIDs \cup {Broadcast} :
    LET c == overflowUID[x]
    IN c # 0 => cmd[c].st = "wire" /\ cmd[c].req.uid = x /\ cmd[c].overflow

\* A command on the wire is always waiting for something that will happen: a
\* timer is running or its callback is about to get the mutex.  Without one
\* it would hold its port until its deadline.
WireCommandWakes ==
  \A c \in OnWire :
    \/ cmd[c].timer # "none"
    \/ \E k \in {"response", "ackTimer", "backoff"} : <<k, TRUE>> \in cmd[c].late

\* A command on the wire is registered under its transaction number, so that
\* its answer finds it, except while it backs off from a refusal, when a
\* duplicate of the refusal must find nothing.  (TNs is larger than the
\* number of transactions here; a number may be lost once they wrap.)
RegisteredUnlessBackingOff ==
  \A c \in OnWire :
    LET backingOff == cmd[c].timer = "backoff" \/ <<"backoff", TRUE>> \in cmd[c].late
    IN backingOff <=> inflightByTN[cmd[c].tn] # c

\* The data of an acknowledged command is whole and its own: however answers
\* are repeated, delayed or left behind by an abandoned attempt, its blocks
\* answer successive transactions, one each, all under one parameter, which is
\* the one asked for unless the request was for any queued message.  (TNs is
\* larger than the number of transactions of a behaviour here.)
AnswerIsOwn ==
  \A c \in Ids :
    cmd[c].result = "ack" =>
      LET b == cmd[c].blocks
      IN /\ \A i, j \in DOMAIN b : i < j => b[i].tn < b[j].tn
         /\ \A i, j \in DOMAIN b : b[i].pid = b[j].pid
         /\ \A i \in DOMAIN b :
              b[i].pid = cmd[c].req.pid \/ cmd[c].req.pid = QueuedMessage

\* A drain pass is always going on: its next step is scheduled or its command
\* has yet to end.  A pass that is stuck keeps its device from being drained.
DrainGoesOn ==
  \A d \in Devices :
    drains[d].on =>
      \/ drains[d].cmd = 0 /\ ~stopped
      \/ drains[d].cmd # 0 /\ cmd[drains[d].cmd].st \in {"pending", "wire"}

\* A command on the wire can go on and be found, the queues, slots and holds
\* have owners that live, and a drain pass that is on can proceed.
ControllerInvariant ==
  /\ TypeOK
  /\ QueuesConsistent
  /\ HoldOwnerReassembles
  /\ WireCommandWakes
  /\ RegisteredUnlessBackingOff
  /\ DrainGoesOn

\* The controller implements CommandService.
Service == INSTANCE CommandService WITH
  Ports <- Links, None <- "none",
  life   <- [c \in Ids |-> cmd[c].st],
  device <- [c \in Ids |-> Dev(cmd[c].req)],
  result <- [c \in Ids |-> cmd[c].result]

\* A command moves forward only, ends once, and keeps its place among those
\* of its device, and each port has one command on the wire: every handler,
\* pump included, is a step of CommandService.
ImplementsService == Service!Spec

\* Every command submitted is answered in the end, without any help from
\* responders or network.
EveryCommandEnds ==
  \A c \in Ids : cmd[c].st = "pending" ~> cmd[c].st = "done"

=============================================================================
