------------------------ MODULE RDMController_proofs ------------------------
(***************************************************************************)
(* Theorems about RDMController for every set of node ports, responders    *)
(* and requests and every limit: the queues, slots, timers, holds and      *)
(* drains stay consistent, and every handler is a step of CommandService.  *)
(*                                                                         *)
(* The parts of the invariant take the values of the variables as          *)
(* arguments, because a handler pumps with values that it has changed.     *)
(***************************************************************************)
EXTENDS RDMController, DeviceHealth_proofs, SequenceTheorems, FiniteSetTheorems

Queues  == [Links -> [inflight : Ids \cup {0}, pending : Seq(Ids)]]
Numbers == 0..(TNs - 1)
OnAir   == [cmd : Ids, tn : Numbers, class : {"get", "set"}]

Callback == {"response", "ackTimer", "backoff"}
Wakes(r) == r.timer # "none" \/ \E k \in Callback : <<k, TRUE>> \in r.late

\* What a command's state says about the rest of its record.
CmdOK(r) ==
  /\ r \in Command
  /\ r.st \in {"unused", "pending"} =>
       r.timer = "none" /\ ~r.deadline /\ r.late = {} /\ ~r.overflow
  /\ r.st = "wire" => r.req.uid # Broadcast /\ Wakes(r)
  /\ r.st = "done" => r.timer = "none" /\ ~r.deadline
  /\ r.st = "done" <=> r.result # "none"
  /\ r.collecting => r.collectOrphans < MaxAckTimerCollect

\* A port's slot holds the port's command on the wire, if there is one.
SlotOK(cm, qu) ==
  \A l \in Links :
    qu[l].inflight # 0 =>
      cm[qu[l].inflight].st = "wire" /\ cm[qu[l].inflight].req.link = l
OwnSlot(cm, qu) == \A c \in Ids : cm[c].st = "wire" => qu[cm[c].req.link].inflight = c

\* A port's queue holds the port's pending commands.
WaitsOK(cm, qu) ==
  \A l \in Links : \A i \in 1..Len(qu[l].pending) :
    LET c == qu[l].pending[i] IN cm[c].st = "pending" /\ cm[c].req.link = l
Queued(cm, qu) ==
  \A c \in Ids :
    cm[c].st = "pending" =>
      \E i \in 1..Len(qu[cm[c].req.link].pending) : qu[cm[c].req.link].pending[i] = c

\* Each waits once, and those of one device in the order they were submitted.
LineOK(cm, qu) ==
  \A l \in Links : \A i, j \in 1..Len(qu[l].pending) :
    LET p == qu[l].pending
    IN i < j => p[i] # p[j] /\ (cm[p[i]].req.uid = cm[p[j]].req.uid => p[i] < p[j])

\* QueuesConsistent, and the order of the queues.
QueueOK(cm, qu) ==
  /\ SlotOK(cm, qu) /\ OwnSlot(cm, qu)
  /\ WaitsOK(cm, qu) /\ Queued(cm, qu) /\ LineOK(cm, qu)

HoldOK(cm, hold) ==
  \A x \in UIDs \cup {Broadcast} :
    hold[x] # 0 =>
      LET r == cm[hold[x]] IN r.st = "wire" /\ r.req.uid = x /\ r.overflow

\* CommandService's InOrder.
OrderOK(cm) ==
  \A c, e \in Ids :
    c < e /\ Dev(cm[c].req) = Dev(cm[e].req) /\ cm[c].st = "pending"
      => cm[e].st \in {"unused", "pending"}

Agree(cm, qu, hold) ==
  /\ \A c \in Ids : CmdOK(cm[c])
  /\ QueueOK(cm, qu) /\ HoldOK(cm, hold) /\ OrderOK(cm)

Live(r) == r.st \in {"pending", "wire"}

\* A pass belongs to a responder, and its command is a request to that
\* responder for what it has queued.
PassOK(cm, d, pass, over) ==
  /\ pass.on => d[2] # Broadcast
  /\ pass.on => \/ pass.cmd = 0 /\ ~over
                \/ /\ pass.cmd # 0 /\ Live(cm[pass.cmd])
                   /\ Dev(cm[pass.cmd].req) = d
                   /\ IsQueuedMessageRequest(cm[pass.cmd].req)
  /\ ~pass.on => pass.cmd = 0
DrainOK(cm, dr, over) == \A d \in Devices : PassOK(cm, d, dr[d], over)

Passes0 == [on : BOOLEAN, iterations : 0..MaxQueuedMessageDrain, cmd : Ids \cup {0}]

OthersType ==
  /\ nextID \in 0..MaxCmds /\ tn \in Numbers /\ stopped \in BOOLEAN
  /\ inflightByTN \in [Numbers -> Ids \cup {0}]
  /\ health \in [Devices -> Health]
  /\ links \in [Links -> [answers : Nat, last : UIDs \cup {Broadcast}]]
  /\ sent \subseteq OnAir /\ replies \in 0..MaxReplies

ControllerInv ==
  /\ OthersType
  /\ cmd \in [Ids -> Command] /\ queue \in Queues
  /\ overflowUID \in [UIDs \cup {Broadcast} -> Ids \cup {0}]
  /\ drains \in [Devices -> Passes0]
  /\ Agree(cmd, queue, overflowUID)
  /\ \A c \in Ids : cmd[c].st = "unused" <=> c > nextID
  /\ DrainOK(cmd, drains, stopped)
  /\ stopped => /\ \A c \in Ids : ~Live(cmd[c])
                /\ \A d \in Devices : ~health[d].probeTimer

-----------------------------------------------------------------------------
(* The operators on one command.                                           *)

\* What a handler keeps of the request.
LEMMA RequestType ==
  ASSUME NEW r \in Command
  PROVE  /\ r.req \in Request /\ r.req.link \in Links
         /\ r.req.uid \in UIDs \cup {Broadcast} /\ Dev(r.req) \in Devices
BY DEF Command, Request, Dev, Devices

LEMMA NewCommandOK ==
  ASSUME NEW req \in Request
  PROVE  /\ CmdOK(NewCommand(req)) /\ NewCommand(req).req = req
         /\ NewCommand(req).st = "pending"
<1>1. 0 \in Numbers /\ 0 \in 0..Retries /\ 0 \in 0..MaxAckTimerCollect
      /\ 0 \in 0..ProxyBackoffAttempts
  BY ControllerAssumption DEF Numbers
<1>2. req.pid \in PIDs
  BY DEF Request
<1>3. <<>> \in Seq([tn : Numbers, pid : PIDs])
  OBVIOUS
<1>4. NewCommand(req) \in Command
  BY <1>1, <1>2, <1>3 DEF NewCommand, Command, Timers, Results, Numbers
<1> QED BY <1>4 DEF NewCommand, CmdOK

\* What a command's callbacks, its answer and its request are whatever its
\* other fields say.
Endable(r) ==
  /\ r.req \in Request /\ r.blocks \in Seq([tn : Numbers, pid : PIDs])
  /\ r.late \in SUBSET ((Callback \cup {"deadline"}) \X BOOLEAN)

LEMMA CommandEndable ==
  ASSUME NEW r \in Command
  PROVE  Endable(r)
BY DEF Command, Endable, Callback, Numbers

LEMMA SupersededType ==
  ASSUME NEW late \in SUBSET ((Callback \cup {"deadline"}) \X BOOLEAN)
  PROVE  Superseded(late) \in SUBSET ((Callback \cup {"deadline"}) \X BOOLEAN)
<1>1. \A x \in late : <<x[1], x[1] = "deadline">> \in (Callback \cup {"deadline"}) \X BOOLEAN
  OBVIOUS
<1> QED BY <1>1 DEF Superseded

LEMMA CompletedOK ==
  ASSUME NEW r, Endable(r), NEW kind \in Results \ {"none"}
  PROVE  LET d == Completed(r, kind)
         IN CmdOK(d) /\ d.req = r.req /\ d.st = "done" /\ d.result = kind
<1> DEFINE n == NewCommand(r.req)
           b == IF kind = "ack" THEN r.blocks ELSE <<>>
           s == Superseded(r.late)
           d == [n EXCEPT !.st = "done", !.result = kind, !.blocks = b, !.late = s]
<1>1. n \in Command /\ n.req = r.req /\ n.timer = "none" /\ ~n.deadline /\ ~n.collecting
  BY NewCommandOK DEF CmdOK, NewCommand, Endable
<1>2. b \in Seq([tn : Numbers, pid : PIDs])
  BY DEF Endable
<1>3. s \in SUBSET ((Callback \cup {"deadline"}) \X BOOLEAN)
  BY SupersededType DEF Endable
<1>4. Completed(r, kind) = d
  BY DEF Completed
<1> HIDE DEF n, b, s
<1>5. d \in Command
  BY <1>1, <1>2, <1>3 DEF Command, Numbers, Callback
<1>6. /\ d.req = r.req /\ d.st = "done" /\ d.result = kind /\ d.timer = "none"
      /\ ~d.deadline /\ ~d.collecting
  BY <1>1 DEF Command
<1>7. CmdOK(d)
  BY <1>5, <1>6 DEF CmdOK
<1> HIDE DEF d
<1> QED BY <1>4, <1>6, <1>7

LEMMA TimerSetOK ==
  ASSUME NEW r \in Command, NEW kind \in Timers \ {"none"}
  PROVE  LET t == TimerSet(r, kind)
         IN /\ t \in Command /\ t.timer = kind
            /\ \A f \in {"st", "result"} : t[f] = r[f]
            /\ t.req = r.req /\ t.overflow = r.overflow /\ t.collecting = r.collecting
            /\ t.collectOrphans = r.collectOrphans /\ t.deadline = r.deadline
            /\ t.attempt = r.attempt /\ t.blocks = r.blocks
<1> DEFINE s == Superseded(r.late)
           t == [r EXCEPT !.timer = kind, !.late = s]
<1>1. s \in SUBSET ((Callback \cup {"deadline"}) \X BOOLEAN)
  BY SupersededType, CommandEndable DEF Endable
<1>2. TimerSet(r, kind) = t
  BY DEF TimerSet
<1> HIDE DEF s
<1>3. t \in Command
  BY <1>1 DEF Command, Callback
<1> QED BY <1>2, <1>3 DEF Command

LEMMA IssuedOK ==
  ASSUME NEW r \in Command, r.st \in {"pending", "wire"}, r.result = "none",
         r.req.uid # Broadcast, r.collecting => r.collectOrphans < MaxAckTimerCollect,
         NEW n \in Numbers
  PROVE  LET i == Issued(r, n)
         IN /\ CmdOK(i) /\ i.req = r.req /\ i.st = "wire" /\ i.result = "none"
            /\ i.overflow = r.overflow /\ i.tn = n /\ i.timer = "response"
            /\ i.blocks = r.blocks
<1> DEFINE t == TimerSet(r, "response")
           e == (r.st = "pending") \/ t.deadline
           i == [t EXCEPT !.st = "wire", !.tn = n, !.attempt = 0, !.deadline = e]
<1>1. /\ t \in Command /\ t.timer = "response" /\ t.st = r.st /\ t.result = "none"
      /\ t.req = r.req /\ t.overflow = r.overflow /\ t.collecting = r.collecting
      /\ t.collectOrphans = r.collectOrphans /\ t.blocks = r.blocks
  BY TimerSetOK DEF Timers
<1>2. e \in BOOLEAN /\ 0 \in 0..Retries
  BY <1>1, ControllerAssumption DEF Command
<1>3. Issued(r, n) = i
  BY DEF Issued
<1> HIDE DEF t, e
<1>4. i \in Command
  BY <1>1, <1>2 DEF Command, Numbers
<1>5. /\ i.req = r.req /\ i.st = "wire" /\ i.result = "none" /\ i.timer = "response"
      /\ i.overflow = r.overflow /\ i.collecting = r.collecting /\ i.tn = n
      /\ i.collectOrphans = r.collectOrphans /\ i.blocks = r.blocks
  BY <1>1 DEF Command
<1>6. CmdOK(i)
  BY <1>4, <1>5 DEF CmdOK, Wakes
<1> HIDE DEF i
<1> QED BY <1>3, <1>5, <1>6

-----------------------------------------------------------------------------
(* pumpLocked.                                                             *)

\* The pump puts a waiting command on the wire, or ends it unsent unless it is
\* a drain's.
Moved(r, q) ==
  \/ q = r
  \/ /\ r.st = "pending" /\ q.req = r.req
     /\ \/ q.st = "wire" /\ q.result = "none"
        \/ /\ q.st = "done" /\ q.result \in {"unreachable", "broadcast"}
           /\ r.req.uid = Broadcast \/ ~IsQueuedMessageRequest(r.req)

\* What the pump does, seen from the commands: each queue loses the first of
\* its commands, of which only the last may go on the wire.
Pumped(cm, qu, cm1, qu1) ==
  \E walked \in [Links -> Nat] :
    /\ \A l \in Links :
         LET p == qu[l].pending
             n == walked[l]
         IN /\ n =< Len(p)
            /\ n > 0 => qu[l].inflight = 0 /\ ~stopped
            /\ qu1[l].pending = SubSeq(p, n + 1, Len(p))
            /\ \A i \in 1..n :
                 /\ CmdOK(cm1[p[i]]) /\ Moved(cm[p[i]], cm1[p[i]])
                 /\ \/ cm1[p[i]].st = "done"
                    \/ cm1[p[i]].st = "wire" /\ i = n /\ qu1[l].inflight = p[i]
            /\ \/ qu1[l].inflight = qu[l].inflight
               \/ n > 0 /\ qu1[l].inflight = p[n] /\ cm1[p[n]].st = "wire"
    /\ \A c \in Ids :
         (\A l \in Links : \A i \in 1..walked[l] : qu[l].pending[i] # c) => cm1[c] = cm[c]

\* What the pump does to the numbers, as long as there are as many as commands
\* to send: each that it sends gets one of the next numbers and is registered
\* under it, and nothing else changes.
Unsent(cm) == {c \in Ids : cm[c].st = "pending"}

Upcoming(cm, t) ==
  /\ \E k \in 0..(Cardinality(Unsent(cm)) - 1) : t = (tn + k) % TNs
  /\ tn + Cardinality(Unsent(cm)) < TNs => tn =< t /\ t < tn'

NumbersGiven(cm, by) ==
  /\ \A c \in Ids :
       \/ cmd'[c] = cm[c]
       \/ /\ cm[c].st = "pending"
          /\ \/ cmd'[c] \in {Completed(cm[c], "unreachable"), Completed(cm[c], "broadcast")}
             \/ \E t \in Numbers : /\ Upcoming(cm, t) /\ cmd'[c] = Issued(cm[c], t)
                                   /\ inflightByTN'[t] = c
  /\ \A t \in Numbers :
       \/ inflightByTN'[t] = by[t]
       \/ /\ Upcoming(cm, t)
          /\ \/ inflightByTN'[t] = 0
             \/ \E c \in Ids : /\ inflightByTN'[t] = c /\ cm[c].st = "pending"
                               /\ cmd'[c] = Issued(cm[c], t)
  /\ tn + Cardinality(Unsent(cm)) < TNs => tn =< tn'

Numbered(cm, by) == Cardinality(Unsent(cm)) =< TNs => NumbersGiven(cm, by)

LEMMA ModSmall ==
  ASSUME NEW n \in Nat, NEW m \in Nat, n < m
  PROVE  n % m = n
OBVIOUS

LEMMA ModWrap ==
  ASSUME NEW n \in Nat, NEW m \in Nat, n >= m, n < 2 * m
  PROVE  n % m = n - m
OBVIOUS

LEMMA ModCycle ==
  ASSUME NEW m \in Nat, NEW n \in 0..(m - 1), NEW k \in 0..(m - 1)
  PROVE  (n + k) % m = IF n + k < m THEN n + k ELSE n + k - m
<1>1. CASE n + k < m
  <2>1. n + k \in Nat
    OBVIOUS
  <2>2. (n + k) % m = n + k
    BY <1>1, <2>1, ModSmall
  <2> QED BY <1>1, <2>2
<1>2. CASE ~(n + k < m)
  <2>1. n + k \in Nat /\ n + k >= m /\ n + k < 2 * m
    BY <1>2
  <2> DEFINE s == n + k
  <2>2. s \in Nat /\ s >= m /\ s < 2 * m
    BY <2>1
  <2> HIDE DEF s
  <2>3. s % m = s - m
    BY <2>2, ModWrap
  <2> QED BY <1>2, <2>3 DEF s
<1> QED BY <1>1, <1>2

\* The numbers of one cycle differ.
LEMMA CycleDistinct ==
  ASSUME NEW m \in Nat, NEW n \in 0..(m - 1), NEW a \in 0..(m - 1), NEW b \in 0..(m - 1),
         (n + a) % m = (n + b) % m
  PROVE  a = b
<1> DEFINE x == (n + a) % m
           y == (n + b) % m
<1>1. x = IF n + a < m THEN n + a ELSE n + a - m
  BY ModCycle
<1>2. y = IF n + b < m THEN n + b ELSE n + b - m
  BY ModCycle
<1>3. x = y
  OBVIOUS
<1> HIDE DEF x, y
<1> QED BY <1>1, <1>2, <1>3

LEMMA QueueType ==
  ASSUME NEW qu \in Queues, NEW l \in Links
  PROVE  /\ qu[l].inflight \in Ids \cup {0} /\ qu[l].pending \in Seq(Ids)
         /\ Len(qu[l].pending) \in Nat
         /\ \A i \in 1..Len(qu[l].pending) : qu[l].pending[i] \in Ids
<1>1. qu[l].inflight \in Ids \cup {0} /\ qu[l].pending \in Seq(Ids)
  BY DEF Queues
<1> QED BY <1>1, ElementOfSeq

LEMMA PumpIsPumped ==
  ASSUME OthersType, NEW cm \in [Ids -> Command], NEW qu \in Queues,
         NEW by \in [Numbers -> Ids \cup {0}],
         NEW hold \in [UIDs \cup {Broadcast} -> Ids \cup {0}],
         NEW he \in [Devices -> Health],
         Agree(cm, qu, hold), Pump(cm, qu, by, hold, he)
  PROVE  /\ Pumped(cm, qu, cmd', queue')
         /\ cmd' \in [Ids -> Command] /\ queue' \in Queues /\ overflowUID' = hold
         /\ inflightByTN' \in [Numbers -> Ids \cup {0}] /\ tn' \in Numbers
         /\ health' \in [Devices -> Health] /\ sent' \subseteq OnAir
         /\ Numbered(cm, by)
<1> DEFINE Taken(w, l) == {qu[l].pending[i] : i \in 1..w[l]}
           Visited(w) == UNION {Taken(w, l) : l \in Links}
           Started(w) == {c \in Visited(w) : ~Passes(cm, hold, he, c)}
           Failed(w)  == {c \in Visited(w) : Held(cm, he, c)} \ Started(w)
           Wired(w)   == Visited(w) \ Failed(w)
<1>1. PICK walked \in [Links -> 0..MaxCmds] :
        /\ \A l \in Links : WalkTakes(cm, qu, hold, he, l, walked[l])
        /\ \E rank \in [Wired(walked) -> 0..(Cardinality(Wired(walked)) - 1)] :
             /\ \A c, e \in Wired(walked) : rank[c] = rank[e] => c = e
             /\ LET n == [c \in Wired(walked) |-> (tn + rank[c]) % TNs]
                    used == {n[c] : c \in Wired(walked)}
                IN /\ cmd' = [c \in Ids |->
                        IF c \in Started(walked) THEN Issued(cm[c], n[c])
                        ELSE IF c \in Failed(walked) THEN Completed(cm[c], "unreachable")
                        ELSE IF c \in Visited(walked) THEN Completed(cm[c], "broadcast")
                        ELSE cm[c]]
                   /\ inflightByTN' = [t \in 0..(TNs - 1) |->
                        IF t \notin used THEN by[t]
                        ELSE LET c == CHOOSE c \in Wired(walked) : n[c] = t
                             IN IF c \in Started(walked) THEN c ELSE 0]
                   /\ sent' = {k \in sent : k.tn \notin used}
                        \cup {Packet(c, cm[c], n[c]) : c \in Started(walked)}
        /\ queue' = [l \in Links |->
             [inflight |-> IF Taken(walked, l) \cap Started(walked) = {} THEN qu[l].inflight
                           ELSE CHOOSE c \in Taken(walked, l) \cap Started(walked) : TRUE,
              pending  |-> SubSeq(qu[l].pending, walked[l] + 1, Len(qu[l].pending))]]
        /\ health' = [d \in Devices |->
             LET here == {c \in Started(walked) : Dev(cm[c].req) = d}
             IN IF here = {} THEN he[d]
                ELSE Admitted(he[d], \E c \in here :
                                IsQueuedMessageRequest(cm[c].req))]
        /\ tn' = (tn + Cardinality(Wired(walked))) % TNs
        /\ overflowUID' = hold
  BY DEF Pump
<1> DEFINE taken(l) == Taken(walked, l)
           visited == Visited(walked)
           started == Started(walked)
           failed  == Failed(walked)
           onWire  == Wired(walked)
<1>2. PICK rank \in [onWire -> 0..(Cardinality(onWire) - 1)] :
        /\ \A c, e \in onWire : rank[c] = rank[e] => c = e
        /\ LET n == [c \in onWire |-> (tn + rank[c]) % TNs]
               used == {n[c] : c \in onWire}
           IN /\ cmd' = [c \in Ids |->
                   IF c \in started THEN Issued(cm[c], n[c])
                   ELSE IF c \in failed THEN Completed(cm[c], "unreachable")
                   ELSE IF c \in visited THEN Completed(cm[c], "broadcast")
                   ELSE cm[c]]
              /\ inflightByTN' = [t \in 0..(TNs - 1) |->
                   IF t \notin used THEN by[t]
                   ELSE LET c == CHOOSE c \in onWire : n[c] = t
                        IN IF c \in started THEN c ELSE 0]
              /\ sent' = {k \in sent : k.tn \notin used}
                   \cup {Packet(c, cm[c], n[c]) : c \in started}
  BY <1>1
<1> DEFINE num == [c \in onWire |-> (tn + rank[c]) % TNs]
           used == {num[c] : c \in onWire}
<1>3. ASSUME NEW l \in Links
      PROVE  /\ walked[l] \in Nat /\ walked[l] =< Len(qu[l].pending)
             /\ walked[l] > 0 => qu[l].inflight = 0 /\ ~stopped
             /\ \A i \in 1..walked[l] : ~Blocked(cm, hold, qu[l].pending[i])
             /\ \A i \in 1..(walked[l] - 1) : Passes(cm, hold, he, qu[l].pending[i])
  <2>1. Len(qu[l].pending) \in Nat /\ walked[l] \in 0..MaxCmds /\ MaxCmds \in Nat
    BY <1>1, QueueType, ControllerAssumption
  <2>2. WalkTakes(cm, qu, hold, he, l, walked[l])
    BY <1>1
  <2>3. CASE stopped \/ qu[l].inflight # 0
    <3>1. walked[l] = 0
      BY <2>2, <2>3 DEF WalkTakes
    <3> QED BY <2>1, <3>1
  <2>4. CASE ~(stopped \/ qu[l].inflight # 0)
    BY <2>1, <2>2, <2>4 DEF WalkTakes
  <2> QED BY <2>3, <2>4
<1>4. ASSUME NEW l \in Links, NEW i \in 1..walked[l]
      PROVE  LET c == qu[l].pending[i]
             IN /\ c \in Ids /\ c \in visited /\ c \in taken(l)
                /\ cm[c].st = "pending" /\ cm[c].req.link = l
                /\ ~Blocked(cm, hold, c) /\ i \in 1..Len(qu[l].pending)
  <2>1. i \in 1..Len(qu[l].pending)
    BY <1>3, QueueType
  <2>2. qu[l].pending[i] \in Ids
    BY <2>1, QueueType
  <2> QED BY <1>3, <2>1, <2>2 DEF Agree, QueueOK, WaitsOK
<1>5. \A c \in visited : \E l \in Links : \E i \in 1..walked[l] : c = qu[l].pending[i]
  OBVIOUS
<1>6. /\ visited \subseteq Ids /\ started \subseteq onWire /\ onWire \subseteq visited
      /\ \A c \in visited : cm[c] \in Command /\ cm[c].st = "pending" /\ ~Blocked(cm, hold, c)
  <2>1. started \subseteq visited /\ failed \cap started = {}
    OBVIOUS
  <2>2. started \subseteq onWire /\ onWire \subseteq visited
    BY <2>1
  <2>3. ASSUME NEW c \in visited
        PROVE  c \in Ids /\ cm[c].st = "pending" /\ ~Blocked(cm, hold, c)
    <3>1. PICK l \in Links : \E i \in 1..walked[l] : c = qu[l].pending[i]
      BY <1>5
    <3>2. PICK i \in 1..walked[l] : c = qu[l].pending[i]
      BY <3>1
    <3> HIDE DEF visited
    <3> QED BY <1>4, <3>2
  <2> HIDE DEF visited, started, onWire
  <2> QED BY <2>2, <2>3
<1>7. IsFiniteSet(onWire) /\ Cardinality(onWire) \in Nat
  <2>1. IsFiniteSet(Ids)
    BY FS_Interval, ControllerAssumption DEF Ids
  <2> QED BY <1>6, <2>1, FS_Subset, FS_CardinalityType
<1> HIDE DEF visited, started, failed, onWire, taken
<1>8. \A k \in Nat : (tn + k) % TNs \in Numbers
  <2> SUFFICES ASSUME NEW k \in Nat PROVE (tn + k) % TNs \in 0..(TNs - 1)
    BY DEF Numbers
  <2>1. tn + k \in Nat /\ TNs \in Nat /\ TNs > 0
    BY ControllerAssumption DEF OthersType, Numbers
  <2> QED BY <2>1
<1>9. num \in [onWire -> Numbers] /\ tn' \in Numbers
  <2>1. \A c \in onWire : rank[c] \in Nat
    BY <1>7
  <2>2. \A c \in onWire : (tn + rank[c]) % TNs \in Numbers
    BY <1>8, <2>1
  <2>3. tn' = (tn + Cardinality(onWire)) % TNs
    BY <1>1 DEF onWire
  <2>4. tn' \in Numbers
    BY <1>7, <1>8, <2>3
  <2>5. num \in [onWire -> Numbers]
    BY <2>2
  <2> QED BY <2>4, <2>5
<1>10. used \subseteq Numbers
  BY <1>9
<1> HIDE DEF num, used
<1>11. ASSUME NEW c \in Ids
       PROVE  /\ c \in started => cmd'[c] = Issued(cm[c], num[c])
              /\ c \in failed => cmd'[c] = Completed(cm[c], "unreachable")
              /\ c \in visited \ (started \cup failed) => cmd'[c] = Completed(cm[c], "broadcast")
              /\ c \notin visited => cmd'[c] = cm[c]
  BY <1>2, <1>6 DEF started, failed, visited, num
<1>12. ASSUME NEW c \in visited
       PROVE  /\ CmdOK(cmd'[c]) /\ cmd'[c] \in Command
              /\ c \in started => /\ cmd'[c].st = "wire" /\ cmd'[c].result = "none"
                                  /\ cmd'[c].req = cm[c].req
              /\ c \notin started =>
                   /\ cmd'[c].st = "done" /\ cmd'[c].result \in {"unreachable", "broadcast"}
                   /\ cmd'[c].req = cm[c].req
                   /\ cm[c].req.uid = Broadcast \/ ~IsQueuedMessageRequest(cm[c].req)
  <2>1. /\ c \in Ids /\ cm[c] \in Command /\ cm[c].st = "pending" /\ CmdOK(cm[c])
        /\ ~Blocked(cm, hold, c)
    BY <1>6 DEF Agree
  <2>2. CASE c \in started
    <3>1. ~Passes(cm, hold, he, c)
      BY <2>2 DEF started
    <3>2. cm[c].req.uid # Broadcast
      BY <2>1, <3>1 DEF Passes
    <3>3. num[c] \in Numbers
      BY <1>6, <1>9, <2>2
    <3>4. cm[c].result = "none" /\ (cm[c].collecting => cm[c].collectOrphans < MaxAckTimerCollect)
      BY <2>1 DEF CmdOK
    <3>5. cmd'[c] = Issued(cm[c], num[c])
      BY <1>11, <2>1, <2>2
    <3> QED BY <2>1, <2>2, <3>2, <3>3, <3>4, <3>5, IssuedOK DEF CmdOK
  <2>3. CASE c \in failed
    <3>1. c \notin started /\ Held(cm, he, c)
      BY <2>3 DEF failed, started
    <3>2. ~IsQueuedMessageRequest(cm[c].req)
      BY <3>1 DEF Held, Holds
    <3>3. cmd'[c] = Completed(cm[c], "unreachable") /\ "unreachable" \in Results \ {"none"}
      BY <1>11, <2>1, <2>3 DEF Results
    <3> QED BY <2>1, <3>1, <3>2, <3>3, CompletedOK, CommandEndable DEF CmdOK
  <2>4. CASE c \in visited \ (started \cup failed)
    <3>1. Passes(cm, hold, he, c) /\ ~Held(cm, he, c)
      BY <2>4 DEF failed, started, visited
    <3>2. cm[c].req.uid = Broadcast
      BY <3>1 DEF Passes
    <3>3. cmd'[c] = Completed(cm[c], "broadcast") /\ "broadcast" \in Results \ {"none"}
      BY <1>11, <2>1, <2>4 DEF Results
    <3> QED BY <2>1, <2>4, <3>2, <3>3, CompletedOK, CommandEndable DEF CmdOK
  <2> QED BY <2>2, <2>3, <2>4
<1>13. cmd' \in [Ids -> Command]
  <2>1. cmd' = [c \in Ids |-> cmd'[c]]
    BY <1>2
  <2>2. \A c \in Ids : cmd'[c] \in Command
    BY <1>11, <1>12
  <2> QED BY <2>1, <2>2
<1>14. ASSUME NEW l \in Links, NEW i \in 1..walked[l], qu[l].pending[i] \in started
       PROVE  i = walked[l]
  <2>1. ~Passes(cm, hold, he, qu[l].pending[i])
    BY <1>14 DEF started
  <2> QED BY <1>3, <2>1
<1>15. ASSUME NEW l \in Links
       PROVE  /\ queue'[l].pending = SubSeq(qu[l].pending, walked[l] + 1, Len(qu[l].pending))
              /\ taken(l) \cap started = {} => queue'[l].inflight = qu[l].inflight
              /\ taken(l) \cap started # {} =>
                   /\ walked[l] > 0 /\ queue'[l].inflight = qu[l].pending[walked[l]]
                   /\ qu[l].pending[walked[l]] \in started
  <2> DEFINE slot == IF taken(l) \cap started = {} THEN qu[l].inflight
                     ELSE CHOOSE c \in taken(l) \cap started : TRUE
             rest == SubSeq(qu[l].pending, walked[l] + 1, Len(qu[l].pending))
  <2>0. queue'[l] = [inflight |-> slot, pending |-> rest]
    BY <1>1 DEF taken, started
  <2> HIDE DEF slot, rest
  <2>1. queue'[l].inflight = slot /\ queue'[l].pending = rest
    BY <2>0
  <2>2. CASE taken(l) \cap started # {}
    <3>1. PICK c \in taken(l) \cap started : queue'[l].inflight = c
      BY <2>1, <2>2 DEF slot
    <3>2. PICK i \in 1..walked[l] : c = qu[l].pending[i]
      BY DEF taken
    <3>3. i = walked[l] /\ walked[l] > 0
      BY <1>3, <1>14, <3>1, <3>2
    <3>4. c = qu[l].pending[walked[l]] /\ c \in started
      BY <3>1, <3>2, <3>3
    <3>5. queue'[l].pending = SubSeq(qu[l].pending, walked[l] + 1, Len(qu[l].pending))
      BY <2>1 DEF rest
    <3> QED BY <2>2, <3>1, <3>3, <3>4, <3>5
  <2>3. CASE taken(l) \cap started = {}
    <3>1. /\ queue'[l].inflight = qu[l].inflight
          /\ queue'[l].pending = SubSeq(qu[l].pending, walked[l] + 1, Len(qu[l].pending))
      BY <2>1, <2>3 DEF slot, rest
    <3> QED BY <2>3, <3>1
  <2> QED BY <2>2, <2>3
<1>16. ASSUME NEW l \in Links
       PROVE  queue'[l].pending \in Seq(Ids)
  <2>1. \A i \in (walked[l] + 1)..Len(qu[l].pending) : qu[l].pending[i] \in Ids
    BY <1>3, QueueType
  <2>2. walked[l] + 1 \in Int /\ Len(qu[l].pending) \in Int
    BY <1>3, QueueType
  <2>3. SubSeq(qu[l].pending, walked[l] + 1, Len(qu[l].pending)) \in Seq(Ids)
    BY <2>1, <2>2, SubSeqProperties
  <2> QED BY <1>15, <2>3
<1>17. queue' \in Queues
  <2>1. \A l \in Links : queue'[l].inflight \in Ids \cup {0}
    BY <1>15, <1>6, QueueType
  <2>2. queue' = [l \in Links |-> [inflight |-> queue'[l].inflight, pending |-> queue'[l].pending]]
    BY <1>1
  <2> QED BY <1>16, <2>1, <2>2 DEF Queues
<1>18. health' \in [Devices -> Health]
  <2>1. \A d \in Devices, b \in BOOLEAN : Admitted(he[d], b) \in Health
    <3> SUFFICES ASSUME NEW d \in Devices, NEW b \in BOOLEAN PROVE Admitted(he[d], b) \in Health
      OBVIOUS
    <3> QED BY SmallStepTypes
  <2>2. \A d \in Devices :
          (\E c \in {c \in started : Dev(cm[c].req) = d} : IsQueuedMessageRequest(cm[c].req)) \in BOOLEAN
    OBVIOUS
  <2> QED BY <1>1, <2>1, <2>2 DEF started
<1>19. inflightByTN' \in [Numbers -> Ids \cup {0}]
  <2>1. \A t \in Numbers : by[t] \in Ids \cup {0}
    OBVIOUS
  <2> QED BY <1>2, <1>6, <2>1 DEF Numbers, num, used
<1>20. sent' \subseteq OnAir
  <2>1. \A c \in started : Packet(c, cm[c], num[c]) \in OnAir
    <3> TAKE c \in started
    <3>1. c \in Ids /\ cm[c] \in Command /\ num[c] \in Numbers
      BY <1>6, <1>9
    <3>2. WireClass(cm[c]) \in {"get", "set"}
      BY <3>1, RequestType DEF WireClass, Request
    <3> QED BY <3>1, <3>2 DEF Packet, OnAir
  <2>2. sent' \subseteq sent \cup {Packet(c, cm[c], num[c]) : c \in started}
    BY <1>2 DEF num, used
  <2> QED BY <2>1, <2>2 DEF OthersType
<1>21. Pumped(cm, qu, cmd', queue')
  <2>1. walked \in [Links -> Nat]
    <3>1. \A l \in Links : walked[l] \in Nat
      BY <1>3
    <3> QED BY <3>1
  <2>2. ASSUME NEW l \in Links, NEW i \in 1..walked[l]
        PROVE  LET c == qu[l].pending[i]
               IN /\ CmdOK(cmd'[c]) /\ Moved(cm[c], cmd'[c])
                  /\ \/ cmd'[c].st = "done"
                     \/ cmd'[c].st = "wire" /\ i = walked[l] /\ queue'[l].inflight = c
    <3> DEFINE c == qu[l].pending[i]
    <3>1. c \in visited /\ c \in taken(l) /\ cm[c].st = "pending"
      BY <1>4
    <3>2. c \in started => i = walked[l] /\ queue'[l].inflight = c
      BY <1>14, <1>15, <3>1
    <3> QED BY <1>12, <3>1, <3>2 DEF Moved
  <2>3. ASSUME NEW l \in Links
        PROVE  \/ queue'[l].inflight = qu[l].inflight
               \/ /\ walked[l] > 0 /\ queue'[l].inflight = qu[l].pending[walked[l]]
                  /\ cmd'[qu[l].pending[walked[l]]].st = "wire"
    BY <1>6, <1>12, <1>15
  <2>4. \A c \in Ids :
          (\A l \in Links : \A i \in 1..walked[l] : qu[l].pending[i] # c) => cmd'[c] = cm[c]
    BY <1>5, <1>11 
  <2>5. ASSUME NEW l \in Links
        PROVE  LET p == qu[l].pending
                   n == walked[l]
               IN /\ n =< Len(p)
                  /\ n > 0 => qu[l].inflight = 0 /\ ~stopped
                  /\ queue'[l].pending = SubSeq(p, n + 1, Len(p))
                  /\ \A i \in 1..n :
                       /\ CmdOK(cmd'[p[i]]) /\ Moved(cm[p[i]], cmd'[p[i]])
                       /\ \/ cmd'[p[i]].st = "done"
                          \/ cmd'[p[i]].st = "wire" /\ i = n /\ queue'[l].inflight = p[i]
                  /\ \/ queue'[l].inflight = qu[l].inflight
                     \/ n > 0 /\ queue'[l].inflight = p[n] /\ cmd'[p[n]].st = "wire"
    BY <1>3, <1>15, <2>2, <2>3
  <2> QED BY <2>1, <2>4, <2>5 DEF Pumped
<1>22. Numbered(cm, by)
  <2> DEFINE m == Cardinality(Unsent(cm))
             w == Cardinality(onWire)
  <2>1. w \in Nat /\ m \in Nat /\ w =< m
    <3>1. onWire \subseteq Unsent(cm) /\ Unsent(cm) \subseteq Ids
      BY <1>6 DEF Unsent
    <3>2. IsFiniteSet(Unsent(cm))
      <4>1. IsFiniteSet(Ids)
        BY FS_Interval, ControllerAssumption DEF Ids
      <4> QED BY <3>1, <4>1, FS_Subset
    <3>3. Cardinality(onWire) =< Cardinality(Unsent(cm))
      BY <3>1, <3>2, FS_Subset
    <3> QED BY <1>7, <3>2, <3>3, FS_CardinalityType
  <2>2. ASSUME m =< TNs
        PROVE  /\ \A c, e \in onWire : num[c] = num[e] => c = e
               /\ \A c \in onWire : Upcoming(cm, num[c])
               /\ tn + m < TNs => tn =< tn'
    <3>1. TNs \in Nat /\ tn \in 0..(TNs - 1) /\ tn' = (tn + w) % TNs
      BY <1>1, ControllerAssumption DEF onWire, OthersType, Numbers
    <3>2. \A c \in onWire : rank[c] \in 0..(w - 1) /\ num[c] = (tn + rank[c]) % TNs
      BY DEF num
    <3> HIDE DEF m, w
    <3>3. \A c \in onWire : rank[c] \in 0..(TNs - 1) /\ rank[c] \in 0..(m - 1)
      BY <2>1, <2>2, <3>1, <3>2
    <3>4. \A c, e \in onWire : num[c] = num[e] => c = e
      <4> SUFFICES ASSUME NEW c \in onWire, NEW e \in onWire, num[c] = num[e] PROVE c = e
        OBVIOUS
      <4>1. (tn + rank[c]) % TNs = (tn + rank[e]) % TNs
        BY <3>2
      <4>2. rank[c] = rank[e]
        BY <3>1, <3>3, <4>1, CycleDistinct
      <4> QED BY <1>2, <4>2
    <3>5. ASSUME tn + m < TNs PROVE tn' = tn + w
      <4>1. w \in 0..(TNs - 1) /\ tn + w < TNs
        BY <2>1, <3>1, <3>5
      <4> QED BY <3>1, <4>1, ModCycle
    <3>6. ASSUME NEW c \in onWire PROVE Upcoming(cm, num[c])
      <4>1. \E k \in 0..(m - 1) : num[c] = (tn + k) % TNs
        BY <3>2, <3>3
      <4>2. ASSUME tn + m < TNs PROVE tn =< num[c] /\ num[c] < tn'
        <5>1. /\ rank[c] \in 0..(TNs - 1) /\ rank[c] \in 0..(w - 1)
              /\ tn + rank[c] < TNs
          BY <2>1, <3>1, <3>2, <3>3, <4>2
        <5>2. num[c] = tn + rank[c]
          BY <3>1, <3>2, <5>1, ModCycle
        <5> QED BY <2>1, <3>1, <3>5, <4>2, <5>1, <5>2
      <4> QED BY <4>1, <4>2 DEF Upcoming, m
    <3>7. tn + m < TNs => tn =< tn'
      BY <2>1, <3>1, <3>5
    <3> QED BY <3>4, <3>6, <3>7
  <2> SUFFICES ASSUME m =< TNs PROVE NumbersGiven(cm, by)
    BY DEF Numbered
  <2> HIDE DEF m, w
  <2>3. \A c \in onWire : inflightByTN'[num[c]] = IF c \in started THEN c ELSE 0
    <3> SUFFICES ASSUME NEW c \in onWire
                 PROVE  inflightByTN'[num[c]] = IF c \in started THEN c ELSE 0
      OBVIOUS
    <3>1. num[c] \in used /\ num[c] \in 0..(TNs - 1)
      BY <1>9 DEF used, Numbers
    <3>2. (CHOOSE e \in onWire : num[e] = num[c]) = c
      BY <2>2
    <3> QED BY <1>2, <3>1, <3>2 DEF num, used
  <2>4. \A t \in Numbers : t \notin used => inflightByTN'[t] = by[t]
    BY <1>2 DEF num, used, Numbers
  <2>5. ASSUME NEW c \in Ids
        PROVE  \/ cmd'[c] = cm[c]
               \/ /\ cm[c].st = "pending"
                  /\ \/ cmd'[c] \in {Completed(cm[c], "unreachable"), Completed(cm[c], "broadcast")}
                     \/ \E t \in Numbers : /\ Upcoming(cm, t) /\ cmd'[c] = Issued(cm[c], t)
                                           /\ inflightByTN'[t] = c
    <3>1. c \in visited => cm[c].st = "pending"
      BY <1>6
    <3>2. CASE c \in started
      <4>1. c \in visited /\ c \in onWire /\ cmd'[c] = Issued(cm[c], num[c])
        BY <1>6, <1>11, <3>2
      <4>2. num[c] \in Numbers /\ Upcoming(cm, num[c]) /\ inflightByTN'[num[c]] = c
        BY <1>9, <2>2, <2>3, <3>2, <4>1
      <4> QED BY <3>1, <4>1, <4>2
    <3>3. CASE c \notin started
      <4>1. failed \subseteq visited
        BY DEF failed, visited
      <4> QED BY <1>11, <3>1, <3>3, <4>1
    <3> QED BY <3>2, <3>3
  <2>6. ASSUME NEW t \in Numbers
        PROVE  \/ inflightByTN'[t] = by[t]
               \/ /\ Upcoming(cm, t)
                  /\ \/ inflightByTN'[t] = 0
                     \/ \E c \in Ids : /\ inflightByTN'[t] = c /\ cm[c].st = "pending"
                                       /\ cmd'[c] = Issued(cm[c], t)
    <3>1. CASE t \in used
      <4>1. PICK c \in onWire : num[c] = t
        BY <3>1 DEF used
      <4>2. Upcoming(cm, t) /\ inflightByTN'[t] = IF c \in started THEN c ELSE 0
        BY <2>2, <2>3, <4>1
      <4>3. c \in Ids /\ cm[c].st = "pending"
            /\ (c \in started => cmd'[c] = Issued(cm[c], t))
        BY <1>6, <1>11, <4>1
      <4> QED BY <4>2, <4>3
    <3> QED BY <2>4, <3>1
  <2> QED BY <2>2, <2>5, <2>6 DEF NumbersGiven, m
<1> QED BY <1>1, <1>9, <1>13, <1>17, <1>18, <1>19, <1>20, <1>21, <1>22

\* Commands that the pump passes leave the queue in order, the others stay.
LEMMA PumpedKeeps ==
  ASSUME NEW cm \in [Ids -> Command], NEW qu \in Queues,
         NEW cm1 \in [Ids -> Command], NEW qu1 \in Queues,
         NEW hold \in [UIDs \cup {Broadcast} -> Ids \cup {0}],
         Agree(cm, qu, hold), Pumped(cm, qu, cm1, qu1)
  PROVE  /\ Agree(cm1, qu1, hold)
         /\ \A c \in Ids : Moved(cm[c], cm1[c])
<1>1. PICK walked \in [Links -> Nat] :
        /\ \A l \in Links :
             LET p == qu[l].pending
                 n == walked[l]
             IN /\ n =< Len(p)
                /\ n > 0 => qu[l].inflight = 0 /\ ~stopped
                /\ qu1[l].pending = SubSeq(p, n + 1, Len(p))
                /\ \A i \in 1..n :
                     /\ CmdOK(cm1[p[i]]) /\ Moved(cm[p[i]], cm1[p[i]])
                     /\ \/ cm1[p[i]].st = "done"
                        \/ cm1[p[i]].st = "wire" /\ i = n /\ qu1[l].inflight = p[i]
                /\ \/ qu1[l].inflight = qu[l].inflight
                   \/ n > 0 /\ qu1[l].inflight = p[n] /\ cm1[p[n]].st = "wire"
        /\ \A c \in Ids :
             (\A l \in Links : \A i \in 1..walked[l] : qu[l].pending[i] # c) => cm1[c] = cm[c]
  BY DEF Pumped
<1>1a. ASSUME NEW l \in Links, NEW i \in 1..walked[l]
      PROVE  LET c == qu[l].pending[i]
             IN /\ CmdOK(cm1[c]) /\ Moved(cm[c], cm1[c])
                /\ cm1[c].st = "done" \/ (cm1[c].st = "wire" /\ qu1[l].inflight = c)
  <2> DEFINE c == qu[l].pending[i]
  <2>1. /\ CmdOK(cm1[c]) /\ Moved(cm[c], cm1[c])
        /\ \/ cm1[c].st = "done"
           \/ cm1[c].st = "wire" /\ i = walked[l] /\ qu1[l].inflight = c
    BY <1>1
  <2> HIDE DEF c
  <2> QED BY <2>1 DEF c
<1>1b. ASSUME NEW c \in Ids, cm1[c] # cm[c]
      PROVE  \E l \in Links : \E i \in 1..walked[l] : qu[l].pending[i] = c
  <2>1. (\A l \in Links : \A i \in 1..walked[l] : qu[l].pending[i] # c) => cm1[c] = cm[c]
    BY <1>1
  <2> QED BY <1>1b, <2>1
<1>2. ASSUME NEW l \in Links
      PROVE  /\ qu[l].inflight \in Ids \cup {0} /\ Len(qu[l].pending) \in Nat
             /\ \A i \in 1..Len(qu[l].pending) :
                  /\ qu[l].pending[i] \in Ids /\ cm[qu[l].pending[i]].st = "pending"
                  /\ cm[qu[l].pending[i]].req.link = l
  BY QueueType DEF Agree, QueueOK, WaitsOK
<1>3. ASSUME NEW c \in Ids
      PROVE  /\ Moved(cm[c], cm1[c]) /\ CmdOK(cm1[c]) /\ cm1[c].req = cm[c].req
             /\ cm[c].st # "pending" => cm1[c] = cm[c]
             /\ cm1[c].st = "pending" => cm1[c] = cm[c]
             /\ cm1[c] # cm[c] => \E i \in 1..walked[cm[c].req.link] :
                                    c = qu[cm[c].req.link].pending[i]
  <2>1. CASE cm1[c] = cm[c]
    BY <2>1 DEF Moved, Agree
  <2>2. CASE cm1[c] # cm[c]
    <3>1. PICK l \in Links : \E i \in 1..walked[l] : qu[l].pending[i] = c
      BY <1>1b, <2>2
    <3>2. PICK i \in 1..walked[l] : qu[l].pending[i] = c
      BY <3>1
    <3>3. i \in 1..Len(qu[l].pending)
      BY <1>1, <1>2
    <3>4. cm[c].st = "pending" /\ cm[c].req.link = l
      BY <1>2, <3>2, <3>3
    <3>5. CmdOK(cm1[c]) /\ Moved(cm[c], cm1[c])
      BY <1>1a, <3>2
    <3> QED BY <2>2, <3>2, <3>4, <3>5 DEF Moved
  <2> QED BY <2>1, <2>2
<1>4. ASSUME NEW l \in Links
      PROVE  /\ walked[l] \in Nat /\ walked[l] =< Len(qu[l].pending)
             /\ Len(qu1[l].pending) = Len(qu[l].pending) - walked[l]
             /\ \A i \in 1..Len(qu1[l].pending) :
                  /\ i + walked[l] \in 1..Len(qu[l].pending)
                  /\ i + walked[l] > walked[l]
                  /\ qu1[l].pending[i] = qu[l].pending[i + walked[l]]
  <2>1. walked[l] \in Nat /\ walked[l] =< Len(qu[l].pending) /\ Len(qu[l].pending) \in Nat
    BY <1>1, <1>2
  <2>2. qu1[l].pending = SubSeq(qu[l].pending, walked[l] + 1, Len(qu[l].pending))
    BY <1>1
  <2>3. qu[l].pending \in Seq(Ids)
    BY QueueType
  <2> DEFINE p == qu[l].pending
             n == walked[l]
             s == SubSeq(p, n + 1, Len(p))
  <2>4. \A i \in (n + 1)..Len(p) : p[i] \in Ids
    BY <1>2, <2>1
  <2>5. /\ Len(s) = IF n + 1 =< Len(p) THEN Len(p) - (n + 1) + 1 ELSE 0
        /\ \A i \in 1..(Len(p) - (n + 1) + 1) : s[i] = p[(n + 1) + i - 1]
    <3>1. n + 1 \in Int /\ Len(p) \in Int
      BY <2>1
    <3> QED BY <2>4, <3>1, SubSeqProperties
  <2> HIDE DEF p, n, s
  <2>6. n \in Nat /\ n =< Len(p) /\ Len(p) \in Nat
    BY <2>1 DEF p, n
  <2>7. Len(s) = Len(p) - n
    BY <2>5, <2>6
  <2>8. ASSUME NEW i \in 1..Len(s)
        PROVE  i + n \in 1..Len(p) /\ i + n > n /\ s[i] = p[i + n]
    <3>1. i \in 1..(Len(p) - (n + 1) + 1) /\ (n + 1) + i - 1 = i + n
      BY <2>6, <2>7
    <3> QED BY <2>5, <2>6, <2>7, <3>1
  <2> QED BY <2>2, <2>6, <2>7, <2>8 DEF p, n, s
<1>5. ASSUME NEW l \in Links, NEW i \in 1..Len(qu[l].pending), i > walked[l]
      PROVE  cm1[qu[l].pending[i]] = cm[qu[l].pending[i]]
  <2> DEFINE c == qu[l].pending[i]
  <2>1. c \in Ids /\ cm[c].req.link = l
    BY <1>2
  <2>2. ASSUME NEW j \in 1..walked[l] PROVE qu[l].pending[j] # c
    <3>1. j \in 1..Len(qu[l].pending) /\ j < i
      BY <1>4, <1>5, <1>2
    <3> QED BY <1>5, <3>1 DEF Agree, QueueOK, LineOK
  <2>3. cm1[c] # cm[c] => \E j \in 1..walked[l] : c = qu[l].pending[j]
    <3>1. cm1[c] # cm[c] => \E j \in 1..walked[cm[c].req.link] :
                               c = qu[cm[c].req.link].pending[j]
      BY <1>3, <2>1
    <3> HIDE DEF c
    <3> QED BY <2>1, <3>1
  <2> QED BY <2>2, <2>3
<1>6. ASSUME NEW l \in Links, qu1[l].inflight # 0
      PROVE  cm1[qu1[l].inflight].st = "wire" /\ cm1[qu1[l].inflight].req.link = l
  <2>1. CASE qu1[l].inflight = qu[l].inflight
    <3>1. /\ qu[l].inflight \in Ids /\ cm[qu[l].inflight].st = "wire"
          /\ cm[qu[l].inflight].req.link = l
      BY <1>2, <1>6, <2>1 DEF Agree, QueueOK, SlotOK
    <3> QED BY <1>3, <2>1, <3>1
  <2>2. CASE walked[l] > 0 /\ qu1[l].inflight = qu[l].pending[walked[l]]
               /\ cm1[qu[l].pending[walked[l]]].st = "wire"
    <3>1. walked[l] \in 1..Len(qu[l].pending)
      BY <1>2, <1>4, <2>2
    <3> QED BY <1>2, <1>3, <2>2, <3>1
  <2> QED BY <1>1, <2>1, <2>2
<1>7. ASSUME NEW c \in Ids, cm1[c].st = "wire"
      PROVE  qu1[cm1[c].req.link].inflight = c
  <2> DEFINE l == cm[c].req.link
  <2>1. l \in Links /\ cm1[c].req.link = l
    BY <1>3, RequestType
  <2>2. CASE cm1[c] = cm[c]
    <3>1. qu[l].inflight = c
      BY <1>7, <2>2 DEF Agree, QueueOK, OwnSlot
    <3>2. c # 0
      BY ControllerAssumption DEF Ids
    <3>3. ~(walked[l] > 0)
      BY <1>1, <2>1, <3>1, <3>2
    <3> QED BY <1>1, <2>1, <3>1, <3>3
  <2>3. CASE cm1[c] # cm[c]
    <3>1. PICK i \in 1..walked[l] : c = qu[l].pending[i]
      BY <1>3, <2>3
    <3>2. cm1[c].st = "done" \/ qu1[l].inflight = c
      BY <1>1a, <2>1, <3>1
    <3> QED BY <1>7, <2>1, <3>2
  <2> QED BY <2>2, <2>3
<1>8. ASSUME NEW l \in Links, NEW i \in 1..Len(qu1[l].pending)
      PROVE  LET c == qu1[l].pending[i] IN cm1[c].st = "pending" /\ cm1[c].req.link = l
  <2>1. /\ i + walked[l] \in 1..Len(qu[l].pending) /\ i + walked[l] > walked[l]
        /\ qu1[l].pending[i] = qu[l].pending[i + walked[l]]
    BY <1>4
  <2> DEFINE c == qu[l].pending[i + walked[l]]
  <2>2. cm1[c] = cm[c] /\ cm[c].st = "pending" /\ cm[c].req.link = l
    BY <1>2, <1>5, <2>1
  <2> QED BY <2>1, <2>2
<1>9. ASSUME NEW c \in Ids, cm1[c].st = "pending"
      PROVE  \E i \in 1..Len(qu1[cm1[c].req.link].pending) :
               qu1[cm1[c].req.link].pending[i] = c
  <2> DEFINE l == cm[c].req.link
  <2>1. l \in Links /\ cm1[c].req.link = l /\ cm1[c] = cm[c]
    BY <1>3, <1>9, RequestType
  <2>2. PICK i \in 1..Len(qu[l].pending) : qu[l].pending[i] = c
    BY <1>9, <2>1 DEF Agree, QueueOK, Queued
  <2>3. ~(i =< walked[l])
    <3> SUFFICES ASSUME i =< walked[l] PROVE FALSE
      OBVIOUS
    <3>1. i \in 1..walked[l]
      BY <1>4, <2>1
    <3>2. cm1[c].st \in {"done", "wire"}
      BY <1>1a, <2>1, <2>2, <3>1
    <3> QED BY <1>9, <3>2
  <2>4. /\ walked[l] \in Nat /\ Len(qu[l].pending) \in Nat
        /\ Len(qu1[l].pending) = Len(qu[l].pending) - walked[l]
    BY <1>2, <1>4, <2>1
  <2>5. i - walked[l] \in 1..Len(qu1[l].pending) /\ (i - walked[l]) + walked[l] = i
    BY <2>2, <2>3, <2>4
  <2>6. qu1[l].pending[i - walked[l]] = c
    BY <1>4, <2>1, <2>2, <2>5
  <2> QED BY <2>1, <2>5, <2>6
<1>10. ASSUME NEW l \in Links, NEW i \in 1..Len(qu1[l].pending),
              NEW j \in 1..Len(qu1[l].pending), i < j
       PROVE  LET p == qu1[l].pending
              IN p[i] # p[j] /\ (cm1[p[i]].req.uid = cm1[p[j]].req.uid => p[i] < p[j])
  <2>1. /\ i + walked[l] \in 1..Len(qu[l].pending) /\ j + walked[l] \in 1..Len(qu[l].pending)
        /\ qu1[l].pending[i] = qu[l].pending[i + walked[l]]
        /\ qu1[l].pending[j] = qu[l].pending[j + walked[l]]
        /\ i + walked[l] < j + walked[l]
    <3>1. walked[l] \in Nat /\ i \in Int /\ j \in Int
      BY <1>4
    <3>2. i + walked[l] < j + walked[l]
      BY <1>10, <3>1
    <3> QED BY <1>4, <3>2
  <2>2. /\ qu[l].pending[i + walked[l]] # qu[l].pending[j + walked[l]]
        /\ cm[qu[l].pending[i + walked[l]]].req.uid = cm[qu[l].pending[j + walked[l]]].req.uid
             => qu[l].pending[i + walked[l]] < qu[l].pending[j + walked[l]]
    BY <2>1 DEF Agree, QueueOK, LineOK
  <2>3. qu[l].pending[i + walked[l]] \in Ids /\ qu[l].pending[j + walked[l]] \in Ids
    BY <1>2, <2>1
  <2> QED BY <1>3, <2>1, <2>2, <2>3
<1>11. QueueOK(cm1, qu1)
  <2>1. SlotOK(cm1, qu1)
    BY <1>6 DEF SlotOK
  <2>2. OwnSlot(cm1, qu1)
    BY <1>7 DEF OwnSlot
  <2>3. WaitsOK(cm1, qu1)
    BY <1>8 DEF WaitsOK
  <2>4. Queued(cm1, qu1)
    BY <1>9 DEF Queued
  <2>5. LineOK(cm1, qu1)
    BY <1>10 DEF LineOK
  <2> QED BY <2>1, <2>2, <2>3, <2>4, <2>5 DEF QueueOK
<1>12. HoldOK(cm1, hold)
  <2> SUFFICES ASSUME NEW x \in UIDs \cup {Broadcast}, hold[x] # 0
               PROVE  LET r == cm1[hold[x]] IN r.st = "wire" /\ r.req.uid = x /\ r.overflow
    BY DEF HoldOK
  <2>1. hold[x] \in Ids
    OBVIOUS
  <2>2. LET r == cm[hold[x]] IN r.st = "wire" /\ r.req.uid = x /\ r.overflow
    BY DEF Agree, HoldOK
  <2> QED BY <1>3, <2>1, <2>2
<1>13. OrderOK(cm1)
  <2> SUFFICES ASSUME NEW c \in Ids, NEW e \in Ids, c < e, Dev(cm1[c].req) = Dev(cm1[e].req),
                      cm1[c].st = "pending"
               PROVE  cm1[e].st \in {"unused", "pending"}
    BY DEF OrderOK
  <2> DEFINE l == cm[c].req.link
  <2>1. /\ cm1[c] = cm[c] /\ cm1[e].req = cm[e].req /\ l \in Links
        /\ Dev(cm[c].req) = Dev(cm[e].req) /\ cm[e].req.link = l
        /\ cm[c].req.uid = cm[e].req.uid
    BY <1>3, RequestType DEF Dev
  <2>2. cm[e].st \in {"unused", "pending"}
    BY <2>1 DEF Agree, OrderOK
  <2>3. CASE cm1[e] # cm[e]
    <3>1. PICK j \in 1..walked[l] : e = qu[l].pending[j]
      BY <1>3, <2>1, <2>3
    <3>2. PICK i \in 1..Len(qu[l].pending) : qu[l].pending[i] = c
      BY <2>1 DEF Agree, QueueOK, Queued
    <3>3. ~(i =< walked[l])
      <4> SUFFICES ASSUME i =< walked[l] PROVE FALSE
        OBVIOUS
      <4>1. i \in 1..walked[l]
        BY <1>4, <2>1
      <4>2. cm1[c].st \in {"done", "wire"}
        BY <1>1a, <2>1, <3>2, <4>1
      <4> QED BY <4>2
    <3>4. j \in 1..Len(qu[l].pending) /\ j < i
      BY <1>2, <1>4, <2>1, <3>3
    <3>5. cm[qu[l].pending[j]].req.uid = cm[qu[l].pending[i]].req.uid
            => qu[l].pending[j] < qu[l].pending[i]
      BY <2>1, <3>2, <3>4 DEF Agree, QueueOK, LineOK
    <3>6. e < c
      BY <2>1, <3>1, <3>2, <3>5
    <3> QED BY <3>6 DEF Ids
  <2> QED BY <2>2, <2>3
<1> QED BY <1>3, <1>11, <1>12, <1>13 DEF Agree

-----------------------------------------------------------------------------
(* What handlers do to one command.                                        *)

\* A handler that leaves its command where it is, with a hold of its UID only
\* while it reassembles.
LEMMA RecordKept ==
  ASSUME NEW cm \in [Ids -> Command], NEW qu \in Queues,
         NEW hold \in [UIDs \cup {Broadcast} -> Ids \cup {0}],
         Agree(cm, qu, hold),
         NEW c \in Ids,
         NEW r \in Command, CmdOK(r), r.st = cm[c].st, r.req = cm[c].req,
         NEW hold1 \in [UIDs \cup {Broadcast} -> Ids \cup {0}],
         \A x \in UIDs \cup {Broadcast} :
           \/ hold1[x] = 0
           \/ hold1[x] = hold[x] /\ hold[x] # c
           \/ hold1[x] = c /\ x = r.req.uid /\ r.st = "wire" /\ r.overflow
  PROVE  Agree([cm EXCEPT ![c] = r], qu, hold1)
<1> DEFINE cm1 == [cm EXCEPT ![c] = r]
<1>1. /\ cm1[c] = r
      /\ \A e \in Ids : e # c => cm1[e] = cm[e]
      /\ \A e \in Ids : CmdOK(cm1[e]) /\ cm1[e].req = cm[e].req /\ cm1[e].st = cm[e].st
  BY DEF Agree
<1> HIDE DEF cm1
<1>2. QueueOK(cm1, qu)
  <2>1. \A l \in Links : /\ qu[l].inflight # 0 => qu[l].inflight \in Ids
                         /\ \A i \in 1..Len(qu[l].pending) : qu[l].pending[i] \in Ids
    BY QueueType
  <2>2. \A l \in Links :
          qu[l].inflight # 0 =>
            cm1[qu[l].inflight].st = "wire" /\ cm1[qu[l].inflight].req.link = l
    BY <1>1, <2>1 DEF Agree, QueueOK, SlotOK
  <2>3. \A e \in Ids : cm1[e].st = "wire" => qu[cm1[e].req.link].inflight = e
    BY <1>1 DEF Agree, QueueOK, OwnSlot
  <2>4. \A l \in Links : \A i \in 1..Len(qu[l].pending) :
          LET e == qu[l].pending[i] IN cm1[e].st = "pending" /\ cm1[e].req.link = l
    BY <1>1, <2>1 DEF Agree, QueueOK, WaitsOK
  <2>5. \A e \in Ids :
          cm1[e].st = "pending" =>
            \E i \in 1..Len(qu[cm1[e].req.link].pending) :
              qu[cm1[e].req.link].pending[i] = e
    BY <1>1 DEF Agree, QueueOK, Queued
  <2>6. \A l \in Links : \A i, j \in 1..Len(qu[l].pending) :
          LET p == qu[l].pending
          IN i < j => p[i] # p[j] /\ (cm1[p[i]].req.uid = cm1[p[j]].req.uid => p[i] < p[j])
    <3> SUFFICES ASSUME NEW l \in Links, NEW i \in 1..Len(qu[l].pending),
                        NEW j \in 1..Len(qu[l].pending), i < j
                 PROVE  LET p == qu[l].pending
                        IN p[i] # p[j] /\ (cm1[p[i]].req.uid = cm1[p[j]].req.uid => p[i] < p[j])
      OBVIOUS
    <3>1. cm1[qu[l].pending[i]].req = cm[qu[l].pending[i]].req
          /\ cm1[qu[l].pending[j]].req = cm[qu[l].pending[j]].req
      BY <1>1, <2>1
    <3>2. LET p == qu[l].pending
          IN p[i] # p[j] /\ (cm[p[i]].req.uid = cm[p[j]].req.uid => p[i] < p[j])
      BY DEF Agree, QueueOK, LineOK
    <3> QED BY <3>1, <3>2
  <2>7. SlotOK(cm1, qu)
    BY <2>2 DEF SlotOK
  <2>8. OwnSlot(cm1, qu)
    BY <2>3 DEF OwnSlot
  <2>9. WaitsOK(cm1, qu)
    BY <2>4 DEF WaitsOK
  <2>10. Queued(cm1, qu)
    BY <2>5 DEF Queued
  <2>11. LineOK(cm1, qu)
    BY <2>6 DEF LineOK
  <2> QED BY <2>7, <2>8, <2>9, <2>10, <2>11 DEF QueueOK
<1>3. HoldOK(cm1, hold1)
  <2> SUFFICES ASSUME NEW x \in UIDs \cup {Broadcast}, hold1[x] # 0
               PROVE  LET q == cm1[hold1[x]] IN q.st = "wire" /\ q.req.uid = x /\ q.overflow
    BY DEF HoldOK
  <2>1. CASE hold1[x] = hold[x] /\ hold[x] # c
    <3>1. hold[x] \in Ids /\ hold[x] # 0
      BY <2>1
    <3>2. LET q == cm[hold[x]] IN q.st = "wire" /\ q.req.uid = x /\ q.overflow
      BY <3>1 DEF Agree, HoldOK
    <3> QED BY <1>1, <2>1, <3>1, <3>2
  <2>2. CASE hold1[x] = c /\ x = r.req.uid /\ r.st = "wire" /\ r.overflow
    BY <1>1, <2>2
  <2> QED BY <2>1, <2>2
<1>4. OrderOK(cm1)
  BY <1>1 DEF Agree, OrderOK
<1> QED BY <1>1, <1>2, <1>3, <1>4 DEF Agree, cm1

\* The queue that requeueBehind leaves holds the same commands, those of one
\* device in the same order.
SameQueue(p, s) ==
  /\ s \in Seq(Ids) /\ Len(s) = Len(p)
  /\ \A i \in 1..Len(p) : \E j \in 1..Len(p) : s[j] = p[i]
  /\ \A i \in 1..Len(p) : \E j \in 1..Len(p) : s[i] = p[j]
  /\ \A i, j \in 1..Len(p) :
       i < j => \E a, b \in 1..Len(p) :
                  /\ s[i] = p[a] /\ s[j] = p[b] /\ a # b
                  /\ cmd[p[a]].req.uid = cmd[p[b]].req.uid => a < b

LEMMA RequeueKeeps ==
  ASSUME NEW p \in Seq(Ids), NEW u, NEW hold, NEW s \in RequeueBehind(p, u, hold)
  PROVE  SameQueue(p, s)
<1>0. Len(p) \in Nat /\ \A i \in 1..Len(p) : p[i] \in Ids
  BY ElementOfSeq
<1>1. CASE s = p
  <2>1. \A i, j \in 1..Len(p) :
          i < j => /\ s[i] = p[i] /\ s[j] = p[j] /\ i # j
                   /\ cmd[p[i]].req.uid = cmd[p[j]].req.uid => i < j
    BY <1>0, <1>1
  <2>2. \A i \in 1..Len(p) : s[i] = p[i]
    BY <1>1
  <2> QED BY <1>1, <2>1, <2>2 DEF SameQueue
<1>2. CASE s # p
  <2> DEFINE Mine(i) == cmd[p[i]].req.uid = u
             Precedes(i, j) == IF Mine(i) <=> Mine(j) THEN i < j ELSE Mine(j)
  <2>1. PICK f \in [1..Len(p) -> 1..Len(p)] :
          /\ \A i, j \in 1..Len(p) : i < j => Precedes(f[i], f[j])
          /\ \A j \in 1..Len(p) : \E i \in 1..Len(p) : f[i] = j
          /\ s = [i \in 1..Len(p) |-> p[f[i]]]
    BY <1>2 DEF RequeueBehind
  <2>2. /\ \A i \in 1..Len(p) : s[i] = p[f[i]] /\ f[i] \in 1..Len(p)
        /\ s \in [1..Len(p) -> Ids]
    BY <1>0, <2>1
  <2>3. s \in Seq(Ids) /\ Len(s) = Len(p)
    BY <1>0, <2>2
  <2>4. \A i \in 1..Len(p) : \E j \in 1..Len(p) : s[j] = p[i]
    <3> SUFFICES ASSUME NEW i \in 1..Len(p) PROVE \E j \in 1..Len(p) : s[j] = p[i]
      OBVIOUS
    <3>1. PICK j \in 1..Len(p) : f[j] = i
      BY <2>1
    <3> QED BY <2>2, <3>1
  <2>5. \A i, j \in 1..Len(p) :
          i < j => /\ s[i] = p[f[i]] /\ s[j] = p[f[j]]
                   /\ f[i] \in 1..Len(p) /\ f[j] \in 1..Len(p) /\ f[i] # f[j]
                   /\ cmd[p[f[i]]].req.uid = cmd[p[f[j]]].req.uid => f[i] < f[j]
    <3> SUFFICES ASSUME NEW i \in 1..Len(p), NEW j \in 1..Len(p), i < j
                 PROVE  /\ f[i] # f[j]
                        /\ cmd[p[f[i]]].req.uid = cmd[p[f[j]]].req.uid => f[i] < f[j]
      BY <2>2
    <3>1. Precedes(f[i], f[j]) /\ f[i] \in 1..Len(p) /\ f[j] \in 1..Len(p)
      BY <2>1, <2>2
    <3> QED BY <3>1
  <2> HIDE DEF Mine, Precedes
  <2>6. \A i, j \in 1..Len(p) :
          i < j => \E a, b \in 1..Len(p) :
                     /\ s[i] = p[a] /\ s[j] = p[b] /\ a # b
                     /\ cmd[p[a]].req.uid = cmd[p[b]].req.uid => a < b
    <3> SUFFICES ASSUME NEW i \in 1..Len(p), NEW j \in 1..Len(p), i < j
                 PROVE  \E a, b \in 1..Len(p) :
                          /\ s[i] = p[a] /\ s[j] = p[b] /\ a # b
                          /\ cmd[p[a]].req.uid = cmd[p[b]].req.uid => a < b
      OBVIOUS
    <3>1. /\ s[i] = p[f[i]] /\ s[j] = p[f[j]]
          /\ f[i] \in 1..Len(p) /\ f[j] \in 1..Len(p) /\ f[i] # f[j]
          /\ cmd[p[f[i]]].req.uid = cmd[p[f[j]]].req.uid => f[i] < f[j]
      BY <2>5
    <3> QED BY <3>1
  <2>7. \A i \in 1..Len(p) : \E j \in 1..Len(p) : s[i] = p[j]
    BY <2>2
  <2> QED BY <2>3, <2>4, <2>6, <2>7 DEF SameQueue
<1> QED BY <1>1, <1>2

\* A handler that ends its command: the slot is free, the hold is gone.
LEMMA EndedKept ==
  ASSUME Agree(cmd, queue, overflowUID), cmd \in [Ids -> Command], queue \in Queues,
         NEW c \in Ids, cmd[c].st = "wire",
         NEW r \in Command, CmdOK(r), r.st = "done", r.req = cmd[c].req,
         NEW left, SameQueue(queue[r.req.link].pending, left),
         NEW hold1 \in [UIDs \cup {Broadcast} -> Ids \cup {0}],
         \A x \in UIDs \cup {Broadcast} :
           hold1[x] = 0 \/ (hold1[x] = overflowUID[x] /\ overflowUID[x] # c)
  PROVE  LET cm1 == [cmd EXCEPT ![c] = r]
             qu1 == [queue EXCEPT ![r.req.link] = [inflight |-> 0, pending |-> left]]
         IN Agree(cm1, qu1, hold1) /\ cm1 \in [Ids -> Command] /\ qu1 \in Queues
<1> DEFINE k == r.req.link
           cm1 == [cmd EXCEPT ![c] = r]
           qu1 == [queue EXCEPT ![k] = [inflight |-> 0, pending |-> left]]
<1>0. k \in Links /\ k = cmd[c].req.link
  BY RequestType
<1>1. /\ cm1 \in [Ids -> Command] /\ cm1[c] = r
      /\ \A e \in Ids : e # c => cm1[e] = cmd[e]
      /\ \A e \in Ids : CmdOK(cm1[e]) /\ cm1[e].req = cmd[e].req
  BY DEF Agree
<1>2. left \in Seq(Ids)
  BY DEF SameQueue
<1>3. /\ qu1 \in Queues /\ qu1[k].inflight = 0 /\ qu1[k].pending = left
      /\ \A l \in Links : l # k => qu1[l] = queue[l]
  BY <1>0, <1>2 DEF Queues
<1> HIDE DEF cm1, qu1, k
<1>4. ASSUME NEW l \in Links
      PROVE  /\ queue[l].inflight \in Ids \cup {0} /\ Len(queue[l].pending) \in Nat
             /\ \A i \in 1..Len(queue[l].pending) :
                  /\ queue[l].pending[i] \in Ids /\ queue[l].pending[i] # c
                  /\ cmd[queue[l].pending[i]].st = "pending"
                  /\ cmd[queue[l].pending[i]].req.link = l
                  /\ cm1[queue[l].pending[i]] = cmd[queue[l].pending[i]]
  <2>1. /\ queue[l].inflight \in Ids \cup {0} /\ Len(queue[l].pending) \in Nat
        /\ \A i \in 1..Len(queue[l].pending) :
             /\ queue[l].pending[i] \in Ids
             /\ cmd[queue[l].pending[i]].st = "pending"
             /\ cmd[queue[l].pending[i]].req.link = l
    BY QueueType DEF Agree, QueueOK, WaitsOK
  <2> QED BY <1>1, <2>1
<1> DEFINE p == queue[k].pending
<1>5. /\ Len(left) = Len(p) /\ Len(p) \in Nat
      /\ \A i \in 1..Len(p) : \E j \in 1..Len(p) : left[j] = p[i]
      /\ \A i \in 1..Len(p) : \E j \in 1..Len(p) : left[i] = p[j]
      /\ \A i, j \in 1..Len(p) :
           i < j => \E a, b \in 1..Len(p) :
                      /\ left[i] = p[a] /\ left[j] = p[b] /\ a # b
                      /\ cmd[p[a]].req.uid = cmd[p[b]].req.uid => a < b
  BY <1>0, <1>4 DEF SameQueue, k
<1> HIDE DEF p
<1>5a. p = queue[k].pending
  BY DEF p
<1>6. ASSUME NEW l \in Links, qu1[l].inflight # 0
      PROVE  cm1[qu1[l].inflight].st = "wire" /\ cm1[qu1[l].inflight].req.link = l
  <2>1. l # k /\ qu1[l] = queue[l]
    BY <1>3, <1>6
  <2>2. /\ queue[l].inflight \in Ids /\ cmd[queue[l].inflight].st = "wire"
        /\ cmd[queue[l].inflight].req.link = l
    BY <1>4, <1>6, <2>1 DEF Agree, QueueOK, SlotOK
  <2>3. queue[l].inflight # c
    BY <1>0, <2>1, <2>2
  <2> QED BY <1>1, <2>1, <2>2, <2>3
<1>7. ASSUME NEW e \in Ids, cm1[e].st = "wire"
      PROVE  qu1[cm1[e].req.link].inflight = e
  <2>1. e # c /\ cm1[e] = cmd[e]
    BY <1>1, <1>7
  <2>2. queue[cmd[e].req.link].inflight = e /\ queue[k].inflight = c
    BY <1>0, <1>7, <2>1 DEF Agree, QueueOK, OwnSlot
  <2>3. cmd[e].req.link \in Links
    BY RequestType
  <2> QED BY <1>3, <2>1, <2>2, <2>3
<1>8. ASSUME NEW l \in Links, NEW i \in 1..Len(qu1[l].pending)
      PROVE  LET e == qu1[l].pending[i] IN cm1[e].st = "pending" /\ cm1[e].req.link = l
  <2>1. CASE l = k
    <3>0. qu1[l].pending = left /\ i \in 1..Len(p)
      BY <1>3, <1>5, <2>1
    <3>1. PICK j \in 1..Len(p) : left[i] = p[j]
      BY <1>5, <3>0
    <3>2. cm1[p[j]] = cmd[p[j]] /\ cmd[p[j]].st = "pending" /\ cmd[p[j]].req.link = k
      BY <1>0, <1>4, <1>5a, <3>1
    <3> QED BY <2>1, <3>0, <3>1, <3>2
  <2>2. CASE l # k
    BY <1>3, <1>4, <2>2
  <2> QED BY <2>1, <2>2
<1>9. ASSUME NEW e \in Ids, cm1[e].st = "pending"
      PROVE  \E i \in 1..Len(qu1[cm1[e].req.link].pending) :
               qu1[cm1[e].req.link].pending[i] = e
  <2>1. cm1[e] = cmd[e] /\ cmd[e].req.link \in Links
    BY <1>1, <1>9, RequestType
  <2>2. PICK i \in 1..Len(queue[cmd[e].req.link].pending) :
               queue[cmd[e].req.link].pending[i] = e
    BY <1>9, <2>1 DEF Agree, QueueOK, Queued
  <2>3. CASE cmd[e].req.link = k
    <3>0. i \in 1..Len(p) /\ p[i] = e
      BY <1>5a, <2>2, <2>3
    <3>1. PICK j \in 1..Len(p) : left[j] = p[i]
      BY <1>5, <3>0
    <3>2. /\ j \in 1..Len(left) /\ left[j] = e /\ qu1[k].pending = left
          /\ cm1[e].req.link = k
      BY <1>3, <1>5, <2>1, <2>3, <3>0, <3>1
    <3> QED BY <3>2
  <2>4. CASE cmd[e].req.link # k
    <3>1. qu1[cmd[e].req.link] = queue[cmd[e].req.link]
      BY <1>3, <2>1, <2>4
    <3> QED BY <2>1, <2>2, <3>1
  <2> QED BY <2>3, <2>4
<1>10. ASSUME NEW l \in Links, NEW i \in 1..Len(qu1[l].pending),
              NEW j \in 1..Len(qu1[l].pending), i < j
       PROVE  LET s == qu1[l].pending
              IN s[i] # s[j] /\ (cm1[s[i]].req.uid = cm1[s[j]].req.uid => s[i] < s[j])
  <2>1. \A a, b \in 1..Len(queue[l].pending) :
          a < b => /\ queue[l].pending[a] # queue[l].pending[b]
                   /\ cmd[queue[l].pending[a]].req.uid = cmd[queue[l].pending[b]].req.uid
                        => queue[l].pending[a] < queue[l].pending[b]
    BY DEF Agree, QueueOK, LineOK
  <2>2. CASE l = k
    <3>0. /\ qu1[l].pending = left /\ i \in 1..Len(p) /\ j \in 1..Len(p)
          /\ queue[l].pending = p
      BY <1>3, <1>5, <1>5a, <2>2
    <3>1. PICK a \in 1..Len(p), b \in 1..Len(p) :
            /\ left[i] = p[a] /\ left[j] = p[b] /\ a # b
            /\ cmd[p[a]].req.uid = cmd[p[b]].req.uid => a < b
      <4>1. i < j
        BY <1>10
      <4> HIDE DEF p
      <4>2. \E a, b \in 1..Len(p) :
              /\ left[i] = p[a] /\ left[j] = p[b] /\ a # b
              /\ cmd[p[a]].req.uid = cmd[p[b]].req.uid => a < b
        <5>1. \A m, o \in 1..Len(p) :
                m < o => \E a, b \in 1..Len(p) :
                           /\ left[m] = p[a] /\ left[o] = p[b] /\ a # b
                           /\ cmd[p[a]].req.uid = cmd[p[b]].req.uid => a < b
          BY <1>5
        <5> QED BY <3>0, <4>1, <5>1
      <4> QED BY <4>2
    <3>2. a < b \/ b < a
      BY <1>5, <3>1
    <3>3. p[a] # p[b]
      BY <2>1, <3>0, <3>1, <3>2
    <3>4. cmd[p[a]].req.uid = cmd[p[b]].req.uid => p[a] < p[b]
      BY <2>1, <3>0, <3>1
    <3>5. cm1[p[a]].req = cmd[p[a]].req /\ cm1[p[b]].req = cmd[p[b]].req
      BY <1>0, <1>4, <1>5a, <3>1
    <3>6. cm1[left[i]].req = cmd[p[a]].req /\ cm1[left[j]].req = cmd[p[b]].req
      BY <3>1, <3>5
    <3>7. /\ left[i] # left[j]
          /\ cm1[left[i]].req.uid = cm1[left[j]].req.uid => left[i] < left[j]
      BY <3>1, <3>3, <3>4, <3>6
    <3> QED BY <3>0, <3>7
  <2>3. CASE l # k
    <3>1. qu1[l] = queue[l]
      BY <1>3, <2>3
    <3>2. cm1[queue[l].pending[i]].req = cmd[queue[l].pending[i]].req
          /\ cm1[queue[l].pending[j]].req = cmd[queue[l].pending[j]].req
      BY <1>4, <3>1
    <3>3. /\ queue[l].pending[i] # queue[l].pending[j]
          /\ cmd[queue[l].pending[i]].req.uid = cmd[queue[l].pending[j]].req.uid
               => queue[l].pending[i] < queue[l].pending[j]
      BY <1>10, <2>1, <3>1
    <3> QED BY <3>1, <3>2, <3>3
  <2> QED BY <2>2, <2>3
<1>11. QueueOK(cm1, qu1)
  <2>1. SlotOK(cm1, qu1)
    BY <1>6 DEF SlotOK
  <2>2. OwnSlot(cm1, qu1)
    BY <1>7 DEF OwnSlot
  <2>3. WaitsOK(cm1, qu1)
    BY <1>8 DEF WaitsOK
  <2>4. Queued(cm1, qu1)
    BY <1>9 DEF Queued
  <2>5. LineOK(cm1, qu1)
    BY <1>10 DEF LineOK
  <2> QED BY <2>1, <2>2, <2>3, <2>4, <2>5 DEF QueueOK
<1>12. HoldOK(cm1, hold1)
  <2> SUFFICES ASSUME NEW x \in UIDs \cup {Broadcast}, hold1[x] # 0
               PROVE  LET q == cm1[hold1[x]] IN q.st = "wire" /\ q.req.uid = x /\ q.overflow
    BY DEF HoldOK
  <2>1. hold1[x] = overflowUID[x] /\ hold1[x] # c /\ hold1[x] \in Ids
    OBVIOUS
  <2>2. LET q == cmd[hold1[x]] IN q.st = "wire" /\ q.req.uid = x /\ q.overflow
    BY <2>1 DEF Agree, HoldOK
  <2> QED BY <1>1, <2>1, <2>2
<1>13. OrderOK(cm1)
  <2> SUFFICES ASSUME NEW a \in Ids, NEW e \in Ids, a < e, Dev(cm1[a].req) = Dev(cm1[e].req),
                      cm1[a].st = "pending"
               PROVE  cm1[e].st \in {"unused", "pending"}
    BY DEF OrderOK
  <2>1. cm1[a] = cmd[a] /\ Dev(cmd[a].req) = Dev(cmd[e].req)
    BY <1>1
  <2>2. cmd[e].st \in {"unused", "pending"}
    BY <2>1 DEF Agree, OrderOK
  <2> QED BY <1>1, <2>2
<1> QED BY <1>1, <1>3, <1>11, <1>12, <1>13 DEF Agree, cm1, qu1, k

\* submitLocked queues the command behind the others of its port.
LEMMA SubmittedKept ==
  ASSUME Agree(cmd, queue, overflowUID), cmd \in [Ids -> Command], queue \in Queues,
         overflowUID \in [UIDs \cup {Broadcast} -> Ids \cup {0}],
         \A c \in Ids : cmd[c].st = "unused" <=> c > nextID,
         nextID \in Nat, nextID < MaxCmds, NEW req \in Request
  PROVE  LET c   == nextID + 1
             cm1 == [cmd EXCEPT ![c] = NewCommand(req)]
             qu1 == [queue EXCEPT ![req.link].pending = Append(@, c)]
         IN Agree(cm1, qu1, overflowUID) /\ cm1 \in [Ids -> Command] /\ qu1 \in Queues
<1> DEFINE n == nextID + 1
           k == req.link
           new == NewCommand(req)
           q1  == Append(queue[k].pending, n)
           cm1 == [cmd EXCEPT ![n] = new]
           qu1 == [queue EXCEPT ![k].pending = Append(@, n)]
<1>0. /\ n \in Ids /\ k \in Links /\ cmd[n].st = "unused"
      /\ \A e \in Ids : cmd[e].st # "unused" => e < n
  BY ControllerAssumption DEF Ids, Request
<1>1. /\ new \in Command /\ CmdOK(new) /\ new.req = req /\ new.st = "pending"
  BY NewCommandOK DEF CmdOK
<1> HIDE DEF new, n, k
<1>2. /\ cm1 \in [Ids -> Command] /\ cm1[n] = new
      /\ \A e \in Ids : e # n => cm1[e] = cmd[e]
      /\ \A e \in Ids : CmdOK(cm1[e])
  BY <1>0, <1>1 DEF Agree
<1>3. /\ queue[k].pending \in Seq(Ids) /\ Len(queue[k].pending) \in Nat
      /\ q1 \in Seq(Ids) /\ Len(q1) = Len(queue[k].pending) + 1
      /\ \A i \in 1..Len(queue[k].pending) : q1[i] = queue[k].pending[i]
      /\ q1[Len(queue[k].pending) + 1] = n
  BY <1>0, QueueType
<1>4. /\ qu1 \in Queues /\ qu1[k].pending = q1 /\ qu1[k].inflight = queue[k].inflight
      /\ \A l \in Links : l # k => qu1[l] = queue[l]
  BY <1>0, <1>3 DEF Queues
<1> HIDE DEF cm1, qu1, q1
<1>5. ASSUME NEW l \in Links
      PROVE  /\ queue[l].inflight \in Ids \cup {0} /\ Len(queue[l].pending) \in Nat
             /\ qu1[l].inflight = queue[l].inflight
             /\ \A i \in 1..Len(queue[l].pending) :
                  /\ queue[l].pending[i] \in Ids /\ queue[l].pending[i] # n
                  /\ queue[l].pending[i] < n
                  /\ cmd[queue[l].pending[i]].st = "pending"
                  /\ cmd[queue[l].pending[i]].req.link = l
                  /\ cm1[queue[l].pending[i]] = cmd[queue[l].pending[i]]
                  /\ qu1[l].pending[i] = queue[l].pending[i]
                  /\ i \in 1..Len(qu1[l].pending)
  <2>1. /\ queue[l].inflight \in Ids \cup {0} /\ Len(queue[l].pending) \in Nat
        /\ \A i \in 1..Len(queue[l].pending) :
             /\ queue[l].pending[i] \in Ids
             /\ cmd[queue[l].pending[i]].st = "pending"
             /\ cmd[queue[l].pending[i]].req.link = l
    BY QueueType DEF Agree, QueueOK, WaitsOK
  <2>2. \A i \in 1..Len(queue[l].pending) :
             queue[l].pending[i] # n /\ queue[l].pending[i] < n
    BY <1>0, <2>1
  <2>3. /\ Len(qu1[l].pending) \in {Len(queue[l].pending), Len(queue[l].pending) + 1}
        /\ \A i \in 1..Len(queue[l].pending) : qu1[l].pending[i] = queue[l].pending[i]
        /\ qu1[l].inflight = queue[l].inflight
    BY <1>3, <1>4
  <2> QED BY <1>2, <2>1, <2>2, <2>3
<1>6. ASSUME NEW l \in Links, NEW i \in 1..Len(qu1[l].pending)
      PROVE  \/ i \in 1..Len(queue[l].pending)
             \/ l = k /\ i = Len(queue[k].pending) + 1 /\ qu1[l].pending[i] = n
  BY <1>3, <1>4
<1>7. ASSUME NEW l \in Links, qu1[l].inflight # 0
      PROVE  cm1[qu1[l].inflight].st = "wire" /\ cm1[qu1[l].inflight].req.link = l
  <2>1. /\ queue[l].inflight \in Ids /\ cmd[queue[l].inflight].st = "wire"
        /\ cmd[queue[l].inflight].req.link = l /\ qu1[l].inflight = queue[l].inflight
    BY <1>5, <1>7 DEF Agree, QueueOK, SlotOK
  <2> QED BY <1>0, <1>2, <2>1
<1>8. ASSUME NEW e \in Ids, cm1[e].st = "wire"
      PROVE  qu1[cm1[e].req.link].inflight = e
  <2>1. e # n /\ cm1[e] = cmd[e] /\ cmd[e].req.link \in Links
    BY <1>1, <1>2, <1>8, RequestType
  <2>2. queue[cmd[e].req.link].inflight = e
    BY <1>8, <2>1 DEF Agree, QueueOK, OwnSlot
  <2> QED BY <1>5, <2>1, <2>2
<1>9. ASSUME NEW l \in Links, NEW i \in 1..Len(qu1[l].pending)
      PROVE  LET e == qu1[l].pending[i] IN cm1[e].st = "pending" /\ cm1[e].req.link = l
  <2>1. CASE i \in 1..Len(queue[l].pending)
    <3>1. /\ cm1[queue[l].pending[i]] = cmd[queue[l].pending[i]]
          /\ qu1[l].pending[i] = queue[l].pending[i]
          /\ cmd[queue[l].pending[i]].st = "pending"
          /\ cmd[queue[l].pending[i]].req.link = l
      BY <1>5, <2>1
    <3> QED BY <3>1
  <2>2. CASE l = k /\ qu1[l].pending[i] = n
    BY <1>1, <1>2, <2>2 DEF k
  <2> QED BY <1>6, <2>1, <2>2
<1>10. ASSUME NEW e \in Ids, cm1[e].st = "pending"
      PROVE  \E i \in 1..Len(qu1[cm1[e].req.link].pending) :
               qu1[cm1[e].req.link].pending[i] = e
  <2>1. CASE e = n
    <3>1. cm1[e].req.link = k /\ Len(queue[k].pending) + 1 \in 1..Len(qu1[k].pending)
      BY <1>1, <1>2, <1>3, <1>4, <2>1 DEF k
    <3> QED BY <1>3, <1>4, <2>1, <3>1
  <2>2. CASE e # n
    <3>1. cm1[e] = cmd[e] /\ cmd[e].req.link \in Links
      BY <1>2, <2>2, RequestType
    <3>2. PICK i \in 1..Len(queue[cmd[e].req.link].pending) :
                 queue[cmd[e].req.link].pending[i] = e
      BY <1>10, <3>1 DEF Agree, QueueOK, Queued
    <3>3. /\ i \in 1..Len(qu1[cmd[e].req.link].pending)
          /\ qu1[cmd[e].req.link].pending[i] = e
      <4> DEFINE l == cmd[e].req.link
      <4>1. \A m \in 1..Len(queue[l].pending) :
              m \in 1..Len(qu1[l].pending) /\ qu1[l].pending[m] = queue[l].pending[m]
        BY <1>5, <3>1
      <4> QED BY <3>2, <4>1
    <3> QED BY <3>1, <3>3
  <2> QED BY <2>1, <2>2
<1>11. ASSUME NEW l \in Links, NEW i \in 1..Len(qu1[l].pending),
              NEW j \in 1..Len(qu1[l].pending), i < j
       PROVE  LET s == qu1[l].pending
              IN s[i] # s[j] /\ (cm1[s[i]].req.uid = cm1[s[j]].req.uid => s[i] < s[j])
  <2>1. i \in 1..Len(queue[l].pending)
    BY <1>5, <1>6, <1>11, <1>3, <1>4
  <2>2. CASE j \in 1..Len(queue[l].pending)
    <3>1. /\ queue[l].pending[i] # queue[l].pending[j]
          /\ cmd[queue[l].pending[i]].req.uid = cmd[queue[l].pending[j]].req.uid
               => queue[l].pending[i] < queue[l].pending[j]
      BY <1>11, <2>1, <2>2 DEF Agree, QueueOK, LineOK
    <3>2. /\ qu1[l].pending[i] = queue[l].pending[i]
          /\ qu1[l].pending[j] = queue[l].pending[j]
          /\ cm1[queue[l].pending[i]] = cmd[queue[l].pending[i]]
          /\ cm1[queue[l].pending[j]] = cmd[queue[l].pending[j]]
      BY <1>5, <2>1, <2>2
    <3> QED BY <3>1, <3>2
  <2>3. CASE qu1[l].pending[j] = n
    <3>1. /\ qu1[l].pending[i] = queue[l].pending[i]
          /\ queue[l].pending[i] # n /\ queue[l].pending[i] < n
      BY <1>5, <2>1
    <3> QED BY <2>3, <3>1
  <2> QED BY <1>6, <2>2, <2>3
<1>12. QueueOK(cm1, qu1)
  <2>1. SlotOK(cm1, qu1)
    BY <1>7 DEF SlotOK
  <2>2. OwnSlot(cm1, qu1)
    BY <1>8 DEF OwnSlot
  <2>3. WaitsOK(cm1, qu1)
    BY <1>9 DEF WaitsOK
  <2>4. Queued(cm1, qu1)
    BY <1>10 DEF Queued
  <2>5. LineOK(cm1, qu1)
    BY <1>11 DEF LineOK
  <2> QED BY <2>1, <2>2, <2>3, <2>4, <2>5 DEF QueueOK
<1>13. HoldOK(cm1, overflowUID)
  <2> SUFFICES ASSUME NEW x \in UIDs \cup {Broadcast}, overflowUID[x] # 0
               PROVE  LET q == cm1[overflowUID[x]]
                      IN q.st = "wire" /\ q.req.uid = x /\ q.overflow
    BY DEF HoldOK
  <2>1. overflowUID[x] \in Ids
    OBVIOUS
  <2>2. LET q == cmd[overflowUID[x]] IN q.st = "wire" /\ q.req.uid = x /\ q.overflow
    BY <2>1 DEF Agree, HoldOK
  <2> QED BY <1>0, <1>2, <2>1, <2>2
<1>14. OrderOK(cm1)
  <2> SUFFICES ASSUME NEW a \in Ids, NEW e \in Ids, a < e, Dev(cm1[a].req) = Dev(cm1[e].req),
                      cm1[a].st = "pending"
               PROVE  cm1[e].st \in {"unused", "pending"}
    BY DEF OrderOK
  <2>1. CASE e = n
    BY <1>1, <1>2, <2>1
  <2>2. CASE e # n /\ a # n
    BY <1>2, <2>2 DEF Agree, OrderOK
  <2>3. CASE a = n
    <3>1. e # n /\ ~(e < n)
      BY <2>3 DEF Ids
    <3> QED BY <1>0, <1>2, <3>1
  <2> QED BY <2>1, <2>2, <2>3
<1> QED BY <1>2, <1>4, <1>12, <1>13, <1>14 DEF Agree, cm1, qu1, k, n, new

-----------------------------------------------------------------------------
(* Handlers: each keeps the invariant and moves every command as           *)
(* CommandService allows.                                                  *)

\* CommandService's steps, on the record of one command.
CmdStep(r, q) ==
  /\ \/ q.st = r.st /\ q.result = r.result
     \/ r.st = "unused" /\ q.st = "pending" /\ q.result = "none"
     \/ r.st \in {"unused", "pending"} /\ q.st = "wire" /\ q.result = "none"
     \/ /\ r.st \in {"unused", "pending"} /\ q.st = "done"
        /\ q.result \in {"unreachable", "broadcast", "aborted"}
     \/ /\ r.st = "wire" /\ q.st = "done"
        /\ q.result \in Results \ {"unreachable", "broadcast", "none"}
  /\ r.st # "unused" => q.req = r.req

Steps == \A c \in Ids : CmdStep(cmd[c], cmd'[c])

\* A handler leaves the rest of the controller as it is.
Rest == nextID' = nextID /\ stopped' = stopped /\ replies' \in 0..MaxReplies

\* The command a handler works on.
Handled(c, r) ==
  /\ r \in Command /\ r.st = "wire" /\ r.result = "none" /\ r.req = cmd[c].req

\* A command that a handler may end.
Closes(c, r) == Endable(r) /\ r.req = cmd[c].req

LEMMA DrainMoved ==
  ASSUME NEW cm \in [Ids -> Command], NEW cm1 \in [Ids -> Command],
         NEW dr \in [Devices -> Passes0], NEW over,
         \A c \in Ids : Moved(cm[c], cm1[c]), DrainOK(cm, dr, over)
  PROVE  DrainOK(cm1, dr, over)
<1> SUFFICES ASSUME NEW d \in Devices PROVE PassOK(cm1, d, dr[d], over)
  BY DEF DrainOK
<1>1. PassOK(cm, d, dr[d], over)
  BY DEF DrainOK
<1>2. dr[d].cmd \in Ids \cup {0}
  BY DEF Passes0
<1>3. CASE dr[d].on /\ dr[d].cmd # 0
  <2> DEFINE c == dr[d].cmd
  <2>1. /\ c \in Ids /\ Live(cm[c]) /\ Dev(cm[c].req) = d
        /\ IsQueuedMessageRequest(cm[c].req) /\ d[2] # Broadcast
    BY <1>1, <1>2, <1>3 DEF PassOK
  <2>2. cm[c].req.uid # Broadcast
    BY <2>1 DEF Dev
  <2>3. Moved(cm[c], cm1[c])
    BY <2>1
  <2>4. Live(cm1[c]) /\ cm1[c].req = cm[c].req
    BY <2>1, <2>2, <2>3 DEF Moved, Live
  <2> QED BY <1>3, <2>1, <2>4 DEF PassOK
<1>4. CASE ~(dr[d].on /\ dr[d].cmd # 0)
  BY <1>1, <1>4 DEF PassOK
<1> QED BY <1>3, <1>4

LEMMA PumpKeeps ==
  ASSUME ControllerInv, NEW cm \in [Ids -> Command], NEW qu \in Queues,
         NEW by \in [Numbers -> Ids \cup {0}],
         NEW hold \in [UIDs \cup {Broadcast} -> Ids \cup {0}],
         NEW he \in [Devices -> Health],
         Agree(cm, qu, hold), Pump(cm, qu, by, hold, he),
         \A c \in Ids : CmdStep(cmd[c], cm[c]),
         NEW dr \in [Devices -> Passes0], DrainOK(cm, dr, stopped), drains' = dr,
         \A c \in Ids : cm[c].st = "unused" <=> c > nextID',
         nextID' \in 0..MaxCmds, ~stopped, stopped' = stopped,
         links' \in [Links -> [answers : Nat, last : UIDs \cup {Broadcast}]],
         replies' \in 0..MaxReplies
  PROVE  ControllerInv' /\ Steps /\ Numbered(cm, by)
<1>1. OthersType /\ cmd \in [Ids -> Command]
  BY DEF ControllerInv
<1>2. /\ Pumped(cm, qu, cmd', queue')
      /\ cmd' \in [Ids -> Command] /\ queue' \in Queues /\ overflowUID' = hold
      /\ inflightByTN' \in [Numbers -> Ids \cup {0}] /\ tn' \in Numbers
      /\ health' \in [Devices -> Health] /\ sent' \subseteq OnAir
      /\ Numbered(cm, by)
  BY <1>1, PumpIsPumped
<1>3. Agree(cmd', queue', hold) /\ \A c \in Ids : Moved(cm[c], cmd'[c])
  BY <1>2, PumpedKeeps
<1>4. Agree(cmd, queue, overflowUID)'
  BY <1>2, <1>3 DEF Agree, QueueOK, HoldOK, OrderOK
<1>5. OthersType'
  BY <1>1, <1>2 DEF OthersType
<1>6. \A c \in Ids : cmd'[c].st = "unused" <=> c > nextID'
  BY <1>3 DEF Moved
<1>7. DrainOK(cmd', dr, stopped)
  BY <1>2, <1>3, DrainMoved
<1>8. DrainOK(cmd, drains, stopped)'
  BY <1>7 DEF DrainOK, PassOK
<1>9. Steps
  <2> SUFFICES ASSUME NEW c \in Ids PROVE CmdStep(cmd[c], cmd'[c])
    BY DEF Steps
  <2>1. CmdStep(cmd[c], cm[c]) /\ Moved(cm[c], cmd'[c])
    BY <1>3
  <2>2. CASE cmd'[c] = cm[c]
    BY <2>1, <2>2
  <2>3. CASE cmd'[c] # cm[c]
    <3>1. cmd[c].st \in {"unused", "pending"} /\ (cmd[c].st # "unused" => cmd'[c].req = cmd[c].req)
      BY <2>1, <2>3 DEF Moved, CmdStep
    <3>2. \/ cmd'[c].st = "wire" /\ cmd'[c].result = "none"
          \/ cmd'[c].st = "done" /\ cmd'[c].result \in {"unreachable", "broadcast"}
      BY <2>1, <2>3 DEF Moved
    <3> QED BY <3>1, <3>2 DEF CmdStep
  <2> QED BY <2>2, <2>3
<1>10. ControllerInv'
  BY <1>2, <1>4, <1>5, <1>6, <1>8 DEF ControllerInv
<1> QED BY <1>2, <1>9, <1>10

LEMMA IssueKeeps ==
  ASSUME ControllerInv, NEW c \in Ids, cmd[c].st = "wire",
         NEW r, Handled(c, r), r.collecting => r.collectOrphans < MaxAckTimerCollect,
         NEW hold \in [UIDs \cup {Broadcast} -> Ids \cup {0}],
         \A x \in UIDs \cup {Broadcast} :
           \/ hold[x] = 0
           \/ hold[x] = overflowUID[x] /\ overflowUID[x] # c
           \/ hold[x] = c /\ x = r.req.uid /\ r.overflow,
         Issue(c, r, hold), health' \in [Devices -> Health], Rest
  PROVE  ControllerInv' /\ Steps
<1> DEFINE i == Issued(r, tn)
<1>1. /\ OthersType /\ cmd \in [Ids -> Command] /\ queue \in Queues
      /\ overflowUID \in [UIDs \cup {Broadcast} -> Ids \cup {0}]
      /\ drains \in [Devices -> Passes0] /\ Agree(cmd, queue, overflowUID)
      /\ DrainOK(cmd, drains, stopped) /\ ~stopped
      /\ \A e \in Ids : cmd[e].st = "unused" <=> e > nextID
  BY DEF ControllerInv, Live
<1>2. CmdOK(cmd[c]) /\ r.req.uid # Broadcast /\ cmd[c].result = "none" /\ tn \in Numbers
  BY <1>1 DEF Agree, CmdOK, Handled, OthersType
<1>3. /\ CmdOK(i) /\ i.req = cmd[c].req /\ i.st = "wire" /\ i.result = "none"
      /\ i.overflow = r.overflow
  BY <1>2, IssuedOK DEF Handled
<1>4. cmd' = [cmd EXCEPT ![c] = i] /\ overflowUID' = hold /\ UNCHANGED <<queue, links, drains>>
  BY DEF Issue
<1> HIDE DEF i
<1>5. i \in Command
  BY <1>3 DEF CmdOK
<1>6. Agree([cmd EXCEPT ![c] = i], queue, hold)
  <2>1. \A x \in UIDs \cup {Broadcast} :
          \/ hold[x] = 0
          \/ hold[x] = overflowUID[x] /\ overflowUID[x] # c
          \/ hold[x] = c /\ x = i.req.uid /\ i.st = "wire" /\ i.overflow
    BY <1>3 DEF Handled
  <2>2. i.st = cmd[c].st
    BY <1>3
  <2> QED BY <1>1, <1>3, <1>5, <2>1, <2>2, RecordKept
<1>7. /\ cmd' \in [Ids -> Command] /\ cmd'[c] = i
      /\ \A e \in Ids : e # c => cmd'[e] = cmd[e]
  BY <1>1, <1>4, <1>5
<1>8. Agree(cmd, queue, overflowUID)'
  BY <1>4, <1>6 DEF Agree, QueueOK, HoldOK, OrderOK
<1>9. Steps
  BY <1>2, <1>3, <1>7 DEF Steps, CmdStep
<1>10. OthersType'
  <2>1. tn' \in Numbers
    <3>1. TNs \in Nat \ {0} /\ tn \in Nat
      BY <1>2, ControllerAssumption DEF Numbers
    <3>2. (tn + 1) % TNs \in 0..(TNs - 1)
      BY <3>1
    <3> QED BY <3>2 DEF Issue, Numbers
  <2>2. inflightByTN' \in [Numbers -> Ids \cup {0}]
    BY <1>1, <1>2 DEF Issue, TNReleased, OthersType
  <2>3. sent' \subseteq OnAir
    <3>1. WireClass(r) \in {"get", "set"}
      BY RequestType DEF Handled, WireClass, Request
    <3>2. Packet(c, r, tn) \in OnAir
      BY <1>2, <3>1 DEF Packet, OnAir
    <3>3. sent' \subseteq sent \cup {Packet(c, r, tn)}
      BY DEF Issue
    <3> QED BY <1>1, <3>2, <3>3 DEF OthersType
  <2> QED BY <1>1, <1>4, <2>1, <2>2, <2>3 DEF OthersType, Rest
<1>11. \A e \in Ids : cmd'[e].st = "unused" <=> e > nextID'
  BY <1>1, <1>3, <1>7 DEF Rest
<1>12. DrainOK(cmd, drains, stopped)'
  <2> SUFFICES ASSUME NEW d \in Devices PROVE PassOK(cmd', d, drains[d], stopped)
    BY <1>4 DEF DrainOK, PassOK, Rest
  <2>1. PassOK(cmd, d, drains[d], stopped) /\ drains[d].cmd \in Ids \cup {0}
    BY <1>1 DEF DrainOK, Passes0
  <2>2. \A e \in Ids : Live(cmd[e]) => Live(cmd'[e]) /\ cmd'[e].req = cmd[e].req
    BY <1>3, <1>7 DEF Live
  <2> QED BY <2>1, <2>2 DEF PassOK
<1>13. queue' \in Queues /\ overflowUID' \in [UIDs \cup {Broadcast} -> Ids \cup {0}]
       /\ drains' \in [Devices -> Passes0] /\ ~stopped'
  BY <1>1, <1>4 DEF Rest
<1> QED BY <1>7, <1>8, <1>9, <1>10, <1>11, <1>12, <1>13 DEF ControllerInv

LEMMA DrainFinished ==
  ASSUME NEW cm \in [Ids -> Command], NEW cm1 \in [Ids -> Command],
         NEW dr \in [Devices -> Passes0], DrainOK(cm, dr, stopped), ~stopped,
         NEW c \in Ids, NEW d \in Devices, Dev(cm[c].req) = d, d[2] # Broadcast,
         \A e \in Ids : e # c => cm1[e] = cm[e],
         NEW dr1, dr1[d].cmd = 0 \/ (dr[d].cmd # c /\ dr1[d] = dr[d]),
         \A e \in Devices : e # d => dr1[e] = dr[e]
  PROVE  DrainOK(cm1, dr1, stopped)
<1> SUFFICES ASSUME NEW e \in Devices PROVE PassOK(cm1, e, dr1[e], stopped)
  BY DEF DrainOK
<1>1. PassOK(cm, e, dr[e], stopped) /\ dr[e].cmd \in Ids \cup {0}
  BY DEF DrainOK, Passes0
<1>2. dr[e].cmd # c => PassOK(cm1, e, dr[e], stopped)
  BY <1>1 DEF PassOK
<1>3. CASE e # d
  <2>1. dr[e].cmd # c \/ ~dr[e].on \/ dr[e].cmd = 0
    BY <1>1, <1>3 DEF PassOK
  <2> QED BY <1>1, <1>2, <1>3, <2>1 DEF PassOK
<1>4. CASE e = d
  <2>1. CASE dr1[d].cmd = 0
    BY <1>4, <2>1 DEF PassOK
  <2>2. CASE dr[d].cmd # c /\ dr1[d] = dr[d]
    BY <1>2, <1>4, <2>2
  <2> QED BY <2>1, <2>2
<1> QED BY <1>3, <1>4

LEMMA FinishKeeps ==
  ASSUME ControllerInv, NEW c \in Ids, cmd[c].st = "wire",
         NEW r, Closes(c, r), NEW kind \in Results \ {"none", "unreachable", "broadcast"},
         NEW hold \in [UIDs \cup {Broadcast} -> Ids \cup {0}],
         \A x \in UIDs \cup {Broadcast} :
           hold[x] \in {0, overflowUID[x]} \/ (hold[x] = c /\ x = r.req.uid),
         NEW he \in [Devices -> Health], NEW empty,
         Finish(c, r, kind, hold, he, empty), Rest
  PROVE  /\ ControllerInv' /\ Steps
         /\ Numbered([cmd EXCEPT ![c] = Completed(r, kind)], TNReleased(c))
<1> DEFINE l == r.req.link
           u == r.req.uid
           d == Dev(r.req)
           drain    == IsQueuedMessageRequest(r.req)
           answered == kind \in {"ack", "nack"}
           refused  == kind = "full" /\ ~drain
           silent   == kind = "timeout" /\ ~r.heard /\ ~drain
           answers  == links[l].answers + 1
           hold1 == [hold EXCEPT ![u] = IF @ = c THEN 0 ELSE @]
           he1 == [he EXCEPT ![d] =
                     CASE answered -> Responded(@, answers)
                       [] refused  -> Refused(@, links[l].answers)
                       [] silent   -> Silent(@, links[l].answers, links[l].last = u)
                       [] OTHER    -> @]
           rescue == refused /\ RefusalOpens(he[d]) /\ AutoDrains(d, he)
           dr1 == [drains EXCEPT ![d] =
                     CASE rescue    -> [NoDrain EXCEPT !.on = TRUE]
                       [] @.cmd = c -> DrainAdvanced(@, kind, empty)
                       [] OTHER     -> @]
           p == queue[l].pending
           done == Completed(r, kind)
           cm == [cmd EXCEPT ![c] = done]
           Freed(left) == [queue EXCEPT ![l] = [inflight |-> 0, pending |-> left]]
<1>1. PICK left \in (IF silent THEN RequeueBehind(p, u, hold1) ELSE {p}) :
        Pump(cm, Freed(left), TNReleased(c), hold1, he1)
  BY DEF Finish
<1>2. /\ drains' = dr1
      /\ links' = IF answered
                  THEN [links EXCEPT ![l] = [answers |-> answers, last |-> u]]
                  ELSE links
  BY DEF Finish
<1>3. /\ OthersType /\ cmd \in [Ids -> Command] /\ queue \in Queues
      /\ overflowUID \in [UIDs \cup {Broadcast} -> Ids \cup {0}]
      /\ drains \in [Devices -> Passes0] /\ Agree(cmd, queue, overflowUID)
      /\ DrainOK(cmd, drains, stopped) /\ ~stopped
      /\ \A e \in Ids : cmd[e].st = "unused" <=> e > nextID
  BY DEF ControllerInv, Live
<1>4. /\ Endable(r) /\ r.req = cmd[c].req /\ l \in Links /\ u \in UIDs \cup {Broadcast}
      /\ d \in Devices /\ c # 0
  BY <1>3, RequestType, ControllerAssumption DEF Closes, Ids
<1>5. cmd[c].req.uid # Broadcast /\ u # Broadcast /\ d[2] = u
  BY <1>3, <1>4 DEF Agree, CmdOK, Dev
<1>6. CmdOK(done) /\ done.req = r.req /\ done.st = "done" /\ done.result = kind
  BY <1>4, CompletedOK
<1>7. /\ hold1 \in [UIDs \cup {Broadcast} -> Ids \cup {0}]
      /\ \A x \in UIDs \cup {Broadcast} :
           hold1[x] = 0 \/ (hold1[x] = overflowUID[x] /\ overflowUID[x] # c)
  <2>1. \A x \in UIDs \cup {Broadcast} : overflowUID[x] = c => x = u
    BY <1>3, <1>4 DEF Agree, HoldOK
  <2>2. \A x \in UIDs \cup {Broadcast} :
          hold1[x] = IF x = u THEN IF hold[u] = c THEN 0 ELSE hold[u] ELSE hold[x]
    BY <1>4
  <2>3. hold1 \in [UIDs \cup {Broadcast} -> Ids \cup {0}]
    BY <1>4
  <2> HIDE DEF hold1
  <2> QED BY <2>1, <2>2, <2>3
<1>8. links[l].answers \in Nat /\ answers \in Nat
  BY <1>3, <1>4 DEF OthersType
<1>9. he1 \in [Devices -> Health]
  <2>1. he[d] \in Health
    BY <1>4
  <2>2. /\ Responded(he[d], answers) \in Health /\ Refused(he[d], links[l].answers) \in Health
        /\ Silent(he[d], links[l].answers, links[l].last = u) \in Health
    <3>1. (links[l].last = u) \in BOOLEAN
      OBVIOUS
    <3> HIDE DEF answers
    <3> QED BY <1>8, <2>1, <3>1, SmallStepTypes, RefusedType, SilentType
  <2> DEFINE h == CASE answered -> Responded(he[d], answers)
                    [] refused  -> Refused(he[d], links[l].answers)
                    [] silent   -> Silent(he[d], links[l].answers, links[l].last = u)
                    [] OTHER    -> he[d]
  <2>3. h \in Health
    <3> HIDE DEF answered, refused, silent, answers
    <3> QED BY <2>1, <2>2
  <2>4. he1 = [he EXCEPT ![d] = h]
    OBVIOUS
  <2> HIDE DEF h, he1
  <2> QED BY <1>4, <2>3, <2>4
<1>10. SameQueue(p, left)
  <2>1. p \in Seq(Ids)
    BY <1>3, <1>4, QueueType
  <2>2. CASE silent
    BY <1>1, <2>1, <2>2, RequeueKeeps
  <2>3. CASE ~silent
    <3>1. left = p
      BY <1>1, <2>3
    <3>2. Len(p) \in Nat
      BY <2>1
    <3> HIDE DEF p
    <3> QED BY <2>1, <3>1, <3>2 DEF SameQueue
  <2> QED BY <2>2, <2>3
<1> DEFINE qu1 == Freed(left)
<1>11. Agree(cm, qu1, hold1) /\ cm \in [Ids -> Command] /\ qu1 \in Queues
  <2>1. done \in Command /\ done.req = cmd[c].req /\ done.req.link = l
    BY <1>4, <1>6 DEF CmdOK
  <2>2. c \in Ids /\ cmd[c].st = "wire" /\ CmdOK(done) /\ done.st = "done"
    BY <1>6
  <2> DEFINE qu2 == [queue EXCEPT ![done.req.link] = [inflight |-> 0, pending |-> left]]
             p2 == queue[done.req.link].pending
  <2>3. SameQueue(p2, left)
    BY <1>10, <2>1
  <2> HIDE DEF done, hold1
  <2>4. Agree(cm, qu2, hold1) /\ cm \in [Ids -> Command] /\ qu2 \in Queues
    <3>1. Agree(cmd, queue, overflowUID) /\ cmd \in [Ids -> Command] /\ queue \in Queues
      BY <1>3
    <3>2. /\ hold1 \in [UIDs \cup {Broadcast} -> Ids \cup {0}]
          /\ \A x \in UIDs \cup {Broadcast} :
               hold1[x] = 0 \/ (hold1[x] = overflowUID[x] /\ overflowUID[x] # c)
      BY <1>7
    <3> QED BY <2>1, <2>2, <2>3, <3>1, <3>2, EndedKept, ZenonT(60)
  <2>5. qu2 = qu1
    BY <2>1
  <2> QED BY <2>4, <2>5
<1>12. \A e \in Ids : CmdStep(cmd[e], cm[e])
  <2>1. \A e \in Ids : cm[e] = IF e = c THEN done ELSE cmd[e]
    BY <1>3
  <2>2. CmdStep(cmd[c], done)
    BY <1>4, <1>6 DEF CmdStep
  <2> QED BY <2>1, <2>2 DEF CmdStep
<1>13. dr1 \in [Devices -> Passes0] /\ DrainOK(cm, dr1, stopped)
  <2>1. cm \in [Ids -> Command] /\ \A e \in Ids : e # c => cm[e] = cmd[e]
    BY <1>3, <1>11
  <2>2. rescue \in BOOLEAN
    OBVIOUS
  <2>3. Dev(cmd[c].req) = d
    BY <1>4
  <2> DEFINE w == CASE rescue           -> [NoDrain EXCEPT !.on = TRUE]
                    [] drains[d].cmd = c -> DrainAdvanced(drains[d], kind, empty)
                    [] OTHER            -> drains[d]
  <2>4. drains[d] \in Passes0
    BY <1>3, <1>4
  <2>5. w \in Passes0 /\ (w.cmd = 0 \/ (drains[d].cmd # c /\ w = drains[d]))
    <3>1. NoDrain \in Passes0 /\ NoDrain.cmd = 0
      BY ControllerAssumption DEF NoDrain, Passes0
    <3>2. [NoDrain EXCEPT !.on = TRUE] \in Passes0 /\ [NoDrain EXCEPT !.on = TRUE].cmd = 0
      BY <3>1 DEF Passes0
    <3> DEFINE pass == drains[d]
    <3>3. [pass EXCEPT !.cmd = 0] \in Passes0 /\ [pass EXCEPT !.cmd = 0].cmd = 0
      <4>1. pass \in Passes0
        BY <2>4
      <4> HIDE DEF pass
      <4> QED BY <4>1 DEF Passes0
    <3>4. DrainAdvanced(pass, kind, empty) \in {[pass EXCEPT !.cmd = 0], NoDrain}
      BY DEF DrainAdvanced
    <3>5. w = CASE rescue     -> [NoDrain EXCEPT !.on = TRUE]
              [] pass.cmd = c -> DrainAdvanced(pass, kind, empty)
              [] OTHER        -> pass
      OBVIOUS
    <3> HIDE DEF rescue, pass, w
    <3> QED BY <2>4, <3>1, <3>2, <3>3, <3>4, <3>5 DEF pass
  <2>6. dr1 = [drains EXCEPT ![d] = w]
    OBVIOUS
  <2> HIDE DEF w, dr1
  <2>7. /\ dr1 \in [Devices -> Passes0] /\ dr1[d] = w
        /\ \A e \in Devices : e # d => dr1[e] = drains[e]
    BY <1>3, <1>4, <2>5, <2>6
  <2> HIDE DEF cm, rescue, d
  <2>8. /\ cmd \in [Ids -> Command] /\ drains \in [Devices -> Passes0]
        /\ DrainOK(cmd, drains, stopped) /\ ~stopped /\ d \in Devices /\ d[2] # Broadcast
    BY <1>3, <1>4, <1>5
  <2>9. dr1[d].cmd = 0 \/ (drains[d].cmd # c /\ dr1[d] = drains[d])
    BY <2>5, <2>7
  <2>10. DrainOK(cm, dr1, stopped)
    BY <2>1, <2>3, <2>7, <2>8, <2>9, DrainFinished
  <2> QED BY <2>7, <2>10
<1>15. \A e \in Ids : cm[e].st = "unused" <=> e > nextID'
  BY <1>3, <1>6 DEF Rest
<1>16. links' \in [Links -> [answers : Nat, last : UIDs \cup {Broadcast}]]
  <2>1. links \in [Links -> [answers : Nat, last : UIDs \cup {Broadcast}]]
    BY <1>3 DEF OthersType
  <2> HIDE DEF answered, answers
  <2> QED BY <1>2, <1>4, <1>8, <2>1
<1>17. TNReleased(c) \in [Numbers -> Ids \cup {0}]
  BY <1>3 DEF TNReleased, OthersType
<1>18. nextID' \in 0..MaxCmds /\ stopped' = stopped /\ replies' \in 0..MaxReplies
  BY <1>3 DEF Rest, OthersType
<1>19. Pump(cm, qu1, TNReleased(c), hold1, he1)
  BY <1>1
<1> HIDE DEF cm, qu1, hold1, he1
<1>20. ControllerInv' /\ Steps /\ Numbered(cm, TNReleased(c))
  BY <1>2, <1>3, <1>7, <1>9, <1>11, <1>12, <1>13, <1>15, <1>16, <1>17, <1>18,
     <1>19, PumpKeeps
<1> QED BY <1>20 DEF cm

\* submitLocked while the controller runs; dr: the pass the command belongs to
\* may be the device's.
LEMMA SubmitKeeps ==
  ASSUME ControllerInv, ~stopped, NEW req \in Request,
         nextID < MaxCmds, nextID' = nextID + 1,
         NEW he \in [Devices -> Health],
         Pump([cmd EXCEPT ![nextID + 1] = NewCommand(req)],
              [queue EXCEPT ![req.link].pending = Append(@, nextID + 1)],
              inflightByTN, overflowUID, he),
         NEW dr \in [Devices -> Passes0], drains' = dr,
         \A d \in Devices :
           \/ dr[d] = drains[d]
           \/ /\ dr[d].on /\ dr[d].cmd = nextID + 1 /\ d = Dev(req)
              /\ IsQueuedMessageRequest(req) /\ d[2] # Broadcast,
         UNCHANGED <<links, stopped, replies>>
  PROVE  /\ ControllerInv' /\ Steps
         /\ Numbered([cmd EXCEPT ![nextID + 1] = NewCommand(req)], inflightByTN)
<1> DEFINE n == nextID + 1
           cm == [cmd EXCEPT ![n] = NewCommand(req)]
           qu == [queue EXCEPT ![req.link].pending = Append(@, n)]
<1>1. /\ OthersType /\ cmd \in [Ids -> Command] /\ queue \in Queues
      /\ overflowUID \in [UIDs \cup {Broadcast} -> Ids \cup {0}]
      /\ drains \in [Devices -> Passes0] /\ Agree(cmd, queue, overflowUID)
      /\ DrainOK(cmd, drains, stopped)
      /\ \A e \in Ids : cmd[e].st = "unused" <=> e > nextID
  BY DEF ControllerInv
<1>2. nextID \in Nat /\ n \in Ids /\ n \in 0..MaxCmds /\ n # 0
  BY <1>1, ControllerAssumption DEF OthersType, Ids
<1>3. Agree(cm, qu, overflowUID) /\ cm \in [Ids -> Command] /\ qu \in Queues
  BY <1>1, <1>2, SubmittedKept
<1>4. /\ cm[n].req = req /\ cm[n].st = "pending" /\ cm[n].result = "none"
      /\ cmd[n].st = "unused"
      /\ \A e \in Ids : e # n => cm[e] = cmd[e]
  <2>1. NewCommand(req).req = req /\ NewCommand(req).st = "pending" /\ NewCommand(req).result = "none"
    BY DEF NewCommand
  <2>2. n > nextID
    BY <1>2
  <2> HIDE DEF n
  <2> QED BY <1>1, <1>2, <2>1, <2>2
<1>5. Pump(cm, qu, inflightByTN, overflowUID, he)
  OBVIOUS
<1>6. \A e \in Ids : cm[e].st = "unused" <=> e > nextID'
  <2> SUFFICES ASSUME NEW e \in Ids PROVE cm[e].st = "unused" <=> e > nextID + 1
    OBVIOUS
  <2>1. CASE e = n
    BY <1>2, <1>4, <2>1
  <2>2. CASE e # n
    <3>1. cm[e] = cmd[e] /\ e \in Int /\ (e > nextID <=> e > n)
      BY <1>2, <1>4, <2>2 DEF Ids
    <3> QED BY <1>1, <3>1
  <2> QED BY <2>1, <2>2
<1> HIDE DEF cm, qu
<1>7. DrainOK(cm, dr, stopped)
  <2> SUFFICES ASSUME NEW d \in Devices PROVE PassOK(cm, d, dr[d], stopped)
    BY DEF DrainOK
  <2>1. CASE dr[d] = drains[d]
    <3>1. PassOK(cmd, d, drains[d], stopped) /\ drains[d].cmd \in Ids \cup {0}
      BY <1>1 DEF DrainOK, Passes0
    <3>2. \A e \in Ids : Live(cmd[e]) => cm[e] = cmd[e]
      BY <1>4 DEF Live
    <3> QED BY <2>1, <3>1, <3>2 DEF PassOK
  <2>2. CASE /\ dr[d].on /\ dr[d].cmd = n /\ d = Dev(req)
             /\ IsQueuedMessageRequest(req) /\ d[2] # Broadcast
    BY <1>2, <1>4, <2>2 DEF PassOK, Live
  <2> QED BY <2>1, <2>2
<1>8. \A e \in Ids : CmdStep(cmd[e], cm[e])
  BY <1>4 DEF CmdStep
<1>9. /\ inflightByTN \in [Numbers -> Ids \cup {0}] /\ replies' \in 0..MaxReplies
      /\ links' \in [Links -> [answers : Nat, last : UIDs \cup {Broadcast}]]
      /\ nextID' \in 0..MaxCmds /\ stopped' = stopped
  BY <1>1, <1>2 DEF OthersType
<1>10. ControllerInv' /\ Steps /\ Numbered(cm, inflightByTN)
  BY <1>1, <1>3, <1>5, <1>6, <1>7, <1>8, <1>9, PumpKeeps
<1> QED BY <1>10 DEF cm

\* A handler that changes the record of one command and, at most, the numbers.
LEMMA LocalKeeps ==
  ASSUME ControllerInv, NEW c \in Ids, NEW r, CmdOK(r),
         r.st = cmd[c].st, r.req = cmd[c].req, r.result = cmd[c].result,
         cmd[c].overflow => r.overflow, cmd' = [cmd EXCEPT ![c] = r],
         inflightByTN' \in [Numbers -> Ids \cup {0}],
         UNCHANGED <<queue, tn, overflowUID, breakers, drains, sent>>, Rest
  PROVE  ControllerInv' /\ Steps
<1>1. /\ OthersType /\ cmd \in [Ids -> Command] /\ queue \in Queues
      /\ overflowUID \in [UIDs \cup {Broadcast} -> Ids \cup {0}]
      /\ drains \in [Devices -> Passes0] /\ Agree(cmd, queue, overflowUID)
      /\ DrainOK(cmd, drains, stopped)
      /\ \A e \in Ids : cmd[e].st = "unused" <=> e > nextID
  BY DEF ControllerInv
<1>2. r \in Command
  BY DEF CmdOK
<1>3. /\ cmd' \in [Ids -> Command] /\ cmd'[c] = r
      /\ \A e \in Ids : e # c => cmd'[e] = cmd[e]
  BY <1>1, <1>2
<1>4. Agree([cmd EXCEPT ![c] = r], queue, overflowUID)
  <2>1. \A x \in UIDs \cup {Broadcast} :
          \/ overflowUID[x] = 0
          \/ overflowUID[x] = overflowUID[x] /\ overflowUID[x] # c
          \/ overflowUID[x] = c /\ x = r.req.uid /\ r.st = "wire" /\ r.overflow
    BY <1>1 DEF Agree, HoldOK
  <2> QED BY <1>1, <1>2, <2>1, RecordKept
<1>5. Agree(cmd, queue, overflowUID)'
  BY <1>4 DEF Agree, QueueOK, HoldOK, OrderOK
<1>6. OthersType'
  BY <1>1 DEF OthersType, Rest, breakers
<1>7. \A e \in Ids : cmd'[e].st = cmd[e].st /\ cmd'[e].req = cmd[e].req
                     /\ cmd'[e].result = cmd[e].result
  BY <1>3
<1>8. Steps
  BY <1>7 DEF Steps, CmdStep
<1>9. DrainOK(cmd, drains, stopped)'
  <2> SUFFICES ASSUME NEW d \in Devices PROVE PassOK(cmd', d, drains[d], stopped)
    BY DEF DrainOK, PassOK, Rest
  <2>1. PassOK(cmd, d, drains[d], stopped) /\ drains[d].cmd \in Ids \cup {0}
    BY <1>1 DEF DrainOK, Passes0
  <2> QED BY <1>7, <2>1 DEF PassOK, Live
<1>10. queue' \in Queues /\ overflowUID' \in [UIDs \cup {Broadcast} -> Ids \cup {0}]
       /\ drains' \in [Devices -> Passes0]
  BY <1>1
<1>11. \A e \in Ids : cmd'[e].st = "unused" <=> e > nextID'
  BY <1>1, <1>7 DEF Rest
<1>12. stopped' => /\ \A e \in Ids : ~Live(cmd'[e])
                   /\ \A d \in Devices : ~health'[d].probeTimer
  <2>1. \A e \in Ids : Live(cmd'[e]) <=> Live(cmd[e])
    BY <1>7 DEF Live
  <2> QED BY <2>1 DEF ControllerInv, Rest, breakers
<1> QED BY <1>3, <1>5, <1>6, <1>8, <1>9, <1>10, <1>11, <1>12 DEF ControllerInv, Live

\* A callback that runs finds its command on the wire.
LEMMA RanOK ==
  ASSUME ControllerInv, NEW c \in Ids, NEW k, Runs(c, k)
  PROVE  /\ cmd[c].st = "wire" /\ Handled(c, Ran(c, k)) /\ Closes(c, Ran(c, k))
         /\ \A f \in {"collectOrphans", "attempt", "timer", "tn"} : Ran(c, k)[f] = cmd[c][f]
         /\ Ran(c, k).collecting = cmd[c].collecting
         /\ Ran(c, k).overflow = cmd[c].overflow
         /\ Ran(c, k).collecting => Ran(c, k).collectOrphans < MaxAckTimerCollect
<1>1. cmd[c] \in Command /\ CmdOK(cmd[c])
  BY DEF ControllerInv, Agree
<1>2. cmd[c].st = "wire" /\ cmd[c].result = "none"
  <2>1. cmd[c].late # {} /\ cmd[c].st # "done"
    BY DEF Runs
  <2> QED BY <1>1, <2>1 DEF CmdOK, Command
<1> DEFINE r == cmd[c]
           s == [r EXCEPT !.late = @ \ {<<k, TRUE>>}]
<1>3. s = Ran(c, k)
  BY DEF Ran
<1>4. r \in Command /\ r.st = "wire" /\ r.result = "none"
  BY <1>1, <1>2
<1>5. (r.collecting => r.collectOrphans < MaxAckTimerCollect) /\ s.req = cmd[c].req
  BY <1>1 DEF CmdOK, Command
<1> HIDE DEF r
<1>6. s \in Command /\ s.st = "wire" /\ s.result = "none" /\ s.req = r.req
  BY <1>4 DEF Command
<1>7. /\ s.collectOrphans = r.collectOrphans /\ s.attempt = r.attempt /\ s.timer = r.timer
      /\ s.tn = r.tn /\ s.collecting = r.collecting /\ s.overflow = r.overflow
  BY <1>4 DEF Command
<1>8. Endable(s)
  BY <1>6, CommandEndable
<1>9. Handled(c, s) /\ Closes(c, s)
  BY <1>5, <1>6, <1>8 DEF Handled, Closes
<1>10. \A f \in {"collectOrphans", "attempt", "timer", "tn"} : s[f] = r[f]
  BY <1>7
<1> HIDE DEF s
<1> QED BY <1>2, <1>3, <1>5, <1>7, <1>9, <1>10 DEF r

LEMMA HoldResetOK ==
  ASSUME ControllerInv, NEW c \in Ids
  PROVE  /\ HoldReset(c) \in [UIDs \cup {Broadcast} -> Ids \cup {0}]
         /\ \A x \in UIDs \cup {Broadcast} :
              HoldReset(c)[x] = 0 \/ (HoldReset(c)[x] = overflowUID[x] /\ overflowUID[x] # c)
<1>1. /\ overflowUID \in [UIDs \cup {Broadcast} -> Ids \cup {0}]
      /\ HoldOK(cmd, overflowUID) /\ cmd[c] \in Command
  BY DEF ControllerInv, Agree
<1> DEFINE u == cmd[c].req.uid
<1>2. u \in UIDs \cup {Broadcast}
  BY <1>1, RequestType
<1>3. \A x \in UIDs \cup {Broadcast} : overflowUID[x] = c => x = u
  BY <1>1, ControllerAssumption DEF HoldOK, Ids
<1>4. HoldReset(c) = [overflowUID EXCEPT ![u] = IF overflowUID[u] = c THEN 0 ELSE overflowUID[u]]
  BY DEF HoldReset
<1> HIDE DEF u
<1>5. HoldReset(c) \in [UIDs \cup {Broadcast} -> Ids \cup {0}]
  BY <1>1, <1>2, <1>4
<1>6. \A x \in UIDs \cup {Broadcast} :
        HoldReset(c)[x] = IF x = u /\ overflowUID[x] = c THEN 0 ELSE overflowUID[x]
  BY <1>1, <1>2, <1>4
<1> QED BY <1>3, <1>5, <1>6

LEMMA BlocksResetOK ==
  ASSUME NEW c, NEW r, Handled(c, r)
  PROVE  /\ Handled(c, BlocksReset(r)) /\ Closes(c, BlocksReset(r))
         /\ BlocksReset(r).collecting = r.collecting
         /\ BlocksReset(r).collectOrphans = r.collectOrphans
<1> DEFINE b == [r EXCEPT !.blocks = <<>>, !.overflow = FALSE]
<1>1. b = BlocksReset(r)
  BY DEF BlocksReset
<1>2. <<>> \in Seq([tn : Numbers, pid : PIDs])
  OBVIOUS
<1>3. /\ b \in Command /\ b.st = r.st /\ b.result = r.result /\ b.req = r.req
      /\ b.collecting = r.collecting /\ b.collectOrphans = r.collectOrphans
  BY <1>2 DEF Handled, Command, Numbers
<1> HIDE DEF b
<1>4. Endable(b)
  BY <1>3, CommandEndable
<1> QED BY <1>1, <1>3, <1>4 DEF Handled, Closes

LEMMA UnverifiedKeeps ==
  ASSUME ControllerInv, NEW c \in Ids, cmd[c].st = "wire",
         NEW r, Handled(c, r), NEW he \in [Devices -> Health],
         FinishSetUnverified(c, r, he), Rest
  PROVE  /\ ControllerInv' /\ Steps
         /\ Numbered([cmd EXCEPT ![c] = Completed(BlocksReset(r), "unverified")],
                     TNReleased(c))
<1> DEFINE b == BlocksReset(r)
<1>1. Closes(c, b)
  BY BlocksResetOK
<1>2. "unverified" \in Results \ {"none", "unreachable", "broadcast"} /\ FALSE \in BOOLEAN
  BY DEF Results
<1>3. Finish(c, b, "unverified", HoldReset(c), he, FALSE)
  BY DEF FinishSetUnverified
<1>4. /\ HoldReset(c) \in [UIDs \cup {Broadcast} -> Ids \cup {0}]
      /\ \A x \in UIDs \cup {Broadcast} :
           HoldReset(c)[x] \in {0, overflowUID[x]} \/ (HoldReset(c)[x] = c /\ x = b.req.uid)
  BY HoldResetOK
<1> HIDE DEF b
<1>5. /\ ControllerInv' /\ Steps
      /\ Numbered([cmd EXCEPT ![c] = Completed(b, "unverified")], TNReleased(c))
  BY <1>1, <1>2, <1>3, <1>4, FinishKeeps
<1> QED BY <1>5 DEF b

LEMMA BeginCollectKeeps ==
  ASSUME ControllerInv, NEW c \in Ids, cmd[c].st = "wire",
         NEW r, Handled(c, r), r.collectOrphans < MaxAckTimerCollect,
         BeginCollect(c, r), health' \in [Devices -> Health], Rest
  PROVE  ControllerInv' /\ Steps
<1> DEFINE b == [BlocksReset(r) EXCEPT !.collecting = TRUE,
                   !.answerPID = QueuedMessage, !.answerPIDSet = FALSE]
<1>1. Handled(c, b) /\ b.collectOrphans = r.collectOrphans
  <2> DEFINE b0 == BlocksReset(r)
  <2>1. QueuedMessage \in PIDs
    BY ControllerAssumption
  <2>2. Handled(c, b0) /\ b0.collectOrphans = r.collectOrphans
    BY BlocksResetOK
  <2> HIDE DEF b0
  <2>3. b \in Command /\ b.req = b0.req /\ b.st = b0.st /\ b.result = b0.result
        /\ b.collectOrphans = b0.collectOrphans
    BY <2>1, <2>2 DEF Handled, Command, b0
  <2> QED BY <2>2, <2>3 DEF Handled
<1>2. Issue(c, b, HoldReset(c))
  BY DEF BeginCollect
<1>3. /\ HoldReset(c) \in [UIDs \cup {Broadcast} -> Ids \cup {0}]
      /\ \A x \in UIDs \cup {Broadcast} :
           \/ HoldReset(c)[x] = 0
           \/ HoldReset(c)[x] = overflowUID[x] /\ overflowUID[x] # c
           \/ HoldReset(c)[x] = c /\ x = b.req.uid /\ b.overflow
  BY HoldResetOK
<1> HIDE DEF b
<1> QED BY <1>1, <1>2, <1>3, IssueKeeps

LEMMA AbandonCollectKeeps ==
  ASSUME ControllerInv, NEW c \in Ids, cmd[c].st = "wire",
         NEW r, Handled(c, r), NEW he \in [Devices -> Health],
         AbandonCollect(c, r, he), Rest
  PROVE  ControllerInv' /\ Steps
<1> DEFINE back == [r EXCEPT !.collecting = FALSE]
           b == [BlocksReset(back) EXCEPT !.answerPID = r.req.pid, !.answerPIDSet = FALSE]
<1>1. Handled(c, back) /\ back.req = r.req /\ ~back.collecting
  BY DEF Handled, Command
<1>2. CASE r.req.class = "set"
  <2>1. FinishSetUnverified(c, back, he)
    BY <1>2 DEF AbandonCollect
  <2> HIDE DEF back
  <2> QED BY <1>1, <2>1, UnverifiedKeeps
<1>3. CASE r.req.class # "set"
  <2>1. Issue(c, b, HoldReset(c)) /\ health' = he
    BY <1>3 DEF AbandonCollect
  <2>2. Handled(c, b) /\ ~b.collecting
    <3> DEFINE b0 == BlocksReset(back)
    <3>1. r.req.pid \in PIDs
      BY DEF Handled, Command, Request
    <3> HIDE DEF back
    <3>2. Handled(c, b0) /\ ~b0.collecting
      BY <1>1, BlocksResetOK
    <3> HIDE DEF b0
    <3>3. b \in Command /\ b.req = b0.req /\ b.st = b0.st /\ b.result = b0.result
          /\ b.collecting = b0.collecting
      BY <3>1, <3>2 DEF Handled, Command, b0
    <3> QED BY <3>2, <3>3 DEF Handled
  <2>3. /\ HoldReset(c) \in [UIDs \cup {Broadcast} -> Ids \cup {0}]
        /\ \A x \in UIDs \cup {Broadcast} :
             \/ HoldReset(c)[x] = 0
             \/ HoldReset(c)[x] = overflowUID[x] /\ overflowUID[x] # c
             \/ HoldReset(c)[x] = c /\ x = b.req.uid /\ b.overflow
    BY HoldResetOK
  <2> HIDE DEF b
  <2> QED BY <2>1, <2>2, <2>3, IssueKeeps
<1> QED BY <1>2, <1>3

-----------------------------------------------------------------------------
(* One lemma for each handler.                                             *)

LEMMA TimerFiresKeeps ==
  ASSUME ControllerInv, NEW c \in Ids, TimerFires(c)
  PROVE  ControllerInv' /\ Steps
<1> DEFINE q == cmd[c]
           k == q.timer
           r == [q EXCEPT !.timer = "none", !.late = @ \cup {<<k, TRUE>>}]
<1>1. q \in Command /\ CmdOK(q) /\ cmd \in [Ids -> Command]
  BY DEF ControllerInv, Agree
<1>2. cmd' = [cmd EXCEPT ![c] = r]
  <2>1. cmd' = [cmd EXCEPT ![c].timer = "none", ![c].late = @ \cup {<<cmd[c].timer, TRUE>>}]
    BY DEF TimerFires
  <2> QED BY <1>1, <2>1
<1>3. k # "none" /\ inflightByTN' = inflightByTN
      /\ UNCHANGED <<nextID, queue, tn, overflowUID, breakers, drains, stopped, network>>
  BY DEF TimerFires
<1> HIDE DEF q
<1>4. q.st = "wire" /\ k \in Callback
  BY <1>1, <1>3 DEF CmdOK, Command, Timers, Callback
<1>5. /\ r \in Command /\ r.st = q.st /\ r.req = q.req /\ r.result = q.result
      /\ r.overflow = q.overflow /\ r.late = q.late \cup {<<k, TRUE>>}
      /\ r.collecting = q.collecting /\ r.collectOrphans = q.collectOrphans
  <2> DEFINE all == {"response", "ackTimer", "backoff", "deadline"} \X BOOLEAN
  <2>0. q.late \subseteq all
    BY <1>1 DEF Command
  <2>1. q.late \cup {<<k, TRUE>>} \in SUBSET all
    <3>1. <<k, TRUE>> \in all
      BY <1>4 DEF Callback
    <3> HIDE DEF all, k
    <3> QED BY <2>0, <3>1
  <2> HIDE DEF k
  <2> QED BY <1>1, <2>1 DEF Command, Timers
<1> HIDE DEF r
<1>6. CmdOK(r)
  <2>1. Wakes(r)
    BY <1>4, <1>5 DEF Wakes
  <2> QED BY <1>1, <1>4, <1>5, <2>1 DEF CmdOK
<1>7. Rest /\ inflightByTN' \in [Numbers -> Ids \cup {0}]
      /\ UNCHANGED <<queue, tn, overflowUID, breakers, drains, sent>>
  BY <1>3 DEF Rest, ControllerInv, OthersType, network
<1> QED BY <1>2, <1>5, <1>6, <1>7, LocalKeeps DEF q

LEMMA DeadlineFiresKeeps ==
  ASSUME ControllerInv, NEW c \in Ids, DeadlineFires(c)
  PROVE  ControllerInv' /\ Steps
<1> DEFINE q == cmd[c]
           r == [q EXCEPT !.deadline = FALSE, !.late = @ \cup {<<"deadline", TRUE>>}]
<1>1. q \in Command /\ CmdOK(q) /\ cmd \in [Ids -> Command]
  BY DEF ControllerInv, Agree
<1>2. cmd' = [cmd EXCEPT ![c] = r]
  <2>1. cmd' = [cmd EXCEPT ![c].deadline = FALSE, ![c].late = @ \cup {<<"deadline", TRUE>>}]
    BY DEF DeadlineFires
  <2> QED BY <1>1, <2>1
<1>3. q.deadline /\ inflightByTN' = inflightByTN
      /\ UNCHANGED <<nextID, queue, tn, overflowUID, breakers, drains, stopped, network>>
  BY DEF DeadlineFires
<1> HIDE DEF q
<1>4. q.st = "wire"
  BY <1>1, <1>3 DEF CmdOK, Command
<1>5. /\ r \in Command /\ r.st = q.st /\ r.req = q.req /\ r.result = q.result
      /\ r.overflow = q.overflow /\ r.late = q.late \cup {<<"deadline", TRUE>>}
      /\ r.collecting = q.collecting /\ r.collectOrphans = q.collectOrphans
      /\ r.timer = q.timer
  <2> DEFINE all == {"response", "ackTimer", "backoff", "deadline"} \X BOOLEAN
  <2>0. q.late \subseteq all
    BY <1>1 DEF Command
  <2>1. q.late \cup {<<"deadline", TRUE>>} \in SUBSET all
    <3>1. <<"deadline", TRUE>> \in all
      BY <1>4 DEF Callback
    <3> HIDE DEF all
    <3> QED BY <2>0, <3>1
  <2> QED BY <1>1, <2>1 DEF Command
<1> HIDE DEF r
<1>6. CmdOK(r)
  <2>1. Wakes(r)
    BY <1>1, <1>4, <1>5 DEF Wakes, CmdOK
  <2> QED BY <1>1, <1>4, <1>5, <2>1 DEF CmdOK
<1>7. Rest /\ inflightByTN' \in [Numbers -> Ids \cup {0}]
      /\ UNCHANGED <<queue, tn, overflowUID, breakers, drains, sent>>
  BY <1>3 DEF Rest, ControllerInv, OthersType, network
<1> QED BY <1>2, <1>5, <1>6, <1>7, LocalKeeps DEF q

LEMMA StaleCallbackKeeps ==
  ASSUME ControllerInv, NEW c \in Ids, StaleCallback(c)
  PROVE  ControllerInv' /\ Steps
<1> DEFINE q == cmd[c]
<1>1. PICK x \in cmd[c].late :
        /\ cmd[c].st = "done" \/ ~x[2]
        /\ cmd' = [cmd EXCEPT ![c].late = @ \ {x}]
        /\ UNCHANGED <<nextID, queue, inflightByTN, tn, overflowUID, breakers,
                       drains, stopped, network>>
  BY DEF StaleCallback
<1> DEFINE r == [q EXCEPT !.late = @ \ {x}]
<1>2. q \in Command /\ CmdOK(q) /\ cmd \in [Ids -> Command]
  BY DEF ControllerInv, Agree
<1>3. cmd' = [cmd EXCEPT ![c] = r] /\ x \in q.late /\ (q.st = "done" \/ ~x[2])
  BY <1>1, <1>2
<1> HIDE DEF q
<1>4. /\ r \in Command /\ r.st = q.st /\ r.req = q.req /\ r.result = q.result
      /\ r.overflow = q.overflow /\ r.late = q.late \ {x} /\ r.deadline = q.deadline
      /\ r.collecting = q.collecting /\ r.collectOrphans = q.collectOrphans
      /\ r.timer = q.timer
  <2>1. q.late \ {x} \in SUBSET ({"response", "ackTimer", "backoff", "deadline"} \X BOOLEAN)
    BY <1>2 DEF Command
  <2> QED BY <1>2, <2>1 DEF Command
<1> HIDE DEF r
<1>5. q.st = "done" \/ (q.st = "wire" /\ ~x[2])
  BY <1>2, <1>3 DEF CmdOK, Command
<1>6. CmdOK(r)
  <2>1. CASE q.st = "done"
    BY <1>2, <1>4, <2>1 DEF CmdOK
  <2>2. CASE q.st = "wire" /\ ~x[2]
    <3>1. \A k \in Callback : <<k, TRUE>> # x
      <4> SUFFICES ASSUME NEW k \in Callback, <<k, TRUE>> = x PROVE FALSE
        OBVIOUS
      <4>1. <<k, TRUE>>[2] = TRUE
        OBVIOUS
      <4>2. x[2] = TRUE
        BY <4>1
      <4> QED BY <2>2, <4>2
    <3>2. Wakes(r)
      BY <1>2, <1>4, <2>2, <3>1 DEF Wakes, CmdOK
    <3> QED BY <1>2, <1>4, <2>2, <3>2 DEF CmdOK
  <2> QED BY <1>5, <2>1, <2>2
<1>7. Rest /\ inflightByTN' \in [Numbers -> Ids \cup {0}]
      /\ UNCHANGED <<queue, tn, overflowUID, breakers, drains, sent>>
  BY <1>1 DEF Rest, ControllerInv, OthersType, network
<1> QED BY <1>3, <1>4, <1>6, <1>7, LocalKeeps DEF q

LEMMA OverflowKept ==
  ASSUME ControllerInv, NEW c \in Ids, NEW r, r.overflow = cmd[c].overflow, r.req = cmd[c].req
  PROVE  /\ overflowUID \in [UIDs \cup {Broadcast} -> Ids \cup {0}]
         /\ \A x \in UIDs \cup {Broadcast} :
              \/ overflowUID[x] = 0
              \/ overflowUID[x] = overflowUID[x] /\ overflowUID[x] # c
              \/ overflowUID[x] = c /\ x = r.req.uid /\ r.overflow
BY DEF ControllerInv, Agree, HoldOK

\* Finishing with the holds as they are.
LEMMA FinishHere ==
  ASSUME ControllerInv, NEW c \in Ids, cmd[c].st = "wire", NEW r, Closes(c, r),
         NEW kind \in Results \ {"none", "unreachable", "broadcast"},
         NEW he \in [Devices -> Health], NEW empty,
         Finish(c, r, kind, overflowUID, he, empty), Rest
  PROVE  /\ ControllerInv' /\ Steps
         /\ Numbered([cmd EXCEPT ![c] = Completed(r, kind)], TNReleased(c))
<1> DEFINE hold == overflowUID
<1>1. /\ hold \in [UIDs \cup {Broadcast} -> Ids \cup {0}]
      /\ \A x \in UIDs \cup {Broadcast} :
           hold[x] \in {0, overflowUID[x]} \/ (hold[x] = c /\ x = r.req.uid)
  BY DEF ControllerInv
<1>2. Finish(c, r, kind, hold, he, empty)
  OBVIOUS
<1> HIDE DEF hold
<1> QED BY <1>1, <1>2, FinishKeeps

LEMMA ModeLearnedType ==
  ASSUME ControllerInv, NEW c \in Ids, NEW mode \in CollectModes
  PROVE  ModeLearned(c, mode) \in [Devices -> Health]
<1>1. health \in [Devices -> Health] /\ cmd[c] \in Command
  BY DEF ControllerInv, OthersType
<1> DEFINE d == Dev(cmd[c].req)
<1>2. d \in Devices
  BY <1>1, RequestType
<1>3. ModeLearned(c, mode) = [health EXCEPT ![d] = Learned(health[d], mode)]
  BY DEF ModeLearned
<1> HIDE DEF d
<1> QED BY <1>1, <1>2, <1>3, LearnedType

LEMMA OnResponseTimeoutKeeps ==
  ASSUME ControllerInv, NEW c \in Ids, OnResponseTimeout(c)
  PROVE  ControllerInv' /\ Steps
<1> DEFINE r == Ran(c, "response")
<1>1. Runs(c, "response")
  BY DEF OnResponseTimeout
<1>2. /\ cmd[c].st = "wire" /\ Handled(c, r) /\ Closes(c, r)
      /\ r.overflow = cmd[c].overflow
      /\ r.collecting => r.collectOrphans < MaxAckTimerCollect
  BY <1>1, RanOK
<1>3. Rest
  BY DEF OnResponseTimeout, Rest, ControllerInv, OthersType
<1>4. CASE r.collecting /\ AbandonCollect(c, r, ModeLearned(c, "reissue"))
  <2>1. ModeLearned(c, "reissue") \in [Devices -> Health]
    BY ModeLearnedType DEF CollectModes
  <2> HIDE DEF r
  <2> QED BY <1>2, <1>3, <1>4, <2>1, AbandonCollectKeeps
<1>5. CASE Finish(c, r, "timeout", overflowUID, health, FALSE)
  <2>1. "timeout" \in Results \ {"none", "unreachable", "broadcast"} /\ FALSE \in BOOLEAN
    BY DEF Results
  <2>2. health \in [Devices -> Health]
    BY DEF ControllerInv, OthersType
  <2> HIDE DEF r
  <2> QED BY <1>2, <1>3, <1>5, <2>1, <2>2, FinishHere
<1>6. CASE /\ r.attempt < Retries
           /\ cmd' = [cmd EXCEPT ![c] = [TimerSet(r, "response") EXCEPT !.attempt = @ + 1]]
           /\ UNCHANGED <<queue, inflightByTN, tn, overflowUID, breakers, drains, sent>>
  <2> DEFINE t == TimerSet(r, "response")
             q == [t EXCEPT !.attempt = t.attempt + 1]
  <2>1. /\ t \in Command /\ t.timer = "response" /\ t.st = r.st /\ t.result = r.result
        /\ t.req = r.req /\ t.overflow = r.overflow /\ t.collecting = r.collecting
        /\ t.collectOrphans = r.collectOrphans /\ t.attempt = r.attempt
    BY <1>2, TimerSetOK DEF Handled, Timers
  <2>2. cmd' = [cmd EXCEPT ![c] = q]
    BY <1>6
  <2>3. t.attempt + 1 \in 0..Retries
    <3>1. t.attempt \in 0..Retries /\ t.attempt < Retries
      BY <1>6, <2>1 DEF Command
    <3> HIDE DEF t
    <3> QED BY <3>1, ControllerAssumption
  <2> HIDE DEF t, r
  <2>4. /\ q \in Command /\ q.timer = "response" /\ q.st = t.st /\ q.result = t.result
        /\ q.req = t.req /\ q.overflow = t.overflow /\ q.collecting = t.collecting
        /\ q.collectOrphans = t.collectOrphans
    BY <2>1, <2>3 DEF Command
  <2> HIDE DEF q
  <2>5. /\ q.st = "wire" /\ q.result = "none" /\ q.req = cmd[c].req
        /\ q.overflow = cmd[c].overflow
        /\ q.collecting => q.collectOrphans < MaxAckTimerCollect
    BY <1>2, <2>1, <2>4 DEF Handled
  <2>6. CmdOK(cmd[c])
    BY DEF ControllerInv, Agree
  <2>7. cmd[c].result = "none"
    BY <1>2, <2>6 DEF CmdOK
  <2>8. cmd[c].req.uid # Broadcast
    BY <1>2, <2>6 DEF CmdOK
  <2>9. CmdOK(q)
    <3>1. Wakes(q)
      BY <2>4 DEF Wakes
    <3>2. q.req.uid # Broadcast /\ q \in Command
      BY <2>4, <2>5, <2>8
    <3> QED BY <2>5, <3>1, <3>2 DEF CmdOK
  <2>10. inflightByTN' \in [Numbers -> Ids \cup {0}]
    BY <1>6 DEF ControllerInv, OthersType
  <2>11. q.st = cmd[c].st /\ q.result = cmd[c].result /\ (cmd[c].overflow => q.overflow)
    BY <1>2, <2>5, <2>7
  <2>12. UNCHANGED <<queue, tn, overflowUID, breakers, drains, sent>>
    BY <1>6
  <2> QED BY <1>3, <2>2, <2>5, <2>9, <2>10, <2>11, <2>12, LocalKeeps
<1> QED BY <1>4, <1>5, <1>6 DEF OnResponseTimeout

LEMMA OnDeadlineKeeps ==
  ASSUME ControllerInv, NEW c \in Ids, OnDeadline(c)
  PROVE  ControllerInv' /\ Steps
<1>1. Runs(c, "deadline") /\ Finish(c, Ran(c, "deadline"), "deadline", overflowUID, health, FALSE)
  BY DEF OnDeadline
<1>2. cmd[c].st = "wire" /\ Closes(c, Ran(c, "deadline"))
  BY <1>1, RanOK
<1>3. Rest /\ health \in [Devices -> Health]
  BY DEF OnDeadline, Rest, ControllerInv, OthersType
<1>4. "deadline" \in Results \ {"none", "unreachable", "broadcast"} /\ FALSE \in BOOLEAN
  BY DEF Results
<1> QED BY <1>1, <1>2, <1>3, <1>4, FinishHere

LEMMA OnAckTimerElapsedKeeps ==
  ASSUME ControllerInv, NEW c \in Ids, OnAckTimerElapsed(c)
  PROVE  ControllerInv' /\ Steps
<1> DEFINE r == Ran(c, "ackTimer")
<1>1. Runs(c, "ackTimer")
  BY DEF OnAckTimerElapsed
<1>2. /\ cmd[c].st = "wire" /\ Handled(c, r)
      /\ r.overflow = cmd[c].overflow /\ r.req = cmd[c].req
      /\ r.collecting => r.collectOrphans < MaxAckTimerCollect
  BY <1>1, RanOK DEF Handled
<1>3. Rest /\ health \in [Devices -> Health]
  BY DEF OnAckTimerElapsed, Rest, ControllerInv, OthersType
<1>4. CASE AckTimerCollects(r) /\ BeginCollect(c, r) /\ UNCHANGED health
  <2>1. r.collectOrphans < MaxAckTimerCollect /\ health' \in [Devices -> Health]
    BY <1>3, <1>4 DEF AckTimerCollects
  <2> HIDE DEF r
  <2> QED BY <1>2, <1>3, <1>4, <2>1, BeginCollectKeeps
<1>5. CASE AbandonCollect(c, r, health)
  <2> HIDE DEF r
  <2> QED BY <1>2, <1>3, <1>5, AbandonCollectKeeps
<1>6. CASE FinishSetUnverified(c, r, health)
  <2> HIDE DEF r
  <2> QED BY <1>2, <1>3, <1>6, UnverifiedKeeps
<1>7. CASE Issue(c, r, overflowUID) /\ UNCHANGED health
  <2>1. health' \in [Devices -> Health]
    BY <1>3, <1>7
  <2> HIDE DEF r
  <2>2. /\ overflowUID \in [UIDs \cup {Broadcast} -> Ids \cup {0}]
        /\ \A x \in UIDs \cup {Broadcast} :
             \/ overflowUID[x] = 0
             \/ overflowUID[x] = overflowUID[x] /\ overflowUID[x] # c
             \/ overflowUID[x] = c /\ x = r.req.uid /\ r.overflow
    BY <1>2, OverflowKept
  <2> QED BY <1>2, <1>3, <1>7, <2>1, <2>2, IssueKeeps
<1> QED BY <1>4, <1>5, <1>6, <1>7 DEF OnAckTimerElapsed

LEMMA OnProxyBackoffElapsedKeeps ==
  ASSUME ControllerInv, NEW c \in Ids, OnProxyBackoffElapsed(c)
  PROVE  ControllerInv' /\ Steps
<1> DEFINE r == Ran(c, "backoff")
<1>1. Runs(c, "backoff") /\ Issue(c, r, overflowUID)
  BY DEF OnProxyBackoffElapsed
<1>2. /\ cmd[c].st = "wire" /\ Handled(c, r)
      /\ r.overflow = cmd[c].overflow /\ r.req = cmd[c].req
      /\ r.collecting => r.collectOrphans < MaxAckTimerCollect
  BY <1>1, RanOK DEF Handled
<1>3. Rest /\ health' \in [Devices -> Health]
  BY DEF OnProxyBackoffElapsed, Rest, ControllerInv, OthersType
<1> HIDE DEF r
<1>4. /\ overflowUID \in [UIDs \cup {Broadcast} -> Ids \cup {0}]
      /\ \A x \in UIDs \cup {Broadcast} :
           \/ overflowUID[x] = 0
           \/ overflowUID[x] = overflowUID[x] /\ overflowUID[x] # c
           \/ overflowUID[x] = c /\ x = r.req.uid /\ r.overflow
  BY <1>2, OverflowKept
<1> QED BY <1>1, <1>2, <1>3, <1>4, IssueKeeps

\* A handler that leaves commands, queues and holds alone.
LEMMA OthersKeep ==
  ASSUME ControllerInv, UNCHANGED <<cmd, queue, overflowUID, nextID, stopped>>,
         OthersType', drains' \in [Devices -> Passes0], DrainOK(cmd, drains', stopped),
         stopped => \A d \in Devices : ~health'[d].probeTimer
  PROVE  ControllerInv' /\ Steps
<1>1. Steps
  BY DEF Steps, CmdStep
<1>2. Agree(cmd, queue, overflowUID)'
  BY DEF ControllerInv, Agree, QueueOK, HoldOK, OrderOK
<1>3. DrainOK(cmd, drains, stopped)'
  BY DEF DrainOK, PassOK
<1>4. (stopped => \A c \in Ids : ~Live(cmd[c]))'
  BY DEF ControllerInv
<1>5. (\A c \in Ids : cmd[c].st = "unused" <=> c > nextID)'
  BY DEF ControllerInv
<1>6. /\ cmd' \in [Ids -> Command] /\ queue' \in Queues
      /\ overflowUID' \in [UIDs \cup {Broadcast} -> Ids \cup {0}]
  BY DEF ControllerInv
<1> QED BY <1>1, <1>2, <1>3, <1>4, <1>5, <1>6 DEF ControllerInv

LEMMA QuiescentKeeps ==
  ASSUME ControllerInv, UNCHANGED vars
  PROVE  ControllerInv' /\ Steps
<1>1. OthersType'
  BY DEF ControllerInv, OthersType, vars, breakers, network
<1>2. /\ drains' \in [Devices -> Passes0] /\ DrainOK(cmd, drains', stopped)
      /\ stopped => \A d \in Devices : ~health'[d].probeTimer
  BY DEF ControllerInv, vars, breakers
<1>3. UNCHANGED <<cmd, queue, overflowUID, nextID, stopped>>
  BY DEF vars
<1> QED BY <1>1, <1>2, <1>3, OthersKeep

LEMMA CooldownElapsesKeeps ==
  ASSUME ControllerInv, NEW d \in Links \X UIDs, CooldownElapses(d)
  PROVE  ControllerInv' /\ Steps
<1>1. /\ health' = [health EXCEPT ![d] = Expired(health[d])]
      /\ UNCHANGED <<cmd, nextID, queue, inflightByTN, tn, overflowUID, links,
                     drains, stopped, network>>
  BY DEF CooldownElapses
<1>2. health \in [Devices -> Health] /\ d \in Devices
  BY DEF ControllerInv, OthersType, Devices
<1>3. Expired(health[d]) \in Health /\ Expired(health[d]).probeTimer = health[d].probeTimer
  <2>1. health[d] \in Health
    BY <1>2
  <2>2. Expired(health[d]) \in Health
    BY <2>1, SmallStepTypes
  <2>3. Expired(health[d]).probeTimer = health[d].probeTimer
    BY <2>1 DEF Expired, Health
  <2> QED BY <2>2, <2>3
<1>4. health' \in [Devices -> Health]
      /\ \A e \in Devices : health'[e].probeTimer = health[e].probeTimer
  BY <1>1, <1>2, <1>3
<1>5. OthersType'
  BY <1>1, <1>4 DEF ControllerInv, OthersType, network
<1>6. /\ drains' \in [Devices -> Passes0] /\ DrainOK(cmd, drains', stopped)
      /\ stopped => \A e \in Devices : ~health'[e].probeTimer
  BY <1>1, <1>4 DEF ControllerInv
<1> QED BY <1>1, <1>5, <1>6, OthersKeep

LEMMA DrainQueuedMessagesKeeps ==
  ASSUME ControllerInv, NEW d \in Links \X UIDs, DrainQueuedMessages(d)
  PROVE  ControllerInv' /\ Steps
<1> DEFINE new == [NoDrain EXCEPT !.on = TRUE]
<1>1. /\ ~stopped /\ drains' = [drains EXCEPT ![d] = new]
      /\ UNCHANGED <<cmd, nextID, queue, inflightByTN, tn, overflowUID, breakers,
                     stopped, network>>
  BY DEF DrainQueuedMessages
<1>2. new \in Passes0 /\ new.cmd = 0 /\ d \in Devices /\ d[2] # Broadcast
  <2>1. NoDrain \in Passes0 /\ NoDrain.cmd = 0
    BY ControllerAssumption DEF NoDrain, Passes0
  <2>2. d \in Devices /\ d[2] # Broadcast
    BY ControllerAssumption DEF Devices
  <2> QED BY <2>1, <2>2 DEF Passes0
<1> HIDE DEF new
<1>3. drains \in [Devices -> Passes0] /\ DrainOK(cmd, drains, stopped)
  BY DEF ControllerInv
<1>4. drains' \in [Devices -> Passes0]
  BY <1>1, <1>2, <1>3
<1>5. DrainOK(cmd, drains', stopped)
  <2>1. \A e \in Devices : drains'[e] = IF e = d THEN new ELSE drains[e]
    BY <1>1, <1>3
  <2> QED BY <1>1, <1>2, <1>3, <2>1 DEF DrainOK, PassOK
<1>6. OthersType'
  BY <1>1 DEF ControllerInv, OthersType, breakers, network
<1>7. stopped => \A e \in Devices : ~health'[e].probeTimer
  BY <1>1
<1> QED BY <1>1, <1>4, <1>5, <1>6, <1>7, OthersKeep

\* A command submitted to a stopped controller ends at once.
LEMMA SubmitAborts ==
  ASSUME ControllerInv, stopped, NEW req \in Request,
         nextID < MaxCmds, nextID' = nextID + 1,
         cmd' = [cmd EXCEPT ![nextID + 1] = Completed(NewCommand(req), "aborted")],
         UNCHANGED <<queue, inflightByTN, tn, overflowUID, breakers, sent, drains,
                     stopped, replies>>
  PROVE  ControllerInv' /\ Steps
<1> DEFINE n == nextID + 1
           q == Completed(NewCommand(req), "aborted")
<1>1. /\ OthersType /\ cmd \in [Ids -> Command] /\ queue \in Queues
      /\ overflowUID \in [UIDs \cup {Broadcast} -> Ids \cup {0}]
      /\ drains \in [Devices -> Passes0] /\ Agree(cmd, queue, overflowUID)
      /\ DrainOK(cmd, drains, stopped)
      /\ \A e \in Ids : cmd[e].st = "unused" <=> e > nextID
      /\ \A e \in Ids : ~Live(cmd[e])
      /\ \A d \in Devices : ~health[d].probeTimer
  BY DEF ControllerInv
<1>2. nextID \in Nat /\ n \in Ids /\ n \in 0..MaxCmds /\ n # 0
  BY <1>1, ControllerAssumption DEF OthersType, Ids
<1>3. /\ CmdOK(q) /\ q \in Command /\ q.st = "done" /\ q.result = "aborted"
  <2>1. "aborted" \in Results \ {"none"} /\ Endable(NewCommand(req))
    BY NewCommandOK, CommandEndable DEF Results, CmdOK
  <2> QED BY <2>1, CompletedOK DEF CmdOK
<1> HIDE DEF q
<1>4. /\ cmd' \in [Ids -> Command] /\ cmd'[n] = q /\ cmd[n].st = "unused"
      /\ \A e \in Ids : e # n => cmd'[e] = cmd[e]
  <2>1. n > nextID
    BY <1>2
  <2>2. cmd' = [cmd EXCEPT ![n] = q]
    BY DEF q
  <2> HIDE DEF n
  <2> QED BY <1>1, <1>2, <1>3, <2>1, <2>2
<1>5. \A e \in Ids : CmdOK(cmd'[e]) /\ ~Live(cmd'[e])
  BY <1>1, <1>3, <1>4 DEF Agree, Live
<1>6. /\ \A l \in Links : queue[l].inflight = 0
      /\ \A l \in Links : Len(queue[l].pending) = 0
      /\ \A x \in UIDs \cup {Broadcast} : overflowUID[x] = 0
  <2>1. \A l \in Links : queue[l].inflight = 0
    BY <1>1, QueueType DEF Agree, QueueOK, SlotOK, Live
  <2>2. \A l \in Links : Len(queue[l].pending) = 0
    <3> SUFFICES ASSUME NEW l \in Links, Len(queue[l].pending) # 0 PROVE FALSE
      OBVIOUS
    <3>1. Len(queue[l].pending) \in Nat
      BY <1>1, QueueType
    <3>2. 1 \in 1..Len(queue[l].pending)
      BY <3>1
    <3>3. queue[l].pending[1] \in Ids /\ cmd[queue[l].pending[1]].st = "pending"
      BY <1>1, <3>2, QueueType DEF Agree, QueueOK, WaitsOK
    <3> QED BY <1>1, <3>3 DEF Live
  <2>3. \A x \in UIDs \cup {Broadcast} : overflowUID[x] = 0
    BY <1>1 DEF Agree, HoldOK, Live
  <2> QED BY <2>1, <2>2, <2>3
<1>7. Agree(cmd, queue, overflowUID)'
  <2>1. QueueOK(cmd', queue)
    <3>1. \A l \in Links : 1..Len(queue[l].pending) = {}
      BY <1>6
    <3> QED BY <1>5, <1>6, <3>1 DEF QueueOK, SlotOK, OwnSlot, WaitsOK, Queued, LineOK, Live
  <2>2. HoldOK(cmd', overflowUID) /\ OrderOK(cmd')
    BY <1>5, <1>6 DEF HoldOK, OrderOK, Live
  <2> QED BY <1>5, <2>1, <2>2 DEF Agree, QueueOK, HoldOK, OrderOK
<1>8. Steps
  BY <1>3, <1>4 DEF Steps, CmdStep
<1>9. OthersType'
  BY <1>1, <1>2 DEF OthersType, breakers
<1>10. DrainOK(cmd, drains, stopped)'
  <2>1. \A d \in Devices : PassOK(cmd, d, drains[d], stopped) /\ drains[d].cmd \in Ids \cup {0}
    BY <1>1 DEF DrainOK, Passes0
  <2>2. \A d \in Devices : ~drains[d].on /\ drains[d].cmd = 0
    BY <1>1, <2>1 DEF PassOK
  <2> QED BY <2>2 DEF DrainOK, PassOK
<1>11. (\A e \in Ids : cmd[e].st = "unused" <=> e > nextID)'
  <2> SUFFICES ASSUME NEW e \in Ids PROVE cmd'[e].st = "unused" <=> e > nextID + 1
    OBVIOUS
  <2>1. CASE e = n
    BY <1>2, <1>3, <1>4, <2>1
  <2>2. CASE e # n
    <3>1. cmd'[e] = cmd[e] /\ e \in Int /\ (e > nextID <=> e > n)
      BY <1>2, <1>4, <2>2 DEF Ids
    <3> QED BY <1>1, <3>1
  <2> QED BY <2>1, <2>2
<1>12. (stopped => /\ \A e \in Ids : ~Live(cmd[e])
                   /\ \A d \in Devices : ~health[d].probeTimer)'
  BY <1>1, <1>5 DEF breakers, Live
<1>13. /\ queue' \in Queues /\ overflowUID' \in [UIDs \cup {Broadcast} -> Ids \cup {0}]
       /\ drains' \in [Devices -> Passes0]
  BY <1>1
<1> QED BY <1>4, <1>7, <1>8, <1>9, <1>10, <1>11, <1>12, <1>13 DEF ControllerInv

LEMMA SubmitActionKeeps ==
  ASSUME ControllerInv, NEW req \in Workload, Submit(req)
  PROVE  ControllerInv' /\ Steps
<1>1. req \in Request /\ nextID < MaxCmds /\ nextID' = nextID + 1
  BY ControllerAssumption DEF Submit, SubmitLocked
<1>2. health \in [Devices -> Health] /\ drains \in [Devices -> Passes0]
  BY DEF ControllerInv, OthersType
<1>3. CASE stopped
  <2>1. cmd' = [cmd EXCEPT ![nextID + 1] = Completed(NewCommand(req), "aborted")]
    BY <1>3 DEF Submit, SubmitLocked
  <2>2. UNCHANGED <<queue, inflightByTN, tn, overflowUID, breakers, sent, drains,
                    stopped, replies>>
    BY <1>3 DEF Submit, SubmitLocked, breakers
  <2> QED BY <1>1, <1>3, <2>1, <2>2, SubmitAborts
<1>4. CASE ~stopped
  <2>1. Pump([cmd EXCEPT ![nextID + 1] = NewCommand(req)],
             [queue EXCEPT ![req.link].pending = Append(@, nextID + 1)],
             inflightByTN, overflowUID, health)
    BY <1>4 DEF Submit, SubmitLocked
  <2>2. drains' = drains /\ UNCHANGED <<links, stopped, replies>>
    BY DEF Submit
  <2>3. \A d \in Devices :
          \/ drains[d] = drains[d]
          \/ /\ drains[d].on /\ drains[d].cmd = nextID + 1 /\ d = Dev(req)
             /\ IsQueuedMessageRequest(req) /\ d[2] # Broadcast
    OBVIOUS
  <2> QED BY <1>1, <1>2, <1>4, <2>1, <2>2, <2>3, SubmitKeeps
<1> QED BY <1>3, <1>4

LEMMA DrainStepKeeps ==
  ASSUME ControllerInv, NEW d \in Links \X UIDs, DrainStep(d)
  PROVE  ControllerInv' /\ Steps
<1>1. /\ drains \in [Devices -> Passes0] /\ DrainOK(cmd, drains, stopped)
      /\ health \in [Devices -> Health] /\ nextID \in 0..MaxCmds
      /\ d \in Devices /\ d[1] \in Links /\ d[2] \in UIDs /\ d[2] # Broadcast
      /\ d = <<d[1], d[2]>>
  BY ControllerAssumption DEF ControllerInv, OthersType, Devices
<1>2. ~stopped
  <2>1. drains[d].on /\ drains[d].cmd = 0
    BY DEF DrainStep
  <2> QED BY <1>1, <2>1 DEF DrainOK, PassOK
<1>3. CASE drains[d].iterations >= MaxQueuedMessageDrain
  <2>1. /\ drains' = [drains EXCEPT ![d] = NoDrain]
        /\ UNCHANGED <<cmd, nextID, queue, inflightByTN, tn, overflowUID,
                       health, sent, links, stopped, replies>>
    BY <1>3 DEF DrainStep
  <2>2. NoDrain \in Passes0 /\ NoDrain.cmd = 0 /\ ~NoDrain.on
    BY ControllerAssumption DEF NoDrain, Passes0
  <2>3. drains' \in [Devices -> Passes0]
    BY <1>1, <2>1, <2>2
  <2>4. DrainOK(cmd, drains', stopped)
    <3>1. \A e \in Devices : drains'[e] = IF e = d THEN NoDrain ELSE drains[e]
      BY <1>1, <2>1
    <3> QED BY <1>1, <2>2, <3>1 DEF DrainOK, PassOK
  <2>5. OthersType'
    BY <2>1 DEF ControllerInv, OthersType
  <2> QED BY <1>2, <2>1, <2>3, <2>4, <2>5, OthersKeep
<1>4. CASE ~(drains[d].iterations >= MaxQueuedMessageDrain)
  <2> DEFINE req == [link |-> d[1], uid |-> d[2], class |-> "get", pid |-> QueuedMessage]
  <2>1. SubmitLocked(req) /\ UNCHANGED <<links, stopped, replies>>
        /\ drains' = [drains EXCEPT ![d].iterations = @ + 1, ![d].cmd = nextID']
    BY <1>4 DEF DrainStep
  <2>2. /\ req \in Request /\ req.link = d[1] /\ Dev(req) = d /\ IsQueuedMessageRequest(req)
    BY <1>1, ControllerAssumption DEF Request, Dev, IsQueuedMessageRequest
  <2> HIDE DEF req
  <2>3. /\ nextID < MaxCmds /\ nextID' = nextID + 1
        /\ Pump([cmd EXCEPT ![nextID + 1] = NewCommand(req)],
                [queue EXCEPT ![req.link].pending = Append(@, nextID + 1)],
                inflightByTN, overflowUID, health)
    BY <1>2, <2>1 DEF SubmitLocked
  <2> DEFINE i == drains[d].iterations + 1
             w == [drains[d] EXCEPT !.iterations = i, !.cmd = nextID + 1]
             dr == [drains EXCEPT ![d] = w]
  <2>4. w \in Passes0 /\ w.on /\ w.cmd = nextID + 1
    <3>1. drains[d] \in Passes0 /\ drains[d].on
      BY <1>1 DEF DrainStep
    <3>2. i \in 0..MaxQueuedMessageDrain
      BY <1>4, <3>1, ControllerAssumption DEF Passes0
    <3>3. nextID + 1 \in Ids
      BY <1>1, <2>3, ControllerAssumption DEF Ids
    <3> HIDE DEF i
    <3> QED BY <3>1, <3>2, <3>3 DEF Passes0
  <2>5. drains' = dr
    BY <1>1, <2>1, <2>3
  <2> HIDE DEF w
  <2>6. dr \in [Devices -> Passes0] /\ \A e \in Devices : dr[e] = IF e = d THEN w ELSE drains[e]
    BY <1>1, <2>4
  <2> HIDE DEF dr
  <2>7. \A e \in Devices :
          \/ dr[e] = drains[e]
          \/ /\ dr[e].on /\ dr[e].cmd = nextID + 1 /\ e = Dev(req)
             /\ IsQueuedMessageRequest(req) /\ e[2] # Broadcast
    BY <1>1, <2>2, <2>4, <2>6
  <2>8. dr \in [Devices -> Passes0] /\ health \in [Devices -> Health] /\ req \in Request
    BY <1>1, <2>2, <2>6
  <2>9. UNCHANGED <<links, stopped, replies>>
    BY <2>1
  <2> QED BY <1>2, <2>3, <2>5, <2>7, <2>8, <2>9, SubmitKeeps
<1> QED BY <1>3, <1>4

LEMMA SilenceProbeDueKeeps ==
  ASSUME ControllerInv, NEW d \in Links \X UIDs, NEW listed, SilenceProbeDue(d, listed)
  PROVE  ControllerInv' /\ Steps
<1> DEFINE quiet == [health EXCEPT ![d].probeTimer = FALSE]
<1>1. /\ drains \in [Devices -> Passes0] /\ DrainOK(cmd, drains, stopped)
      /\ health \in [Devices -> Health] /\ nextID \in 0..MaxCmds
      /\ d \in Devices /\ d[1] \in Links /\ d[2] \in UIDs
  BY DEF ControllerInv, OthersType, Devices
<1>2. ~stopped /\ UNCHANGED <<links, drains, stopped, replies>>
  BY <1>1 DEF SilenceProbeDue, ControllerInv
<1>3. quiet \in [Devices -> Health]
  <2>1. [health[d] EXCEPT !.probeTimer = FALSE] \in Health
    BY <1>1, SmallStepTypes
  <2>2. quiet = [health EXCEPT ![d] = [health[d] EXCEPT !.probeTimer = FALSE]]
    OBVIOUS
  <2> QED BY <1>1, <2>1, <2>2
<1>4. CASE ProbeWanted(health[d]) /\ ~CommandFor(d) /\ listed
  <2> DEFINE req == [link |-> d[1], uid |-> d[2], class |-> "get", pid |-> DeviceInfo]
  <2>1. req \in Request /\ req.link = d[1]
    BY <1>1, ControllerAssumption DEF Request
  <2>2. /\ nextID < MaxCmds /\ nextID' = nextID + 1
        /\ Pump([cmd EXCEPT ![nextID'] = NewCommand(req)],
                [queue EXCEPT ![d[1]].pending = Append(@, nextID')],
                inflightByTN, overflowUID, quiet)
    BY <1>4 DEF SilenceProbeDue
  <2> HIDE DEF req, quiet
  <2>3. Pump([cmd EXCEPT ![nextID + 1] = NewCommand(req)],
             [queue EXCEPT ![req.link].pending = Append(@, nextID + 1)],
             inflightByTN, overflowUID, quiet)
    BY <2>1, <2>2
  <2>4. \A e \in Devices :
          \/ drains[e] = drains[e]
          \/ /\ drains[e].on /\ drains[e].cmd = nextID + 1 /\ e = Dev(req)
             /\ IsQueuedMessageRequest(req) /\ e[2] # Broadcast
    OBVIOUS
  <2>5. drains' = drains
    BY <1>2
  <2> QED BY <1>1, <1>2, <1>3, <2>1, <2>2, <2>3, <2>4, <2>5, SubmitKeeps
<1>5. CASE ~(ProbeWanted(health[d]) /\ ~CommandFor(d) /\ listed)
  <2>1. /\ health' \in {health, quiet}
        /\ UNCHANGED <<cmd, nextID, queue, inflightByTN, tn, overflowUID, sent>>
    BY <1>5 DEF SilenceProbeDue
  <2>2. health' \in [Devices -> Health]
    BY <1>1, <1>3, <2>1
  <2>3. OthersType'
    BY <1>2, <2>1, <2>2 DEF ControllerInv, OthersType
  <2>4. drains' \in [Devices -> Passes0] /\ DrainOK(cmd, drains', stopped)
    BY <1>1, <1>2
  <2> QED BY <1>2, <2>1, <2>3, <2>4, OthersKeep
<1> QED BY <1>4, <1>5

LEMMA StopKeeps ==
  ASSUME ControllerInv, Stop
  PROVE  ControllerInv' /\ Steps
<1>1. /\ OthersType /\ cmd \in [Ids -> Command] /\ Agree(cmd, queue, overflowUID)
      /\ \A e \in Ids : cmd[e].st = "unused" <=> e > nextID
  BY DEF ControllerInv
<1>2. ~stopped /\ stopped' = TRUE /\ UNCHANGED <<nextID, tn, links, network>>
  BY DEF Stop
<1>3. \A e \in Ids :
        cmd'[e] = IF Live(cmd[e]) THEN Completed(cmd[e], "aborted") ELSE cmd[e]
  BY DEF Stop, Live
<1>4. \A e \in Ids : CmdOK(cmd[e]) /\ cmd[e] \in Command
  BY <1>1 DEF Agree
<1>5. \A e \in Ids :
        LET q == Completed(cmd[e], "aborted")
        IN CmdOK(q) /\ q \in Command /\ q.req = cmd[e].req /\ q.st = "done" /\ q.result = "aborted"
  <2>1. "aborted" \in Results \ {"none"}
    BY DEF Results
  <2> SUFFICES ASSUME NEW e \in Ids
               PROVE  LET q == Completed(cmd[e], "aborted")
                      IN /\ CmdOK(q) /\ q \in Command /\ q.req = cmd[e].req
                         /\ q.st = "done" /\ q.result = "aborted"
    OBVIOUS
  <2>2. Endable(cmd[e])
    BY <1>4, CommandEndable
  <2> QED BY <2>1, <2>2, CompletedOK DEF CmdOK
<1>6. \A e \in Ids : CmdOK(cmd'[e]) /\ cmd'[e] \in Command /\ ~Live(cmd'[e])
                     /\ (cmd'[e].st = "unused" <=> cmd[e].st = "unused")
  BY <1>3, <1>4, <1>5 DEF Live
<1>7. cmd' \in [Ids -> Command]
  <2>1. cmd' = [c \in Ids |-> IF cmd[c].st \in {"pending", "wire"}
                              THEN Completed(cmd[c], "aborted") ELSE cmd[c]]
    BY DEF Stop
  <2> QED BY <1>4, <1>5, <2>1
<1>8. Steps
  <2> SUFFICES ASSUME NEW e \in Ids PROVE CmdStep(cmd[e], cmd'[e])
    BY DEF Steps
  <2>1. CASE Live(cmd[e])
    <3>1. cmd'[e].req = cmd[e].req /\ cmd'[e].st = "done" /\ cmd'[e].result = "aborted"
      BY <1>3, <1>5, <2>1
    <3>2. "aborted" \in Results \ {"unreachable", "broadcast", "none"}
      BY DEF Results
    <3> QED BY <2>1, <3>1, <3>2 DEF CmdStep, Live
  <2>2. CASE ~Live(cmd[e])
    BY <1>3, <2>2 DEF CmdStep
  <2> QED BY <2>1, <2>2
<1>9. /\ queue' \in Queues
      /\ \A l \in Links : queue'[l].inflight = 0 /\ Len(queue'[l].pending) = 0
  <2>1. <<>> \in Seq(Ids) /\ Len(<<>>) = 0
    OBVIOUS
  <2>2. queue' = [l \in Links |-> [inflight |-> 0, pending |-> <<>>]]
    BY DEF Stop
  <2> QED BY <2>1, <2>2 DEF Queues
<1>10. /\ overflowUID' \in [UIDs \cup {Broadcast} -> Ids \cup {0}]
       /\ \A x \in UIDs \cup {Broadcast} : overflowUID'[x] = 0
  BY DEF Stop
<1>11. Agree(cmd, queue, overflowUID)'
  <2>1. QueueOK(cmd', queue')
    <3>1. \A l \in Links : 1..Len(queue'[l].pending) = {}
      BY <1>9
    <3> QED BY <1>6, <1>9, <3>1 DEF QueueOK, SlotOK, OwnSlot, WaitsOK, Queued, LineOK, Live
  <2>2. HoldOK(cmd', overflowUID') /\ OrderOK(cmd')
    BY <1>6, <1>10 DEF HoldOK, OrderOK, Live
  <2> QED BY <1>6, <2>1, <2>2 DEF Agree, QueueOK, HoldOK, OrderOK
<1>12. /\ health' \in [Devices -> Health]
       /\ \A d \in Devices : ~health'[d].probeTimer
  <2>1. health' = [d \in Devices |-> [health[d] EXCEPT !.probeTimer = FALSE]]
    BY DEF Stop
  <2>2. health \in [Devices -> Health]
    BY <1>1 DEF OthersType
  <2>3. \A d \in Devices : [health[d] EXCEPT !.probeTimer = FALSE] \in Health
    BY <2>2, SmallStepTypes
  <2>4. \A d \in Devices : ~[health[d] EXCEPT !.probeTimer = FALSE].probeTimer
    BY <2>2 DEF Health
  <2> QED BY <2>1, <2>3, <2>4
<1>13. inflightByTN' \in [Numbers -> Ids \cup {0}]
  <2>1. inflightByTN \in [Numbers -> Ids \cup {0}]
    BY <1>1 DEF OthersType
  <2> QED BY <2>1 DEF Stop, Numbers
<1>14. OthersType'
  BY <1>1, <1>2, <1>12, <1>13 DEF OthersType, network
<1>15. drains' \in [Devices -> Passes0] /\ DrainOK(cmd, drains, stopped)'
  <2>1. NoDrain \in Passes0 /\ NoDrain.cmd = 0 /\ ~NoDrain.on
    BY ControllerAssumption DEF NoDrain, Passes0
  <2>2. drains' = [d \in Devices |-> NoDrain]
    BY DEF Stop
  <2>3. drains' \in [Devices -> Passes0]
        /\ \A d \in Devices : ~drains'[d].on /\ drains'[d].cmd = 0
    BY <2>1, <2>2
  <2> QED BY <2>3 DEF DrainOK, PassOK
<1>16. (\A e \in Ids : cmd[e].st = "unused" <=> e > nextID)'
  BY <1>1, <1>2, <1>6
<1>17. (stopped => /\ \A e \in Ids : ~Live(cmd[e])
                   /\ \A d \in Devices : ~health[d].probeTimer)'
  BY <1>6, <1>12 DEF Live
<1> QED BY <1>7, <1>8, <1>9, <1>10, <1>11, <1>14, <1>15, <1>16, <1>17 DEF ControllerInv

-----------------------------------------------------------------------------
(* HandleRDMResponse.                                                      *)

LEMMA ReceivedOK ==
  ASSUME NEW c, NEW r, Handled(c, r), NEW t, NEW pid \in PIDs
  PROVE  LET q == Received(r, t, pid)
         IN /\ Handled(c, q) /\ q.overflow = r.overflow /\ q.collecting = r.collecting
            /\ q.collectOrphans = r.collectOrphans /\ q.proxyRefusals = r.proxyRefusals
            /\ q.blocks = r.blocks
<1> DEFINE a == IF ~r.answerPIDSet /\ t # "ackTimer" THEN pid ELSE r.answerPID
           b == r.answerPIDSet \/ t # "ackTimer"
           q == [r EXCEPT !.heard = TRUE, !.answerPID = a, !.answerPIDSet = b]
<1>1. r \in Command
  BY DEF Handled
<1>2. q = Received(r, t, pid)
  BY DEF Received
<1>3. a \in PIDs /\ b \in BOOLEAN
  BY <1>1 DEF Command
<1> HIDE DEF a, b
<1>4. /\ q \in Command /\ q.st = r.st /\ q.req = r.req /\ q.result = r.result
      /\ q.overflow = r.overflow /\ q.collecting = r.collecting
      /\ q.collectOrphans = r.collectOrphans /\ q.proxyRefusals = r.proxyRefusals
      /\ q.blocks = r.blocks
  BY <1>1, <1>3 DEF Command
<1> HIDE DEF q
<1> QED BY <1>2, <1>4 DEF Handled

LEMMA WithBlockOK ==
  ASSUME NEW c, NEW r, Handled(c, r), NEW k \in OnAir, NEW pid \in PIDs
  PROVE  LET q == WithBlock(r, k, pid)
         IN /\ Handled(c, q) /\ q.overflow = r.overflow /\ q.collecting = r.collecting
            /\ q.collectOrphans = r.collectOrphans
<1> DEFINE b == Append(r.blocks, [tn |-> k.tn, pid |-> pid])
           q == [r EXCEPT !.blocks = b]
<1>1. r \in Command
  BY DEF Handled
<1>2. q = WithBlock(r, k, pid)
  BY DEF WithBlock
<1>3. b \in Seq([tn : Numbers, pid : PIDs])
  <2>1. r.blocks \in Seq([tn : Numbers, pid : PIDs])
    BY <1>1 DEF Command, Numbers
  <2>2. [tn |-> k.tn, pid |-> pid] \in [tn : Numbers, pid : PIDs]
    BY DEF OnAir
  <2> QED BY <2>1, <2>2, AppendProperties
<1> HIDE DEF b
<1>4. /\ q \in Command /\ q.st = r.st /\ q.req = r.req /\ q.result = r.result
      /\ q.overflow = r.overflow /\ q.collecting = r.collecting
      /\ q.collectOrphans = r.collectOrphans
  BY <1>1, <1>3 DEF Command, Numbers
<1> HIDE DEF q
<1> QED BY <1>2, <1>4 DEF Handled

LEMMA HandledCloses ==
  ASSUME NEW c, NEW r, Handled(c, r)
  PROVE  Closes(c, r)
BY CommandEndable DEF Handled, Closes

\* The command that a response is matched with.
Answers(k, c) ==
  /\ c \in Ids /\ inflightByTN[k.tn] = c /\ k \in OnAir
  /\ cmd[c].st = "wire" /\ Handled(c, cmd[c])
  /\ cmd[c].collecting => cmd[c].collectOrphans < MaxAckTimerCollect
  /\ health \in [Devices -> Health]

LEMMA MatchesOK ==
  ASSUME ControllerInv, NEW k \in sent, Matches(k)
  PROVE  Answers(k, inflightByTN[k.tn])
<1> DEFINE c == inflightByTN[k.tn]
<1>1. k \in OnAir /\ inflightByTN \in [Numbers -> Ids \cup {0}] /\ health \in [Devices -> Health]
  BY DEF ControllerInv, OthersType
<1>2. c \in Ids /\ cmd[c].st = "wire"
  BY <1>1 DEF OnAir, Matches
<1> HIDE DEF c
<1>3. cmd[c] \in Command /\ CmdOK(cmd[c])
  BY <1>2 DEF ControllerInv, Agree
<1> QED BY <1>1, <1>2, <1>3 DEF Answers, Handled, CmdOK, c

LEMMA RespondWrongPIDKeeps ==
  ASSUME ControllerInv, NEW k, NEW c, Answers(k, c), NEW pid \in PIDs,
         RespondWrongPID(k, pid), Rest
  PROVE  ControllerInv' /\ Steps
<1> DEFINE r == [cmd[c] EXCEPT !.heard = TRUE]
<1>1. r \in Command /\ r.req = cmd[c].req
  BY DEF Answers, Handled, Command
<1>2. Finish(c, r, "aborted", overflowUID, health, FALSE)
  BY DEF RespondWrongPID, Answers
<1>3. "aborted" \in Results \ {"none", "unreachable", "broadcast"}
  BY DEF Results
<1> HIDE DEF r
<1>4. Closes(c, r)
  BY <1>1, CommandEndable DEF Closes
<1> QED BY <1>2, <1>3, <1>4, FinishHere DEF Answers

LEMMA RespondAckKeeps ==
  ASSUME ControllerInv, NEW k, NEW c, Answers(k, c), NEW pid \in PIDs, NEW empty,
         RespondAck(k, pid, empty), Rest
  PROVE  ControllerInv' /\ Steps
<1> DEFINE r == Received(cmd[c], "ack", pid)
           b == WithBlock(r, k, pid)
<1>1. Handled(c, r)
  BY ReceivedOK DEF Answers
<1>2. Finish(c, b, "ack", overflowUID, health, empty)
  BY DEF RespondAck, Answers
<1> HIDE DEF r
<1>3. Handled(c, b)
  BY <1>1, WithBlockOK DEF Answers
<1> HIDE DEF b
<1>4. Closes(c, b) /\ "ack" \in Results \ {"none", "unreachable", "broadcast"}
  BY <1>3, HandledCloses DEF Results
<1> QED BY <1>2, <1>4, FinishHere DEF Answers

LEMMA RespondCollectAckKeeps ==
  ASSUME ControllerInv, NEW k, NEW c, Answers(k, c), NEW pid \in PIDs, NEW empty,
         RespondCollectAck(k, pid, empty), Rest
  PROVE  ControllerInv' /\ Steps
<1> DEFINE r0 == Received(cmd[c], "ack", pid)
           r  == WithBlock(r0, k, pid)
           o  == [r EXCEPT !.collectOrphans = @ + 1]
           he == ModeLearned(c, "queued")
<1>1. Handled(c, r0) /\ r0.collecting = cmd[c].collecting
      /\ r0.collectOrphans = cmd[c].collectOrphans
  BY ReceivedOK DEF Answers
<1>2. Fits(cmd[c], "ack", pid) /\ r.collecting
      /\ \/ Finish(c, [r EXCEPT !.collecting = FALSE], "ack", overflowUID, he, FALSE)
         \/ AbandonCollect(c, r, he)
         \/ o.collectOrphans >= MaxAckTimerCollect /\ AbandonCollect(c, o, he)
         \/ ~(o.collectOrphans >= MaxAckTimerCollect) /\ BeginCollect(c, o) /\ health' = he
  BY DEF RespondCollectAck, Answers
<1> HIDE DEF r0
<1>3. /\ Handled(c, r) /\ r.collecting = cmd[c].collecting
      /\ r.collectOrphans = cmd[c].collectOrphans
  BY <1>1, WithBlockOK DEF Answers
<1> HIDE DEF r
<1>4. r.collectOrphans \in Nat /\ r.collectOrphans < MaxAckTimerCollect
  BY <1>2, <1>3 DEF Answers, Handled, Command
<1>5. /\ Handled(c, o) /\ o.collectOrphans = r.collectOrphans + 1
  <2> DEFINE i == r.collectOrphans + 1
  <2>1. i \in 0..MaxAckTimerCollect
    BY <1>4, ControllerAssumption
  <2>2. o = [r EXCEPT !.collectOrphans = i]
    OBVIOUS
  <2> HIDE DEF i
  <2>3. /\ o \in Command /\ o.collectOrphans = i /\ o.st = r.st /\ o.req = r.req
        /\ o.result = r.result
    BY <1>3, <2>1, <2>2 DEF Handled, Command
  <2> HIDE DEF o
  <2> QED BY <1>3, <2>3 DEF Handled, i
<1>6. he \in [Devices -> Health]
  BY ModeLearnedType DEF CollectModes, Answers
<1> HIDE DEF he
<1>7. CASE Finish(c, [r EXCEPT !.collecting = FALSE], "ack", overflowUID, he, FALSE)
  <2> DEFINE q == [r EXCEPT !.collecting = FALSE]
  <2>1. q \in Command /\ q.req = r.req
    BY <1>3 DEF Handled, Command
  <2>2. Finish(c, q, "ack", overflowUID, he, FALSE)
    BY <1>7
  <2> HIDE DEF q
  <2>3. Closes(c, q) /\ "ack" \in Results \ {"none", "unreachable", "broadcast"}
    BY <1>3, <2>1, CommandEndable DEF Closes, Results, Handled
  <2> QED BY <1>6, <2>2, <2>3, FinishHere DEF Answers
<1>8. CASE AbandonCollect(c, r, he)
  BY <1>3, <1>6, <1>8, AbandonCollectKeeps DEF Answers
<1> HIDE DEF o
<1>9. CASE AbandonCollect(c, o, he)
  BY <1>5, <1>6, <1>9, AbandonCollectKeeps DEF Answers
<1>10. CASE ~(o.collectOrphans >= MaxAckTimerCollect) /\ BeginCollect(c, o) /\ health' = he
  <2>1. o.collectOrphans < MaxAckTimerCollect
    BY <1>4, <1>5, <1>10, ControllerAssumption
  <2>2. health' \in [Devices -> Health]
    BY <1>6, <1>10
  <2> QED BY <1>5, <1>10, <2>1, <2>2, BeginCollectKeeps DEF Answers
<1> QED BY <1>2, <1>7, <1>8, <1>9, <1>10

LEMMA RespondCollectNackKeeps ==
  ASSUME ControllerInv, NEW k, NEW c, Answers(k, c), NEW pid \in PIDs, NEW t,
         RespondCollectNack(k, t, pid), Rest
  PROVE  ControllerInv' /\ Steps
<1> DEFINE r  == Received(cmd[c], t, pid)
           he == IF t = "unknownPID" THEN ModeLearned(c, "reissue") ELSE health
<1>1. Handled(c, r)
  BY ReceivedOK DEF Answers
<1>2. AbandonCollect(c, r, he)
  BY DEF RespondCollectNack, Answers
<1>3. he \in [Devices -> Health]
  BY ModeLearnedType DEF CollectModes, Answers
<1> HIDE DEF r, he
<1> QED BY <1>1, <1>2, <1>3, AbandonCollectKeeps DEF Answers

LEMMA RespondNackKeeps ==
  ASSUME ControllerInv, NEW k, NEW c, Answers(k, c), NEW pid \in PIDs, NEW t,
         RespondNack(k, t, pid), Rest
  PROVE  ControllerInv' /\ Steps
<1> DEFINE r == Received(cmd[c], t, pid)
<1>1. Handled(c, r)
  BY ReceivedOK DEF Answers
<1>2. Finish(c, r, "nack", overflowUID, health, FALSE)
  BY DEF RespondNack, Answers
<1> HIDE DEF r
<1>3. Closes(c, r) /\ "nack" \in Results \ {"none", "unreachable", "broadcast"}
  BY <1>1, HandledCloses DEF Results
<1> QED BY <1>2, <1>3, FinishHere DEF Answers

LEMMA RespondUnknownKeeps ==
  ASSUME ControllerInv, NEW k, NEW c, Answers(k, c), NEW pid \in PIDs,
         RespondUnknown(k, pid), Rest
  PROVE  ControllerInv' /\ Steps
<1> DEFINE r == Received(cmd[c], "unknown", pid)
<1>1. Handled(c, r)
  BY ReceivedOK DEF Answers
<1>2. Finish(c, r, "aborted", overflowUID, health, FALSE)
  BY DEF RespondUnknown, Answers
<1> HIDE DEF r
<1>3. Closes(c, r) /\ "aborted" \in Results \ {"none", "unreachable", "broadcast"}
  BY <1>1, HandledCloses DEF Results
<1> QED BY <1>2, <1>3, FinishHere DEF Answers

\* A handler that makes its command wait, under the same number or none.
LEMMA WaitKeeps ==
  ASSUME ControllerInv, NEW c \in Ids, cmd[c].st = "wire", NEW r, Handled(c, r),
         r.overflow = cmd[c].overflow,
         r.collecting => r.collectOrphans < MaxAckTimerCollect,
         NEW kind \in Timers \ {"none"},
         cmd' = [cmd EXCEPT ![c] = TimerSet(r, kind)],
         inflightByTN' \in [Numbers -> Ids \cup {0}],
         UNCHANGED <<queue, tn, overflowUID, breakers, drains, sent>>, Rest
  PROVE  ControllerInv' /\ Steps
<1> DEFINE t == TimerSet(r, kind)
<1>1. /\ t \in Command /\ t.timer = kind /\ t.st = "wire" /\ t.result = "none"
      /\ t.req = cmd[c].req /\ t.overflow = r.overflow /\ t.collecting = r.collecting
      /\ t.collectOrphans = r.collectOrphans
  BY TimerSetOK DEF Handled
<1>2. CmdOK(cmd[c])
  BY DEF ControllerInv, Agree
<1>3. cmd[c].req.uid # Broadcast /\ cmd[c].result = "none"
  BY <1>2 DEF CmdOK
<1>4. cmd' = [cmd EXCEPT ![c] = t]
  OBVIOUS
<1> HIDE DEF t
<1>5. CmdOK(t)
  <2>1. Wakes(t)
    BY <1>1 DEF Wakes
  <2>2. t.req.uid # Broadcast
    BY <1>1, <1>3
  <2>3. t.collecting => t.collectOrphans < MaxAckTimerCollect
    BY <1>1
  <2> QED BY <1>1, <2>1, <2>2, <2>3 DEF CmdOK
<1>6. t.st = cmd[c].st /\ t.result = cmd[c].result /\ (cmd[c].overflow => t.overflow)
  BY <1>1, <1>3
<1> QED BY <1>1, <1>4, <1>5, <1>6, LocalKeeps

LEMMA RespondAckTimerKeeps ==
  ASSUME ControllerInv, NEW k, NEW c, Answers(k, c), NEW pid \in PIDs, NEW cut,
         RespondAckTimer(k, pid, cut), Rest
  PROVE  ControllerInv' /\ Steps
<1> DEFINE r0 == Received(cmd[c], "ackTimer", pid)
           r  == [r0 EXCEPT !.ackTimers = TRUE]
<1>1. /\ Handled(c, r0) /\ r0.overflow = cmd[c].overflow
      /\ r0.collecting = cmd[c].collecting
      /\ r0.collectOrphans = cmd[c].collectOrphans
  BY ReceivedOK DEF Answers
<1>2. \/ Finish(c, r, "deadline", overflowUID, health, FALSE)
      \/ /\ cmd' = [cmd EXCEPT ![c] = TimerSet(r, "ackTimer")]
         /\ UNCHANGED <<queue, inflightByTN, tn, overflowUID, breakers, drains, sent>>
  BY DEF RespondAckTimer, Answers
<1> HIDE DEF r0
<1>3. /\ r \in Command /\ r.st = r0.st /\ r.req = r0.req /\ r.result = r0.result
      /\ r.overflow = r0.overflow /\ r.collecting = r0.collecting
      /\ r.collectOrphans = r0.collectOrphans
  BY <1>1 DEF Handled, Command
<1> HIDE DEF r
<1>4. Handled(c, r)
  BY <1>1, <1>3 DEF Handled
<1>5. CASE Finish(c, r, "deadline", overflowUID, health, FALSE)
  <2>1. Closes(c, r) /\ "deadline" \in Results \ {"none", "unreachable", "broadcast"}
    BY <1>4, HandledCloses DEF Results
  <2> QED BY <1>5, <2>1, FinishHere DEF Answers
<1>6. CASE /\ cmd' = [cmd EXCEPT ![c] = TimerSet(r, "ackTimer")]
           /\ UNCHANGED <<queue, inflightByTN, tn, overflowUID, breakers, drains, sent>>
  <2>1. "ackTimer" \in Timers \ {"none"} /\ inflightByTN' \in [Numbers -> Ids \cup {0}]
    BY <1>6 DEF Timers, ControllerInv, OthersType
  <2>2. r.overflow = cmd[c].overflow
    BY <1>1, <1>3
  <2>3. r.collecting => r.collectOrphans < MaxAckTimerCollect
    BY <1>1, <1>3 DEF Answers
  <2> QED BY <1>4, <1>6, <2>1, <2>2, <2>3, WaitKeeps DEF Answers
<1> QED BY <1>2, <1>5, <1>6

LEMMA RespondFullKeeps ==
  ASSUME ControllerInv, NEW k, NEW c, Answers(k, c), NEW pid \in PIDs, NEW cut,
         RespondFull(k, pid, cut), Rest
  PROVE  ControllerInv' /\ Steps
<1> DEFINE r0 == Received(cmd[c], "full", pid)
           r  == [r0 EXCEPT !.proxyRefusals = @ + 1]
<1>1. /\ Handled(c, r0) /\ r0.overflow = cmd[c].overflow
      /\ r0.collecting = cmd[c].collecting
      /\ r0.collectOrphans = cmd[c].collectOrphans
  BY ReceivedOK DEF Answers
<1>2. /\ ~r.collecting
      /\ IF r.proxyRefusals > ProxyBackoffAttempts \/ cut
         THEN Finish(c, r, "full", overflowUID, health, FALSE)
         ELSE /\ cmd' = [cmd EXCEPT ![c] = TimerSet(r, "backoff")]
              /\ inflightByTN' = TNReleased(c)
              /\ UNCHANGED <<queue, tn, overflowUID, breakers, drains, sent>>
  BY DEF RespondFull, Answers
<1> HIDE DEF r0
<1>3. /\ r0 \in Command /\ Endable(r0)
  BY <1>1, CommandEndable DEF Handled
<1>4. /\ r.st = r0.st /\ r.req = r0.req /\ r.result = r0.result
      /\ r.overflow = r0.overflow /\ r.collecting = r0.collecting
      /\ r.collectOrphans = r0.collectOrphans /\ r.blocks = r0.blocks
      /\ r.late = r0.late /\ r.proxyRefusals = r0.proxyRefusals + 1
  BY <1>3 DEF Command
<1>5. CASE Finish(c, r, "full", overflowUID, health, FALSE)
  <2> HIDE DEF r
  <2>1. Closes(c, r) /\ "full" \in Results \ {"none", "unreachable", "broadcast"}
    BY <1>1, <1>3, <1>4 DEF Closes, Endable, Handled, Results
  <2> QED BY <1>5, <2>1, FinishHere DEF Answers
<1>6. CASE /\ ~(r.proxyRefusals > ProxyBackoffAttempts)
           /\ cmd' = [cmd EXCEPT ![c] = TimerSet(r, "backoff")]
           /\ inflightByTN' = TNReleased(c)
           /\ UNCHANGED <<queue, tn, overflowUID, breakers, drains, sent>>
  <2>1. r \in Command
    <3> DEFINE i == r0.proxyRefusals + 1
    <3>1. i \in 0..ProxyBackoffAttempts
      <4>1. r0.proxyRefusals \in Nat
        BY <1>3 DEF Command
      <4> QED BY <1>4, <1>6, <4>1, ControllerAssumption
    <3>2. r = [r0 EXCEPT !.proxyRefusals = i]
      OBVIOUS
    <3> HIDE DEF i
    <3> QED BY <1>3, <3>1, <3>2 DEF Command
  <2> HIDE DEF r
  <2>2. Handled(c, r)
    BY <1>1, <1>4, <2>1 DEF Handled
  <2>3. r.overflow = cmd[c].overflow /\ ~r.collecting
    BY <1>1, <1>2, <1>4
  <2>4. "backoff" \in Timers \ {"none"}
    BY DEF Timers
  <2>5. inflightByTN' \in [Numbers -> Ids \cup {0}]
    BY <1>6 DEF TNReleased, ControllerInv, OthersType
  <2> QED BY <1>6, <2>2, <2>3, <2>4, <2>5, WaitKeeps DEF Answers
<1> HIDE DEF r
<1> QED BY <1>2, <1>5, <1>6

LEMMA RespondOverflowKeeps ==
  ASSUME ControllerInv, NEW k, NEW c, Answers(k, c), NEW pid \in PIDs, NEW cut,
         RespondOverflow(k, pid, cut), Rest
  PROVE  ControllerInv' /\ Steps
<1> DEFINE r0 == Received(cmd[c], "overflow", pid)
           r1 == WithBlock(r0, k, pid)
           r  == [r1 EXCEPT !.overflow = TRUE]
           u  == cmd[c].req.uid
           hold == IF cmd[c].overflow THEN overflowUID ELSE [overflowUID EXCEPT ![u] = c]
<1>1. /\ Handled(c, r0) /\ r0.collecting = cmd[c].collecting
      /\ r0.collectOrphans = cmd[c].collectOrphans
  BY ReceivedOK DEF Answers
<1>2. \/ Finish(c, r, "deadline", hold, health, FALSE)
      \/ Issue(c, r, hold) /\ UNCHANGED health
  BY DEF RespondOverflow, Answers
<1> HIDE DEF r0
<1>3. /\ Handled(c, r1) /\ r1.collecting = cmd[c].collecting
      /\ r1.collectOrphans = cmd[c].collectOrphans
  BY <1>1, WithBlockOK DEF Answers
<1> HIDE DEF r1
<1>4. /\ r \in Command /\ r.st = r1.st /\ r.req = r1.req /\ r.result = r1.result
      /\ r.overflow = TRUE /\ r.collecting = r1.collecting
      /\ r.collectOrphans = r1.collectOrphans
  BY <1>3 DEF Handled, Command
<1> HIDE DEF r
<1>5. Handled(c, r) /\ r.req.uid = u
  BY <1>3, <1>4 DEF Handled
<1>6. /\ hold \in [UIDs \cup {Broadcast} -> Ids \cup {0}]
      /\ \A x \in UIDs \cup {Broadcast} : hold[x] = overflowUID[x] \/ (hold[x] = c /\ x = u)
      /\ \A x \in UIDs \cup {Broadcast} : overflowUID[x] = c => x = u
  <2>1. /\ overflowUID \in [UIDs \cup {Broadcast} -> Ids \cup {0}] /\ c \in Ids
        /\ cmd[c] \in Command
    BY DEF ControllerInv, Answers, Handled
  <2>2. \A x \in UIDs \cup {Broadcast} : overflowUID[x] = c => x = u
    BY <2>1, ControllerAssumption DEF ControllerInv, Agree, HoldOK, Ids
  <2>3. u \in UIDs \cup {Broadcast}
    BY <2>1, RequestType
  <2> HIDE DEF u
  <2> QED BY <2>1, <2>2, <2>3
<1> HIDE DEF hold
<1>7. CASE Finish(c, r, "deadline", hold, health, FALSE)
  <2>1. Closes(c, r) /\ "deadline" \in Results \ {"none", "unreachable", "broadcast"}
    BY <1>5, HandledCloses DEF Results
  <2>2. \A x \in UIDs \cup {Broadcast} :
          hold[x] \in {0, overflowUID[x]} \/ (hold[x] = c /\ x = r.req.uid)
    BY <1>5, <1>6
  <2> QED BY <1>6, <1>7, <2>1, <2>2, FinishKeeps DEF Answers
<1>8. CASE Issue(c, r, hold) /\ UNCHANGED health
  <2>1. \A x \in UIDs \cup {Broadcast} :
          \/ hold[x] = 0
          \/ hold[x] = overflowUID[x] /\ overflowUID[x] # c
          \/ hold[x] = c /\ x = r.req.uid /\ r.overflow
    BY <1>4, <1>5, <1>6
  <2>2. r.collecting => r.collectOrphans < MaxAckTimerCollect
    BY <1>3, <1>4 DEF Answers
  <2>3. health' \in [Devices -> Health]
    BY <1>8 DEF Answers
  <2> QED BY <1>5, <1>6, <1>8, <2>1, <2>2, <2>3, IssueKeeps DEF Answers
<1> QED BY <1>2, <1>7, <1>8

LEMMA ResponseKeeps ==
  ASSUME ControllerInv, NEW k \in sent, HandleRDMResponse(k)
  PROVE  ControllerInv' /\ Steps
<1> DEFINE c == inflightByTN[k.tn]
<1>1. Answers(k, c)
  BY MatchesOK DEF HandleRDMResponse
<1>2. Rest
  <2>1. replies \in 0..MaxReplies /\ replies < MaxReplies /\ replies' = replies + 1
    BY DEF HandleRDMResponse, ControllerInv, OthersType
  <2>2. replies' \in 0..MaxReplies
    BY <2>1, ControllerAssumption
  <2> QED BY <2>2 DEF HandleRDMResponse, Rest
<1>3. PICK pid \in PIDs :
       \/ RespondWrongPID(k, pid)
       \/ \E empty \in {FALSE, pid = StatusMessages} :
            RespondAck(k, pid, empty) \/ RespondCollectAck(k, pid, empty)
       \/ \E cut \in BOOLEAN :
            \/ RespondAckTimer(k, pid, cut)
            \/ RespondFull(k, pid, cut)
            \/ RespondOverflow(k, pid, cut)
       \/ \E t \in {"nack", "unknownPID", "full"} :
            RespondNack(k, t, pid) \/ RespondCollectNack(k, t, pid)
       \/ RespondUnknown(k, pid)
  BY DEF HandleRDMResponse
<1> HIDE DEF c
<1>4. CASE RespondWrongPID(k, pid)
  BY <1>1, <1>2, <1>3, <1>4, RespondWrongPIDKeeps
<1>5. ASSUME NEW empty \in {FALSE, pid = StatusMessages}, RespondAck(k, pid, empty)
      PROVE  ControllerInv' /\ Steps
  BY <1>1, <1>2, <1>3, <1>5, RespondAckKeeps
<1>6. ASSUME NEW empty \in {FALSE, pid = StatusMessages}, RespondCollectAck(k, pid, empty)
      PROVE  ControllerInv' /\ Steps
  BY <1>1, <1>2, <1>3, <1>6, RespondCollectAckKeeps
<1>7. ASSUME NEW cut \in BOOLEAN, RespondAckTimer(k, pid, cut)
      PROVE  ControllerInv' /\ Steps
  BY <1>1, <1>2, <1>3, <1>7, RespondAckTimerKeeps
<1>8. ASSUME NEW cut \in BOOLEAN, RespondFull(k, pid, cut)
      PROVE  ControllerInv' /\ Steps
  BY <1>1, <1>2, <1>3, <1>8, RespondFullKeeps
<1>9. ASSUME NEW cut \in BOOLEAN, RespondOverflow(k, pid, cut)
      PROVE  ControllerInv' /\ Steps
  BY <1>1, <1>2, <1>3, <1>9, RespondOverflowKeeps
<1>10. ASSUME NEW t \in {"nack", "unknownPID", "full"}, RespondNack(k, t, pid)
       PROVE  ControllerInv' /\ Steps
  BY <1>1, <1>2, <1>3, <1>10, RespondNackKeeps
<1>11. ASSUME NEW t \in {"nack", "unknownPID", "full"}, RespondCollectNack(k, t, pid)
       PROVE  ControllerInv' /\ Steps
  BY <1>1, <1>2, <1>3, <1>11, RespondCollectNackKeeps
<1>12. CASE RespondUnknown(k, pid)
  BY <1>1, <1>2, <1>3, <1>12, RespondUnknownKeeps
<1> QED BY <1>3, <1>4, <1>5, <1>6, <1>7, <1>8, <1>9, <1>10, <1>11, <1>12

-----------------------------------------------------------------------------
(* The specification.                                                      *)

LEMMA InitInv == Init => ControllerInv
<1> SUFFICES ASSUME Init PROVE ControllerInv
  OBVIOUS
<1>1. 0 \in 0..MaxCmds /\ 0 \in Numbers /\ 0 \in 0..MaxReplies
  BY ControllerAssumption DEF Numbers
<1>2. CmdOK(Unsubmitted) /\ Unsubmitted \in Command /\ Unsubmitted.st = "unused"
  <2> DEFINE req == [link |-> CHOOSE l \in Links : TRUE, uid |-> Broadcast,
                     class |-> "get", pid |-> QueuedMessage]
             n == NewCommand(req)
  <2>1. req \in Request
    <3>1. (CHOOSE l \in Links : TRUE) \in Links
      BY ControllerAssumption
    <3> QED BY <3>1, ControllerAssumption DEF Request
  <2>2. Unsubmitted = [n EXCEPT !.st = "unused"]
    BY DEF Unsubmitted
  <2>3. CmdOK(n) /\ n \in Command /\ n.st = "pending" /\ ~n.collecting
        /\ n.result = "none"
    <3> HIDE DEF req
    <3> QED BY <2>1, NewCommandOK DEF CmdOK, NewCommand
  <2> HIDE DEF n
  <2>4. n.timer = "none" /\ ~n.deadline /\ n.late = {} /\ ~n.overflow
    BY <2>3 DEF CmdOK
  <2>5. /\ Unsubmitted \in Command /\ Unsubmitted.st = "unused"
        /\ Unsubmitted.timer = n.timer /\ Unsubmitted.deadline = n.deadline
        /\ Unsubmitted.late = n.late /\ Unsubmitted.overflow = n.overflow
        /\ Unsubmitted.collecting = n.collecting /\ Unsubmitted.result = n.result
    BY <2>2, <2>3 DEF Command
  <2> QED BY <2>3, <2>4, <2>5 DEF CmdOK
<1>3. \A c \in Ids : cmd[c] = Unsubmitted
  BY DEF Init
<1>4. cmd \in [Ids -> Command]
  BY <1>2 DEF Init
<1>5. /\ queue \in Queues
      /\ \A l \in Links : queue[l].inflight = 0 /\ 1..Len(queue[l].pending) = {}
  <2>1. <<>> \in Seq(Ids) /\ Len(<<>>) = 0
    OBVIOUS
  <2> QED BY <2>1 DEF Init, Queues
<1>6. /\ overflowUID \in [UIDs \cup {Broadcast} -> Ids \cup {0}]
      /\ \A x \in UIDs \cup {Broadcast} : overflowUID[x] = 0
  BY DEF Init
<1>7. /\ drains \in [Devices -> Passes0] /\ DrainOK(cmd, drains, stopped)
  <2>1. NoDrain \in Passes0 /\ NoDrain.cmd = 0 /\ ~NoDrain.on
    BY ControllerAssumption DEF NoDrain, Passes0
  <2>2. drains = [d \in Devices |-> NoDrain]
    BY DEF Init
  <2> QED BY <2>1, <2>2 DEF DrainOK, PassOK
<1>8. OthersType
  <2>1. health \in [Devices -> Health]
    BY NoHealthType DEF Init
  <2>2. links \in [Links -> [answers : Nat, last : UIDs \cup {Broadcast}]]
    BY DEF Init
  <2>3. inflightByTN \in [Numbers -> Ids \cup {0}]
    BY DEF Init, Numbers
  <2> QED BY <1>1, <2>1, <2>2, <2>3 DEF Init, OthersType
<1>9. Agree(cmd, queue, overflowUID)
  <2>1. \A c \in Ids : CmdOK(cmd[c]) /\ cmd[c].st = "unused"
    BY <1>2, <1>3
  <2>2. QueueOK(cmd, queue)
    BY <1>5, <2>1 DEF QueueOK, SlotOK, OwnSlot, WaitsOK, Queued, LineOK
  <2>3. HoldOK(cmd, overflowUID) /\ OrderOK(cmd)
    BY <1>6, <2>1 DEF HoldOK, OrderOK
  <2> QED BY <2>1, <2>2, <2>3 DEF Agree
<1>10. \A c \in Ids : cmd[c].st = "unused" <=> c > nextID
  BY <1>2, <1>3 DEF Init, Ids
<1>11. ~stopped
  BY DEF Init
<1> QED BY <1>4, <1>5, <1>6, <1>7, <1>8, <1>9, <1>10, <1>11 DEF ControllerInv

LEMMA NextKeeps ==
  ASSUME ControllerInv, [Next]_vars
  PROVE  ControllerInv' /\ Steps
<1>1. ASSUME NEW req \in Workload, Submit(req) PROVE ControllerInv' /\ Steps
  BY <1>1, SubmitActionKeeps
<1>2. CASE Stop
  BY <1>2, StopKeeps
<1>3. ASSUME NEW c \in Ids, TimerFires(c) PROVE ControllerInv' /\ Steps
  BY <1>3, TimerFiresKeeps
<1>4. ASSUME NEW c \in Ids, DeadlineFires(c) PROVE ControllerInv' /\ Steps
  BY <1>4, DeadlineFiresKeeps
<1>5. ASSUME NEW c \in Ids, Callbacks(c) PROVE ControllerInv' /\ Steps
  BY <1>5, OnResponseTimeoutKeeps, OnDeadlineKeeps, OnAckTimerElapsedKeeps,
     OnProxyBackoffElapsedKeeps, StaleCallbackKeeps DEF Callbacks
<1>6. ASSUME NEW k \in sent, HandleRDMResponse(k) PROVE ControllerInv' /\ Steps
  BY <1>6, ResponseKeeps
<1>7. ASSUME NEW d \in Links \X UIDs, DrainQueuedMessages(d) PROVE ControllerInv' /\ Steps
  BY <1>7, DrainQueuedMessagesKeeps
<1>8. ASSUME NEW d \in Links \X UIDs, DrainStep(d) PROVE ControllerInv' /\ Steps
  BY <1>8, DrainStepKeeps
<1>9. ASSUME NEW d \in Links \X UIDs, CooldownElapses(d) PROVE ControllerInv' /\ Steps
  BY <1>9, CooldownElapsesKeeps
<1>10. ASSUME NEW d \in Links \X UIDs, NEW listed \in BOOLEAN, SilenceProbeDue(d, listed)
       PROVE  ControllerInv' /\ Steps
  BY <1>10, SilenceProbeDueKeeps
<1>11. CASE UNCHANGED vars
  BY <1>11, QuiescentKeeps
<1> QED BY <1>1, <1>2, <1>3, <1>4, <1>5, <1>6, <1>7, <1>8, <1>9, <1>10, <1>11 DEF Next, Quiescent

LEMMA ControllerInvHolds == Spec => []ControllerInv
<1>1. ControllerInv /\ [Next]_vars => ControllerInv'
  BY NextKeeps
<1> QED BY InitInv, <1>1, PTL DEF Spec

LEMMA TypeFollows == ControllerInv => TypeOK
BY DEF ControllerInv, OthersType, TypeOK, Queues, Numbers, OnAir, Passes0

LEMMA QueuesFollow == ControllerInv => QueuesConsistent
<1> SUFFICES ASSUME ControllerInv, NEW l \in Links
             PROVE  LET p == queue[l].pending
                        here == {c \in Ids : cmd[c].req.link = l}
                    IN /\ {c \in here : cmd[c].st = "wire"} = {queue[l].inflight} \ {0}
                       /\ {c \in here : cmd[c].st = "pending"} = {p[i] : i \in DOMAIN p}
                       /\ \A i, j \in DOMAIN p : p[i] = p[j] => i = j
  BY DEF QueuesConsistent
<1> DEFINE p == queue[l].pending
           f == queue[l].inflight
           here == {c \in Ids : cmd[c].req.link = l}
<1>1. /\ QueueOK(cmd, queue) /\ f \in Ids \cup {0} /\ p \in Seq(Ids) /\ Len(p) \in Nat
      /\ DOMAIN p = 1..Len(p) /\ \A i \in 1..Len(p) : p[i] \in Ids
  <2>1. queue \in Queues /\ QueueOK(cmd, queue)
    BY DEF ControllerInv, Agree
  <2>2. /\ f \in Ids \cup {0} /\ p \in Seq(Ids) /\ Len(p) \in Nat
        /\ \A i \in 1..Len(p) : p[i] \in Ids
    BY <2>1, QueueType
  <2> HIDE DEF p, f
  <2> QED BY <2>1, <2>2
<1>2. {c \in here : cmd[c].st = "wire"} = {f} \ {0}
  <2>1. f # 0 => f \in Ids /\ cmd[f].st = "wire" /\ cmd[f].req.link = l
    BY <1>1 DEF QueueOK, SlotOK
  <2>2. \A c \in here : cmd[c].st = "wire" => f = c
    BY <1>1 DEF QueueOK, OwnSlot
  <2>3. 0 \notin Ids
    BY ControllerAssumption DEF Ids
  <2> HIDE DEF f
  <2> QED BY <2>1, <2>2, <2>3
<1>3. {c \in here : cmd[c].st = "pending"} = {p[i] : i \in 1..Len(p)}
  <2>1. \A i \in 1..Len(p) : cmd[p[i]].st = "pending" /\ cmd[p[i]].req.link = l
    BY <1>1 DEF QueueOK, WaitsOK
  <2>2. \A c \in here : cmd[c].st = "pending" => \E i \in 1..Len(p) : p[i] = c
    BY <1>1 DEF QueueOK, Queued
  <2> HIDE DEF p
  <2> QED BY <1>1, <2>1, <2>2
<1>4. \A i, j \in 1..Len(p) : p[i] = p[j] => i = j
  <2>1. \A i, j \in 1..Len(p) : i < j => p[i] # p[j]
    BY <1>1 DEF QueueOK, LineOK
  <2> HIDE DEF p
  <2> QED BY <1>1, <2>1
<1> HIDE DEF p, f
<1> QED BY <1>1, <1>2, <1>3, <1>4 DEF p, f

LEMMA HoldsFollow == ControllerInv => HoldOwnerReassembles
BY DEF ControllerInv, Agree, HoldOK, HoldOwnerReassembles

LEMMA WakesFollow == ControllerInv => WireCommandWakes
BY DEF ControllerInv, Agree, CmdOK, Wakes, Callback, OnWire, WireCommandWakes

LEMMA DrainsFollow == ControllerInv => DrainGoesOn
<1> SUFFICES ASSUME ControllerInv, NEW d \in Devices, drains[d].on
             PROVE  \/ drains[d].cmd = 0 /\ ~stopped
                    \/ drains[d].cmd # 0 /\ cmd[drains[d].cmd].st \in {"pending", "wire"}
  BY DEF DrainGoesOn
<1>1. PassOK(cmd, d, drains[d], stopped)
  BY DEF ControllerInv, DrainOK
<1> QED BY <1>1 DEF PassOK, Live

\* Every variable has its type, whatever the ports, responders and requests.
THEOREM TypeCorrect == Spec => []TypeOK
BY ControllerInvHolds, TypeFollows, PTL

\* A port's slot holds its one command on the wire and every pending command
\* waits exactly once in its own queue, so no slot leaks.
THEOREM QueuesStayConsistent == Spec => []QueuesConsistent
BY ControllerInvHolds, QueuesFollow, PTL

\* Whoever holds a UID for an overflow is alive, on the wire to that UID and
\* still reassembling.
THEOREM HoldOwnersLive == Spec => []HoldOwnerReassembles
BY ControllerInvHolds, HoldsFollow, PTL

\* A command on the wire always has a timer running or a callback waiting.
THEOREM WireCommandsWake == Spec => []WireCommandWakes
BY ControllerInvHolds, WakesFollow, PTL

\* A drain pass that is on has a step scheduled or a command yet to end.
THEOREM DrainsGoOn == Spec => []DrainGoesOn
BY ControllerInvHolds, DrainsFollow, PTL

\* Every handler, pump included, is a step of CommandService: commands move
\* forward only, end once, keep their order, one per port on the wire.
THEOREM ServiceImplemented == Spec => ImplementsService
<1>1. Init => Service!Init
  <2> SUFFICES ASSUME Init PROVE Service!Init
    OBVIOUS
  <2>1. \A c \in Ids : cmd[c] = Unsubmitted
    BY DEF Init
  <2>2. Unsubmitted.st = "unused" /\ Unsubmitted.result = "none"
    BY DEF Unsubmitted, NewCommand
  <2> QED BY <2>1, <2>2 DEF Service!Init
<1>2. ASSUME ControllerInv, [Next]_vars
      PROVE  [Service!Next]_(Service!vars)
  <2>1. ControllerInv' /\ Steps
    BY <1>2, NextKeeps
  <2>2. \A c \in Ids : CmdStep(cmd[c], cmd'[c])
    BY <2>1 DEF Steps
  <2>3. \A c \in Ids :
          /\ \/ Service!Stays(c) \/ Service!Accepted(c) \/ Service!Begun(c)
             \/ Service!EndedUnsent(c) \/ Service!Ended(c)
          /\ cmd[c].st # "unused" => Dev(cmd'[c].req) = Dev(cmd[c].req)
    <3> SUFFICES ASSUME NEW c \in Ids
                 PROVE  /\ \/ Service!Stays(c) \/ Service!Accepted(c) \/ Service!Begun(c)
                           \/ Service!EndedUnsent(c) \/ Service!Ended(c)
                        /\ cmd[c].st # "unused" => Dev(cmd'[c].req) = Dev(cmd[c].req)
      OBVIOUS
    <3>1. CmdStep(cmd[c], cmd'[c])
      BY <2>2
    <3>2. \/ Service!Stays(c) \/ Service!Accepted(c) \/ Service!Begun(c)
          \/ Service!EndedUnsent(c) \/ Service!Ended(c)
      BY <3>1 DEF CmdStep, Service!Stays, Service!Accepted, Service!Begun,
                  Service!EndedUnsent, Service!Ended, Service!Unsent, Service!InFlight
    <3> QED BY <3>1, <3>2 DEF CmdStep
  <2>4. Service!OnePerPort'
    <3> SUFFICES ASSUME NEW c \in Ids, NEW e \in Ids,
                        cmd'[c].st = "wire", cmd'[e].st = "wire",
                        Dev(cmd'[c].req)[1] = Dev(cmd'[e].req)[1]
                 PROVE  c = e
      BY DEF Service!OnePerPort
    <3>1. QueueOK(cmd, queue)'
      BY <2>1 DEF ControllerInv, Agree
    <3>2. cmd'[c].req.link = cmd'[e].req.link
      BY DEF Dev
    <3> QED BY <3>1, <3>2 DEF QueueOK, OwnSlot
  <2>5. Service!InOrder'
    BY <2>1 DEF ControllerInv, Agree, OrderOK, Service!InOrder
  <2>6. Service!Next
    BY <2>3, <2>4, <2>5 DEF Service!Next
  <2> QED BY <2>6
<1> QED BY <1>1, <1>2, ControllerInvHolds, PTL DEF Spec, ImplementsService, Service!Spec

----------------------------------------------------------------------------
(***************************************************************************)
(* Transaction numbers: when a command on the wire is registered under its *)
(* number, and whose data an acknowledged command returns.                 *)
(*                                                                         *)
(* Both depend on the numbers, of which there are finitely many: the       *)
(* theorems say it of every behaviour in which the next numbers are not in *)
(* use (NumbersFresh), respectively do not wrap (NumbersLast).             *)
(***************************************************************************)

\* The next transactions, one for each command not yet sent and one more, get
\* numbers that no command on the wire has.
NumbersFresh ==
  /\ Cardinality(Unsent(cmd)) < TNs
  /\ \A c \in OnWire : \A k \in 0..Cardinality(Unsent(cmd)) :
       cmd[c].tn # (tn + k) % TNs

\* The next transactions, so many, have larger numbers than those before.
NumbersLast == tn + Cardinality(Unsent(cmd)) + 1 < TNs

BacksOff(r) == r.timer = "backoff" \/ <<"backoff", TRUE>> \in r.late

\* At most one callback will still do something, and then no timer runs.
OneWake(r) ==
  \A k \in Callback :
    <<k, TRUE>> \in r.late =>
      r.timer = "none" /\ \A m \in Callback : <<m, TRUE>> \in r.late => m = k

\* The registrations and the commands agree.
ByOK(cm, by) ==
  \A t \in Numbers : by[t] # 0 => cm[by[t]].st = "wire" /\ cm[by[t]].tn = t
WireOK(r, found) == OneWake(r) /\ (BacksOff(r) <=> ~found)
RegOK(cm, by) ==
  /\ ByOK(cm, by)
  /\ \A c \in Ids : cm[c].st = "wire" => WireOK(cm[c], by[cm[c].tn] = c)

Increasing(b) == \A i, j \in 1..Len(b) : i < j => b[i].tn < b[j].tn
Below(b, n)   == \A i \in 1..Len(b) : b[i].tn < n

\* All blocks have the parameter that is pinned.
Pinned(r) ==
  /\ \A i \in 1..Len(r.blocks) : r.answerPIDSet /\ r.blocks[i].pid = r.answerPID
  /\ ~r.collecting /\ r.req.pid # QueuedMessage => r.answerPID = r.req.pid

Own(r) ==
  /\ Increasing(r.blocks)
  /\ \A i, j \in 1..Len(r.blocks) : r.blocks[i].pid = r.blocks[j].pid
  /\ \A i \in 1..Len(r.blocks) :
       r.blocks[i].pid = r.req.pid \/ r.req.pid = QueuedMessage

\* A command whose next transaction has the number n.
Ready(r, n) == Pinned(r) /\ Increasing(r.blocks) /\ Below(r.blocks, n)

AnsOK(r, n) ==
  /\ r.st = "pending" => r.blocks = <<>> /\ r.answerPID = r.req.pid /\ ~r.collecting
  /\ r.st = "wire" => Ready(r, r.tn) /\ r.tn < n
  /\ r.result = "ack" => Own(r)

RegInv == RegOK(cmd, inflightByTN)
AnsInv == \A c \in Ids : AnsOK(cmd[c], tn)

\* What every handler keeps, as long as there are numbers.
Kept == RegInv' /\ (AnsInv /\ NumbersLast => AnsInv')

-----------------------------------------------------------------------------
(* The operators on one command.                                           *)

LEMMA SupersededSleeps ==
  ASSUME NEW late, NEW k \in Callback
  PROVE  <<k, TRUE>> \notin Superseded(late)
<1> SUFFICES ASSUME NEW x \in late, <<k, TRUE>> = <<x[1], x[1] = "deadline">> PROVE FALSE
  BY DEF Superseded
<1>1. k = x[1] /\ (x[1] = "deadline")
  OBVIOUS
<1> QED BY <1>1 DEF Callback

\* A command whose timer was set has no callback waiting.
LEMMA TimerSetWakes ==
  ASSUME NEW r \in Command, NEW kind \in Timers \ {"none"}
  PROVE  LET t == TimerSet(r, kind)
         IN /\ OneWake(t) /\ (BacksOff(t) <=> kind = "backoff")
            /\ t.tn = r.tn /\ t.st = r.st /\ t.blocks = r.blocks /\ t.req = r.req
            /\ t.answerPID = r.answerPID /\ t.answerPIDSet = r.answerPIDSet
            /\ t.collecting = r.collecting /\ t.result = r.result
            /\ t.attempt = r.attempt
<1> DEFINE s == Superseded(r.late)
           t == [r EXCEPT !.timer = kind, !.late = s]
<1>1. \A k \in Callback : <<k, TRUE>> \notin s
  BY SupersededSleeps
<1>2. TimerSet(r, kind) = t
  BY DEF TimerSet
<1> HIDE DEF s
<1>3. /\ t.timer = kind /\ t.late = s
      /\ t.tn = r.tn /\ t.st = r.st /\ t.blocks = r.blocks /\ t.req = r.req
      /\ t.answerPID = r.answerPID /\ t.answerPIDSet = r.answerPIDSet
      /\ t.collecting = r.collecting /\ t.result = r.result /\ t.attempt = r.attempt
  BY DEF Command
<1> HIDE DEF t
<1>4. OneWake(t)
  BY <1>1, <1>3 DEF OneWake
<1>5. BacksOff(t) <=> kind = "backoff"
  BY <1>1, <1>3 DEF BacksOff, Callback
<1> QED BY <1>2, <1>3, <1>4, <1>5

\* A command that gets the number n.
LEMMA IssuedReady ==
  ASSUME NEW r \in Command, NEW n \in Numbers
  PROVE  LET i == Issued(r, n)
         IN /\ i.st = "wire" /\ i.tn = n /\ WireOK(i, TRUE)
            /\ i.result = r.result
            /\ \A m \in Nat : Ready(r, n) /\ n < m /\ r.result # "ack" => AnsOK(i, m)
<1> DEFINE t == TimerSet(r, "response")
           e == (r.st = "pending") \/ t.deadline
           i == [t EXCEPT !.st = "wire", !.tn = n, !.attempt = 0, !.deadline = e]
<1>0. "response" \in Timers \ {"none"}
  BY DEF Timers
<1>1. /\ OneWake(t) /\ ~BacksOff(t) /\ t.blocks = r.blocks /\ t.req = r.req
      /\ t.answerPID = r.answerPID /\ t.answerPIDSet = r.answerPIDSet
      /\ t.collecting = r.collecting /\ t.result = r.result
  BY <1>0, TimerSetWakes
<1>2. t \in Command
  BY <1>0, TimerSetOK
<1>3. Issued(r, n) = i
  BY DEF Issued
<1> HIDE DEF t, e
<1>4. /\ i.st = "wire" /\ i.tn = n /\ i.timer = t.timer /\ i.late = t.late
      /\ i.blocks = t.blocks /\ i.req = t.req
      /\ i.answerPID = t.answerPID /\ i.answerPIDSet = t.answerPIDSet
      /\ i.collecting = t.collecting /\ i.result = t.result
  BY <1>2 DEF Command
<1> HIDE DEF i
<1>5. WireOK(i, TRUE)
  BY <1>1, <1>4 DEF WireOK, OneWake, BacksOff
<1>6. /\ i.blocks = r.blocks /\ i.req = r.req /\ i.answerPID = r.answerPID
      /\ i.answerPIDSet = r.answerPIDSet /\ i.collecting = r.collecting
      /\ i.result = r.result
  BY <1>1, <1>4
<1>7. ASSUME NEW m \in Nat, Ready(r, n), n < m, r.result # "ack" PROVE AnsOK(i, m)
  <2>1. Ready(i, n)
    <3>1. Pinned(i)
      BY <1>6, <1>7 DEF Ready, Pinned
    <3> QED BY <1>6, <1>7, <3>1 DEF Ready
  <2> QED BY <1>4, <1>6, <1>7, <2>1 DEF AnsOK
<1> QED BY <1>3, <1>4, <1>5, <1>6, <1>7

LEMMA CompletedOwn ==
  ASSUME NEW r, Endable(r), NEW kind \in Results \ {"none"}
  PROVE  LET d == Completed(r, kind)
         IN /\ d.st = "done"
            /\ \A n \in Nat : (kind = "ack" => Own(r)) => AnsOK(d, n)
<1> DEFINE b == IF kind = "ack" THEN r.blocks ELSE <<>>
           d == [NewCommand(r.req) EXCEPT !.st = "done", !.result = kind, !.blocks = b,
                                          !.late = Superseded(r.late)]
<1>1. Completed(r, kind) = d
  BY DEF Completed
<1>2. d.st = "done" /\ d.result = kind /\ d.blocks = b /\ d.req = r.req
  BY DEF NewCommand
<1> HIDE DEF d
<1>3. ASSUME NEW n \in Nat, kind = "ack" => Own(r) PROVE AnsOK(d, n)
  <2>1. d.result = "ack" => Own(d)
    BY <1>2, <1>3 DEF Own
  <2> QED BY <1>2, <2>1 DEF AnsOK
<1> QED BY <1>1, <1>2, <1>3

\* A new command has no data yet.
LEMMA NewReady ==
  ASSUME NEW req \in Request, NEW n \in Nat
  PROVE  AnsOK(NewCommand(req), n)
BY DEF AnsOK, NewCommand

LEMMA PendingReady ==
  ASSUME NEW r \in Command, NEW n, NEW m, AnsOK(r, n), r.st = "pending"
  PROVE  Ready(r, m)
<1>1. r.blocks = <<>> /\ r.answerPID = r.req.pid
  BY DEF AnsOK
<1>2. Len(<<>>) = 0 /\ 1..0 = {}
  OBVIOUS
<1> QED BY <1>1, <1>2 DEF Ready, Pinned, Increasing, Below

-----------------------------------------------------------------------------
(* The handlers' last steps.                                               *)

\* No command on the wire has a number that the pump may give.
FreshFor(cm) ==
  /\ Cardinality(Unsent(cm)) =< TNs
  /\ \A c \in Ids : \A t \in Numbers : cm[c].st = "wire" /\ Upcoming(cm, t) => cm[c].tn # t

\* A command's transaction number, and the numbers the variables hold.
LEMMA NumberTypes ==
  ASSUME ControllerInv
  PROVE  /\ tn \in Numbers /\ TNs \in Nat \ {0} /\ Numbers \subseteq Nat
         /\ cmd \in [Ids -> Command]
         /\ inflightByTN \in [Numbers -> Ids \cup {0}]
         /\ \A c \in Ids : cmd[c] \in Command /\ CmdOK(cmd[c]) /\ cmd[c].tn \in Numbers
<1>1. TNs \in Nat \ {0} /\ Numbers \subseteq Nat
  BY ControllerAssumption DEF Numbers
<1>2. tn \in Numbers /\ inflightByTN \in [Numbers -> Ids \cup {0}]
  BY DEF ControllerInv, OthersType
<1>3. cmd \in [Ids -> Command]
  BY DEF ControllerInv
<1>4. \A c \in Ids : CmdOK(cmd[c])
  BY DEF ControllerInv, Agree
<1>5. \A r \in Command : r.tn \in Numbers
  BY DEF Command, Numbers
<1> HIDE DEF Command
<1> QED BY <1>1, <1>2, <1>3, <1>4, <1>5

LEMMA UnsentCounts ==
  ASSUME NEW cm
  PROVE  IsFiniteSet(Unsent(cm)) /\ Cardinality(Unsent(cm)) \in Nat
<1>1. IsFiniteSet(Ids)
  BY ControllerAssumption, FS_Interval DEF Ids
<1>2. Unsent(cm) \subseteq Ids
  BY DEF Unsent
<1>3. IsFiniteSet(Unsent(cm))
  BY <1>1, <1>2, FS_Subset
<1> QED BY <1>3, FS_CardinalityType

\* The numbers stay fresh when one more command waits and none is new on the
\* wire.
LEMMA StaysFresh ==
  ASSUME ControllerInv, NumbersFresh, NEW cm \in [Ids -> Command], NEW n \in Ids,
         \A c \in Ids : cm[c].st = "wire" => cmd[c].st = "wire" /\ cmd[c].tn = cm[c].tn,
         Unsent(cm) \subseteq Unsent(cmd) \cup {n}
  PROVE  /\ FreshFor(cm)
         /\ NumbersLast => tn + Cardinality(Unsent(cm)) < TNs
<1> DEFINE a == Cardinality(Unsent(cmd))
           b == Cardinality(Unsent(cm))
<1>1. a \in Nat /\ b \in Nat /\ IsFiniteSet(Unsent(cmd))
  BY UnsentCounts
<1>2. b =< a + 1
  <2>1. /\ IsFiniteSet(Unsent(cmd) \cup {n})
        /\ Cardinality(Unsent(cmd) \cup {n}) =
             IF n \in Unsent(cmd) THEN Cardinality(Unsent(cmd)) ELSE Cardinality(Unsent(cmd)) + 1
    BY <1>1, FS_AddElement
  <2>2. Cardinality(Unsent(cm)) =< Cardinality(Unsent(cmd) \cup {n})
    BY <2>1, FS_Subset
  <2>3. Cardinality(Unsent(cmd) \cup {n}) \in {a, a + 1}
    BY <2>1
  <2> DEFINE u == Cardinality(Unsent(cmd) \cup {n})
  <2>4. b =< u /\ u \in {a, a + 1}
    BY <2>2, <2>3
  <2> HIDE DEF u, a, b
  <2> QED BY <1>1, <2>4
<1>3. a < TNs /\ tn \in Nat /\ TNs \in Nat
  BY NumberTypes DEF NumbersFresh
<1>4. ASSUME NEW c \in Ids, NEW t \in Numbers, cm[c].st = "wire", Upcoming(cm, t)
      PROVE  cm[c].tn # t
  <2>1. cmd[c].st = "wire" /\ cmd[c].tn = cm[c].tn
    BY <1>4
  <2>2. PICK k \in 0..(b - 1) : t = (tn + k) % TNs
    BY <1>4 DEF Upcoming
  <2>3. k \in 0..a
    <3> HIDE DEF a, b
    <3> QED BY <1>1, <1>2, <2>2
  <2>4. cmd[c].tn # (tn + k) % TNs
    BY <2>1, <2>3 DEF NumbersFresh, OnWire
  <2> QED BY <2>1, <2>2, <2>4
<1>5. NumbersLast => tn + b < TNs
  <2>1. NumbersLast <=> tn + a + 1 < TNs
    BY DEF NumbersLast
  <2> HIDE DEF a, b
  <2> QED BY <1>1, <1>2, <1>3, <2>1
<1>6. b =< TNs
  <2> HIDE DEF a, b
  <2> QED BY <1>1, <1>2, <1>3
<1> QED BY <1>4, <1>5, <1>6 DEF FreshFor

\* The pump, from numbers and registrations that a handler has left in order.
LEMMA PumpRegisters ==
  ASSUME ControllerInv, NEW cm \in [Ids -> Command], NEW by \in [Numbers -> Ids \cup {0}],
         FreshFor(cm), Numbered(cm, by), RegOK(cm, by), ControllerInv'
  PROVE  RegInv'
<1>1. NumbersGiven(cm, by) /\ cmd' \in [Ids -> Command]
      /\ inflightByTN' \in [Numbers -> Ids \cup {0}] /\ 0 \notin Ids
  BY DEF FreshFor, Numbered, ControllerInv, OthersType, Ids
<1>2. \A c \in Ids :
        \/ cmd'[c] = cm[c]
        \/ /\ cm[c].st = "pending"
           /\ \/ cmd'[c] \in {Completed(cm[c], "unreachable"), Completed(cm[c], "broadcast")}
              \/ \E t \in Numbers : /\ Upcoming(cm, t) /\ cmd'[c] = Issued(cm[c], t)
                                    /\ inflightByTN'[t] = c
  BY <1>1 DEF NumbersGiven
<1>3. \A t \in Numbers :
        \/ inflightByTN'[t] = by[t]
        \/ /\ Upcoming(cm, t)
           /\ \/ inflightByTN'[t] = 0
              \/ \E c \in Ids : /\ inflightByTN'[t] = c /\ cm[c].st = "pending"
                                /\ cmd'[c] = Issued(cm[c], t)
  BY <1>1 DEF NumbersGiven
<1>4. \A c \in Ids : cm[c].st = "wire" => cmd'[c] = cm[c]
  BY <1>2
<1>5. ByOK(cmd', inflightByTN')
  <2> SUFFICES ASSUME NEW t \in Numbers, inflightByTN'[t] # 0
               PROVE  cmd'[inflightByTN'[t]].st = "wire" /\ cmd'[inflightByTN'[t]].tn = t
    BY DEF ByOK
  <2>1. CASE inflightByTN'[t] = by[t]
    <3>1. by[t] \in Ids /\ cm[by[t]].st = "wire" /\ cm[by[t]].tn = t
      BY <2>1 DEF RegOK, ByOK
    <3> QED BY <1>4, <2>1, <3>1
  <2>2. CASE inflightByTN'[t] # by[t]
    <3>1. PICK c \in Ids : /\ inflightByTN'[t] = c /\ cm[c].st = "pending"
                           /\ cmd'[c] = Issued(cm[c], t)
      BY <1>3, <2>2
    <3>2. Issued(cm[c], t).st = "wire" /\ Issued(cm[c], t).tn = t
      BY IssuedReady
    <3> QED BY <3>1, <3>2
  <2> QED BY <2>1, <2>2
<1>6. ASSUME NEW c \in Ids, cmd'[c].st = "wire"
      PROVE  WireOK(cmd'[c], inflightByTN'[cmd'[c].tn] = c)
  <2>1. CASE cmd'[c] = cm[c]
    <3>1. cm[c].st = "wire" /\ cm[c].tn \in Numbers
      BY <1>6, <2>1 DEF Command, Numbers
    <3>2. ~Upcoming(cm, cm[c].tn)
      BY <3>1 DEF FreshFor
    <3>3. inflightByTN'[cm[c].tn] = by[cm[c].tn]
      BY <1>3, <3>1, <3>2
    <3>4. WireOK(cm[c], by[cm[c].tn] = c)
      BY <3>1 DEF RegOK
    <3> QED BY <2>1, <3>3, <3>4
  <2>2. CASE cmd'[c] \in {Completed(cm[c], "unreachable"), Completed(cm[c], "broadcast")}
    <3>1. Endable(cm[c]) /\ {"unreachable", "broadcast"} \subseteq Results \ {"none"}
      BY CommandEndable DEF Results
    <3>2. cmd'[c].st = "done"
      BY <2>2, <3>1, CompletedOwn
    <3> QED BY <1>6, <3>2
  <2>3. CASE \E t \in Numbers : /\ Upcoming(cm, t) /\ cmd'[c] = Issued(cm[c], t)
                                /\ inflightByTN'[t] = c
    <3>1. PICK t \in Numbers : cmd'[c] = Issued(cm[c], t) /\ inflightByTN'[t] = c
      BY <2>3
    <3>2. Issued(cm[c], t).tn = t /\ WireOK(Issued(cm[c], t), TRUE)
      BY <3>1, IssuedReady
    <3> QED BY <3>1, <3>2 DEF WireOK
  <2> QED BY <1>2, <2>1, <2>2, <2>3
<1> QED BY <1>5, <1>6 DEF RegInv, RegOK, ByOK

LEMMA PumpAnswers ==
  ASSUME ControllerInv, ControllerInv', NEW cm \in [Ids -> Command],
         NEW by \in [Numbers -> Ids \cup {0}],
         FreshFor(cm), Numbered(cm, by), tn + Cardinality(Unsent(cm)) < TNs,
         \A c \in Ids : AnsOK(cm[c], tn), \A c \in Ids : CmdOK(cm[c])
  PROVE  AnsInv'
<1> SUFFICES ASSUME NEW c \in Ids PROVE AnsOK(cmd'[c], tn')
  BY DEF AnsInv
<1>1. NumbersGiven(cm, by)
  BY DEF FreshFor, Numbered
<1>2. tn \in Nat /\ tn' \in Nat /\ tn =< tn'
  <2>1. tn \in Numbers /\ tn' \in Numbers /\ Numbers \subseteq Nat
    BY NumberTypes DEF ControllerInv, OthersType
  <2> QED BY <1>1, <2>1 DEF NumbersGiven
<1>3. /\ cm[c] \in Command /\ CmdOK(cm[c]) /\ AnsOK(cm[c], tn)
      /\ \/ cmd'[c] = cm[c]
         \/ /\ cm[c].st = "pending"
            /\ \/ cmd'[c] \in {Completed(cm[c], "unreachable"), Completed(cm[c], "broadcast")}
               \/ \E t \in Numbers : /\ Upcoming(cm, t) /\ cmd'[c] = Issued(cm[c], t)
                                     /\ inflightByTN'[t] = c
  BY <1>1 DEF NumbersGiven
<1>4. CASE cmd'[c] = cm[c]
  <2>1. cm[c].tn \in Nat
    BY <1>3, NumberTypes DEF Command, Numbers
  <2>2. cm[c].tn < tn => cm[c].tn < tn'
    BY <1>2, <2>1
  <2> QED BY <1>3, <1>4, <2>2 DEF AnsOK
<1>5. CASE cmd'[c] \in {Completed(cm[c], "unreachable"), Completed(cm[c], "broadcast")}
  <2>1. Endable(cm[c]) /\ {"unreachable", "broadcast"} \subseteq Results \ {"none"}
    BY CommandEndable DEF Results
  <2>2. PICK kind \in {"unreachable", "broadcast"} : cmd'[c] = Completed(cm[c], kind)
    BY <1>5
  <2> QED BY <1>2, <2>1, <2>2, CompletedOwn
<1>6. CASE /\ cm[c].st = "pending"
           /\ \E t \in Numbers : Upcoming(cm, t) /\ cmd'[c] = Issued(cm[c], t)
  <2>1. PICK t \in Numbers : Upcoming(cm, t) /\ cmd'[c] = Issued(cm[c], t)
    BY <1>6
  <2>2. t < tn'
    BY <2>1 DEF Upcoming
  <2>3. Ready(cm[c], t)
    BY <1>3, <1>6, PendingReady
  <2>4. cm[c].result # "ack"
    BY <1>3, <1>6 DEF CmdOK
  <2>5. \A m \in Nat :
          Ready(cm[c], t) /\ t < m /\ cm[c].result # "ack" => AnsOK(Issued(cm[c], t), m)
    BY <1>3, IssuedReady
  <2> QED BY <1>2, <2>1, <2>2, <2>3, <2>4, <2>5
<1> QED BY <1>3, <1>4, <1>5, <1>6

\* A handler that changes the record of one command.
LEMMA LocalNumbers ==
  ASSUME ControllerInv, RegInv, NEW c \in Ids, NEW r, cmd' = [cmd EXCEPT ![c] = r],
         tn' = tn, r.st = cmd[c].st, r.tn = cmd[c].tn,
         inflightByTN' \in [Numbers -> Ids \cup {0}],
         \A t \in Numbers :
           \/ inflightByTN'[t] = inflightByTN[t]
           \/ inflightByTN'[t] = 0 /\ inflightByTN[t] = c,
         cmd[c].st = "wire" => WireOK(r, inflightByTN'[r.tn] = c),
         AnsOK(cmd[c], tn) => AnsOK(r, tn)
  PROVE  Kept
<1>1. /\ cmd'[c] = r /\ \A e \in Ids : e # c => cmd'[e] = cmd[e]
      /\ \A e \in Ids : cmd'[e].st = cmd[e].st /\ cmd'[e].tn = cmd[e].tn
  BY NumberTypes
<1>2. RegOK(cmd, inflightByTN) /\ ByOK(cmd, inflightByTN)
  BY DEF RegInv, RegOK
<1>3. ByOK(cmd', inflightByTN')
  <2> SUFFICES ASSUME NEW t \in Numbers, inflightByTN'[t] # 0
               PROVE  cmd'[inflightByTN'[t]].st = "wire" /\ cmd'[inflightByTN'[t]].tn = t
    BY DEF ByOK
  <2>1. inflightByTN'[t] = inflightByTN[t] /\ inflightByTN[t] \in Ids
    BY NumberTypes
  <2>2. cmd[inflightByTN[t]].st = "wire" /\ cmd[inflightByTN[t]].tn = t
    BY <1>2, <2>1 DEF ByOK
  <2> QED BY <1>1, <2>1, <2>2
<1>4. ASSUME NEW e \in Ids, cmd'[e].st = "wire"
      PROVE  WireOK(cmd'[e], inflightByTN'[cmd'[e].tn] = e)
  <2>1. CASE e = c
    BY <1>1, <1>4, <2>1
  <2>2. CASE e # c
    <3>1. cmd[e].st = "wire" /\ cmd'[e] = cmd[e] /\ cmd[e].tn \in Numbers
      BY <1>1, <1>4, <2>2, NumberTypes
    <3>2. WireOK(cmd[e], inflightByTN[cmd[e].tn] = e)
      BY <1>2, <3>1 DEF RegOK
    <3>3. 0 \notin Ids
      BY DEF Ids
    <3>4. inflightByTN'[cmd[e].tn] = e <=> inflightByTN[cmd[e].tn] = e
      BY <2>2, <3>1, <3>3
    <3> QED BY <3>1, <3>2, <3>4 DEF WireOK
  <2> QED BY <2>1, <2>2
<1>5. RegInv'
  BY <1>3, <1>4 DEF RegInv, RegOK, ByOK
<1>6. AnsInv => AnsInv'
  BY <1>1 DEF AnsInv
<1> QED BY <1>5, <1>6 DEF Kept

\* A handler that issues a new transaction for its command.
LEMMA IssueNumbers ==
  ASSUME ControllerInv, RegInv, NumbersFresh, NEW c \in Ids, cmd[c].st = "wire",
         NEW r, Handled(c, r), NEW hold, Issue(c, r, hold),
         AnsInv => Ready(r, tn)
  PROVE  Kept
<1> DEFINE i == Issued(r, tn)
<1>1. tn \in Numbers /\ tn \in Nat /\ r \in Command /\ r.result = "none"
  BY NumberTypes DEF Handled
<1>2. /\ i.st = "wire" /\ i.tn = tn /\ WireOK(i, TRUE)
      /\ \A m \in Nat : Ready(r, tn) /\ tn < m => AnsOK(i, m)
  BY <1>1, IssuedReady
<1>3. cmd' = [cmd EXCEPT ![c] = i] /\ tn' = (tn + 1) % TNs
  BY DEF Issue
<1>4. inflightByTN' = [TNReleased(c) EXCEPT ![tn] = c]
  BY DEF Issue
<1> HIDE DEF i
<1>5. cmd'[c] = i /\ \A e \in Ids : e # c => cmd'[e] = cmd[e]
  BY <1>3, NumberTypes
<1>6. \A t \in Numbers :
        TNReleased(c)[t] = IF t = cmd[c].tn /\ inflightByTN[t] = c THEN 0 ELSE inflightByTN[t]
  BY NumberTypes DEF TNReleased
<1>7. \A t \in Numbers :
        inflightByTN'[t] = IF t = tn THEN c
                           ELSE IF t = cmd[c].tn /\ inflightByTN[t] = c THEN 0
                           ELSE inflightByTN[t]
  <2>1. TNReleased(c) \in [Numbers -> Ids \cup {0}]
    BY NumberTypes DEF TNReleased
  <2> QED BY <1>1, <1>4, <1>6, <2>1
<1>8. RegOK(cmd, inflightByTN) /\ ByOK(cmd, inflightByTN)
  BY DEF RegInv, RegOK
<1>9. \A e \in Ids : cmd[e].st = "wire" => cmd[e].tn # tn
  <2> SUFFICES ASSUME NEW e \in Ids, cmd[e].st = "wire" PROVE cmd[e].tn # tn
    OBVIOUS
  <2>1. 0 \in 0..Cardinality(Unsent(cmd))
    BY UnsentCounts
  <2>2. cmd[e].tn # (tn + 0) % TNs
    BY <2>1 DEF NumbersFresh, OnWire
  <2>3. (tn + 0) % TNs = tn
    BY NumberTypes, ModSmall DEF Numbers
  <2> QED BY <2>2, <2>3
<1>10. ByOK(cmd', inflightByTN')
  <2> SUFFICES ASSUME NEW t \in Numbers, inflightByTN'[t] # 0
               PROVE  cmd'[inflightByTN'[t]].st = "wire" /\ cmd'[inflightByTN'[t]].tn = t
    BY DEF ByOK
  <2>1. CASE t = tn
    BY <1>2, <1>5, <1>7, <2>1
  <2>2. CASE t # tn
    <3>1. inflightByTN'[t] = inflightByTN[t] /\ inflightByTN[t] \in Ids
          /\ ~(t = cmd[c].tn /\ inflightByTN[t] = c)
      BY <1>7, <2>2, NumberTypes
    <3>2. cmd[inflightByTN[t]].st = "wire" /\ cmd[inflightByTN[t]].tn = t
      BY <1>8, <3>1 DEF ByOK
    <3> QED BY <1>5, <3>1, <3>2
  <2> QED BY <2>1, <2>2
<1>11. ASSUME NEW e \in Ids, cmd'[e].st = "wire"
       PROVE  WireOK(cmd'[e], inflightByTN'[cmd'[e].tn] = e)
  <2>1. CASE e = c
    <3>1. cmd'[e] = i /\ inflightByTN'[i.tn] = c
      BY <1>1, <1>2, <1>5, <1>7, <2>1
    <3> QED BY <1>2, <2>1, <3>1 DEF WireOK
  <2>2. CASE e # c
    <3>1. cmd[e].st = "wire" /\ cmd'[e] = cmd[e] /\ cmd[e].tn \in Numbers /\ cmd[e].tn # tn
      BY <1>5, <1>9, <1>11, <2>2, NumberTypes
    <3>2. WireOK(cmd[e], inflightByTN[cmd[e].tn] = e)
      BY <1>8, <3>1 DEF RegOK
    <3>3. 0 \notin Ids
      BY DEF Ids
    <3>4. inflightByTN'[cmd[e].tn] = e <=> inflightByTN[cmd[e].tn] = e
      BY <1>7, <2>2, <3>1, <3>3
    <3> QED BY <3>1, <3>2, <3>4 DEF WireOK
  <2> QED BY <2>1, <2>2
<1>12. RegInv'
  BY <1>10, <1>11 DEF RegInv, RegOK, ByOK
<1>13. ASSUME AnsInv, NumbersLast PROVE AnsInv'
  <2> DEFINE a == Cardinality(Unsent(cmd))
  <2>1. a \in Nat /\ TNs \in Nat /\ tn + a + 1 < TNs
    BY <1>13, UnsentCounts, NumberTypes DEF NumbersLast
  <2> HIDE DEF a
  <2>2. tn + 1 < TNs /\ tn + 1 \in Nat
    BY <1>1, <2>1
  <2>3. (tn + 1) % TNs = tn + 1
    BY <2>1, <2>2, ModSmall
  <2>4. tn' = tn + 1 /\ tn < tn' /\ tn' \in Nat
    BY <1>1, <1>3, <2>3
  <2>5. AnsOK(i, tn')
    BY <1>2, <1>13, <2>4
  <2>6. \A e \in Ids : AnsOK(cmd[e], tn) => AnsOK(cmd[e], tn')
    <3> SUFFICES ASSUME NEW e \in Ids, AnsOK(cmd[e], tn) PROVE AnsOK(cmd[e], tn')
      OBVIOUS
    <3>1. cmd[e].tn \in Nat
      BY NumberTypes
    <3>2. cmd[e].tn < tn => cmd[e].tn < tn'
      BY <1>1, <2>4, <3>1
    <3> QED BY <3>2 DEF AnsOK
  <2> QED BY <1>5, <1>13, <2>5, <2>6 DEF AnsInv
<1> QED BY <1>12, <1>13 DEF Kept

\* A handler that ends its command.
LEMMA FinishNumbers ==
  ASSUME ControllerInv, ControllerInv', RegInv, NumbersFresh,
         NEW c \in Ids, cmd[c].st = "wire", NEW r, Endable(r),
         NEW kind \in Results \ {"none"},
         Numbered([cmd EXCEPT ![c] = Completed(r, kind)], TNReleased(c)),
         AnsInv => (kind = "ack" => Own(r))
  PROVE  Kept
<1> DEFINE d  == Completed(r, kind)
           cm == [cmd EXCEPT ![c] = d]
           by == TNReleased(c)
<1>1. /\ CmdOK(d) /\ d.st = "done"
      /\ \A n \in Nat : (kind = "ack" => Own(r)) => AnsOK(d, n)
  BY CompletedOK, CompletedOwn
<1>2. Numbered(cm, by)
  OBVIOUS
<1> HIDE DEF d
<1>3. d \in Command
  BY <1>1 DEF CmdOK
<1>4. cm \in [Ids -> Command] /\ cm[c] = d /\ \A e \in Ids : e # c => cm[e] = cmd[e]
  BY <1>3, NumberTypes
<1>5. /\ by \in [Numbers -> Ids \cup {0}]
      /\ \A t \in Numbers :
           by[t] = IF t = cmd[c].tn /\ inflightByTN[t] = c THEN 0 ELSE inflightByTN[t]
  BY NumberTypes DEF TNReleased
<1> HIDE DEF cm, by
<1>6. RegOK(cmd, inflightByTN) /\ ByOK(cmd, inflightByTN)
  BY DEF RegInv, RegOK
<1>7. ByOK(cm, by)
  <2> SUFFICES ASSUME NEW t \in Numbers, by[t] # 0
               PROVE  cm[by[t]].st = "wire" /\ cm[by[t]].tn = t
    BY DEF ByOK
  <2>1. by[t] = inflightByTN[t] /\ inflightByTN[t] \in Ids
        /\ ~(t = cmd[c].tn /\ inflightByTN[t] = c)
    BY <1>5
  <2>2. cmd[inflightByTN[t]].st = "wire" /\ cmd[inflightByTN[t]].tn = t
    BY <1>6, <2>1 DEF ByOK
  <2> QED BY <1>4, <2>1, <2>2
<1>8. ASSUME NEW e \in Ids, cm[e].st = "wire"
      PROVE  WireOK(cm[e], by[cm[e].tn] = e)
  <2>1. e # c /\ cm[e] = cmd[e] /\ cmd[e].st = "wire" /\ cmd[e].tn \in Numbers
    BY <1>1, <1>4, <1>8, NumberTypes
  <2>2. WireOK(cmd[e], inflightByTN[cmd[e].tn] = e)
    BY <1>6, <2>1 DEF RegOK
  <2>3. 0 \notin Ids
    BY DEF Ids
  <2>4. by[cmd[e].tn] = e <=> inflightByTN[cmd[e].tn] = e
    BY <1>5, <2>1, <2>3
  <2> QED BY <2>1, <2>2, <2>4 DEF WireOK
<1>9. RegOK(cm, by)
  BY <1>7, <1>8 DEF RegOK
<1>10. /\ \A e \in Ids : cm[e].st = "wire" => cmd[e].st = "wire" /\ cmd[e].tn = cm[e].tn
       /\ Unsent(cm) \subseteq Unsent(cmd) \cup {c}
  BY <1>1, <1>4 DEF Unsent
<1>11. /\ FreshFor(cm)
       /\ NumbersLast => tn + Cardinality(Unsent(cm)) < TNs
  BY <1>4, <1>10, StaysFresh
<1>12. RegInv'
  BY <1>2, <1>4, <1>5, <1>9, <1>11, PumpRegisters
<1>13. ASSUME AnsInv, NumbersLast PROVE AnsInv'
  <2>1. tn \in Nat
    BY NumberTypes
  <2>2. \A e \in Ids : AnsOK(cm[e], tn)
    BY <1>1, <1>4, <1>13, <2>1 DEF AnsInv
  <2>3. \A e \in Ids : CmdOK(cm[e])
    BY <1>1, <1>4, NumberTypes
  <2> QED BY <1>2, <1>4, <1>5, <1>11, <1>13, <2>2, <2>3, PumpAnswers
<1> QED BY <1>12, <1>13 DEF Kept

\* A handler that submits a command.
LEMMA AddNumbers ==
  ASSUME ControllerInv, ControllerInv', RegInv, NumbersFresh, NEW req \in Request,
         nextID < MaxCmds, NEW he \in [Devices -> Health],
         Pump([cmd EXCEPT ![nextID + 1] = NewCommand(req)],
              [queue EXCEPT ![req.link].pending = Append(@, nextID + 1)],
              inflightByTN, overflowUID, he)
  PROVE  Kept
<1> DEFINE n  == nextID + 1
           d  == NewCommand(req)
           cm == [cmd EXCEPT ![n] = d]
           qu == [queue EXCEPT ![req.link].pending = Append(@, n)]
           by == inflightByTN
<1>1. /\ OthersType /\ cmd \in [Ids -> Command] /\ queue \in Queues
      /\ overflowUID \in [UIDs \cup {Broadcast} -> Ids \cup {0}]
      /\ Agree(cmd, queue, overflowUID)
      /\ \A e \in Ids : cmd[e].st = "unused" <=> e > nextID
      /\ by \in [Numbers -> Ids \cup {0}]
  BY DEF ControllerInv, OthersType
<1>2. nextID \in Nat /\ n \in Ids /\ n > nextID
  BY <1>1, ControllerAssumption DEF OthersType, Ids
<1>3. Agree(cm, qu, overflowUID) /\ cm \in [Ids -> Command] /\ qu \in Queues
  BY <1>1, <1>2, SubmittedKept
<1>4. Numbered(cm, by)
  <2>1. Pump(cm, qu, by, overflowUID, he)
    OBVIOUS
  <2> HIDE DEF cm, qu, by
  <2> QED BY <1>1, <1>3, <2>1, PumpIsPumped
<1>5. /\ d.st = "pending" /\ CmdOK(d) /\ \A m \in Nat : AnsOK(d, m)
  BY NewCommandOK, NewReady
<1> HIDE DEF d, n
<1>6. /\ cm[n] = d /\ cmd[n].st = "unused"
      /\ \A e \in Ids : e # n => cm[e] = cmd[e]
  BY <1>1, <1>2
<1> HIDE DEF cm, qu
<1>7. RegOK(cmd, by) /\ ByOK(cmd, by)
  BY DEF RegInv, RegOK
<1>8. ByOK(cm, by)
  <2> SUFFICES ASSUME NEW t \in Numbers, by[t] # 0
               PROVE  cm[by[t]].st = "wire" /\ cm[by[t]].tn = t
    BY DEF ByOK
  <2>1. by[t] \in Ids /\ cmd[by[t]].st = "wire" /\ cmd[by[t]].tn = t
    BY <1>1, <1>7 DEF ByOK
  <2> HIDE DEF by
  <2> QED BY <1>6, <2>1
<1>9. ASSUME NEW e \in Ids, cm[e].st = "wire"
      PROVE  WireOK(cm[e], by[cm[e].tn] = e)
  <2>1. cm[e] = cmd[e] /\ cmd[e].st = "wire"
    BY <1>5, <1>6, <1>9
  <2> HIDE DEF by
  <2> QED BY <1>7, <2>1 DEF RegOK
<1>10. RegOK(cm, by)
  BY <1>8, <1>9 DEF RegOK
<1>11. /\ \A e \in Ids : cm[e].st = "wire" => cmd[e].st = "wire" /\ cmd[e].tn = cm[e].tn
       /\ Unsent(cm) \subseteq Unsent(cmd) \cup {n}
  BY <1>5, <1>6 DEF Unsent
<1>12. /\ FreshFor(cm)
       /\ NumbersLast => tn + Cardinality(Unsent(cm)) < TNs
  BY <1>2, <1>3, <1>11, StaysFresh
<1> HIDE DEF by
<1>13. RegInv'
  BY <1>1, <1>3, <1>4, <1>10, <1>12, PumpRegisters
<1>14. ASSUME AnsInv, NumbersLast PROVE AnsInv'
  <2>1. \A e \in Ids : AnsOK(cm[e], tn)
    BY <1>5, <1>6, <1>14, NumberTypes DEF AnsInv
  <2>2. \A e \in Ids : CmdOK(cm[e])
    BY <1>3 DEF Agree
  <2> QED BY <1>1, <1>3, <1>4, <1>12, <1>14, <2>1, <2>2, PumpAnswers
<1> QED BY <1>13, <1>14 DEF Kept

\* A handler that leaves commands and numbers alone.
LEMMA SameNumbers ==
  ASSUME RegInv, UNCHANGED <<cmd, inflightByTN, tn>>
  PROVE  Kept
BY DEF Kept, RegInv, RegOK, ByOK, AnsInv

-----------------------------------------------------------------------------
(* Timers.                                                                 *)

\* Two records that say the same of the data.
Alike(r, q) ==
  /\ q.blocks = r.blocks /\ q.req = r.req /\ q.collecting = r.collecting
  /\ q.answerPID = r.answerPID /\ q.answerPIDSet = r.answerPIDSet
Same(r, q) == Alike(r, q) /\ q.st = r.st /\ q.tn = r.tn /\ q.result = r.result

LEMMA AlikeReady ==
  ASSUME NEW r, NEW q, Alike(r, q), NEW n, Ready(r, n)
  PROVE  Ready(q, n)
BY DEF Alike, Ready, Pinned

LEMMA SameAns ==
  ASSUME NEW r, NEW q, Same(r, q), NEW n, AnsOK(r, n)
  PROVE  AnsOK(q, n)
<1>1. r.st = "wire" => Ready(q, q.tn) /\ q.tn < n
  BY AlikeReady DEF Same, AnsOK
<1> QED BY <1>1 DEF Same, Alike, AnsOK, Own

LEMMA BelowMore ==
  ASSUME NEW b \in Seq([tn : Numbers, pid : PIDs]), NEW n \in Nat, NEW m \in Nat, n =< m,
         Below(b, n)
  PROVE  Below(b, m)
<1> SUFFICES ASSUME NEW i \in 1..Len(b) PROVE b[i].tn < m
  BY DEF Below
<1>1. b[i] \in [tn : Numbers, pid : PIDs]
  BY ElementOfSeq
<1>2. b[i].tn \in Nat
  BY <1>1 DEF Numbers
<1> QED BY <1>2 DEF Below

\* What the invariant says of a command on the wire.
LEMMA WireFacts ==
  ASSUME ControllerInv, RegInv, NEW c \in Ids, cmd[c].st = "wire"
  PROVE  /\ WireOK(cmd[c], inflightByTN[cmd[c].tn] = c)
         /\ cmd[c] \in Command /\ CmdOK(cmd[c]) /\ cmd[c].tn \in Numbers
         /\ AnsInv => /\ Ready(cmd[c], cmd[c].tn) /\ Ready(cmd[c], tn)
                      /\ cmd[c].tn < tn
<1>1. WireOK(cmd[c], inflightByTN[cmd[c].tn] = c)
  BY DEF RegInv, RegOK
<1>2. /\ cmd[c] \in Command /\ CmdOK(cmd[c]) /\ cmd[c].tn \in Nat /\ tn \in Nat
      /\ cmd[c].tn \in Numbers
  BY NumberTypes
<1>3. ASSUME AnsInv
      PROVE  Ready(cmd[c], cmd[c].tn) /\ Ready(cmd[c], tn) /\ cmd[c].tn < tn
  <2>1. Ready(cmd[c], cmd[c].tn) /\ cmd[c].tn < tn
    BY <1>3 DEF AnsInv, AnsOK
  <2>2. cmd[c].blocks \in Seq([tn : Numbers, pid : PIDs])
    BY <1>2 DEF Command, Numbers
  <2>3. cmd[c].tn =< tn
    BY <1>2, <2>1
  <2>4. Below(cmd[c].blocks, cmd[c].tn)
    BY <2>1 DEF Ready
  <2>5. Below(cmd[c].blocks, tn)
    BY <1>2, <2>2, <2>3, <2>4, BelowMore
  <2> QED BY <2>1, <2>5 DEF Ready
<1> QED BY <1>1, <1>2, <1>3

LEMMA TimerFiresNumbers ==
  ASSUME ControllerInv, RegInv, NEW c \in Ids, TimerFires(c)
  PROVE  Kept
<1> DEFINE q == cmd[c]
           k == q.timer
           r == [q EXCEPT !.timer = "none", !.late = @ \cup {<<k, TRUE>>}]
<1>1. q \in Command /\ CmdOK(q) /\ cmd \in [Ids -> Command]
  BY NumberTypes
<1>2. cmd' = [cmd EXCEPT ![c] = r]
  <2>1. cmd' = [cmd EXCEPT ![c].timer = "none", ![c].late = @ \cup {<<cmd[c].timer, TRUE>>}]
    BY DEF TimerFires
  <2> QED BY <1>1, <2>1
<1>3. k # "none" /\ inflightByTN' = inflightByTN /\ tn' = tn
  BY DEF TimerFires
<1>4. q.st = "wire" /\ k \in Callback
  BY <1>1, <1>3 DEF CmdOK, Command, Timers, Callback
<1>5. WireOK(q, inflightByTN[q.tn] = c)
  BY <1>4, WireFacts
<1> HIDE DEF q
<1>6. r.timer = "none" /\ r.late = q.late \cup {<<k, TRUE>>} /\ Same(q, r)
  BY <1>1 DEF Command, Same, Alike
<1> HIDE DEF r
<1>7. \A m \in Callback : <<m, TRUE>> \notin q.late
  BY <1>3, <1>5 DEF WireOK, OneWake
<1>8. \A m \in Callback : <<m, TRUE>> \in r.late <=> m = k
  <2> HIDE DEF k
  <2> QED BY <1>4, <1>6, <1>7
<1>9. OneWake(r)
  BY <1>6, <1>8 DEF OneWake
<1>10. BacksOff(r) <=> BacksOff(q)
  <2>1. "backoff" \in Callback
    BY DEF Callback
  <2>2. BacksOff(r) <=> k = "backoff"
    BY <1>6, <1>8, <2>1 DEF BacksOff
  <2>3. BacksOff(q) <=> k = "backoff"
    BY <1>7, <2>1 DEF BacksOff
  <2> QED BY <2>2, <2>3
<1>11. WireOK(r, inflightByTN'[r.tn] = c)
  BY <1>3, <1>5, <1>6, <1>9, <1>10 DEF WireOK, Same
<1>12. AnsOK(q, tn) => AnsOK(r, tn)
  BY <1>6, SameAns
<1>13. r.st = q.st /\ r.tn = q.tn
  BY <1>6 DEF Same
<1>14. inflightByTN' \in [Numbers -> Ids \cup {0}]
  BY <1>3, NumberTypes
<1> QED BY <1>2, <1>3, <1>11, <1>12, <1>13, <1>14, LocalNumbers DEF q

LEMMA DeadlineFiresNumbers ==
  ASSUME ControllerInv, RegInv, NEW c \in Ids, DeadlineFires(c)
  PROVE  Kept
<1> DEFINE q == cmd[c]
           r == [q EXCEPT !.deadline = FALSE, !.late = @ \cup {<<"deadline", TRUE>>}]
<1>1. q \in Command /\ CmdOK(q) /\ cmd \in [Ids -> Command]
  BY NumberTypes
<1>2. cmd' = [cmd EXCEPT ![c] = r]
  <2>1. cmd' = [cmd EXCEPT ![c].deadline = FALSE, ![c].late = @ \cup {<<"deadline", TRUE>>}]
    BY DEF DeadlineFires
  <2> QED BY <1>1, <2>1
<1>3. inflightByTN' = inflightByTN /\ tn' = tn
  BY DEF DeadlineFires
<1>4. q.st = "wire" => WireOK(q, inflightByTN[q.tn] = c)
  BY WireFacts
<1> HIDE DEF q
<1>5. r.timer = q.timer /\ r.late = q.late \cup {<<"deadline", TRUE>>} /\ Same(q, r)
  BY <1>1 DEF Command, Same, Alike
<1> HIDE DEF r
<1>6. \A m \in Callback : <<m, TRUE>> \in r.late <=> <<m, TRUE>> \in q.late
  <2>1. \A m \in Callback : <<m, TRUE>> # <<"deadline", TRUE>>
    BY DEF Callback
  <2> QED BY <1>5, <2>1
<1>7. (OneWake(r) <=> OneWake(q)) /\ (BacksOff(r) <=> BacksOff(q))
  BY <1>5, <1>6 DEF OneWake, BacksOff, Callback
<1>8. r.st = q.st /\ r.tn = q.tn
  BY <1>5 DEF Same
<1>9. q.st = "wire" => WireOK(r, inflightByTN'[r.tn] = c)
  BY <1>3, <1>4, <1>7, <1>8 DEF WireOK
<1>10. AnsOK(q, tn) => AnsOK(r, tn)
  BY <1>5, SameAns
<1>11. inflightByTN' \in [Numbers -> Ids \cup {0}]
  BY <1>3, NumberTypes
<1> QED BY <1>2, <1>3, <1>8, <1>9, <1>10, <1>11, LocalNumbers DEF q

LEMMA StaleCallbackNumbers ==
  ASSUME ControllerInv, RegInv, NEW c \in Ids, StaleCallback(c)
  PROVE  Kept
<1> DEFINE q == cmd[c]
<1>1. PICK x \in cmd[c].late :
        /\ cmd[c].st = "done" \/ ~x[2]
        /\ cmd' = [cmd EXCEPT ![c].late = @ \ {x}]
        /\ UNCHANGED <<nextID, queue, inflightByTN, tn, overflowUID, breakers,
                       drains, stopped, network>>
  BY DEF StaleCallback
<1> DEFINE r == [q EXCEPT !.late = @ \ {x}]
<1>2. q \in Command /\ cmd \in [Ids -> Command]
  BY NumberTypes
<1>3. cmd' = [cmd EXCEPT ![c] = r] /\ (q.st = "done" \/ ~x[2])
  BY <1>1, <1>2
<1>4. inflightByTN' = inflightByTN /\ tn' = tn
  BY <1>1
<1>5. q.st = "wire" => WireOK(q, inflightByTN[q.tn] = c)
  BY WireFacts
<1> HIDE DEF q
<1>6. r.timer = q.timer /\ r.late = q.late \ {x} /\ Same(q, r)
  BY <1>2 DEF Command, Same, Alike
<1> HIDE DEF r
<1>7. ASSUME ~x[2]
      PROVE  \A m \in Callback : <<m, TRUE>> \in r.late <=> <<m, TRUE>> \in q.late
  <2>1. \A m \in Callback : <<m, TRUE>> # x
    <3> SUFFICES ASSUME NEW m \in Callback, <<m, TRUE>> = x PROVE FALSE
      OBVIOUS
    <3>1. <<m, TRUE>>[2] = TRUE
      OBVIOUS
    <3>2. x[2] = TRUE
      BY <3>1
    <3> QED BY <1>7, <3>2
  <2> QED BY <1>6, <2>1
<1>8. r.st = q.st /\ r.tn = q.tn
  BY <1>6 DEF Same
<1>9. q.st = "wire" => WireOK(r, inflightByTN'[r.tn] = c)
  <2> SUFFICES ASSUME q.st = "wire" PROVE WireOK(r, inflightByTN'[r.tn] = c)
    OBVIOUS
  <2>1. ~x[2]
    BY <1>3
  <2>2. (OneWake(r) <=> OneWake(q)) /\ (BacksOff(r) <=> BacksOff(q))
    BY <1>6, <1>7, <2>1 DEF OneWake, BacksOff, Callback
  <2> QED BY <1>4, <1>5, <1>8, <2>2 DEF WireOK
<1>10. AnsOK(q, tn) => AnsOK(r, tn)
  BY <1>6, SameAns
<1>11. inflightByTN' \in [Numbers -> Ids \cup {0}]
  BY <1>4, NumberTypes
<1> QED BY <1>3, <1>4, <1>8, <1>9, <1>10, <1>11, LocalNumbers DEF q

\* A handler that makes its command wait, under the same number or none.
LEMMA WaitNumbers ==
  ASSUME ControllerInv, RegInv, NEW c \in Ids, cmd[c].st = "wire",
         NEW q, cmd' = [cmd EXCEPT ![c] = q], tn' = tn,
         q.st = "wire", q.tn = cmd[c].tn, q.result = "none", OneWake(q),
         \/ /\ ~BacksOff(q) /\ inflightByTN' = inflightByTN
            /\ inflightByTN[cmd[c].tn] = c
         \/ BacksOff(q) /\ inflightByTN' = TNReleased(c),
         Ready(cmd[c], cmd[c].tn) => Ready(q, cmd[c].tn)
  PROVE  Kept
<1>1. \A t \in Numbers :
        TNReleased(c)[t] = IF t = cmd[c].tn /\ inflightByTN[t] = c THEN 0 ELSE inflightByTN[t]
  BY NumberTypes DEF TNReleased
<1>2. cmd[c].tn \in Numbers /\ 0 \notin Ids
  BY NumberTypes DEF Ids
<1>3. TNReleased(c) \in [Numbers -> Ids \cup {0}]
  BY NumberTypes DEF TNReleased
<1>4. /\ inflightByTN' \in [Numbers -> Ids \cup {0}]
      /\ \A t \in Numbers :
           \/ inflightByTN'[t] = inflightByTN[t]
           \/ inflightByTN'[t] = 0 /\ inflightByTN[t] = c
  BY <1>1, <1>3, NumberTypes
<1>5. WireOK(q, inflightByTN'[q.tn] = c)
  <2>1. BacksOff(q) <=> inflightByTN'[cmd[c].tn] # c
    BY <1>1, <1>2
  <2> QED BY <2>1 DEF WireOK
<1>6. AnsOK(cmd[c], tn) => AnsOK(q, tn)
  BY DEF AnsOK
<1> QED BY <1>4, <1>5, <1>6, LocalNumbers

\* The callback that runs has left the data alone.
LEMMA RanAlike ==
  ASSUME NEW c \in Ids, NEW k, cmd[c] \in Command
  PROVE  Alike(cmd[c], Ran(c, k)) /\ Ran(c, k).tn = cmd[c].tn
BY DEF Ran, Alike, Command

\* Without data, a command is ready for any number.
LEMMA EmptyReady ==
  ASSUME NEW r, NEW n, r.blocks = <<>>, r.collecting \/ r.answerPID = r.req.pid
  PROVE  Ready(r, n)
<1>1. Len(<<>>) = 0 /\ 1..0 = {}
  OBVIOUS
<1> QED BY <1>1 DEF Ready, Pinned, Increasing, Below

LEMMA BeginCollectNumbers ==
  ASSUME ControllerInv, RegInv, NumbersFresh, NEW c \in Ids, cmd[c].st = "wire",
         NEW r, Handled(c, r), BeginCollect(c, r)
  PROVE  Kept
<1> DEFINE b0 == BlocksReset(r)
           b  == [b0 EXCEPT !.collecting = TRUE, !.answerPID = QueuedMessage,
                            !.answerPIDSet = FALSE]
<1>1. b0 = [r EXCEPT !.blocks = <<>>, !.overflow = FALSE]
  BY DEF BlocksReset
<1>2. Handled(c, b0)
  BY BlocksResetOK
<1>3. b0.blocks = <<>>
  BY <1>1 DEF Handled, Command
<1>4. Issue(c, b, HoldReset(c)) /\ QueuedMessage \in PIDs
  BY ControllerAssumption DEF BeginCollect
<1> HIDE DEF b0
<1>5. /\ b \in Command /\ b.req = b0.req /\ b.st = b0.st /\ b.result = b0.result
      /\ b.blocks = b0.blocks /\ b.collecting = TRUE
  BY <1>2, <1>4 DEF Handled, Command
<1> HIDE DEF b
<1>6. Ready(b, tn)
  BY <1>3, <1>5, EmptyReady
<1>7. Handled(c, b)
  BY <1>2, <1>5 DEF Handled
<1> QED BY <1>4, <1>6, <1>7, IssueNumbers

LEMMA UnverifiedNumbers ==
  ASSUME ControllerInv, ControllerInv', RegInv, NumbersFresh, NEW c \in Ids,
         cmd[c].st = "wire", NEW r, Handled(c, r), NEW he \in [Devices -> Health],
         FinishSetUnverified(c, r, he), Rest
  PROVE  Kept
<1> DEFINE b == BlocksReset(r)
<1>1. Numbered([cmd EXCEPT ![c] = Completed(b, "unverified")], TNReleased(c))
  BY UnverifiedKeeps
<1>2. Endable(b)
  BY BlocksResetOK DEF Closes
<1>3. "unverified" \in Results \ {"none"} /\ "unverified" # "ack"
  BY DEF Results
<1> HIDE DEF b
<1> QED BY <1>1, <1>2, <1>3, FinishNumbers

LEMMA AbandonCollectNumbers ==
  ASSUME ControllerInv, ControllerInv', RegInv, NumbersFresh, NEW c \in Ids,
         cmd[c].st = "wire", NEW r, Handled(c, r), NEW he \in [Devices -> Health],
         AbandonCollect(c, r, he), Rest
  PROVE  Kept
<1> DEFINE back == [r EXCEPT !.collecting = FALSE]
           b0 == BlocksReset(back)
           b == [b0 EXCEPT !.answerPID = r.req.pid, !.answerPIDSet = FALSE]
<1>1. Handled(c, back) /\ back.req = r.req
  BY DEF Handled, Command
<1>2. CASE r.req.class = "set"
  <2>1. FinishSetUnverified(c, back, he)
    BY <1>2 DEF AbandonCollect
  <2> HIDE DEF back
  <2> QED BY <1>1, <2>1, UnverifiedNumbers
<1>3. CASE r.req.class # "set"
  <2>1. Issue(c, b, HoldReset(c)) /\ r.req.pid \in PIDs
    BY <1>3 DEF AbandonCollect, Handled, Command, Request
  <2> HIDE DEF back
  <2>2. b0 = [back EXCEPT !.blocks = <<>>, !.overflow = FALSE]
    BY DEF BlocksReset
  <2>3. Handled(c, b0)
    BY <1>1, BlocksResetOK
  <2>4. b0.blocks = <<>> /\ b0.req = r.req
    BY <1>1, <2>2 DEF Handled, Command
  <2> HIDE DEF b0
  <2>5. /\ b \in Command /\ b.req = b0.req /\ b.st = b0.st /\ b.result = b0.result
        /\ b.blocks = b0.blocks /\ b.answerPID = r.req.pid
    BY <2>1, <2>3 DEF Handled, Command
  <2> HIDE DEF b
  <2>6. Ready(b, tn)
    BY <2>4, <2>5, EmptyReady
  <2>7. Handled(c, b)
    BY <2>3, <2>5 DEF Handled
  <2> QED BY <2>1, <2>6, <2>7, IssueNumbers
<1> QED BY <1>2, <1>3

\* Finishing with the holds as they are.
LEMMA FinishHereNumbers ==
  ASSUME ControllerInv, ControllerInv', RegInv, NumbersFresh, NEW c \in Ids,
         cmd[c].st = "wire", NEW r, Closes(c, r),
         NEW kind \in Results \ {"none", "unreachable", "broadcast"},
         NEW he \in [Devices -> Health], NEW empty,
         Finish(c, r, kind, overflowUID, he, empty), Rest,
         AnsInv => (kind = "ack" => Own(r))
  PROVE  Kept
<1>1. Numbered([cmd EXCEPT ![c] = Completed(r, kind)], TNReleased(c))
  BY FinishHere
<1>2. Endable(r) /\ kind \in Results \ {"none"}
  BY DEF Closes
<1> QED BY <1>1, <1>2, FinishNumbers

LEMMA OnResponseTimeoutNumbers ==
  ASSUME ControllerInv, ControllerInv', RegInv, NumbersFresh, NEW c \in Ids,
         OnResponseTimeout(c)
  PROVE  Kept
<1> DEFINE r == Ran(c, "response")
<1>1. Runs(c, "response") /\ <<"response", TRUE>> \in cmd[c].late
  BY DEF OnResponseTimeout, Runs
<1>2. cmd[c].st = "wire" /\ Handled(c, r) /\ Closes(c, r)
  BY <1>1, RanOK
<1>3. Rest
  BY DEF OnResponseTimeout, Rest, ControllerInv, OthersType
<1>4. /\ Alike(cmd[c], r) /\ r.tn = cmd[c].tn
  BY NumberTypes, RanAlike
<1>5. health \in [Devices -> Health]
  BY DEF ControllerInv, OthersType
<1>6. CASE AbandonCollect(c, r, ModeLearned(c, "reissue"))
  <2>1. ModeLearned(c, "reissue") \in [Devices -> Health]
    BY ModeLearnedType DEF CollectModes
  <2> HIDE DEF r
  <2> QED BY <1>2, <1>3, <1>6, <2>1, AbandonCollectNumbers
<1>7. CASE Finish(c, r, "timeout", overflowUID, health, FALSE)
  <2>1. "timeout" \in Results \ {"none", "unreachable", "broadcast"} /\ "timeout" # "ack"
    BY DEF Results
  <2> HIDE DEF r
  <2> QED BY <1>2, <1>3, <1>5, <1>7, <2>1, FinishHereNumbers
<1>8. CASE /\ cmd' = [cmd EXCEPT ![c] = [TimerSet(r, "response") EXCEPT !.attempt = @ + 1]]
           /\ UNCHANGED <<queue, inflightByTN, tn, overflowUID, breakers, drains, sent>>
  <2> DEFINE t == TimerSet(r, "response")
             q == [t EXCEPT !.attempt = t.attempt + 1]
  <2>1. "response" \in Timers \ {"none"} /\ r \in Command
    BY <1>2 DEF Timers, Handled
  <2>2. t \in Command
    BY <2>1, TimerSetOK
  <2>3. OneWake(t) /\ ~BacksOff(t) /\ t.tn = r.tn /\ t.st = r.st /\ t.result = r.result
        /\ Alike(r, t)
    BY <2>1, TimerSetWakes DEF Alike
  <2>4. cmd' = [cmd EXCEPT ![c] = q] /\ tn' = tn /\ inflightByTN' = inflightByTN
    BY <1>8
  <2> HIDE DEF t, r
  <2>5. q.timer = t.timer /\ q.late = t.late /\ Same(t, q)
    BY <2>2 DEF Command, Same, Alike
  <2> HIDE DEF q
  <2>6. OneWake(q) /\ ~BacksOff(q)
    BY <2>3, <2>5 DEF OneWake, BacksOff
  <2>7. q.st = "wire" /\ q.tn = cmd[c].tn /\ q.result = "none"
    BY <1>2, <1>4, <2>3, <2>5 DEF Same, Handled
  <2>8. Alike(cmd[c], q)
    BY <1>4, <2>3, <2>5 DEF Same, Alike
  <2>9. Ready(cmd[c], cmd[c].tn) => Ready(q, cmd[c].tn)
    BY <2>8, AlikeReady
  <2>10. inflightByTN[cmd[c].tn] = c
    <3>1. WireOK(cmd[c], inflightByTN[cmd[c].tn] = c)
      BY <1>2, WireFacts
    <3>2. ~BacksOff(cmd[c])
      BY <1>1, <3>1 DEF WireOK, OneWake, BacksOff, Callback
    <3> QED BY <3>1, <3>2 DEF WireOK
  <2> QED BY <1>2, <2>4, <2>6, <2>7, <2>9, <2>10, WaitNumbers
<1> QED BY <1>6, <1>7, <1>8 DEF OnResponseTimeout

LEMMA OnDeadlineNumbers ==
  ASSUME ControllerInv, ControllerInv', RegInv, NumbersFresh, NEW c \in Ids, OnDeadline(c)
  PROVE  Kept
<1>1. Runs(c, "deadline") /\ Finish(c, Ran(c, "deadline"), "deadline", overflowUID, health, FALSE)
  BY DEF OnDeadline
<1>2. cmd[c].st = "wire" /\ Closes(c, Ran(c, "deadline"))
  BY <1>1, RanOK
<1>3. Rest /\ health \in [Devices -> Health]
  BY DEF OnDeadline, Rest, ControllerInv, OthersType
<1>4. "deadline" \in Results \ {"none", "unreachable", "broadcast"} /\ "deadline" # "ack"
  BY DEF Results
<1> QED BY <1>1, <1>2, <1>3, <1>4, FinishHereNumbers

LEMMA OnAckTimerElapsedNumbers ==
  ASSUME ControllerInv, ControllerInv', RegInv, NumbersFresh, NEW c \in Ids,
         OnAckTimerElapsed(c)
  PROVE  Kept
<1> DEFINE r == Ran(c, "ackTimer")
<1>1. Runs(c, "ackTimer")
  BY DEF OnAckTimerElapsed
<1>2. cmd[c].st = "wire" /\ Handled(c, r)
  BY <1>1, RanOK
<1>3. Rest /\ health \in [Devices -> Health]
  BY DEF OnAckTimerElapsed, Rest, ControllerInv, OthersType
<1>4. Alike(cmd[c], r)
  BY NumberTypes, RanAlike
<1>5. CASE BeginCollect(c, r)
  <2> HIDE DEF r
  <2> QED BY <1>2, <1>5, BeginCollectNumbers
<1>6. CASE AbandonCollect(c, r, health)
  <2> HIDE DEF r
  <2> QED BY <1>2, <1>3, <1>6, AbandonCollectNumbers
<1>7. CASE FinishSetUnverified(c, r, health)
  <2> HIDE DEF r
  <2> QED BY <1>2, <1>3, <1>7, UnverifiedNumbers
<1>8. CASE Issue(c, r, overflowUID)
  <2> HIDE DEF r
  <2>1. AnsInv => Ready(r, tn)
    BY <1>2, <1>4, WireFacts, AlikeReady
  <2> QED BY <1>2, <1>8, <2>1, IssueNumbers
<1> QED BY <1>5, <1>6, <1>7, <1>8 DEF OnAckTimerElapsed

LEMMA OnProxyBackoffElapsedNumbers ==
  ASSUME ControllerInv, RegInv, NumbersFresh, NEW c \in Ids, OnProxyBackoffElapsed(c)
  PROVE  Kept
<1> DEFINE r == Ran(c, "backoff")
<1>1. Runs(c, "backoff") /\ Issue(c, r, overflowUID)
  BY DEF OnProxyBackoffElapsed
<1>2. cmd[c].st = "wire" /\ Handled(c, r)
  BY <1>1, RanOK
<1>3. Alike(cmd[c], r)
  BY NumberTypes, RanAlike
<1> HIDE DEF r
<1>4. AnsInv => Ready(r, tn)
  BY <1>2, <1>3, WireFacts, AlikeReady
<1> QED BY <1>1, <1>2, <1>4, IssueNumbers

-----------------------------------------------------------------------------
(* Submit, drains, probes and Stop.                                        *)

LEMMA AbortNumbers ==
  ASSUME ControllerInv, RegInv, NEW req \in Request,
         nextID < MaxCmds,
         cmd' = [cmd EXCEPT ![nextID + 1] = Completed(NewCommand(req), "aborted")],
         UNCHANGED <<inflightByTN, tn>>
  PROVE  Kept
<1> DEFINE n == nextID + 1
           d == Completed(NewCommand(req), "aborted")
<1>1. /\ nextID \in Nat /\ n \in Ids /\ n > nextID
      /\ \A e \in Ids : cmd[e].st = "unused" <=> e > nextID
  BY ControllerAssumption DEF ControllerInv, OthersType, Ids
<1>2. d.st = "done" /\ \A m \in Nat : AnsOK(d, m)
  <2>1. "aborted" \in Results \ {"none"} /\ Endable(NewCommand(req)) /\ "aborted" # "ack"
    BY NewCommandOK, CommandEndable DEF Results, CmdOK
  <2> QED BY <2>1, CompletedOwn
<1> HIDE DEF d
<1>3. cmd' = [cmd EXCEPT ![n] = d] /\ cmd[n].st = "unused"
  BY <1>1 DEF d
<1> HIDE DEF n
<1>4. cmd'[n] = d /\ \A e \in Ids : e # n => cmd'[e] = cmd[e]
  BY <1>1, <1>3, NumberTypes
<1>5. RegOK(cmd, inflightByTN) /\ ByOK(cmd, inflightByTN)
  BY DEF RegInv, RegOK
<1>6. ByOK(cmd', inflightByTN)
  <2> SUFFICES ASSUME NEW t \in Numbers, inflightByTN[t] # 0
               PROVE  cmd'[inflightByTN[t]].st = "wire" /\ cmd'[inflightByTN[t]].tn = t
    BY DEF ByOK
  <2>1. inflightByTN[t] \in Ids /\ cmd[inflightByTN[t]].st = "wire"
        /\ cmd[inflightByTN[t]].tn = t
    BY <1>5, NumberTypes DEF ByOK
  <2> QED BY <1>3, <1>4, <2>1
<1>7. \A e \in Ids : cmd'[e].st = "wire" => WireOK(cmd'[e], inflightByTN[cmd'[e].tn] = e)
  BY <1>2, <1>4, <1>5 DEF RegOK
<1>8. RegInv'
  BY <1>6, <1>7 DEF RegInv, RegOK, ByOK
<1>9. AnsInv => AnsInv'
  BY <1>2, <1>4, NumberTypes DEF AnsInv
<1> QED BY <1>8, <1>9 DEF Kept

LEMMA SubmitNumbers ==
  ASSUME ControllerInv, ControllerInv', RegInv, NumbersFresh, NEW req \in Workload, Submit(req)
  PROVE  Kept
<1>1. req \in Request /\ nextID < MaxCmds
  BY ControllerAssumption DEF Submit, SubmitLocked
<1>2. health \in [Devices -> Health]
  BY DEF ControllerInv, OthersType
<1>3. CASE stopped
  <2>1. /\ cmd' = [cmd EXCEPT ![nextID + 1] = Completed(NewCommand(req), "aborted")]
        /\ UNCHANGED <<inflightByTN, tn>>
    BY <1>3 DEF Submit, SubmitLocked
  <2> QED BY <1>1, <2>1, AbortNumbers
<1>4. CASE ~stopped
  <2>1. Pump([cmd EXCEPT ![nextID + 1] = NewCommand(req)],
             [queue EXCEPT ![req.link].pending = Append(@, nextID + 1)],
             inflightByTN, overflowUID, health)
    BY <1>4 DEF Submit, SubmitLocked
  <2> QED BY <1>1, <1>2, <2>1, AddNumbers
<1> QED BY <1>3, <1>4

LEMMA DrainStepNumbers ==
  ASSUME ControllerInv, ControllerInv', RegInv, NumbersFresh, NEW d \in Links \X UIDs,
         DrainStep(d)
  PROVE  Kept
<1>1. CASE drains[d].iterations >= MaxQueuedMessageDrain
  <2>1. UNCHANGED <<cmd, inflightByTN, tn>>
    BY <1>1 DEF DrainStep
  <2> QED BY <2>1, SameNumbers
<1>2. CASE ~(drains[d].iterations >= MaxQueuedMessageDrain)
  <2> DEFINE req == [link |-> d[1], uid |-> d[2], class |-> "get", pid |-> QueuedMessage]
  <2>1. SubmitLocked(req)
    BY <1>2 DEF DrainStep
  <2>2. req \in Request
    BY ControllerAssumption DEF Request
  <2>3. ~stopped
    <3>1. drains[d].on /\ drains[d].cmd = 0 /\ d \in Devices
      BY DEF DrainStep, Devices
    <3> QED BY <3>1 DEF ControllerInv, DrainOK, PassOK
  <2> HIDE DEF req
  <2>4. /\ nextID < MaxCmds
        /\ Pump([cmd EXCEPT ![nextID + 1] = NewCommand(req)],
                [queue EXCEPT ![req.link].pending = Append(@, nextID + 1)],
                inflightByTN, overflowUID, health)
    BY <2>1, <2>3 DEF SubmitLocked
  <2>5. health \in [Devices -> Health]
    BY DEF ControllerInv, OthersType
  <2> QED BY <2>2, <2>4, <2>5, AddNumbers
<1> QED BY <1>1, <1>2

LEMMA SilenceProbeDueNumbers ==
  ASSUME ControllerInv, ControllerInv', RegInv, NumbersFresh, NEW d \in Links \X UIDs,
         NEW listed, SilenceProbeDue(d, listed)
  PROVE  Kept
<1> DEFINE quiet == [health EXCEPT ![d].probeTimer = FALSE]
<1>1. health \in [Devices -> Health] /\ d \in Devices
  BY DEF ControllerInv, OthersType, Devices
<1>2. quiet \in [Devices -> Health]
  <2>1. [health[d] EXCEPT !.probeTimer = FALSE] \in Health
    BY <1>1, SmallStepTypes
  <2>2. quiet = [health EXCEPT ![d] = [health[d] EXCEPT !.probeTimer = FALSE]]
    OBVIOUS
  <2> QED BY <1>1, <2>1, <2>2
<1>3. CASE ProbeWanted(health[d]) /\ ~CommandFor(d) /\ listed
  <2> DEFINE req == [link |-> d[1], uid |-> d[2], class |-> "get", pid |-> DeviceInfo]
  <2>1. req \in Request /\ req.link = d[1]
    BY ControllerAssumption DEF Request
  <2>2. /\ nextID < MaxCmds /\ nextID' = nextID + 1
        /\ Pump([cmd EXCEPT ![nextID'] = NewCommand(req)],
                [queue EXCEPT ![d[1]].pending = Append(@, nextID')],
                inflightByTN, overflowUID, quiet)
    BY <1>3 DEF SilenceProbeDue
  <2> HIDE DEF req, quiet
  <2>3. Pump([cmd EXCEPT ![nextID + 1] = NewCommand(req)],
             [queue EXCEPT ![req.link].pending = Append(@, nextID + 1)],
             inflightByTN, overflowUID, quiet)
    BY <2>1, <2>2
  <2> QED BY <1>2, <2>1, <2>2, <2>3, AddNumbers
<1>4. CASE ~(ProbeWanted(health[d]) /\ ~CommandFor(d) /\ listed)
  <2>1. UNCHANGED <<cmd, inflightByTN, tn>>
    BY <1>4 DEF SilenceProbeDue
  <2> QED BY <2>1, SameNumbers
<1> QED BY <1>3, <1>4

LEMMA StopNumbers ==
  ASSUME ControllerInv, RegInv, Stop
  PROVE  Kept
<1>1. \A e \in Ids :
        cmd'[e] = IF Live(cmd[e]) THEN Completed(cmd[e], "aborted") ELSE cmd[e]
  BY DEF Stop, Live
<1>2. \A t \in Numbers :
        inflightByTN'[t] = IF inflightByTN[t] # 0 /\ cmd[inflightByTN[t]].tn = t THEN 0
                           ELSE inflightByTN[t]
  BY DEF Stop, Numbers
<1>3. tn' = tn /\ tn \in Nat
  BY NumberTypes DEF Stop
<1>4. \A t \in Numbers : inflightByTN'[t] = 0
  BY <1>2 DEF RegInv, RegOK, ByOK
<1>5. ASSUME NEW e \in Ids
      PROVE  cmd'[e].st # "wire" /\ (AnsOK(cmd[e], tn) => AnsOK(cmd'[e], tn))
  <2>1. "aborted" \in Results \ {"none"} /\ "aborted" # "ack" /\ Endable(cmd[e])
    BY NumberTypes, CommandEndable DEF Results
  <2>2. Completed(cmd[e], "aborted").st = "done" /\ AnsOK(Completed(cmd[e], "aborted"), tn)
    BY <1>3, <2>1, CompletedOwn
  <2> QED BY <1>1, <2>2 DEF Live
<1>6. RegInv'
  BY <1>4, <1>5 DEF RegInv, RegOK, ByOK
<1>7. AnsInv => AnsInv'
  BY <1>3, <1>5 DEF AnsInv
<1> QED BY <1>6, <1>7 DEF Kept

-----------------------------------------------------------------------------
(* HandleRDMResponse.                                                      *)

\* The first response pins the parameter, and others must come under it.
LEMMA ReceivedReady ==
  ASSUME NEW r \in Command, NEW t, NEW pid \in PIDs, Fits(r, t, pid)
  PROVE  LET q == Received(r, t, pid)
         IN /\ q.tn = r.tn /\ q.req = r.req /\ q.collecting = r.collecting
            /\ q.blocks = r.blocks
            /\ t # "ackTimer" => q.answerPIDSet /\ (Pinned(r) => q.answerPID = pid)
            /\ t = "ackTimer" => Alike(r, q)
            /\ \A n : Ready(r, n) => Ready(q, n)
<1> DEFINE a == IF ~r.answerPIDSet /\ t # "ackTimer" THEN pid ELSE r.answerPID
           b == r.answerPIDSet \/ t # "ackTimer"
           q == [r EXCEPT !.heard = TRUE, !.answerPID = a, !.answerPIDSet = b]
<1>1. q = Received(r, t, pid)
  BY DEF Received
<1>2. a \in PIDs /\ b \in BOOLEAN /\ r.answerPIDSet \in BOOLEAN
  BY DEF Command
<1>3. r.answerPIDSet => a = r.answerPID /\ (t # "ackTimer" => pid = r.answerPID)
  BY DEF Fits, QueuedMessagePIDFloats
<1>4. ~r.collecting /\ r.req.pid # QueuedMessage => pid = r.answerPID
  BY DEF Fits, QueuedMessagePIDFloats
<1>5. (t # "ackTimer" => b) /\ (r.answerPIDSet => b) /\ (t = "ackTimer" => (a = r.answerPID /\ b = r.answerPIDSet))
  BY <1>2
<1>6. ~r.answerPIDSet /\ t # "ackTimer" => a = pid
  OBVIOUS
<1>7. a \in {pid, r.answerPID}
  OBVIOUS
<1> HIDE DEF a, b
<1>8. /\ q.tn = r.tn /\ q.req = r.req /\ q.collecting = r.collecting
      /\ q.blocks = r.blocks /\ q.answerPID = a /\ q.answerPIDSet = b
  BY DEF Command
<1> HIDE DEF q
<1>9. ASSUME Pinned(r) PROVE Pinned(q)
  <2>1. \A i \in 1..Len(r.blocks) : r.answerPIDSet /\ r.blocks[i].pid = r.answerPID
    BY <1>9 DEF Pinned
  <2>2. \A i \in 1..Len(r.blocks) : b /\ r.blocks[i].pid = a
    BY <1>3, <1>5, <2>1
  <2>3. ~r.collecting /\ r.req.pid # QueuedMessage => a = r.req.pid
    BY <1>4, <1>7, <1>9 DEF Pinned
  <2> QED BY <1>8, <2>2, <2>3 DEF Pinned
<1>10. \A n : Ready(r, n) => Ready(q, n)
  BY <1>8, <1>9 DEF Ready
<1>11. t # "ackTimer" => q.answerPIDSet /\ q.answerPID = pid
  BY <1>3, <1>5, <1>6, <1>8
<1>12. t = "ackTimer" => Alike(r, q)
  BY <1>5, <1>8 DEF Alike
<1> QED BY <1>1, <1>8, <1>10, <1>11, <1>12

\* The block of an answer to the transaction that is on.
LEMMA WithBlockReady ==
  ASSUME NEW r \in Command, NEW k \in OnAir, NEW pid \in PIDs, k.tn = r.tn,
         r.answerPIDSet, r.answerPID = pid, Ready(r, r.tn)
  PROVE  LET q == WithBlock(r, k, pid)
         IN /\ Pinned(q) /\ Increasing(q.blocks)
            /\ \A n \in Nat : r.tn < n => Below(q.blocks, n)
<1> DEFINE e == [tn |-> k.tn, pid |-> pid]
           B == [tn : Numbers, pid : PIDs]
           b == Append(r.blocks, e)
           q == [r EXCEPT !.blocks = b]
<1>1. q = WithBlock(r, k, pid)
  BY DEF WithBlock
<1>2. r.blocks \in Seq(B) /\ e \in B /\ r.tn \in Nat
  BY DEF Command, OnAir, Numbers
<1>3. e.tn = r.tn /\ e.pid = pid
  OBVIOUS
<1> DEFINE s == r.blocks
           m == Len(s)
<1>4. /\ m \in Nat /\ Len(b) = m + 1 /\ b[m + 1] = e
      /\ \A i \in 1..m : b[i] = s[i] /\ s[i] \in B
  <2>1. s \in Seq(B) /\ b = Append(s, e)
    BY <1>2
  <2> HIDE DEF s, b, e, B
  <2>2. /\ Len(b) = Len(s) + 1 /\ b[Len(s) + 1] = e /\ Len(s) \in Nat
        /\ \A i \in 1..Len(s) : b[i] = s[i]
    BY <1>2, <2>1, AppendProperties, LenProperties
  <2>3. \A i \in 1..Len(s) : s[i] \in B
    BY <2>1, ElementOfSeq
  <2> QED BY <2>2, <2>3
<1>5. \A i \in 1..m : s[i].tn \in Nat
  BY <1>4 DEF Numbers
<1> HIDE DEF e, b
<1>6. /\ q.blocks = b /\ q.req = r.req /\ q.collecting = r.collecting
      /\ q.answerPID = r.answerPID /\ q.answerPIDSet = r.answerPIDSet
  BY DEF Command
<1> HIDE DEF q
<1>7. /\ \A i \in 1..m : s[i].pid = r.answerPID
      /\ ~r.collecting /\ r.req.pid # QueuedMessage => r.answerPID = r.req.pid
      /\ \A i, j \in 1..m : i < j => s[i].tn < s[j].tn
      /\ \A i \in 1..m : s[i].tn < r.tn
  BY DEF Ready, Pinned, Increasing, Below
<1> HIDE DEF s, m
<1>8. \A i \in 1..Len(b) : i = m + 1 \/ i \in 1..m
  BY <1>4
<1>9. Pinned(q)
  <2>1. \A i \in 1..Len(b) : b[i].pid = r.answerPID
    BY <1>3, <1>4, <1>7, <1>8
  <2> QED BY <1>6, <1>7, <2>1 DEF Pinned
<1>10. Increasing(b)
  <2> SUFFICES ASSUME NEW i \in 1..Len(b), NEW j \in 1..Len(b), i < j
               PROVE  b[i].tn < b[j].tn
    BY DEF Increasing
  <2>1. i \in 1..m
    BY <1>4
  <2>2. CASE j = m + 1
    BY <1>3, <1>4, <1>7, <2>1, <2>2
  <2>3. CASE j \in 1..m
    BY <1>4, <1>7, <2>1, <2>3
  <2> QED BY <1>8, <2>2, <2>3
<1>11. ASSUME NEW n \in Nat, r.tn < n PROVE Below(b, n)
  <2> SUFFICES ASSUME NEW i \in 1..Len(b) PROVE b[i].tn < n
    BY DEF Below
  <2>1. CASE i = m + 1
    BY <1>3, <1>4, <1>11, <2>1
  <2>2. CASE i \in 1..m
    <3>1. b[i].tn = s[i].tn /\ s[i].tn < r.tn /\ s[i].tn \in Nat
      BY <1>4, <1>5, <1>7, <2>2
    <3> QED BY <1>2, <1>11, <3>1
  <2> QED BY <1>8, <2>1, <2>2
<1> QED BY <1>1, <1>6, <1>9, <1>10, <1>11

LEMMA OwnData ==
  ASSUME NEW r, Pinned(r), Increasing(r.blocks), ~r.collecting \/ r.answerPID = r.req.pid
  PROVE  Own(r)
BY DEF Own, Pinned

\* A response finds the command that is registered under its number.
LEMMA AnswersFacts ==
  ASSUME ControllerInv, RegInv, NEW k, NEW c, Answers(k, c)
  PROVE  /\ c \in Ids /\ cmd[c].st = "wire" /\ cmd[c] \in Command /\ k \in OnAir
         /\ cmd[c].tn = k.tn /\ inflightByTN[cmd[c].tn] = c /\ ~BacksOff(cmd[c])
         /\ Handled(c, cmd[c]) /\ health \in [Devices -> Health]
         /\ AnsInv => Ready(cmd[c], cmd[c].tn) /\ Ready(cmd[c], tn) /\ cmd[c].tn < tn
<1>1. /\ c \in Ids /\ cmd[c].st = "wire" /\ cmd[c] \in Command /\ k \in OnAir
      /\ inflightByTN[k.tn] = c /\ Handled(c, cmd[c]) /\ health \in [Devices -> Health]
      /\ k.tn \in Numbers
  BY DEF Answers, Handled, OnAir
<1>2. cmd[c].tn = k.tn
  BY <1>1 DEF RegInv, RegOK, ByOK, Ids
<1>3. WireOK(cmd[c], inflightByTN[cmd[c].tn] = c)
  BY <1>1, WireFacts
<1>4. AnsInv => Ready(cmd[c], cmd[c].tn) /\ Ready(cmd[c], tn) /\ cmd[c].tn < tn
  BY <1>1, WireFacts
<1> QED BY <1>1, <1>2, <1>3, <1>4 DEF WireOK

\* The command with the data of a response.
LEMMA AnsweredReady ==
  ASSUME ControllerInv, RegInv, NEW k, NEW c, Answers(k, c), NEW pid \in PIDs,
         NEW t, t # "ackTimer", Fits(cmd[c], t, pid),
         NEW q, q = WithBlock(Received(cmd[c], t, pid), k, pid)
  PROVE  /\ Handled(c, q) /\ q.collecting = cmd[c].collecting /\ q.req = cmd[c].req
         /\ AnsInv => Pinned(q) /\ Increasing(q.blocks) /\ Ready(q, tn) /\ q.answerPID = pid
<1> DEFINE r == Received(cmd[c], t, pid)
<1>0. q = WithBlock(r, k, pid)
  OBVIOUS
<1>1. Handled(c, r) /\ r.collecting = cmd[c].collecting /\ r.tn = cmd[c].tn
      /\ r.req = cmd[c].req /\ r.answerPIDSet
  BY AnswersFacts, ReceivedOK, ReceivedReady DEF Handled
<1>2. ASSUME AnsInv PROVE Ready(r, r.tn) /\ r.answerPID = pid
  <2>1. Ready(cmd[c], cmd[c].tn) /\ cmd[c] \in Command /\ Pinned(cmd[c])
    BY <1>2, AnswersFacts DEF Ready
  <2> QED BY <1>1, <2>1, ReceivedReady
<1>3. r \in Command /\ k \in OnAir /\ k.tn = r.tn /\ tn \in Nat
  BY <1>1, AnswersFacts, NumberTypes DEF Handled
<1>4. AnsInv => cmd[c].tn < tn
  BY AnswersFacts
<1> HIDE DEF r
<1>5. Handled(c, q) /\ q.collecting = r.collecting
  BY <1>0, <1>1, <1>3, WithBlockOK
<1>6. q.answerPID = r.answerPID
  BY <1>0, <1>3 DEF WithBlock, Command
<1>7. ASSUME AnsInv PROVE Pinned(q) /\ Increasing(q.blocks) /\ Ready(q, tn)
  <2>1. Ready(r, r.tn) /\ r.answerPID = pid /\ r.tn < tn
    BY <1>1, <1>2, <1>4, <1>7
  <2>2. Pinned(q) /\ Increasing(q.blocks) /\ Below(q.blocks, tn)
    BY <1>0, <1>1, <1>3, <2>1, WithBlockReady
  <2> QED BY <2>2 DEF Ready
<1>8. q.req = cmd[c].req
  BY <1>5 DEF Handled
<1> QED BY <1>1, <1>2, <1>5, <1>6, <1>7, <1>8

LEMMA RespondWrongPIDNumbers ==
  ASSUME ControllerInv, ControllerInv', RegInv, NumbersFresh, NEW k, NEW c, Answers(k, c),
         NEW pid \in PIDs, RespondWrongPID(k, pid), Rest
  PROVE  Kept
<1> DEFINE r == [cmd[c] EXCEPT !.heard = TRUE]
<1>1. r \in Command /\ r.req = cmd[c].req
  BY DEF Answers, Handled, Command
<1>2. Finish(c, r, "aborted", overflowUID, health, FALSE)
  BY DEF RespondWrongPID, Answers
<1>3. "aborted" \in Results \ {"none", "unreachable", "broadcast"} /\ "aborted" # "ack"
  BY DEF Results
<1> HIDE DEF r
<1>4. Closes(c, r)
  BY <1>1, CommandEndable DEF Closes
<1> QED BY <1>2, <1>3, <1>4, FinishHereNumbers DEF Answers

LEMMA RespondAckNumbers ==
  ASSUME ControllerInv, ControllerInv', RegInv, NumbersFresh, NEW k, NEW c, Answers(k, c),
         NEW pid \in PIDs, NEW empty, RespondAck(k, pid, empty), Rest
  PROVE  Kept
<1> DEFINE b == WithBlock(Received(cmd[c], "ack", pid), k, pid)
<1>1. /\ Finish(c, b, "ack", overflowUID, health, empty)
      /\ Fits(cmd[c], "ack", pid) /\ ~cmd[c].collecting
  <2>1. inflightByTN[k.tn] = c
    BY DEF Answers
  <2>2. ~Received(cmd[c], "ack", pid).collecting
    BY <2>1 DEF RespondAck
  <2>3. Received(cmd[c], "ack", pid).collecting = cmd[c].collecting
    BY ReceivedOK DEF Answers
  <2> QED BY <2>1, <2>2, <2>3 DEF RespondAck
<1>2. /\ Handled(c, b) /\ b.collecting = cmd[c].collecting
      /\ AnsInv => Pinned(b) /\ Increasing(b.blocks)
  <2>1. "ack" # "ackTimer"
    OBVIOUS
  <2>2. Fits(cmd[c], "ack", pid)
    BY <1>1
  <2>3. b = WithBlock(Received(cmd[c], "ack", pid), k, pid)
    OBVIOUS
  <2> HIDE DEF b
  <2> QED BY <2>1, <2>2, <2>3, AnsweredReady
<1> HIDE DEF b
<1>3. AnsInv => Own(b)
  BY <1>1, <1>2, OwnData
<1>4. Closes(c, b) /\ "ack" \in Results \ {"none", "unreachable", "broadcast"}
  BY <1>2, HandledCloses DEF Results
<1> QED BY <1>1, <1>3, <1>4, FinishHereNumbers DEF Answers

LEMMA RespondCollectAckNumbers ==
  ASSUME ControllerInv, ControllerInv', RegInv, NumbersFresh, NEW k, NEW c, Answers(k, c),
         NEW pid \in PIDs, NEW empty, RespondCollectAck(k, pid, empty), Rest
  PROVE  Kept
<1> DEFINE r0 == Received(cmd[c], "ack", pid)
           r  == WithBlock(r0, k, pid)
           o  == [r EXCEPT !.collectOrphans = @ + 1]
           he == ModeLearned(c, "queued")
<1>1. /\ Fits(cmd[c], "ack", pid) /\ r.collecting
      /\ \/ /\ pid = r.req.pid
            /\ Finish(c, [r EXCEPT !.collecting = FALSE], "ack", overflowUID, he, FALSE)
         \/ AbandonCollect(c, r, he)
         \/ o.collectOrphans >= MaxAckTimerCollect /\ AbandonCollect(c, o, he)
         \/ ~(o.collectOrphans >= MaxAckTimerCollect) /\ BeginCollect(c, o) /\ health' = he
  BY DEF RespondCollectAck, Answers
<1>2. /\ Handled(c, r) /\ r.collecting = cmd[c].collecting
      /\ AnsInv => Pinned(r) /\ Increasing(r.blocks) /\ r.answerPID = pid
  <2>1. "ack" # "ackTimer"
    OBVIOUS
  <2>2. Fits(cmd[c], "ack", pid)
    BY <1>1
  <2>3. r = WithBlock(Received(cmd[c], "ack", pid), k, pid)
    OBVIOUS
  <2> HIDE DEF r
  <2> QED BY <2>1, <2>2, <2>3, AnsweredReady
<1>3. r.collectOrphans = cmd[c].collectOrphans
  BY ReceivedOK, WithBlockOK DEF Answers
<1>4. cmd[c].collecting => cmd[c].collectOrphans < MaxAckTimerCollect
  BY DEF Answers
<1> HIDE DEF r
<1>5. r.collectOrphans \in Nat /\ r.collectOrphans < MaxAckTimerCollect
  BY <1>1, <1>2, <1>3, <1>4 DEF Handled, Command
<1>6. Handled(c, o)
  <2> DEFINE i == r.collectOrphans + 1
  <2>1. i \in 0..MaxAckTimerCollect
    BY <1>5, ControllerAssumption
  <2>2. o = [r EXCEPT !.collectOrphans = i]
    OBVIOUS
  <2> HIDE DEF i
  <2>3. /\ o \in Command /\ o.st = r.st /\ o.req = r.req /\ o.result = r.result
    BY <1>2, <2>1, <2>2 DEF Handled, Command
  <2> HIDE DEF o
  <2> QED BY <1>2, <2>3 DEF Handled
<1>7. he \in [Devices -> Health]
  BY ModeLearnedType DEF CollectModes, Answers
<1> HIDE DEF he
<1>8. CASE /\ pid = r.req.pid
           /\ Finish(c, [r EXCEPT !.collecting = FALSE], "ack", overflowUID, he, FALSE)
  <2> DEFINE q == [r EXCEPT !.collecting = FALSE]
  <2>1. q \in Command /\ q.req = r.req /\ q.blocks = r.blocks
    BY <1>2 DEF Handled, Command
  <2>2. Finish(c, q, "ack", overflowUID, he, FALSE)
    BY <1>8
  <2> HIDE DEF q
  <2>3. Closes(c, q) /\ "ack" \in Results \ {"none", "unreachable", "broadcast"}
    BY <1>2, <2>1, CommandEndable DEF Closes, Results, Handled
  <2>4. AnsInv => Own(r)
    BY <1>2, <1>8, OwnData
  <2>5. AnsInv => Own(q)
    BY <2>1, <2>4 DEF Own
  <2> QED BY <1>7, <2>2, <2>3, <2>5, FinishHereNumbers DEF Answers
<1>9. CASE AbandonCollect(c, r, he)
  BY <1>2, <1>7, <1>9, AbandonCollectNumbers DEF Answers
<1> HIDE DEF o
<1>10. CASE AbandonCollect(c, o, he)
  BY <1>6, <1>7, <1>10, AbandonCollectNumbers DEF Answers
<1>11. CASE BeginCollect(c, o)
  BY <1>6, <1>11, BeginCollectNumbers DEF Answers
<1> QED BY <1>1, <1>8, <1>9, <1>10, <1>11

LEMMA RespondCollectNackNumbers ==
  ASSUME ControllerInv, ControllerInv', RegInv, NumbersFresh, NEW k, NEW c, Answers(k, c),
         NEW pid \in PIDs, NEW t, RespondCollectNack(k, t, pid), Rest
  PROVE  Kept
<1> DEFINE r  == Received(cmd[c], t, pid)
           he == IF t = "unknownPID" THEN ModeLearned(c, "reissue") ELSE health
<1>1. Handled(c, r)
  BY ReceivedOK DEF Answers
<1>2. AbandonCollect(c, r, he)
  BY DEF RespondCollectNack, Answers
<1>3. he \in [Devices -> Health]
  BY ModeLearnedType DEF CollectModes, Answers
<1> HIDE DEF r, he
<1> QED BY <1>1, <1>2, <1>3, AbandonCollectNumbers DEF Answers

LEMMA RespondNackNumbers ==
  ASSUME ControllerInv, ControllerInv', RegInv, NumbersFresh, NEW k, NEW c, Answers(k, c),
         NEW pid \in PIDs, NEW t, RespondNack(k, t, pid), Rest
  PROVE  Kept
<1> DEFINE r == Received(cmd[c], t, pid)
<1>1. Handled(c, r)
  BY ReceivedOK DEF Answers
<1>2. Finish(c, r, "nack", overflowUID, health, FALSE)
  BY DEF RespondNack, Answers
<1> HIDE DEF r
<1>3. Closes(c, r) /\ "nack" \in Results \ {"none", "unreachable", "broadcast"} /\ "nack" # "ack"
  BY <1>1, HandledCloses DEF Results
<1> QED BY <1>2, <1>3, FinishHereNumbers DEF Answers

LEMMA RespondUnknownNumbers ==
  ASSUME ControllerInv, ControllerInv', RegInv, NumbersFresh, NEW k, NEW c, Answers(k, c),
         NEW pid \in PIDs, RespondUnknown(k, pid), Rest
  PROVE  Kept
<1> DEFINE r == Received(cmd[c], "unknown", pid)
<1>1. Handled(c, r)
  BY ReceivedOK DEF Answers
<1>2. Finish(c, r, "aborted", overflowUID, health, FALSE)
  BY DEF RespondUnknown, Answers
<1> HIDE DEF r
<1>3. Closes(c, r) /\ "aborted" \in Results \ {"none", "unreachable", "broadcast"}
      /\ "aborted" # "ack"
  BY <1>1, HandledCloses DEF Results
<1> QED BY <1>2, <1>3, FinishHereNumbers DEF Answers

LEMMA RespondAckTimerNumbers ==
  ASSUME ControllerInv, ControllerInv', RegInv, NumbersFresh, NEW k, NEW c, Answers(k, c),
         NEW pid \in PIDs, NEW cut, RespondAckTimer(k, pid, cut), Rest
  PROVE  Kept
<1> DEFINE r0 == Received(cmd[c], "ackTimer", pid)
           r  == [r0 EXCEPT !.ackTimers = TRUE]
<1>1. Fits(cmd[c], "ackTimer", pid)
  BY DEF RespondAckTimer, Answers
<1>2. Handled(c, r0) /\ r0.tn = cmd[c].tn /\ Alike(cmd[c], r0)
  BY <1>1, AnswersFacts, ReceivedOK, ReceivedReady
<1>3. \/ Finish(c, r, "deadline", overflowUID, health, FALSE)
      \/ /\ cmd' = [cmd EXCEPT ![c] = TimerSet(r, "ackTimer")]
         /\ UNCHANGED <<queue, inflightByTN, tn, overflowUID, breakers, drains, sent>>
  BY DEF RespondAckTimer, Answers
<1> HIDE DEF r0
<1>4. r \in Command /\ Same(r0, r)
  BY <1>2 DEF Handled, Command, Same, Alike
<1> HIDE DEF r
<1>5. Handled(c, r) /\ r.tn = cmd[c].tn /\ Alike(cmd[c], r)
  BY <1>2, <1>4 DEF Handled, Same, Alike
<1>6. CASE Finish(c, r, "deadline", overflowUID, health, FALSE)
  <2>1. Closes(c, r) /\ "deadline" \in Results \ {"none", "unreachable", "broadcast"}
        /\ "deadline" # "ack"
    BY <1>5, HandledCloses DEF Results
  <2> QED BY <1>6, <2>1, FinishHereNumbers DEF Answers
<1>7. CASE /\ cmd' = [cmd EXCEPT ![c] = TimerSet(r, "ackTimer")]
           /\ UNCHANGED <<queue, inflightByTN, tn, overflowUID, breakers, drains, sent>>
  <2> DEFINE q == TimerSet(r, "ackTimer")
  <2>1. OneWake(q) /\ ~BacksOff(q) /\ Same(r, q)
    <3>1. "ackTimer" \in Timers \ {"none"} /\ r \in Command
      BY <1>4 DEF Timers
    <3> QED BY <3>1, TimerSetWakes DEF Same, Alike
  <2>2. cmd' = [cmd EXCEPT ![c] = q] /\ tn' = tn /\ inflightByTN' = inflightByTN
    BY <1>7
  <2> HIDE DEF q
  <2>3. q.st = "wire" /\ q.tn = cmd[c].tn /\ q.result = "none" /\ Alike(cmd[c], q)
    BY <1>5, <2>1 DEF Same, Alike, Handled
  <2>4. Ready(cmd[c], cmd[c].tn) => Ready(q, cmd[c].tn)
    BY <2>3, AlikeReady
  <2>5. c \in Ids /\ cmd[c].st = "wire" /\ inflightByTN[cmd[c].tn] = c
    BY AnswersFacts
  <2> QED BY <2>1, <2>2, <2>3, <2>4, <2>5, WaitNumbers
<1> QED BY <1>3, <1>6, <1>7

LEMMA RespondFullNumbers ==
  ASSUME ControllerInv, ControllerInv', RegInv, NumbersFresh, NEW k, NEW c, Answers(k, c),
         NEW pid \in PIDs, NEW cut, RespondFull(k, pid, cut), Rest
  PROVE  Kept
<1> DEFINE r0 == Received(cmd[c], "full", pid)
           r  == [r0 EXCEPT !.proxyRefusals = @ + 1]
<1>1. Fits(cmd[c], "full", pid)
  BY DEF RespondFull, Answers
<1>2. Handled(c, r0) /\ r0.tn = cmd[c].tn
      /\ \A n : Ready(cmd[c], n) => Ready(r0, n)
  BY <1>1, AnswersFacts, ReceivedOK, ReceivedReady
<1>3. IF r.proxyRefusals > ProxyBackoffAttempts \/ cut
      THEN Finish(c, r, "full", overflowUID, health, FALSE)
      ELSE /\ cmd' = [cmd EXCEPT ![c] = TimerSet(r, "backoff")]
           /\ inflightByTN' = TNReleased(c)
           /\ UNCHANGED <<queue, tn, overflowUID, breakers, drains, sent>>
  BY DEF RespondFull, Answers
<1> HIDE DEF r0
<1>4. /\ Same(r0, r) /\ r.late = r0.late /\ r.proxyRefusals = r0.proxyRefusals + 1
      /\ r0 \in Command
  BY <1>2 DEF Command, Same, Alike, Handled
<1>5. r.st = "wire" /\ r.tn = cmd[c].tn /\ r.result = "none" /\ r.req = cmd[c].req
  BY <1>2, <1>4 DEF Same, Alike, Handled
<1>6. CASE Finish(c, r, "full", overflowUID, health, FALSE)
  <2>1. Endable(r0)
    BY <1>4, CommandEndable
  <2> HIDE DEF r
  <2>2. Closes(c, r) /\ "full" \in Results \ {"none", "unreachable", "broadcast"}
        /\ "full" # "ack"
    BY <1>4, <1>5, <2>1 DEF Closes, Endable, Same, Alike, Results
  <2> QED BY <1>6, <2>2, FinishHereNumbers DEF Answers
<1>7. CASE /\ ~(r.proxyRefusals > ProxyBackoffAttempts)
           /\ cmd' = [cmd EXCEPT ![c] = TimerSet(r, "backoff")]
           /\ inflightByTN' = TNReleased(c)
           /\ UNCHANGED <<queue, tn, overflowUID, breakers, drains, sent>>
  <2>1. r \in Command
    <3> DEFINE i == r0.proxyRefusals + 1
    <3>1. i \in 0..ProxyBackoffAttempts
      <4>1. r0.proxyRefusals \in Nat
        BY <1>4 DEF Command
      <4> QED BY <1>4, <1>7, <4>1, ControllerAssumption
    <3>2. r = [r0 EXCEPT !.proxyRefusals = i]
      OBVIOUS
    <3> HIDE DEF i
    <3> QED BY <1>4, <3>1, <3>2 DEF Command
  <2> DEFINE q == TimerSet(r, "backoff")
  <2> HIDE DEF r
  <2>2. OneWake(q) /\ BacksOff(q) /\ Same(r, q)
    <3>1. "backoff" \in Timers \ {"none"}
      BY DEF Timers
    <3> QED BY <2>1, <3>1, TimerSetWakes DEF Same, Alike
  <2>3. cmd' = [cmd EXCEPT ![c] = q] /\ tn' = tn /\ inflightByTN' = TNReleased(c)
    BY <1>7
  <2> HIDE DEF q
  <2>4. q.st = "wire" /\ q.tn = cmd[c].tn /\ q.result = "none" /\ Alike(r0, q)
    BY <1>4, <1>5, <2>2 DEF Same, Alike
  <2>5. Ready(cmd[c], cmd[c].tn) => Ready(q, cmd[c].tn)
    BY <1>2, <2>4, AlikeReady
  <2>6. c \in Ids /\ cmd[c].st = "wire"
    BY AnswersFacts
  <2> QED BY <2>2, <2>3, <2>4, <2>5, <2>6, WaitNumbers
<1> HIDE DEF r
<1> QED BY <1>3, <1>6, <1>7

LEMMA RespondOverflowNumbers ==
  ASSUME ControllerInv, ControllerInv', RegInv, NumbersFresh, NEW k, NEW c, Answers(k, c),
         NEW pid \in PIDs, NEW cut, RespondOverflow(k, pid, cut), Rest
  PROVE  Kept
<1> DEFINE r1 == WithBlock(Received(cmd[c], "overflow", pid), k, pid)
           r  == [r1 EXCEPT !.overflow = TRUE]
           u  == cmd[c].req.uid
           hold == IF cmd[c].overflow THEN overflowUID ELSE [overflowUID EXCEPT ![u] = c]
<1>1. /\ Fits(cmd[c], "overflow", pid)
      /\ \/ Finish(c, r, "deadline", hold, health, FALSE)
         \/ Issue(c, r, hold) /\ UNCHANGED health
  BY DEF RespondOverflow, Answers
<1>2. Handled(c, r1) /\ (AnsInv => Ready(r1, tn))
  BY <1>1, AnsweredReady
<1> HIDE DEF r1
<1>3. r \in Command /\ Same(r1, r)
  BY <1>2 DEF Handled, Command, Same, Alike
<1> HIDE DEF r
<1>4. Handled(c, r) /\ (AnsInv => Ready(r, tn))
  <2>1. Handled(c, r)
    BY <1>2, <1>3 DEF Handled, Same, Alike
  <2> QED BY <1>2, <1>3, <2>1, AlikeReady DEF Same
<1>5. c \in Ids /\ cmd[c].st = "wire" /\ cmd[c] \in Command
  BY AnswersFacts
<1>6. CASE Finish(c, r, "deadline", hold, health, FALSE)
  <2>1. Closes(c, r) /\ "deadline" \in Results \ {"none", "unreachable", "broadcast"}
        /\ "deadline" \in Results \ {"none"} /\ "deadline" # "ack"
    BY <1>4, HandledCloses DEF Results
  <2>2. hold \in [UIDs \cup {Broadcast} -> Ids \cup {0}]
    BY <1>5, RequestType DEF ControllerInv
  <2>3. \A x \in UIDs \cup {Broadcast} :
          hold[x] \in {0, overflowUID[x]} \/ (hold[x] = c /\ x = r.req.uid)
    BY <1>4, <1>5, RequestType DEF ControllerInv, Handled
  <2>4. health \in [Devices -> Health]
    BY AnswersFacts
  <2> HIDE DEF hold
  <2>5. Numbered([cmd EXCEPT ![c] = Completed(r, "deadline")], TNReleased(c))
    BY <1>5, <1>6, <2>1, <2>2, <2>3, <2>4, FinishKeeps
  <2>6. Endable(r)
    BY <2>1 DEF Closes
  <2> QED BY <1>5, <2>1, <2>5, <2>6, FinishNumbers
<1>7. CASE Issue(c, r, hold)
  <2> HIDE DEF hold
  <2> QED BY <1>4, <1>5, <1>7, IssueNumbers
<1> QED BY <1>1, <1>6, <1>7

LEMMA ResponseNumbers ==
  ASSUME ControllerInv, ControllerInv', RegInv, NumbersFresh, NEW k \in sent,
         HandleRDMResponse(k)
  PROVE  Kept
<1> DEFINE c == inflightByTN[k.tn]
<1>1. Answers(k, c)
  BY MatchesOK DEF HandleRDMResponse
<1>2. Rest
  <2>1. replies' \in 0..MaxReplies
    BY DEF ControllerInv, OthersType
  <2> QED BY <2>1 DEF HandleRDMResponse, Rest
<1>3. PICK pid \in PIDs :
       \/ RespondWrongPID(k, pid)
       \/ \E empty \in {FALSE, pid = StatusMessages} :
            RespondAck(k, pid, empty) \/ RespondCollectAck(k, pid, empty)
       \/ \E cut \in BOOLEAN :
            \/ RespondAckTimer(k, pid, cut)
            \/ RespondFull(k, pid, cut)
            \/ RespondOverflow(k, pid, cut)
       \/ \E t \in {"nack", "unknownPID", "full"} :
            RespondNack(k, t, pid) \/ RespondCollectNack(k, t, pid)
       \/ RespondUnknown(k, pid)
  BY DEF HandleRDMResponse
<1> HIDE DEF c
<1>4. CASE RespondWrongPID(k, pid)
  BY <1>1, <1>2, <1>3, <1>4, RespondWrongPIDNumbers
<1>5. ASSUME NEW empty \in {FALSE, pid = StatusMessages}, RespondAck(k, pid, empty)
      PROVE  Kept
  BY <1>1, <1>2, <1>3, <1>5, RespondAckNumbers
<1>6. ASSUME NEW empty \in {FALSE, pid = StatusMessages}, RespondCollectAck(k, pid, empty)
      PROVE  Kept
  BY <1>1, <1>2, <1>3, <1>6, RespondCollectAckNumbers
<1>7. ASSUME NEW cut \in BOOLEAN, RespondAckTimer(k, pid, cut)
      PROVE  Kept
  BY <1>1, <1>2, <1>3, <1>7, RespondAckTimerNumbers
<1>8. ASSUME NEW cut \in BOOLEAN, RespondFull(k, pid, cut)
      PROVE  Kept
  BY <1>1, <1>2, <1>3, <1>8, RespondFullNumbers
<1>9. ASSUME NEW cut \in BOOLEAN, RespondOverflow(k, pid, cut)
      PROVE  Kept
  BY <1>1, <1>2, <1>3, <1>9, RespondOverflowNumbers
<1>10. ASSUME NEW t \in {"nack", "unknownPID", "full"}, RespondNack(k, t, pid)
       PROVE  Kept
  BY <1>1, <1>2, <1>3, <1>10, RespondNackNumbers
<1>11. ASSUME NEW t \in {"nack", "unknownPID", "full"}, RespondCollectNack(k, t, pid)
       PROVE  Kept
  BY <1>1, <1>2, <1>3, <1>11, RespondCollectNackNumbers
<1>12. CASE RespondUnknown(k, pid)
  BY <1>1, <1>2, <1>3, <1>12, RespondUnknownNumbers
<1> QED BY <1>3, <1>4, <1>5, <1>6, <1>7, <1>8, <1>9, <1>10, <1>11, <1>12

-----------------------------------------------------------------------------
(* The specification.                                                      *)

LEMMA NextNumbers ==
  ASSUME ControllerInv, RegInv, NumbersFresh, [Next]_vars
  PROVE  Kept
<1>0. ControllerInv'
  BY NextKeeps
<1>1. ASSUME NEW req \in Workload, Submit(req) PROVE Kept
  BY <1>0, <1>1, SubmitNumbers
<1>2. CASE Stop
  BY <1>2, StopNumbers
<1>3. ASSUME NEW c \in Ids, TimerFires(c) PROVE Kept
  BY <1>3, TimerFiresNumbers
<1>4. ASSUME NEW c \in Ids, DeadlineFires(c) PROVE Kept
  BY <1>4, DeadlineFiresNumbers
<1>5. ASSUME NEW c \in Ids, Callbacks(c) PROVE Kept
  BY <1>0, <1>5, OnResponseTimeoutNumbers, OnDeadlineNumbers, OnAckTimerElapsedNumbers,
     OnProxyBackoffElapsedNumbers, StaleCallbackNumbers DEF Callbacks
<1>6. ASSUME NEW k \in sent, HandleRDMResponse(k) PROVE Kept
  BY <1>0, <1>6, ResponseNumbers
<1>7. ASSUME NEW d \in Links \X UIDs, DrainQueuedMessages(d) PROVE Kept
  BY <1>7, SameNumbers DEF DrainQueuedMessages
<1>8. ASSUME NEW d \in Links \X UIDs, DrainStep(d) PROVE Kept
  BY <1>0, <1>8, DrainStepNumbers
<1>9. ASSUME NEW d \in Links \X UIDs, CooldownElapses(d) PROVE Kept
  BY <1>9, SameNumbers DEF CooldownElapses
<1>10. ASSUME NEW d \in Links \X UIDs, NEW listed \in BOOLEAN, SilenceProbeDue(d, listed)
       PROVE  Kept
  BY <1>0, <1>10, SilenceProbeDueNumbers
<1>11. CASE UNCHANGED vars
  BY <1>11, SameNumbers DEF vars
<1> QED BY <1>1, <1>2, <1>3, <1>4, <1>5, <1>6, <1>7, <1>8, <1>9, <1>10, <1>11 DEF Next, Quiescent

LEMMA InitNumbers == Init => RegInv /\ AnsInv
<1> SUFFICES ASSUME Init PROVE RegInv /\ AnsInv
  OBVIOUS
<1>1. \A c \in Ids : cmd[c] = Unsubmitted
  BY DEF Init
<1>2. Unsubmitted.st = "unused" /\ Unsubmitted.result = "none"
  BY DEF Unsubmitted, NewCommand
<1>3. \A t \in Numbers : inflightByTN[t] = 0
  BY DEF Init, Numbers
<1>4. RegInv
  BY <1>1, <1>2, <1>3 DEF RegInv, RegOK, ByOK
<1>5. AnsInv
  BY <1>1, <1>2 DEF AnsInv, AnsOK
<1> QED BY <1>4, <1>5

LEMMA RegisteredFollows == RegInv => RegisteredUnlessBackingOff
BY DEF RegInv, RegOK, WireOK, BacksOff, OnWire, RegisteredUnlessBackingOff

LEMMA OwnFollows == ControllerInv /\ AnsInv => AnswerIsOwn
<1> SUFFICES ASSUME ControllerInv, AnsInv, NEW c \in Ids, cmd[c].result = "ack"
             PROVE  LET b == cmd[c].blocks
                    IN /\ \A i, j \in DOMAIN b : i < j => b[i].tn < b[j].tn
                       /\ \A i, j \in DOMAIN b : b[i].pid = b[j].pid
                       /\ \A i \in DOMAIN b :
                            b[i].pid = cmd[c].req.pid \/ cmd[c].req.pid = QueuedMessage
  BY DEF AnswerIsOwn
<1> DEFINE b == cmd[c].blocks
<1>1. Own(cmd[c])
  BY DEF AnsInv, AnsOK
<1>2. cmd[c] \in Command
  BY NumberTypes
<1>3. b \in Seq([tn : Numbers, pid : PIDs])
  BY <1>2 DEF Command, Numbers
<1>4. DOMAIN b = 1..Len(b)
  BY <1>3
<1> QED BY <1>1, <1>4 DEF Own, Increasing

\* Numbers that have not wrapped are not in use.
LEMMA LastAreFresh == ControllerInv /\ AnsInv /\ NumbersLast => NumbersFresh
<1> SUFFICES ASSUME ControllerInv, AnsInv, NumbersLast PROVE NumbersFresh
  OBVIOUS
<1> DEFINE a == Cardinality(Unsent(cmd))
<1>1. a \in Nat /\ TNs \in Nat /\ tn \in Nat /\ tn + a + 1 < TNs
  BY UnsentCounts, NumberTypes DEF NumbersLast
<1>2. \A c \in OnWire : cmd[c].tn \in Nat /\ cmd[c].tn < tn
  BY NumberTypes DEF OnWire, AnsInv, AnsOK
<1> HIDE DEF a
<1>3. a < TNs
  BY <1>1
<1>4. ASSUME NEW c \in OnWire, NEW k \in 0..a PROVE cmd[c].tn # (tn + k) % TNs
  <2> DEFINE s == tn + k
  <2>1. s \in Nat /\ s < TNs /\ tn =< s
    BY <1>1
  <2> HIDE DEF s
  <2>2. s % TNs = s
    BY <1>1, <2>1, ModSmall
  <2>3. cmd[c].tn < s
    BY <1>1, <1>2, <2>1
  <2>4. cmd[c].tn \in Nat
    BY <1>2
  <2>5. cmd[c].tn # s % TNs
    BY <2>1, <2>2, <2>3, <2>4
  <2> QED BY <2>5 DEF s
<1> QED BY <1>3, <1>4 DEF NumbersFresh, a

\* A command on the wire is registered under its number unless it backs off, so
\* that its answer finds it, and everything else that ControllerInvariant says
\* holds, as long as the next numbers are not in use.
THEOREM AnswersFindCommands == Spec /\ []NumbersFresh => []ControllerInvariant
<1>1. Init => ControllerInv /\ RegInv
  BY InitInv, InitNumbers
<1>2. ControllerInv /\ RegInv /\ NumbersFresh /\ [Next]_vars => (ControllerInv /\ RegInv)'
  <2> SUFFICES ASSUME ControllerInv, RegInv, NumbersFresh, [Next]_vars
               PROVE  ControllerInv' /\ RegInv'
    OBVIOUS
  <2>1. ControllerInv' /\ Kept
    BY NextKeeps, NextNumbers
  <2> QED BY <2>1 DEF Kept
<1>3. ControllerInv /\ RegInv => ControllerInvariant
  BY TypeFollows, QueuesFollow, HoldsFollow, WakesFollow, RegisteredFollows, DrainsFollow
     DEF ControllerInvariant
<1> QED BY <1>1, <1>2, <1>3, PTL DEF Spec

\* The data of an acknowledged command is whole and its own, as long as the
\* numbers do not wrap.
THEOREM AnswersAreOwn == Spec /\ []NumbersLast => []AnswerIsOwn
<1> DEFINE I == ControllerInv /\ RegInv /\ AnsInv
<1>1. Init => I
  BY InitInv, InitNumbers
<1>2. I /\ NumbersLast /\ [Next]_vars => I'
  <2> SUFFICES ASSUME ControllerInv, RegInv, AnsInv, NumbersLast, [Next]_vars
               PROVE  ControllerInv' /\ RegInv' /\ AnsInv'
    OBVIOUS
  <2>1. NumbersFresh
    BY LastAreFresh
  <2>2. ControllerInv' /\ Kept
    BY <2>1, NextKeeps, NextNumbers
  <2> QED BY <2>2 DEF Kept
<1>3. I => AnswerIsOwn
  BY OwnFollows
<1> QED BY <1>1, <1>2, <1>3, PTL DEF Spec
=============================================================================
