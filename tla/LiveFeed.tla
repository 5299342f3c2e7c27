-------------------------------- MODULE LiveFeed --------------------------------
(* What happens to a datagram on its way to the engines and to the browsers:    *)
(* the socket's reader, the demultiplexer with its taps, the capture rings, and *)
(* the batches the ring publishes to every open WebSocket.  Every channel is    *)
(* bounded and no sender waits: what does not fit is dropped.                   *)
EXTENDS Naturals, Sequences, FiniteSets, SequencesExt, Filters

CONSTANTS
  DatagramKinds, \* what comes and goes: see below
  Engines,      \* the demultiplexer's subscribers
  Browsers,     \* WebSocket connections of a behaviour
  InSlots,      \* capacity of the transport's channel
  EngineSlots,  \* capacity of a subscriber's channel (256)
  RingSlots,    \* capacity of the capture ring
  BatchSlots,   \* capacity of a browser's capture channel (8)
  OpcodeCap,    \* sightings of an unknown opcode that are logged
  MaxEntries    \* entries captured in a behaviour

(* "rdm" goes to the RDM log, "strange" has an opcode that is not decoded and  *)
(* is logged OpcodeCap times, "dmx" is for the general ring only.              *)
ASSUME FeedAssumption ==
  /\ DatagramKinds \subseteq {"rdm", "strange", "dmx"}
  /\ InSlots \in Nat \ {0} /\ EngineSlots \in Nat \ {0} /\ RingSlots \in Nat \ {0}
  /\ BatchSlots \in Nat \ {0} /\ OpcodeCap \in Nat \ {0} /\ MaxEntries \in Nat

VARIABLES
  socketOpen, inbound,  \* the transport's channel
  engineIn,             \* the engines' channels
  ring, ringSeq,        \* the capture ring (its entries' sequence numbers), its counter
  rdmLog, sightings,    \* the RDM ring's kinds; the opcode's count
  browser,              \* each connection: "new", "open" or "closed"
  batches,              \* each connection's capture channel
  lastSeq,              \* each subscriber's high-water mark
  publishing,           \* the Publish in progress
  given, dropped,       \* what a subscriber's channel took, and what did not fit
  panicked              \* a send on a closed channel has brought the server down
feedVars == <<socketOpen, inbound, engineIn, ring, ringSeq, rdmLog, sightings, browser,
              batches, lastSeq, publishing, given, dropped, panicked>>
wireVars == <<socketOpen, inbound, engineIn>>
captureVars == <<ring, ringSeq, rdmLog, sightings>>
viewVars == <<browser, batches, lastSeq, publishing, given, dropped, panicked>>

NoPublish == [todo |-> {}, snapshot |-> <<>>, to |-> {}, batch |-> <<>>]

FeedTypeOK ==
  /\ socketOpen \in BOOLEAN
  /\ inbound \in Seq(DatagramKinds) /\ Len(inbound) <= InSlots
  /\ engineIn \in [Engines -> Seq(DatagramKinds)]
  /\ ring \in Seq(1 .. MaxEntries) /\ Len(ring) <= RingSlots /\ ringSeq \in 0 .. MaxEntries
  /\ rdmLog \in Seq(DatagramKinds \cup {"suppressed"}) /\ sightings \in Nat
  /\ browser \in [Browsers -> {"new", "open", "closed"}]
  /\ \A b \in Browsers : Len(batches[b]) <= BatchSlots
  /\ lastSeq \in [Browsers -> 0 .. MaxEntries]
  /\ publishing.todo \cup publishing.to \subseteq Browsers
  /\ panicked \in BOOLEAN

FeedInit ==
  /\ socketOpen = TRUE /\ inbound = <<>> /\ engineIn = [g \in Engines |-> <<>>]
  /\ ring = <<>> /\ ringSeq = 0 /\ rdmLog = <<>> /\ sightings = 0
  /\ browser = [b \in Browsers |-> "new"] /\ batches = [b \in Browsers |-> <<>>]
  /\ lastSeq = [b \in Browsers |-> 0] /\ publishing = NoPublish
  /\ given = [b \in Browsers |-> <<>>] /\ dropped = [b \in Browsers |-> {}]
  /\ panicked = FALSE

Offered(ch, x, slots) == IF Len(ch) < slots THEN Append(ch, x) ELSE ch

----------------------------------------------------------------------------
(* Capture. *)

(* The throttle counts every sighting and logs the first OpcodeCap of them and *)
(* one line that says that no more follow.                                     *)
LogLines(n) == IF n <= OpcodeCap THEN <<"strange">>
               ELSE IF n = OpcodeCap + 1 THEN <<"suppressed">> ELSE <<>>

(* tap: Ring.Add evicts the oldest; then the RDM ring.  Only what comes in can *)
(* have an opcode this program does not know.                                  *)
Tapped(kind, in) ==
  /\ ringSeq < MaxEntries
  /\ ringSeq' = ringSeq + 1
  /\ ring' = LET r == Append(ring, ringSeq + 1)
             IN IF Len(r) > RingSlots THEN Tail(r) ELSE r
  /\ sightings' = IF kind = "strange" /\ in THEN sightings + 1 ELSE sightings
  /\ rdmLog' = CASE kind = "rdm" -> Append(rdmLog, "rdm")
                 [] kind = "strange" /\ in -> rdmLog \o LogLines(sightings + 1)
                 [] OTHER -> rdmLog

(* Seeded bug: clearing starts the numbering anew. *)
ClearRestarts ==
  /\ ring' = <<>> /\ ringSeq' = 0
  /\ UNCHANGED <<wireVars, rdmLog, sightings, viewVars>>

ClearRing ==
  /\ ring' = <<>>
  /\ UNCHANGED <<wireVars, ringSeq, rdmLog, sightings, viewVars>>

----------------------------------------------------------------------------
(* Datagrams. *)

(* recvLoop *)
Receive(kind) ==
  /\ socketOpen /\ ringSeq + Len(inbound) < MaxEntries
  /\ inbound' = Offered(inbound, kind, InSlots)
  /\ UNCHANGED <<socketOpen, engineIn, captureVars, viewVars>>

(* pump: the tap first, then every subscriber that has room. *)
Pump ==
  /\ inbound # <<>>
  /\ inbound' = Tail(inbound)
  /\ Tapped(Head(inbound), TRUE)
  /\ engineIn' = [g \in Engines |-> Offered(engineIn[g], Head(inbound), EngineSlots)]
  /\ UNCHANGED <<socketOpen, viewVars>>

EngineTakes(g) ==
  /\ engineIn[g] # <<>>
  /\ engineIn' = [engineIn EXCEPT ![g] = Tail(@)]
  /\ UNCHANGED <<socketOpen, inbound, captureVars, viewVars>>

(* A view's Send or Broadcast; a closed socket refuses and nothing is tapped. *)
SendOut(kind) ==
  /\ socketOpen
  /\ Tapped(kind, FALSE)
  /\ UNCHANGED <<wireVars, viewVars>>

CloseSocket ==
  /\ socketOpen
  /\ socketOpen' = FALSE
  /\ UNCHANGED <<inbound, engineIn, captureVars, viewVars>>

----------------------------------------------------------------------------
(* Publishing. *)

(* handleWS subscribes; its write loop takes batches; when the connection      *)
(* ends its deferred calls cancel the subscription.                            *)
Connect(b) ==
  /\ browser[b] = "new"
  /\ browser' = [browser EXCEPT ![b] = "open"]
  /\ UNCHANGED <<wireVars, captureVars, batches, lastSeq, publishing, given, dropped, panicked>>
TakeBatch(b) ==
  /\ browser[b] = "open" /\ batches[b] # <<>>
  /\ batches' = [batches EXCEPT ![b] = Tail(@)]
  /\ UNCHANGED <<wireVars, captureVars, browser, lastSeq, publishing, given, dropped, panicked>>
Disconnect(b) ==
  /\ browser[b] = "open"
  /\ browser' = [browser EXCEPT ![b] = "closed"]
  /\ UNCHANGED <<wireVars, captureVars, batches, lastSeq, publishing, given, dropped, panicked>>

(* Publish copies ring and subscribers under the mutex; without a subscriber   *)
(* there is nothing more to it ...                                             *)
PublishBegins ==
  /\ publishing = NoPublish /\ \E b \in Browsers : browser[b] = "open"
  /\ publishing' = [NoPublish EXCEPT !.todo = {b \in Browsers : browser[b] = "open"},
                                     !.snapshot = ring]
  /\ UNCHANGED <<wireVars, captureVars, browser, batches, lastSeq, given, dropped, panicked>>

(* ... collects for each subscriber what is beyond its mark, and moves the     *)
(* mark, without the mutex ...                                                 *)
PublishPrepares(b) ==
  /\ publishing.to = {} /\ b \in publishing.todo
  /\ LET new == Without(publishing.snapshot, 0 .. lastSeq[b])
         rest == publishing.todo \ {b}
     IN IF new # <<>>
        THEN /\ publishing' = [publishing EXCEPT !.todo = rest, !.to = {b}, !.batch = new]
             /\ lastSeq' = [lastSeq EXCEPT ![b] = Last(new)]
        ELSE /\ publishing' = IF rest = {} THEN NoPublish ELSE [publishing EXCEPT !.todo = rest]
             /\ UNCHANGED lastSeq
  /\ UNCHANGED <<wireVars, captureVars, browser, batches, given, dropped, panicked>>

Sent == IF publishing.todo = {} THEN NoPublish ELSE [publishing EXCEPT !.to = {}, !.batch = <<>>]

(* ... and offers it under the mutex, unless the subscriber has gone.          *)
PublishSends(b) ==
  /\ b \in publishing.to
  /\ publishing' = Sent
  /\ IF browser[b] = "closed" THEN UNCHANGED <<batches, given, dropped>>
     ELSE IF Len(batches[b]) < BatchSlots
     THEN /\ batches' = [batches EXCEPT ![b] = Append(@, publishing.batch)]
          /\ given' = [given EXCEPT ![b] = @ \o publishing.batch]
          /\ UNCHANGED dropped
     ELSE /\ dropped' = [dropped EXCEPT ![b] = @ \cup ToSet(publishing.batch)]
          /\ UNCHANGED <<batches, given>>
  /\ UNCHANGED <<wireVars, captureVars, browser, lastSeq, panicked>>

FeedNext ==
  \/ \E k \in DatagramKinds : Receive(k)
  \/ Pump
  \/ \E g \in Engines : EngineTakes(g)
  \/ \E k \in DatagramKinds \ {"strange"} : SendOut(k)
  \/ CloseSocket
  \/ ClearRing
  \/ \E b \in Browsers : Connect(b) \/ TakeBatch(b) \/ Disconnect(b)
  \/ PublishBegins
  \/ \E b \in Browsers : PublishPrepares(b) \/ PublishSends(b)

FeedSpec == FeedInit /\ [][FeedNext]_feedVars

----------------------------------------------------------------------------
(* A browser is sent every entry at most once and in order, and one that the   *)
(* ring still has is only missing because its batch did not fit: clearing and  *)
(* evicting never make the mark run ahead of what was sent.                    *)
FeedIsExact ==
  \A b \in Browsers :
    /\ \A i, j \in 1 .. Len(given[b]) : i < j => given[b][i] < given[b][j]
    /\ browser[b] = "open" =>
         \A s \in ToSet(ring) :
           s <= lastSeq[b] => \/ s \in ToSet(given[b]) \cup dropped[b]
                              \/ b \in publishing.to /\ s \in ToSet(publishing.batch)

(* A browser that goes away in the middle of a Publish does not bring the      *)
(* server down (Ring.Publish: "used to panic the server").                     *)
NoSendOnClosed == ~panicked

=============================================================================
