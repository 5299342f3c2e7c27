------------------------------- MODULE DeviceReads -------------------------------
(* The device registry and the automatic identity reader behind it.  The        *)
(* registry's event loop lists the devices a Table of Devices names, caches     *)
(* what answers bring, and tells the reader of every device named; the reader   *)
(* keeps a ledger of attempts and reads one device at a time.  Clearing the     *)
(* device table empties both, one after the other, beside all of this.          *)
EXTENDS Naturals, Sequences, FiniteSets, SequencesExt, Filters

CONSTANTS
  DevPorts,      \* node ports
  DevUIDs,       \* RDM responders
  MaxAttempts,   \* passes a device gets
  RDMEvents,     \* capacity of the controller's event channel
  MaxNews        \* tables, recoveries and clears in a behaviour

Devices == [port : DevPorts, uid : DevUIDs]

ASSUME ReadsAssumption ==
  /\ IsFiniteSet(Devices) /\ Devices # {}
  /\ MaxAttempts \in Nat \ {0}
  /\ RDMEvents \in Nat \ {0}
  /\ MaxNews \in Nat

VARIABLES
  fixture,   \* the registry: "absent", "listed" or "read" (DEVICE_INFO cached)
  rdmEvents, \* the controller's events, on their way to the registry
  naming,    \* devices of the table being merged that the hook has yet to note
  signalling,\* a Note has left the mutex and not yet signalled
  ledger,    \* the reader's entries: state and attempts
  readQueue, \* the reader's queue
  wake,      \* the wake channel
  reader,    \* the reader's goroutine: what it is at, with which device
  clearing,  \* the devices a clear has removed from the registry and not yet
             \* from the ledger
  missed,    \* devices an answer of which was dropped for a full channel
  news       \* tables, recoveries and clears so far
devVars == <<fixture, rdmEvents, naming, signalling, ledger, readQueue, wake, reader,
             clearing, missed, news>>
registryVars == <<fixture, rdmEvents, naming, signalling, missed>>
ledgerVars == <<ledger, readQueue, wake>>

Unknown == [state |-> "unknown", attempts |-> 0]
Events == [kind : {"tod"}, devices : SUBSET Devices] \cup [kind : {"info"}, device : Devices]

ReadsTypeOK ==
  /\ fixture \in [Devices -> {"absent", "listed", "read"}]
  /\ rdmEvents \in Seq(Events) /\ Len(rdmEvents) <= RDMEvents
  /\ naming \in Seq(Devices) /\ signalling \in BOOLEAN
  /\ ledger \in [Devices -> [state : {"unknown", "pending", "reading", "read", "gaveUp"},
                             attempts : 0 .. MaxAttempts]]
  /\ readQueue \in Seq(Devices) /\ wake \in BOOLEAN
  /\ reader \in [at : {"take", "wait", "pass", "file", "ended"}, device : Devices,
                 info : BOOLEAN, cancelled : BOOLEAN]
  /\ clearing \subseteq Devices /\ missed \subseteq Devices
  /\ news \in 0 .. MaxNews

ReadsInit ==
  /\ fixture = [d \in Devices |-> "absent"]
  /\ rdmEvents = <<>> /\ naming = <<>> /\ signalling = FALSE
  /\ ledger = [d \in Devices |-> Unknown]
  /\ readQueue = <<>> /\ wake = FALSE
  /\ reader = [at |-> "take", device |-> CHOOSE d \in Devices : TRUE,
               info |-> FALSE, cancelled |-> FALSE]
  /\ clearing = {} /\ missed = {} /\ news = 0

News == news < MaxNews /\ news' = news + 1

(* RDMController.emitLocked: an event that does not fit is dropped. *)
Published(e, about) ==
  IF Len(rdmEvents) < RDMEvents
  THEN rdmEvents' = Append(rdmEvents, e) /\ missed' = missed
  ELSE rdmEvents' = rdmEvents /\ missed' = missed \cup about

----------------------------------------------------------------------------
(* The registry. *)

(* A port's Table of Devices names ds. *)
TableArrives(p, ds) ==
  /\ News
  /\ Published([kind |-> "tod", devices |-> [port : {p}, uid : ds]], {})
  /\ UNCHANGED <<fixture, naming, signalling, ledgerVars, reader, clearing>>

(* handleRDMEvent: mergeToD lists the devices, then calls the hook for each,   *)
(* without the mutex; an answer is cached on a record created if need be.      *)
RegistryTakes ==
  /\ rdmEvents # <<>> /\ naming = <<>> /\ ~signalling
  /\ LET e == Head(rdmEvents) IN
     \/ /\ e.kind = "tod"
        /\ fixture' = [d \in Devices |-> IF d \in e.devices /\ fixture[d] = "absent"
                                         THEN "listed" ELSE fixture[d]]
        /\ naming' \in SetToSeqs(e.devices)
     \/ /\ e.kind = "info"
        /\ fixture' = [fixture EXCEPT ![e.device] = "read"]
        /\ UNCHANGED naming
  /\ rdmEvents' = Tail(rdmEvents)
  /\ UNCHANGED <<signalling, missed, ledgerVars, reader, clearing, news>>

----------------------------------------------------------------------------
(* The ledger. *)

(* Note: a device that is not in the ledger is queued. *)
NoteHook ==
  /\ naming # <<>> /\ ~signalling
  /\ LET d == Head(naming)
         new == ledger[d].state = "unknown"
     IN /\ ledger' = IF new THEN [ledger EXCEPT ![d].state = "pending"] ELSE ledger
        /\ readQueue' = IF new THEN Append(readQueue, d) ELSE readQueue
        /\ signalling' = new
  /\ naming' = Tail(naming)
  /\ UNCHANGED <<fixture, rdmEvents, missed, wake, reader, clearing, news>>

(* Seeded bug: a Note leaves the reader asleep. *)
SignalNobody ==
  /\ signalling
  /\ signalling' = FALSE
  /\ UNCHANGED <<fixture, rdmEvents, missed, naming, wake, ledger, readQueue, reader, clearing, news>>

SignalHook ==
  /\ signalling
  /\ signalling' = FALSE
  /\ wake' = TRUE
  /\ UNCHANGED <<fixture, rdmEvents, missed, naming, ledger, readQueue, reader, clearing, news>>

(* Forget, ForgetPort and Reset differ in the devices they drop. *)
Forgotten(ds) ==
  /\ ledger' = [d \in Devices |-> IF d \in ds THEN Unknown ELSE ledger[d]]
  /\ readQueue' = Without(readQueue, ds)

(* Introspect: asking for a device by name reopens its budget. *)
ForgetUID(x) ==
  /\ News
  /\ Forgotten([port : DevPorts, uid : {x}])
  /\ UNCHANGED <<registryVars, wake, reader, clearing>>

(* A paused device answers again: Forget, then Note. *)
Recovered(d) ==
  /\ News
  /\ LET ds == [port : DevPorts, uid : {d.uid}]
     IN /\ ledger' = [e \in Devices |->
                        IF e = d THEN [state |-> "pending", attempts |-> 0]
                        ELSE IF e \in ds THEN Unknown ELSE ledger[e]]
        /\ readQueue' = Append(Without(readQueue, ds), d)
  /\ wake' = TRUE
  /\ UNCHANGED <<registryVars, reader, clearing>>

(* POST /api/devices/clear and the full reset: first the registry ... *)
ClearRegistry(ds) ==
  /\ clearing = {} /\ News
  /\ fixture' = [d \in Devices |-> IF d \in ds THEN "absent" ELSE fixture[d]]
  /\ clearing' = ds
  /\ UNCHANGED <<rdmEvents, naming, signalling, missed, ledgerVars, reader>>
(* ... then, after the controller's table, the ledger. *)
ClearLedger ==
  /\ clearing # {}
  /\ Forgotten(clearing)
  /\ clearing' = {}
  /\ UNCHANGED <<registryVars, wake, reader, news>>

----------------------------------------------------------------------------
(* The reader. *)

(* take: slots of devices that are not pending are skipped. *)
Ready == {i \in 1 .. Len(readQueue) : ledger[readQueue[i]].state = "pending"}
Take ==
  /\ reader.at = "take" /\ ~reader.cancelled
  /\ \/ /\ Ready = {}
        /\ reader' = [reader EXCEPT !.at = "wait"]
        /\ readQueue' = <<>>
        /\ UNCHANGED ledger
     \/ \E i \in Ready :
          /\ \A j \in Ready : i <= j
          /\ reader' = [reader EXCEPT !.at = "pass", !.device = readQueue[i]]
          /\ readQueue' = SubSeq(readQueue, i + 1, Len(readQueue))
          /\ ledger' = [ledger EXCEPT ![readQueue[i]].state = "reading"]
  /\ UNCHANGED <<registryVars, wake, clearing, news>>

Woken ==
  /\ reader.at = "wait" /\ wake
  /\ wake' = FALSE
  /\ reader' = [reader EXCEPT !.at = "take"]
  /\ UNCHANGED <<registryVars, ledger, readQueue, clearing, news>>

(* A pass ends: with DEVICE_INFO, whose answer the controller also publishes,  *)
(* or without (silence, a NACK, the pass's deadline, a cancelled context).     *)
PassAnswered ==
  /\ reader.at = "pass"
  /\ Published([kind |-> "info", device |-> reader.device], {reader.device})
  /\ reader' = [reader EXCEPT !.at = "file", !.info = TRUE]
  /\ UNCHANGED <<fixture, naming, signalling, ledgerVars, clearing, news>>
PassFailed ==
  /\ reader.at = "pass"
  /\ reader' = [reader EXCEPT !.at = "file", !.info = FALSE]
  /\ UNCHANGED <<registryVars, ledgerVars, clearing, news>>

(* What readOne makes of an entry that is still "reading". *)
Filed(e, info, cancelled) ==
  IF info THEN [state |-> "read", attempts |-> e.attempts + 1]
  ELSE IF cancelled THEN [e EXCEPT !.state = "pending"]
  ELSE IF e.attempts + 1 >= MaxAttempts THEN [state |-> "gaveUp", attempts |-> e.attempts + 1]
  ELSE [state |-> "pending", attempts |-> e.attempts + 1]

(* Seeded bug: the outcome is filed whatever became of the entry meanwhile. *)
FileAnyway ==
  /\ reader.at = "file"
  /\ LET d == reader.device
         e == [Filed([ledger[d] EXCEPT !.attempts = IF @ = MaxAttempts THEN @ - 1 ELSE @],
                     reader.info, reader.cancelled) EXCEPT !.attempts = @]
     IN /\ ledger' = [ledger EXCEPT ![d] = e]
        /\ readQueue' = IF e.state = "pending" THEN Append(readQueue, d) ELSE readQueue
        /\ wake' = (wake \/ e.state = "pending")
  /\ reader' = [reader EXCEPT !.at = "take", !.info = FALSE]
  /\ UNCHANGED <<registryVars, clearing, news>>

(* readOne's end: an entry forgotten, or queued anew, during the pass is left  *)
(* alone.                                                                      *)
File ==
  /\ reader.at = "file"
  /\ LET d == reader.device
         e == Filed(ledger[d], reader.info, reader.cancelled)
     IN IF ledger[d].state = "reading"
        THEN /\ ledger' = [ledger EXCEPT ![d] = e]
             /\ readQueue' = IF e.state = "pending" THEN Append(readQueue, d) ELSE readQueue
             /\ wake' = (wake \/ e.state = "pending")
        ELSE UNCHANGED ledgerVars
  /\ reader' = [reader EXCEPT !.at = "take", !.info = FALSE]
  /\ UNCHANGED <<registryVars, clearing, news>>

(* Shutdown: Run returns when it next looks at its context. *)
CancelReader ==
  /\ ~reader.cancelled
  /\ reader' = [reader EXCEPT !.cancelled = TRUE]
  /\ UNCHANGED <<registryVars, ledgerVars, clearing, news>>
ReaderEnds ==
  /\ reader.cancelled /\ reader.at \in {"take", "wait"}
  /\ reader' = [reader EXCEPT !.at = "ended"]
  /\ UNCHANGED <<registryVars, ledgerVars, clearing, news>>

ReaderStep == Take \/ Woken \/ PassAnswered \/ PassFailed \/ File \/ ReaderEnds
RegistryStep == RegistryTakes \/ NoteHook \/ SignalHook

ReadsNext ==
  \/ ReaderStep
  \/ RegistryStep
  \/ CancelReader
  \/ \E p \in DevPorts, ds \in SUBSET DevUIDs : ds # {} /\ TableArrives(p, ds)
  \/ \E x \in DevUIDs : ForgetUID(x)
  \/ \E d \in Devices : Recovered(d)
  \/ ClearRegistry(Devices)
  \/ \E p \in DevPorts : ClearRegistry([port : {p}, uid : DevUIDs])
  \/ ClearLedger

(* Goroutines that can run do; a pass ends (its commands end, and it has a     *)
(* deadline).                                                                  *)
ReadsFairness == WF_devVars(ReaderStep) /\ WF_devVars(RegistryStep)
ReadsSpec == ReadsInit /\ [][ReadsNext]_devVars

----------------------------------------------------------------------------
(* A pending device has one slot in the queue, whatever forgets, notes and     *)
(* passes met, and no other device has any: none is lost, none gets the passes *)
(* of two (dropQueuedLocked).                                                  *)
PendingIsQueued ==
  \A d \in Devices :
    Cardinality({i \in 1 .. Len(readQueue) : readQueue[i] = d}) =
      IF ledger[d].state = "pending" THEN 1 ELSE 0

(* A reader that sleeps beside a queue has been, or is about to be, woken.     *)
NoLostWakeup ==
  (reader.at = "wait" /\ readQueue # <<>>) => wake \/ signalling

(* A device the ledger calls read has its DEVICE_INFO in the registry, or the  *)
(* answer is on its way there, or was dropped for a full channel, or a clear   *)
(* is about to reach the ledger too: a cleared table is never left behind a    *)
(* full ledger, "a rig that never fills in again".                             *)
ReadIsOnRecord ==
  \A d \in Devices :
    ledger[d].state = "read" =>
      \/ fixture[d] = "read"
      \/ \E i \in 1 .. Len(rdmEvents) : rdmEvents[i].kind = "info" /\ rdmEvents[i].device = d
      \/ d \in missed
      \/ d \in clearing

(* Every device queued is read, given up on or forgotten, unless the reader    *)
(* has been stopped.                                                           *)
PendingSettles ==
  \A d \in Devices :
    ledger[d].state = "pending" ~> (ledger[d].state # "pending" \/ reader.at = "ended")
=============================================================================
