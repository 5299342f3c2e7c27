------------------------------ MODULE DMXOutput ------------------------------
(***************************************************************************)
(* The DMX output engine (internal/session/dmxout.go): sources composed    *)
(* into show universes, routed to Art-Net and sACN streams, let onto the   *)
(* wire by the master Arm, held alive by the browsers' lease, refreshed by *)
(* a self-rescheduling tick.                                               *)
(*                                                                         *)
(* A universe has one slot here: composition, ownership and the held look  *)
(* are decided slot by slot.  A packet that repeats the last frame changes *)
(* nothing a receiver holds, so bursts, keep-alives and the threefold      *)
(* blackout are single sends; virtual dimmers and Lowlight, which rescale  *)
(* a frame and transmit it, are a Push.  Art-Net sends do not fail; sACN's *)
(* fail while its socket cannot be opened.                                 *)
(***************************************************************************)
EXTENDS Naturals, Sequences

CONSTANTS
  Shows,         \* show universes
  Mapped,        \* those that have an sACN universe
  Edited,        \* the sources that are edited
  Written,       \* levels they write
  Lit,           \* the level Identify shows
  CommandLevel,  \* level of a one-shot command
  IsolateLevel,  \* level of Isolate: 0 in the code, told apart from 0 here
  Routings,      \* routing tables: sets of <<protocol, show>>
  Identities,    \* sets of streams Universe Identify may own
  Clients,       \* browsers
  Commands,      \* one-shot commands
  None,          \* no level, no client
  MaxChains      \* bound: chains of ticks under way

Artnet == "artnet"
SACN == "sacn"
Streams == {Artnet, SACN} \X Shows
Protocol(k) == k[1]
Show(k) == k[2]

\* Lowest priority first.
Sources == <<"base", "tests", "isolate", "faders", "programmer", "highlight",
             "command", "raw">>
Source == {Sources[n] : n \in 1..Len(Sources)}
Levels == {0, Lit, CommandLevel, IsolateLevel} \cup Written
Level == Levels \cup {None}

ASSUME OutputAssumption ==
  /\ Mapped \subseteq Shows
  /\ Edited \subseteq Source \ {"command", "isolate"}
  /\ Routings \subseteq SUBSET Streams /\ Identities \subseteq SUBSET Streams
  /\ None \notin Levels /\ None \notin Clients
  /\ CommandLevel \notin Written \cup {0, Lit, IsolateLevel}
  /\ IsolateLevel \notin Written \cup {0, Lit}
  /\ MaxChains \in Nat

VARIABLES
  layer,     \* layer[s][src]: the level src claims on universe s, or None
  routing,   \* the streams SetRouting names
  identify,  \* streams Universe Identify owns
  choice,    \* lease-loss action: blackout or hold
  state,     \* disarmed, armed or holding
  clients,   \* clients[c]: fresh, stale (silent for the lease) or absent
  hold,      \* hold[k]: the held level, or None
  active,    \* active[k]: transmit state of stream k
  wire,      \* wire[k]: the last level sent on k (ws.last), or None
  link,      \* the sACN socket is open
  openable,  \* it can be opened
  command,   \* command[i]: unused, fired, finished or dropped
  target,    \* target[i]: the universe it claims
  isolate,   \* the browser that turned Isolate on, or None
  timer,     \* e.timer: nil, armed, or fired
  orphans,   \* armed tick timers that e.timer does not hold any more
  waiting    \* ticks that fired and wait for the mutex

sources == <<layer, routing, identify, choice>>
output == <<active, wire, link>>
transients == <<command, target, isolate>>
ticks == <<timer, orphans, waiting>>
vars == <<sources, state, clients, hold, output, openable, transients, ticks>>

Inactive == [on |-> FALSE, sent |-> FALSE, show |-> FALSE]

Init ==
  /\ layer = [s \in Shows |-> [src \in Source |-> None]]
  /\ routing = {<<Artnet, s>> : s \in Shows}
  /\ identify = {}
  /\ choice = "blackout"
  /\ state = "disarmed"
  /\ clients = [c \in Clients |-> "absent"]
  /\ hold = [k \in Streams |-> None]
  /\ active = [k \in Streams |-> Inactive]
  /\ wire = [k \in Streams |-> None]
  /\ link = FALSE
  /\ openable \in BOOLEAN
  /\ command = [i \in Commands |-> "unused"]
  /\ target \in [Commands -> Shows]
  /\ isolate = None
  /\ timer = "nil" /\ orphans = 0 /\ waiting = 0

-----------------------------------------------------------------------------
\* compose and desiredLocked.

\* The sources that claim a universe u (a row of layer), by priority; the
\* highest one shows.
Owners(u) == {n \in 1..Len(Sources) : u[Sources[n]] # None}
Claimed(u) == Owners(u) # {}
Compose(u) == u[Sources[CHOOSE n \in Owners(u) : \A m \in Owners(u) : m <= n]]

Routed(k) == k \in routing /\ (Protocol(k) = SACN => Show(k) \in Mapped)

\* What an armed engine wants on stream k, or None.  Identify's frames are
\* full.
Live(k) ==
  IF k \in identify THEN Lit
  ELSE IF Routed(k) /\ Claimed(layer[Show(k)]) THEN Compose(layer[Show(k)])
  ELSE None

\* Seeded bug: streams that are not held go on with the live look.
WantedWhileHeld(k) ==
  IF state = "armed" \/ (state = "holding" /\ hold[k] = None) THEN Live(k)
  ELSE hold[k]

Wanted(k) ==
  CASE state = "armed" -> Live(k)
    [] state = "holding" -> hold[k]
    [] state = "disarmed" -> None

\* The stream carries its show universe: neither Identify's nor held.
CarriesShow(k) == state = "armed" /\ k \notin identify

-----------------------------------------------------------------------------
\* Sending.  A stream that was sent on sACN has the socket.

CanSend(k) == Protocol(k) = Artnet \/ link \/ openable

\* What retireLocked and disarmLocked leave behind: zero frames, and on sACN
\* the end of the stream.
Parting(k) == IF Protocol(k) = Artnet THEN 0 ELSE None

\* Seeded bug: a stream that its routing switches off leaves without a word.
RetiresRouted(k) == active[k].sent /\ Wanted(k)' = None /\ Routed(k)'

\* retireLocked: stream k was sent, and no longer is.
Retires(k) == active[k].sent /\ Wanted(k)' = None

\* The owner of stream k changes.
Handover(k) == active[k].on /\ active[k].show # CarriesShow(k)'

\* A wanted stream goes out in a pass: sACN whenever its frame changed,
\* Art-Net on a tick, when its owner changed, or when the change names it.
Due(k, tick, shows, identifying) ==
  \/ Protocol(k) = SACN
  \/ tick
  \/ Handover(k)
  \/ CarriesShow(k)' /\ Show(k) \in shows
  \/ ~CarriesShow(k)' /\ identifying

\* passLocked, after the change that the rest of the handler makes: streams
\* no longer wanted are retired, and those that are due go out.
Pass(tick, shows, identifying) ==
  LET want(k) == Wanted(k)'
      sends(k) == want(k) # None /\ Due(k, tick, shows, identifying) /\ CanSend(k)
  IN IF state' = "disarmed" THEN UNCHANGED output
     ELSE /\ active' = [k \in Streams |->
                IF want(k) = None THEN Inactive
                ELSE [on |-> TRUE, sent |-> active[k].sent \/ sends(k),
                      show |-> CarriesShow(k)']]
          /\ wire' = [k \in Streams |->
                IF sends(k) THEN want(k)
                ELSE IF Retires(k) THEN Parting(k) ELSE wire[k]]
          /\ link' = (link \/ \E k \in Streams : Protocol(k) = SACN /\ sends(k))

NoPass == UNCHANGED output

\* Handlers that pass only when some universe changed.
PassOver(shows) ==
  IF shows = {} THEN NoPass ELSE Pass(FALSE, shows, FALSE)

-----------------------------------------------------------------------------
\* Sources.

\* Where a source's claims and F differ.
Changed(src, F) == {s \in Shows : layer[s][src] # F[s]}

WithSource(src, F) == [s \in Shows |-> [layer[s] EXCEPT ![src] = F[s]]]

\* SetFrame, SetChannels: nothing is transmitted.
SetFrame(src, s, v) ==
  /\ layer' = [layer EXCEPT ![s][src] = v]
  /\ UNCHANGED <<routing, identify, choice, state, clients, hold, output,
                 openable, transients, ticks>>

\* ReplaceSource, and Release of what F leaves out.
ReplaceSource(src, F) ==
  /\ layer' = WithSource(src, F)
  /\ UNCHANGED <<routing, identify, choice, state, clients, hold, openable,
                 transients, ticks>>
  /\ PassOver(Changed(src, F))

\* PublishSource transmits what src claimed or claims, changed or not.
PublishSource(src, F) ==
  /\ layer' = WithSource(src, F)
  /\ UNCHANGED <<routing, identify, choice, state, clients, hold, openable,
                 transients, ticks>>
  /\ Pass(FALSE, {s \in Shows : layer[s][src] # None \/ F[s] # None}, FALSE)

\* Push; SetLowlight and the virtual dimmers.
Push(shows) ==
  /\ UNCHANGED <<sources, state, clients, hold, openable, transients, ticks>>
  /\ Pass(FALSE, shows, FALSE)

SetRouting(r) ==
  /\ routing' = r
  /\ UNCHANGED <<layer, identify, choice, state, clients, hold, openable,
                 transients, ticks>>
  /\ Pass(FALSE, {}, FALSE)

\* SetIdentify and ClearIdentify.
SetIdentify(ks) ==
  /\ identify' = ks
  /\ UNCHANGED <<layer, routing, choice, state, clients, hold, openable,
                 transients, ticks>>
  /\ Pass(FALSE, {}, TRUE)

SetLeaseLossAction(a) ==
  /\ choice' = a
  /\ UNCHANGED <<layer, routing, identify, state, clients, hold, output,
                 openable, transients, ticks>>

-----------------------------------------------------------------------------
\* One-shot commands and Isolate.

NoClaims == [s \in Shows |-> None]

\* applyCommandsLocked: what the commands in flight claim.
CommandFrames(cmds) ==
  [s \in Shows |->
     IF \E i \in Commands : cmds[i] = "fired" /\ target[i] = s
     THEN CommandLevel ELSE None]

FireCommand(i) ==
  LET cmds == [command EXCEPT ![i] = "fired"]
  IN /\ state = "armed"
     /\ command[i] = "unused"
     /\ command' = cmds
     /\ layer' = WithSource("command", CommandFrames(cmds))
     /\ UNCHANGED <<routing, identify, choice, state, clients, hold, openable,
                    target, isolate, ticks>>
     /\ PassOver(Changed("command", CommandFrames(cmds)))

\* The callback at the end of its window; for a dropped command it does
\* nothing.
WindowEnds(i) ==
  LET cmds == [command EXCEPT ![i] = "finished"]
  IN /\ command[i] = "fired"
     /\ command' = cmds
     /\ layer' = WithSource("command", CommandFrames(cmds))
     /\ UNCHANGED <<routing, identify, choice, state, clients, hold, openable,
                    target, isolate, ticks>>
     /\ PassOver(Changed("command", CommandFrames(cmds)))

\* StartIsolate: it counts as a heartbeat.
StartIsolate(c) ==
  /\ state = "armed"
  /\ clients' = [clients EXCEPT ![c] = "fresh"]
  /\ isolate' = c
  /\ UNCHANGED <<sources, state, hold, output, openable, command, target, ticks>>

SetIsolateFrames(F) ==
  /\ isolate # None
  /\ layer' = WithSource("isolate", F)
  /\ UNCHANGED <<routing, identify, choice, state, clients, hold, openable,
                 transients, ticks>>
  /\ PassOver(Changed("isolate", F))

\* Seeded bug: Isolate ends and nothing goes out.
DropIsolateSilently ==
  /\ isolate' = None
  /\ layer' = WithSource("isolate", NoClaims)
  /\ UNCHANGED output

\* dropIsolateLocked, with a pass.
DropIsolate ==
  /\ isolate' = None
  /\ layer' = WithSource("isolate", NoClaims)
  /\ PassOver(Changed("isolate", NoClaims))

EndIsolate ==
  /\ isolate # None
  /\ UNCHANGED <<routing, identify, choice, state, clients, hold, openable,
                 command, target, ticks>>
  /\ DropIsolate

\* dropCommandsLocked and dropIsolateLocked, without a pass.
TransientsDropped ==
  /\ command' = [i \in Commands |->
                   IF command[i] = "fired" THEN "dropped" ELSE command[i]]
  /\ isolate' = None
  /\ layer' = [s \in Shows |->
                 [layer[s] EXCEPT !["command"] = None, !["isolate"] = None]]
  /\ UNCHANGED target

-----------------------------------------------------------------------------
\* The Arm and its lease.

LeaseAlive == \E c \in Clients : clients[c] = "fresh"

\* scheduleLocked overwrites e.timer, armed or not.
Schedule(due) ==
  /\ timer' = "armed"
  /\ orphans' = IF timer = "armed" THEN orphans + 1 ELSE orphans
  /\ waiting' = due

\* The streams that disarmLocked blacks out.
Leaving(k) == active[k].on \/ (state = "armed" /\ Wanted(k) # None)

\* disarmLocked of an engine that is armed or holding: timer.Stop does not
\* call back a tick that fired.
DisarmLocked ==
  /\ wire' = [k \in Streams |->
                IF Leaving(k) /\ CanSend(k) THEN Parting(k) ELSE wire[k]]
  /\ active' = [k \in Streams |-> Inactive]
  /\ hold' = [k \in Streams |-> None]
  /\ TransientsDropped
  /\ link' = FALSE
  /\ timer' = "nil"
  /\ state' = "disarmed"

\* Seeded bug: Isolate's channels are not looked at.
TransientCommand(s) == layer[s]["command"] # None

\* cmdSlots: a command or Isolate shows on universe s.
Transient(s) == layer[s]["command"] # None \/ layer[s]["isolate"] # None

\* leaseLostLocked with Hold last look: streams on the wire hold what they
\* show, except where a command or Isolate shows.
HoldLocked ==
  LET live(k) == Live(k)'
      without(k) == IF live(k) = None THEN 0 ELSE live(k)
  IN /\ TransientsDropped
     /\ UNCHANGED <<routing, identify, choice>>
     /\ hold' = [k \in Streams |->
          IF ~active[k].on THEN None
          ELSE IF ~active[k].sent THEN live(k)
          ELSE IF active[k].show /\ Transient(Show(k)) THEN without(k)
          ELSE wire[k]]
     /\ state' = "holding"

Arm(c) ==
  /\ waiting + orphans < MaxChains
  /\ clients' = [clients EXCEPT ![c] = "fresh"]
  /\ UNCHANGED <<sources, openable, transients>>
  /\ IF state = "armed" THEN UNCHANGED <<state, hold, output, ticks>>
     ELSE /\ state' = "armed"
          /\ hold' = [k \in Streams |-> None]
          /\ IF state = "disarmed" \/ timer = "nil"
             THEN Schedule(waiting) ELSE UNCHANGED ticks
          /\ Pass(TRUE, {}, FALSE)

Disarm ==
  /\ state # "disarmed"
  /\ DisarmLocked
  /\ UNCHANGED <<routing, identify, choice, clients, openable, orphans, waiting>>

\* Heartbeat also prunes the silent browsers, and ends the Isolate of one.
Heartbeat(c) ==
  LET heard == [clients EXCEPT ![c] = "fresh"]
  IN /\ clients' = [b \in Clients |->
                      IF heard[b] = "stale" THEN "absent" ELSE heard[b]]
     /\ UNCHANGED <<routing, identify, choice, state, hold, openable, command,
                    target, ticks>>
     /\ IF isolate # None /\ heard[isolate] # "fresh" THEN DropIsolate
        ELSE UNCHANGED <<layer, isolate, output>>

\* Goodbye: with the last browser gone the lease is lost at once.
Goodbye(c) ==
  /\ clients' = [clients EXCEPT ![c] = "absent"]
  /\ IF state = "armed" /\ ~LeaseAlive'
     THEN \/ /\ choice = "blackout"
             /\ DisarmLocked
             /\ UNCHANGED <<routing, identify, choice, orphans, waiting>>
          \/ /\ choice = "hold"
             /\ HoldLocked
             /\ UNCHANGED <<output, ticks>>
     ELSE /\ UNCHANGED <<routing, identify, choice, state, hold, command,
                         target, ticks>>
          /\ IF isolate = c THEN DropIsolate
             ELSE UNCHANGED <<layer, isolate, output>>
  /\ UNCHANGED openable

\* A browser has been silent for the lease.
FallsSilent(c) ==
  /\ clients[c] = "fresh"
  /\ clients' = [clients EXCEPT ![c] = "stale"]
  /\ UNCHANGED <<sources, state, hold, output, openable, transients, ticks>>

-----------------------------------------------------------------------------
\* The tick.

TimerFires ==
  /\ timer = "armed"
  /\ timer' = "fired"
  /\ waiting' = waiting + 1
  /\ UNCHANGED <<sources, state, clients, hold, output, openable, transients,
                 orphans>>

OrphanFires ==
  /\ orphans > 0
  /\ orphans' = orphans - 1
  /\ waiting' = waiting + 1
  /\ UNCHANGED <<sources, state, clients, hold, output, openable, transients,
                 timer>>

TickDisarmed ==
  /\ waiting > 0 /\ state = "disarmed"
  /\ waiting' = waiting - 1
  /\ UNCHANGED <<sources, state, clients, hold, output, openable, transients,
                 timer, orphans>>

LeaseLost == state = "armed" /\ ~LeaseAlive

TickBlackout ==
  /\ waiting > 0
  /\ LeaseLost /\ choice = "blackout"
  /\ DisarmLocked
  /\ waiting' = waiting - 1
  /\ UNCHANGED <<routing, identify, choice, clients, openable, orphans>>

\* Seeded bug: a tick that finds the lease lost is the last.
TickHoldLast ==
  /\ waiting > 0
  /\ LeaseLost /\ choice = "hold"
  /\ HoldLocked
  /\ UNCHANGED <<clients, openable>>
  /\ Pass(TRUE, {}, FALSE)
  /\ waiting' = waiting - 1
  /\ UNCHANGED <<timer, orphans>>

TickHold ==
  /\ waiting > 0
  /\ LeaseLost /\ choice = "hold"
  /\ HoldLocked
  /\ UNCHANGED <<clients, openable>>
  /\ Pass(TRUE, {}, FALSE)
  /\ Schedule(waiting - 1)

\* A tick with the lease alive, or in a held look: the Isolate of a silent
\* browser ends, everything goes out again.
Tick ==
  /\ waiting > 0 /\ state # "disarmed" /\ ~LeaseLost
  /\ IF isolate # None /\ clients[isolate] # "fresh"
     THEN isolate' = None /\ layer' = WithSource("isolate", NoClaims)
     ELSE UNCHANGED <<isolate, layer>>
  /\ UNCHANGED <<routing, identify, choice, state, clients, hold, openable,
                 command, target>>
  /\ Pass(TRUE, {}, FALSE)
  /\ Schedule(waiting - 1)

Firing == TimerFires \/ OrphanFires
Ticking == TickDisarmed \/ TickBlackout \/ TickHold \/ Tick

\* The sACN adapter comes and goes, as far as opening a socket is concerned.
AdapterChanges ==
  /\ openable' = ~openable
  /\ UNCHANGED <<sources, state, clients, hold, output, transients, ticks>>

Claims == [Shows -> Written \cup {None}]

Next ==
  \/ \E src \in Edited :
       \/ \E s \in Shows, v \in Written : SetFrame(src, s, v)
       \/ \E F \in Claims : ReplaceSource(src, F) \/ PublishSource(src, F)
  \/ \E shows \in SUBSET Shows : Push(shows)
  \/ \E r \in Routings : SetRouting(r)
  \/ \E ks \in Identities : SetIdentify(ks)
  \/ \E a \in {"blackout", "hold"} : SetLeaseLossAction(a)
  \/ \E i \in Commands : FireCommand(i) \/ WindowEnds(i)
  \/ \E F \in [Shows -> {IsolateLevel, None}] : SetIsolateFrames(F)
  \/ EndIsolate
  \/ \E c \in Clients :
       Arm(c) \/ Heartbeat(c) \/ Goodbye(c) \/ FallsSilent(c) \/ StartIsolate(c)
  \/ Disarm
  \/ Firing
  \/ Ticking
  \/ AdapterChanges

Spec == Init /\ [][Next]_vars

\* Armed timers fire, and what fired gets the mutex.
Fairness == WF_vars(Firing) /\ WF_vars(Ticking)
FairSpec == Spec /\ Fairness

-----------------------------------------------------------------------------
TypeOK ==
  /\ layer \in [Shows -> [Source -> Level]]
  /\ routing \in Routings \cup {{<<Artnet, s>> : s \in Shows}}
  /\ identify \in Identities \cup {{}}
  /\ choice \in {"blackout", "hold"}
  /\ state \in {"disarmed", "armed", "holding"}
  /\ clients \in [Clients -> {"fresh", "stale", "absent"}]
  /\ hold \in [Streams -> Level]
  /\ active \in [Streams -> [on : BOOLEAN, sent : BOOLEAN, show : BOOLEAN]]
  /\ wire \in [Streams -> Level]
  /\ link \in BOOLEAN /\ openable \in BOOLEAN
  /\ command \in [Commands -> {"unused", "fired", "finished", "dropped"}]
  /\ target \in [Commands -> Shows]
  /\ isolate \in Clients \cup {None}
  /\ timer \in {"nil", "armed", "fired"}
  /\ orphans \in 0..MaxChains /\ waiting \in 0..MaxChains

\* Whatever was live, held, isolated or identified, and whichever protocols
\* it went out on, a disarmed engine has left every receiver at zero or
\* without the stream.
BlackoutMeansDark ==
  state = "disarmed" => \A k \in Streams : wire[k] \in {0, None}

\* A lit stream is one the engine still transmits: nothing that loses its
\* last source, its route or its Identify leaves a receiver holding a look.
NoOrphanLight ==
  \A k \in Streams :
    wire[k] \notin {0, None} => active[k].on /\ active[k].sent

\* The held look never has the level of a one-shot command or of Isolate
\* (comment on leaseLostLocked), although it is taken from the last frames
\* sent, and those were composed from them.
HeldLookIsNotTransient ==
  \A k \in Streams : hold[k] \notin {CommandLevel, IsolateLevel}

\* While armed, the level of a command or of Isolate is on the wire only as
\* long as the command, or Isolate, is on: whatever ends it, a window, a
\* silent or leaving browser, a new Arm after a held look, also sends what is
\* below it.
TransientsLeaveTheWire ==
  state = "armed" =>
    \A k \in Streams :
      /\ wire[k] = CommandLevel =>
           \E i \in Commands : command[i] = "fired" /\ target[i] = Show(k)
      /\ wire[k] = IsolateLevel => isolate # None

\* Nothing of a command or of Isolate is kept for a later Arm: outside armed
\* output none is on, and none has a claim.
TransientsOnlyArmed ==
  /\ \A i \in Commands : command[i] = "fired" => state = "armed"
  /\ isolate # None => state = "armed"
  /\ \A s \in Shows : Transient(s) => state = "armed"

\* An engine that is not disarmed has a tick ahead of it: an operator who
\* arms, holds, disarms and arms again in any rhythm never stops the refresh
\* or the watch on the lease.
TicksGoOn ==
  state # "disarmed" => timer = "armed" \/ orphans > 0 \/ waiting > 0

\* No light, no transient and no dead tick is left behind: what disarmLocked,
\* retireLocked, dropCommandsLocked and the tick keep true between them.
OutputInvariant ==
  /\ TypeOK
  /\ BlackoutMeansDark
  /\ NoOrphanLight
  /\ TransientsOnlyArmed
  /\ TicksGoOn

\* The engine keeps the promise of the master Arm.
Promise ==
  INSTANCE MasterArm
    WITH Streams <- Streams, Levels <- Levels, None <- None,
         Transients <- {CommandLevel, IsolateLevel},
         state <- state, wire <- wire, held <- hold
ImplementsMasterArm == Promise!Spec

\* An engine that no browser keeps alive does not stay live.
LostLeaseActs == LeaseLost ~> ~LeaseLost

\* When output holds, the level of a command or of Isolate does not stay on
\* the wire for the hold.
HoldShowsTheHeldLook ==
  \A k \in Streams :
    (state = "holding" /\ wire[k] \in {CommandLevel, IsolateLevel})
      ~> (state # "holding" \/ wire[k] \notin {CommandLevel, IsolateLevel})

\* A browser that goes away leaves neither live output nor a transient look.
LeaseLossSettles == LostLeaseActs /\ HoldShowsTheHeldLook

=============================================================================
