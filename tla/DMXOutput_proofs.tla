-------------------------- MODULE DMXOutput_proofs --------------------------
(* Theorems about DMXOutput: types, blackout, the tick chain, what one-shot  *)
(* commands and Isolate leave behind, and that the engine implements         *)
(* MasterArm.                                                                *)
EXTENDS DMXOutput, TLAPS

\* Some transmit pass.
Passes ==
  \E tick \in BOOLEAN, shows \in SUBSET Shows, identifying \in BOOLEAN :
    Pass(tick, shows, identifying)

\* A handler that leaves state and held look alone.
Steady == state' = state /\ hold' = hold /\ (UNCHANGED output \/ Passes)

\* The handlers that arm.
Arms ==
  /\ state # "armed" /\ state' = "armed"
  /\ hold' = [k \in Streams |-> None]
  /\ Passes

\* The handlers that lose the lease and hold.
Holding == state = "armed" /\ HoldLocked /\ (UNCHANGED output \/ Passes)

LEMMA PassOverPasses ==
  ASSUME NEW shows \in SUBSET Shows, PassOver(shows)
  PROVE  UNCHANGED output \/ Passes
BY DEF PassOver, NoPass, Passes

LEMMA DropIsolatePasses ==
  ASSUME DropIsolate
  PROVE  UNCHANGED output \/ Passes
BY PassOverPasses DEF DropIsolate, Changed

\* What each step does to state, held look and wire.
LEMMA StepShapes ==
  ASSUME [Next]_vars
  PROVE  Steady \/ Arms \/ (state # "disarmed" /\ DisarmLocked) \/ Holding
<1>1. ASSUME NEW src \in Edited, NEW s \in Shows, NEW v \in Written,
             SetFrame(src, s, v)
      PROVE  Steady
  BY <1>1 DEF SetFrame, Steady
<1>2. ASSUME NEW src \in Edited, NEW F \in Claims, ReplaceSource(src, F)
      PROVE  Steady
  BY <1>2, PassOverPasses DEF ReplaceSource, Steady, Changed
<1>3. ASSUME NEW src \in Edited, NEW F \in Claims, PublishSource(src, F)
      PROVE  Steady
  BY <1>3 DEF PublishSource, Steady, Passes
<1>4. ASSUME NEW shows \in SUBSET Shows, Push(shows) PROVE Steady
  BY <1>4 DEF Push, Steady, Passes
<1>5. ASSUME NEW r \in Routings, SetRouting(r) PROVE Steady
  BY <1>5 DEF SetRouting, Steady, Passes
<1>6. ASSUME NEW ks \in Identities, SetIdentify(ks) PROVE Steady
  BY <1>6 DEF SetIdentify, Steady, Passes
<1>7. ASSUME NEW a \in {"blackout", "hold"}, SetLeaseLossAction(a)
      PROVE  Steady
  BY <1>7 DEF SetLeaseLossAction, Steady
<1>8. ASSUME NEW i \in Commands, FireCommand(i) PROVE Steady
  BY <1>8, PassOverPasses DEF FireCommand, Steady, Changed
<1>9. ASSUME NEW i \in Commands, WindowEnds(i) PROVE Steady
  BY <1>9, PassOverPasses DEF WindowEnds, Steady, Changed
<1>10. ASSUME NEW F \in [Shows -> {IsolateLevel, None}], SetIsolateFrames(F)
       PROVE  Steady
  BY <1>10, PassOverPasses DEF SetIsolateFrames, Steady, Changed
<1>11. ASSUME EndIsolate PROVE Steady
  BY <1>11, DropIsolatePasses DEF EndIsolate, Steady
<1>12. ASSUME NEW c \in Clients, Arm(c) PROVE Steady \/ Arms
  BY <1>12 DEF Arm, Steady, Arms, Passes
<1>13. ASSUME NEW c \in Clients, Heartbeat(c) PROVE Steady
  BY <1>13, DropIsolatePasses DEF Heartbeat, Steady
<1>14. ASSUME NEW c \in Clients, Goodbye(c)
       PROVE  Steady \/ (state # "disarmed" /\ DisarmLocked) \/ Holding
  BY <1>14, DropIsolatePasses DEF Goodbye, Steady, Holding
<1>15. ASSUME NEW c \in Clients, FallsSilent(c) PROVE Steady
  BY <1>15 DEF FallsSilent, Steady
<1>16. ASSUME NEW c \in Clients, StartIsolate(c) PROVE Steady
  BY <1>16 DEF StartIsolate, Steady
<1>17. ASSUME Disarm PROVE state # "disarmed" /\ DisarmLocked
  BY <1>17 DEF Disarm
<1>18. ASSUME Firing PROVE Steady
  BY <1>18 DEF Firing, TimerFires, OrphanFires, Steady
<1>19. ASSUME Ticking
       PROVE  Steady \/ (state # "disarmed" /\ DisarmLocked) \/ Holding
  BY <1>19 DEF Ticking, TickDisarmed, TickBlackout, TickHold, Tick, LeaseLost,
               Steady, Holding, Passes
<1>20. ASSUME AdapterChanges PROVE Steady
  BY <1>20 DEF AdapterChanges, Steady
<1>21. ASSUME UNCHANGED vars PROVE Steady
  BY <1>21 DEF vars, Steady
<1> QED
  BY <1>1, <1>2, <1>3, <1>4, <1>5, <1>6, <1>7, <1>8, <1>9, <1>10, <1>11,
     <1>12, <1>13, <1>14, <1>15, <1>16, <1>17, <1>18, <1>19, <1>20, <1>21
     DEF Next

-----------------------------------------------------------------------------
(* Blackout.  That a disarmed engine is dark is not inductive: what Disarm  *)
(* and a retiring pass darken are the streams they know of, so every lit    *)
(* stream must be known, and an sACN stream that was sent must still have   *)
(* the socket its last zeros need.                                          *)

Lights ==
  \A k \in Streams :
    /\ wire[k] \notin {0, None} => active[k].sent
    /\ active[k].sent => active[k].on
    /\ active[k].sent /\ Protocol(k) = SACN => link
    /\ active[k].on => state # "disarmed"

LEMMA PartingIsDark == \A k \in Streams : Parting(k) \in {0, None}
BY DEF Parting

LEMMA PassLights ==
  ASSUME Lights, Passes, state' = "disarmed" => state = "disarmed"
  PROVE  Lights'
<1>1. PICK tick \in BOOLEAN, shows \in SUBSET Shows, identifying \in BOOLEAN :
        Pass(tick, shows, identifying)
  BY DEF Passes
<1>2. CASE state' = "disarmed"
  BY <1>1, <1>2 DEF Pass, output, Lights
<1>3. CASE state' # "disarmed"
  <2> DEFINE want(k) == Wanted(k)'
             sends(k) == want(k) # None /\ Due(k, tick, shows, identifying)
                         /\ CanSend(k)
  <2>1. /\ active' = [k \in Streams |->
              IF want(k) = None THEN Inactive
              ELSE [on |-> TRUE, sent |-> active[k].sent \/ sends(k),
                    show |-> CarriesShow(k)']]
        /\ wire' = [k \in Streams |->
              IF sends(k) THEN want(k)
              ELSE IF Retires(k) THEN Parting(k) ELSE wire[k]]
        /\ link' = (link \/ \E k \in Streams : Protocol(k) = SACN /\ sends(k))
    BY <1>1, <1>3 DEF Pass
  <2>2. SUFFICES ASSUME NEW k \in Streams
                 PROVE  /\ wire'[k] \notin {0, None} => active'[k].sent
                        /\ active'[k].sent => active'[k].on
                        /\ active'[k].sent /\ Protocol(k) = SACN => link'
    BY <1>3 DEF Lights
  <2>3. Retires(k) <=> active[k].sent /\ want(k) = None
    BY DEF Retires
  <2> HIDE DEF want
  <2>4. CASE want(k) = None
    <3>1. active'[k] = Inactive /\ ~sends(k)
      BY <2>1, <2>4
    <3>2. wire'[k] = IF active[k].sent THEN Parting(k) ELSE wire[k]
      BY <2>1, <2>3, <2>4, <3>1
    <3> QED BY <3>1, <3>2, PartingIsDark DEF Lights, Inactive
  <2>5. CASE want(k) # None
    <3>1. active'[k].on /\ active'[k].sent = (active[k].sent \/ sends(k))
      BY <2>1, <2>5
    <3>2. wire'[k] = IF sends(k) THEN want(k) ELSE wire[k]
      BY <2>1, <2>3, <2>5
    <3> QED BY <2>1, <3>1, <3>2 DEF Lights
  <2> QED BY <2>4, <2>5
<1> QED BY <1>2, <1>3

LEMMA DisarmLights ==
  ASSUME Lights, DisarmLocked
  PROVE  Lights'
<1> SUFFICES ASSUME NEW k \in Streams
             PROVE  wire'[k] \in {0, None} /\ active'[k] = Inactive
  BY DEF Lights, Inactive
<1>1. active'[k] = Inactive
  BY DEF DisarmLocked
<1>2. wire'[k] = IF Leaving(k) /\ CanSend(k) THEN Parting(k) ELSE wire[k]
  BY DEF DisarmLocked
<1>3. Protocol(k) \in {Artnet, SACN}
  BY DEF Streams, Protocol
<1>4. wire[k] \notin {0, None} => Leaving(k) /\ CanSend(k)
  BY <1>3 DEF Lights, Leaving, CanSend
<1> QED BY <1>1, <1>2, <1>4, PartingIsDark

LEMMA LightsStep == Lights /\ [Next]_vars => Lights'
<1> SUFFICES ASSUME Lights, [Next]_vars PROVE Lights'
  OBVIOUS
<1>1. CASE Steady
  <2>1. CASE UNCHANGED output
    BY <1>1, <2>1 DEF Steady, output, Lights
  <2>2. CASE Passes
    BY <1>1, <2>2, PassLights DEF Steady
  <2> QED BY <1>1, <2>1, <2>2 DEF Steady
<1>2. CASE Arms
  BY <1>2, PassLights DEF Arms
<1>3. CASE state # "disarmed" /\ DisarmLocked
  BY <1>3, DisarmLights
<1>4. CASE Holding
  <2>1. state' = "holding"
    BY <1>4 DEF Holding, HoldLocked
  <2>2. CASE UNCHANGED output
    BY <2>1, <2>2 DEF output, Lights
  <2>3. CASE Passes
    BY <2>1, <2>3, PassLights
  <2> QED BY <1>4, <2>2, <2>3 DEF Holding
<1> QED BY <1>1, <1>2, <1>3, <1>4, StepShapes

LEMMA LightsInit == Init => Lights
BY DEF Init, Lights, Inactive

\* A lit stream is always one that the engine transmits and can darken: no
\* order of releases, reroutings, Identify, holds and failed sockets leaves a
\* receiver with a look that nobody ends.
THEOREM LitIsTransmitted == Spec => []NoOrphanLight
<1>1. Lights => NoOrphanLight
  BY DEF Lights, NoOrphanLight
<1> QED BY <1>1, LightsInit, LightsStep, PTL DEF Spec

\* A disarmed engine has left every receiver dark, on every way to disarmed.
THEOREM DisarmedIsDark == Spec => []BlackoutMeansDark
<1>1. Lights => BlackoutMeansDark
  BY DEF Lights, BlackoutMeansDark
<1> QED BY <1>1, LightsInit, LightsStep, PTL DEF Spec

-----------------------------------------------------------------------------
(* The tick chain.  A step that stops e.timer disarms; the others hand the  *)
(* chain on: a timer that fires is a tick that waits, and a tick that does   *)
(* not find the engine disarmed schedules.                                   *)

Ticks ==
  /\ timer \in {"nil", "armed", "fired"} /\ orphans \in Nat /\ waiting \in Nat
  /\ orphans + waiting + (IF timer = "armed" THEN 1 ELSE 0) <= MaxChains
  /\ state = "disarmed" => timer = "nil"
  /\ TicksGoOn

LEMMA TicksIdle ==
  ASSUME Ticks, UNCHANGED ticks, state' = "disarmed" <=> state = "disarmed"
  PROVE  Ticks'
BY DEF Ticks, TicksGoOn, ticks

LEMMA TicksDisarm ==
  ASSUME Ticks, DisarmLocked, orphans' = orphans,
         waiting' = waiting \/ (waiting > 0 /\ waiting' = waiting - 1)
  PROVE  Ticks'
BY OutputAssumption DEF Ticks, TicksGoOn, DisarmLocked

LEMMA TicksSchedule ==
  ASSUME Ticks, state # "disarmed", state' # "disarmed", waiting > 0,
         Schedule(waiting - 1)
  PROVE  Ticks'
BY OutputAssumption DEF Ticks, TicksGoOn, Schedule

LEMMA TicksStep == Ticks /\ [Next]_vars => Ticks'
<1> SUFFICES ASSUME Ticks, [Next]_vars PROVE Ticks'
  OBVIOUS
<1>1. ASSUME NEW c \in Clients, Arm(c) PROVE Ticks'
  <2>1. CASE state = "armed" \/ (state # "disarmed" /\ timer # "nil")
    <3>1. UNCHANGED ticks /\ state' = "armed"
      BY <1>1, <2>1 DEF Arm
    <3> QED BY <2>1, <3>1, TicksIdle
  <2>2. CASE state # "armed" /\ (state = "disarmed" \/ timer = "nil")
    <3>1. Schedule(waiting) /\ state' = "armed" /\ waiting + orphans < MaxChains
      BY <1>1, <2>2 DEF Arm
    <3>2. timer = "nil"
      BY <2>2 DEF Ticks
    <3> QED BY <3>1, <3>2, OutputAssumption DEF Ticks, TicksGoOn, Schedule
  <2> QED BY <2>1, <2>2
<1>2. ASSUME NEW c \in Clients, Goodbye(c) PROVE Ticks'
  <2>1. CASE UNCHANGED ticks /\ (state' = state \/ (HoldLocked /\ state = "armed"))
    BY <2>1, TicksIdle DEF HoldLocked
  <2>2. CASE DisarmLocked /\ UNCHANGED <<orphans, waiting>>
    BY <2>2, TicksDisarm
  <2>3. CASE state = "armed" /\ ~LeaseAlive'
    <3>1. \/ DisarmLocked /\ UNCHANGED <<orphans, waiting>>
          \/ HoldLocked /\ UNCHANGED ticks
      BY <1>2, <2>3 DEF Goodbye
    <3> QED BY <3>1, <2>1, <2>2, <2>3
  <2>4. CASE ~(state = "armed" /\ ~LeaseAlive')
    <3>1. UNCHANGED <<ticks, state>>
      BY <1>2, <2>4 DEF Goodbye
    <3> QED BY <3>1, TicksIdle
  <2> QED BY <2>3, <2>4
<1>3. CASE Disarm
  BY <1>3, TicksDisarm DEF Disarm
<1>4. CASE TimerFires
  BY <1>4 DEF TimerFires, Ticks, TicksGoOn
<1>5. CASE OrphanFires
  BY <1>5 DEF OrphanFires, Ticks, TicksGoOn
<1>6. CASE TickDisarmed
  BY <1>6, OutputAssumption DEF TickDisarmed, Ticks, TicksGoOn
<1>7. CASE TickBlackout
  BY <1>7, TicksDisarm DEF TickBlackout
<1>8. CASE TickHold
  BY <1>8, TicksSchedule DEF TickHold, LeaseLost, HoldLocked
<1>9. CASE Tick
  BY <1>9, TicksSchedule DEF Tick
<1>10. CASE UNCHANGED <<ticks, state>>
  BY <1>10, TicksIdle
<1>11. ASSUME NEW c \in Clients,
              Heartbeat(c) \/ FallsSilent(c) \/ StartIsolate(c)
       PROVE  UNCHANGED <<ticks, state>>
  BY <1>11 DEF Heartbeat, FallsSilent, StartIsolate
<1>12. ASSUME NEW src \in Edited,
              \/ \E s \in Shows, v \in Written : SetFrame(src, s, v)
              \/ \E F \in Claims : ReplaceSource(src, F) \/ PublishSource(src, F)
       PROVE  UNCHANGED <<ticks, state>>
  BY <1>12 DEF SetFrame, ReplaceSource, PublishSource
<1>13. ASSUME \/ \E shows \in SUBSET Shows : Push(shows)
              \/ \E r \in Routings : SetRouting(r)
              \/ \E ks \in Identities : SetIdentify(ks)
              \/ \E a \in {"blackout", "hold"} : SetLeaseLossAction(a)
              \/ \E i \in Commands : FireCommand(i) \/ WindowEnds(i)
              \/ \E F \in [Shows -> {IsolateLevel, None}] : SetIsolateFrames(F)
              \/ EndIsolate
              \/ AdapterChanges
              \/ UNCHANGED vars
       PROVE  UNCHANGED <<ticks, state>>
  BY <1>13 DEF Push, SetRouting, SetIdentify, SetLeaseLossAction, FireCommand,
               WindowEnds, SetIsolateFrames, EndIsolate, AdapterChanges, vars
<1> QED
  BY <1>1, <1>2, <1>3, <1>4, <1>5, <1>6, <1>7, <1>8, <1>9, <1>10, <1>11, <1>12,
     <1>13 DEF Next, Firing, Ticking

LEMMA TicksInit == Init => Ticks
BY OutputAssumption DEF Init, Ticks, TicksGoOn

\* However an operator arms, holds, disarms and arms again, an engine that is
\* not disarmed has a tick ahead of it.
THEOREM TicksAlwaysGoOn == Spec => []TicksGoOn
<1>1. Ticks => TicksGoOn
  BY DEF Ticks
<1> QED BY <1>1, TicksInit, TicksStep, PTL DEF Spec

-----------------------------------------------------------------------------
(* The transient sources, and the refinement.                                *)

LEMMA SourceValue ==
  Source = {"base", "tests", "isolate", "faders", "programmer", "highlight",
            "command", "raw"}
<1>1. Len(Sources) = 8
  BY DEF Sources
<1>2. /\ Sources[1] = "base" /\ Sources[2] = "tests"
      /\ Sources[3] = "isolate" /\ Sources[4] = "faders"
      /\ Sources[5] = "programmer" /\ Sources[6] = "highlight"
      /\ Sources[7] = "command" /\ Sources[8] = "raw"
  BY DEF Sources
<1>3. 1..8 = {1, 2, 3, 4, 5, 6, 7, 8}
  OBVIOUS
<1> HIDE DEF Sources
<1> QED BY <1>1, <1>2, <1>3 DEF Source

-----------------------------------------------------------------------------
(* The claims.  The command layer is what the commands in flight claim, the  *)
(* isolate layer is empty without an owner, and both are empty outside armed *)
(* output.                                                                   *)

Plain == Source \ {"command", "isolate"}

Layers ==
  /\ layer \in [Shows -> [Source -> Level]]
  /\ command \in [Commands -> {"unused", "fired", "finished", "dropped"}]
  /\ \A s \in Shows : layer[s]["command"] = CommandFrames(command)[s]
  /\ \A s \in Shows :
       /\ layer[s]["isolate"] \in {None, IsolateLevel}
       /\ layer[s]["isolate"] # None => isolate # None
  /\ \A s \in Shows, src \in Plain : layer[s][src] \in Written \cup {None}
  /\ \A i \in Commands : command[i] = "fired" => state = "armed"
  /\ isolate # None => state = "armed"

LEMMA LayersSource ==
  ASSUME Layers, NEW src \in Edited, NEW F \in Claims,
         layer' = WithSource(src, F), UNCHANGED <<state, command, target, isolate>>
  PROVE  Layers'
<1>1. src \in Plain
  BY OutputAssumption DEF Plain
<1>2. \A s \in Shows : F[s] \in Written \cup {None}
  BY DEF Claims
<1>3. \A s \in Shows : layer'[s] = [layer[s] EXCEPT ![src] = F[s]]
  BY DEF WithSource
<1>4. \A s \in Shows : layer[s] \in [Source -> Level]
  BY DEF Layers
<1>5. layer' \in [Shows -> [Source -> Level]]
  BY <1>2, <1>4 DEF WithSource, Level, Levels
<1>6. src # "command" /\ src # "isolate" /\ src \in Source
  BY <1>1 DEF Plain
<1>7. \A s \in Shows, p \in Source :
        layer'[s][p] = IF p = src THEN F[s] ELSE layer[s][p]
  BY <1>3, <1>4
<1>8. "command" \in Source /\ "isolate" \in Source /\ Plain \subseteq Source
  BY SourceValue DEF Plain
<1>9. /\ \A s \in Shows : layer'[s]["command"] = layer[s]["command"]
      /\ \A s \in Shows : layer'[s]["isolate"] = layer[s]["isolate"]
      /\ \A s \in Shows, p \in Plain :
           layer'[s][p] = IF p = src THEN F[s] ELSE layer[s][p]
  BY <1>6, <1>7, <1>8
<1>10. CommandFrames(command)' = CommandFrames(command)
  BY DEF CommandFrames
<1> QED BY <1>2, <1>5, <1>9, <1>10 DEF Layers

LEMMA LayersCommands ==
  ASSUME Layers, layer' = WithSource("command", CommandFrames(command')),
         command' \in [Commands -> {"unused", "fired", "finished", "dropped"}],
         \A i \in Commands : command'[i] = "fired" => state = "armed",
         UNCHANGED <<state, target, isolate>>
  PROVE  Layers'
<1>1. \A s \in Shows : CommandFrames(command')[s] \in {CommandLevel, None}
  BY DEF CommandFrames
<1>2. \A s \in Shows :
        layer'[s] = [layer[s] EXCEPT !["command"] = CommandFrames(command')[s]]
  BY DEF WithSource
<1>3. \A s \in Shows : layer[s] \in [Source -> Level]
  BY DEF Layers
<1>4. layer' \in [Shows -> [Source -> Level]]
  BY <1>1, <1>3 DEF WithSource, Level, Levels
<1>5. /\ \A s \in Shows : layer'[s]["command"] = CommandFrames(command')[s]
      /\ \A s \in Shows : layer'[s]["isolate"] = layer[s]["isolate"]
      /\ \A s \in Shows, p \in Plain : layer'[s][p] = layer[s][p]
  BY <1>2, <1>3, SourceValue DEF Plain
<1>6. CommandFrames(command)' = CommandFrames(command')
  BY DEF CommandFrames
<1> QED BY <1>4, <1>5, <1>6 DEF Layers

LEMMA LayersIsolate ==
  ASSUME Layers, NEW F \in [Shows -> {IsolateLevel, None}],
         layer' = WithSource("isolate", F), UNCHANGED <<state, command, target>>,
         \/ isolate' = None /\ F = NoClaims
         \/ isolate' = isolate /\ isolate # None
  PROVE  Layers'
<1>1. \A s \in Shows : layer'[s] = [layer[s] EXCEPT !["isolate"] = F[s]]
  BY DEF WithSource
<1>2. \A s \in Shows : layer[s] \in [Source -> Level]
  BY DEF Layers
<1>3. layer' \in [Shows -> [Source -> Level]]
  BY <1>2 DEF WithSource, Level, Levels
<1>4. /\ \A s \in Shows : layer'[s]["command"] = layer[s]["command"]
      /\ \A s \in Shows : layer'[s]["isolate"] = F[s]
      /\ \A s \in Shows, p \in Plain : layer'[s][p] = layer[s][p]
  BY <1>1, <1>2, SourceValue DEF Plain
<1>5. \A s \in Shows : F[s] # None => isolate' # None
  BY DEF NoClaims
<1>6. CommandFrames(command)' = CommandFrames(command)
  BY DEF CommandFrames
<1> QED BY <1>3, <1>4, <1>5, <1>6 DEF Layers

LEMMA LayersDropped ==
  ASSUME Layers, TransientsDropped
  PROVE  /\ Layers'
         /\ \A s \in Shows : ~Transient(s)'
<1>1. \A s \in Shows :
        layer'[s] = [layer[s] EXCEPT !["command"] = None, !["isolate"] = None]
  BY DEF TransientsDropped
<1>2. \A s \in Shows : layer[s] \in [Source -> Level]
  BY DEF Layers
<1>3. layer' \in [Shows -> [Source -> Level]]
  BY <1>2 DEF TransientsDropped, Level
<1>4. /\ \A s \in Shows : layer'[s]["command"] = None
      /\ \A s \in Shows : layer'[s]["isolate"] = None
      /\ \A s \in Shows, p \in Plain : layer'[s][p] = layer[s][p]
  BY <1>1, <1>2, SourceValue DEF Plain
<1>5. /\ command' \in [Commands -> {"unused", "fired", "finished", "dropped"}]
      /\ \A i \in Commands : command'[i] # "fired"
  BY DEF TransientsDropped, Layers
<1>6. \A s \in Shows : CommandFrames(command)'[s] = None
  BY <1>5 DEF CommandFrames
<1>7. isolate' = None
  BY DEF TransientsDropped
<1> QED BY <1>3, <1>4, <1>5, <1>6, <1>7 DEF Layers, Transient

\* Handlers that touch no claim; only with an armed engine may they start
\* Isolate.
LEMMA LayersIdle ==
  ASSUME Layers, UNCHANGED <<layer, command, target>>,
         state' = state \/ state' = "armed",
         isolate' = isolate \/ (isolate' # None /\ state = "armed")
  PROVE  Layers'
<1>1. CommandFrames(command)' = CommandFrames(command)
  BY DEF CommandFrames
<1> QED BY <1>1 DEF Layers

LEMMA LayersIsolateEnds ==
  ASSUME Layers, DropIsolate, UNCHANGED <<state, command, target>>
  PROVE  Layers'
<1>1. NoClaims \in [Shows -> {IsolateLevel, None}]
  BY DEF NoClaims
<1> QED BY <1>1, LayersIsolate DEF DropIsolate

LEMMA LayersStep == Layers /\ [Next]_vars => Layers'
<1> SUFFICES ASSUME Layers, [Next]_vars PROVE Layers'
  OBVIOUS
<1>1. ASSUME NEW src \in Edited, NEW s \in Shows, NEW v \in Written,
             SetFrame(src, s, v)
      PROVE  Layers'
  <2> DEFINE F == [t \in Shows |-> IF t = s THEN v ELSE layer[t][src]]
  <2>1. src \in Plain /\ src \in Source
    BY OutputAssumption DEF Plain
  <2>2. F \in Claims
    BY <2>1 DEF Claims, Layers
  <2>3. layer' = WithSource(src, F)
    BY <1>1, <2>1 DEF SetFrame, WithSource, Layers
  <2> QED BY <1>1, <2>2, <2>3, LayersSource DEF SetFrame, transients
<1>2. ASSUME NEW src \in Edited, NEW F \in Claims,
             ReplaceSource(src, F) \/ PublishSource(src, F)
      PROVE  Layers'
  BY <1>2, LayersSource DEF ReplaceSource, PublishSource, transients
<1>3. ASSUME NEW i \in Commands, FireCommand(i) PROVE Layers'
  <2>1. command' = [command EXCEPT ![i] = "fired"] /\ state = "armed"
    BY <1>3 DEF FireCommand
  <2>2. command' \in [Commands -> {"unused", "fired", "finished", "dropped"}]
    BY <2>1 DEF Layers
  <2>3. layer' = WithSource("command", CommandFrames(command'))
    BY <1>3 DEF FireCommand
  <2> QED BY <1>3, <2>1, <2>2, <2>3, LayersCommands DEF FireCommand
<1>4. ASSUME NEW i \in Commands, WindowEnds(i) PROVE Layers'
  <2>1. command' = [command EXCEPT ![i] = "finished"]
    BY <1>4 DEF WindowEnds
  <2>2. /\ command' \in [Commands -> {"unused", "fired", "finished", "dropped"}]
        /\ \A j \in Commands : command'[j] = "fired" => state = "armed"
    BY <2>1 DEF Layers
  <2>3. layer' = WithSource("command", CommandFrames(command'))
    BY <1>4 DEF WindowEnds
  <2> QED BY <1>4, <2>2, <2>3, LayersCommands DEF WindowEnds
<1>5. ASSUME NEW F \in [Shows -> {IsolateLevel, None}], SetIsolateFrames(F)
      PROVE  Layers'
  BY <1>5, LayersIsolate DEF SetIsolateFrames, transients
<1>6. ASSUME EndIsolate PROVE Layers'
  BY <1>6, LayersIsolateEnds DEF EndIsolate
<1>7. ASSUME NEW c \in Clients, StartIsolate(c) PROVE Layers'
  <2>1. isolate' # None
    BY <1>7, OutputAssumption DEF StartIsolate
  <2> QED BY <1>7, <2>1, LayersIdle DEF StartIsolate, sources
<1>8. ASSUME NEW c \in Clients, Heartbeat(c) PROVE Layers'
  <2>1. CASE DropIsolate /\ UNCHANGED <<state, command, target>>
    BY <2>1, LayersIsolateEnds
  <2>2. CASE UNCHANGED <<layer, isolate, state, command, target>>
    BY <2>2, LayersIdle
  <2>3. \/ DropIsolate /\ UNCHANGED <<state, command, target>>
        \/ UNCHANGED <<layer, isolate, state, command, target>>
    BY <1>8 DEF Heartbeat
  <2> QED BY <2>1, <2>2, <2>3
<1>9. ASSUME NEW c \in Clients, Goodbye(c) PROVE Layers'
  <2>1. CASE state = "armed" /\ ~LeaseAlive'
    <3>1. TransientsDropped
      BY <1>9, <2>1 DEF Goodbye, DisarmLocked, HoldLocked
    <3> QED BY <3>1, LayersDropped
  <2>2. CASE ~(state = "armed" /\ ~LeaseAlive')
    <3>1. /\ UNCHANGED <<state, command, target>>
          /\ IF isolate = c THEN DropIsolate
             ELSE UNCHANGED <<layer, isolate, output>>
      BY <1>9, <2>2 DEF Goodbye
    <3>2. CASE isolate = c
      BY <3>1, <3>2, LayersIsolateEnds
    <3>3. CASE isolate # c
      BY <3>1, <3>3, LayersIdle
    <3> QED BY <3>2, <3>3
  <2> QED BY <2>1, <2>2
<1>10. ASSUME NEW c \in Clients, Arm(c) PROVE Layers'
  <2>1. UNCHANGED <<layer, transients>> /\ (state' = state \/ state' = "armed")
    BY <1>10 DEF Arm, sources
  <2> QED BY <2>1, LayersIdle DEF transients
<1>11. CASE Disarm
  BY <1>11, LayersDropped DEF Disarm, DisarmLocked
<1>12. CASE TickBlackout
  BY <1>12, LayersDropped DEF TickBlackout, DisarmLocked
<1>13. CASE TickHold
  BY <1>13, LayersDropped DEF TickHold, HoldLocked
<1>14. CASE Tick
  <2>1. UNCHANGED <<state, command, target>>
    BY <1>14 DEF Tick
  <2>2. CASE isolate' = None /\ layer' = WithSource("isolate", NoClaims)
    <3>1. NoClaims \in [Shows -> {IsolateLevel, None}]
      BY DEF NoClaims
    <3> QED BY <2>1, <2>2, <3>1, LayersIsolate
  <2>3. CASE UNCHANGED <<isolate, layer>>
    BY <2>1, <2>3, LayersIdle
  <2> QED BY <1>14, <2>2, <2>3 DEF Tick
<1>15. CASE UNCHANGED <<layer, command, target, isolate, state>>
  BY <1>15, LayersIdle
<1>16. ASSUME \/ \E shows \in SUBSET Shows : Push(shows)
              \/ \E r \in Routings : SetRouting(r)
              \/ \E ks \in Identities : SetIdentify(ks)
              \/ \E a \in {"blackout", "hold"} : SetLeaseLossAction(a)
              \/ \E c \in Clients : FallsSilent(c)
              \/ Firing \/ TickDisarmed
              \/ AdapterChanges
              \/ UNCHANGED vars
       PROVE  UNCHANGED <<layer, command, target, isolate, state>>
  BY <1>16 DEF Push, SetRouting, SetIdentify, SetLeaseLossAction, FallsSilent,
               Firing, TimerFires, OrphanFires, TickDisarmed, AdapterChanges,
               vars, sources, transients
<1> QED
  BY <1>1, <1>2, <1>3, <1>4, <1>5, <1>6, <1>7, <1>8, <1>9, <1>10, <1>11, <1>12,
     <1>13, <1>14, <1>15, <1>16 DEF Next, Ticking

LEMMA LayersInit == Init => Layers
<1> SUFFICES ASSUME Init PROVE Layers
  OBVIOUS
<1>1. \A s \in Shows, src \in Source : layer[s][src] = None
  BY DEF Init
<1>2. layer \in [Shows -> [Source -> Level]]
  BY DEF Init, Level
<1>3. \A s \in Shows : CommandFrames(command)[s] = None
  BY DEF Init, CommandFrames
<1>4. "command" \in Source /\ "isolate" \in Source /\ Plain \subseteq Source
  BY SourceValue DEF Plain
<1> QED BY <1>1, <1>2, <1>3, <1>4 DEF Init, Layers

\* Nothing of a command or of Isolate is kept for a later Arm, however the
\* armed output ended: by the operator, by a lost lease, by a silent browser.
THEOREM TransientsEndWithArm == Spec => []TransientsOnlyArmed
<1>1. Layers => TransientsOnlyArmed
  <2> SUFFICES ASSUME Layers, NEW s \in Shows, Transient(s)
               PROVE  state = "armed"
    BY DEF Layers, TransientsOnlyArmed
  <2>1. CASE layer[s]["command"] # None
    BY <2>1 DEF Layers, CommandFrames
  <2>2. CASE layer[s]["isolate"] # None
    BY <2>2 DEF Layers
  <2> QED BY <2>1, <2>2 DEF Transient
<1> QED BY <1>1, LayersInit, LayersStep, PTL DEF Spec

-----------------------------------------------------------------------------
(* Transient levels on the wire.  A stream that shows the level of a command *)
(* or of Isolate shows its universe, whose layer still makes that claim.     *)

LEMMA HighestOwner ==
  ASSUME NEW S \in SUBSET (1..Len(Sources)), S # {}
  PROVE  \E n \in S : \A m \in S : m <= n
<1>1. Len(Sources) = 8
  BY DEF Sources
<1>2. S \in SUBSET (1..8)
  BY <1>1
<1>3. CASE 8 \in S
  BY <1>2, <1>3
<1>4. CASE 8 \notin S /\ 7 \in S
  BY <1>2, <1>4
<1>5. CASE 8 \notin S /\ 7 \notin S /\ 6 \in S
  BY <1>2, <1>5
<1>6. CASE 8 \notin S /\ 7 \notin S /\ 6 \notin S /\ 5 \in S
  BY <1>2, <1>6
<1>7. CASE 8 \notin S /\ 7 \notin S /\ 6 \notin S /\ 5 \notin S /\ 4 \in S
  BY <1>2, <1>7
<1>8. CASE S \cap {4, 5, 6, 7, 8} = {} /\ 3 \in S
  BY <1>2, <1>8
<1>9. CASE S \cap {3, 4, 5, 6, 7, 8} = {} /\ 2 \in S
  BY <1>2, <1>9
<1>10. CASE S \cap {2, 3, 4, 5, 6, 7, 8} = {}
  <2>1. \A n \in S : n = 1
    BY <1>2, <1>10
  <2>2. PICK n \in S : TRUE
    OBVIOUS
  <2>3. \A m \in S : m <= n
    BY <2>1, <2>2
  <2> QED BY <2>2, <2>3
<1> QED BY <1>3, <1>4, <1>5, <1>6, <1>7, <1>8, <1>9, <1>10

LEMMA ComposeShows ==
  ASSUME NEW u \in [Source -> Level], Claimed(u),
         u["command"] \in {None, CommandLevel},
         u["isolate"] \in {None, IsolateLevel},
         \A src \in Plain : u[src] \in Written \cup {None}
  PROVE  /\ Compose(u) \in Levels
         /\ Compose(u) = CommandLevel => u["command"] # None
         /\ Compose(u) = IsolateLevel => u["isolate"] # None
<1>1. Owners(u) \in SUBSET (1..Len(Sources)) /\ Owners(u) # {}
  BY DEF Owners, Claimed
<1>2. \E n \in Owners(u) : \A m \in Owners(u) : m <= n
  BY <1>1, HighestOwner
<1>3. PICK n \in Owners(u) : Compose(u) = u[Sources[n]]
  BY <1>2 DEF Compose
<1>4. Sources[n] \in Source /\ u[Sources[n]] # None
  BY <1>3 DEF Owners, Source
<1>5. u[Sources[n]] \in Level
  BY <1>4
<1>6. Compose(u) \in Levels
  BY <1>3, <1>4, <1>5 DEF Level
<1>7. Sources[n] \in Plain \/ Sources[n] = "command" \/ Sources[n] = "isolate"
  BY <1>4 DEF Plain
<1> HIDE DEF Sources
<1>8. CASE Sources[n] \in Plain
  BY <1>3, <1>4, <1>6, <1>8, OutputAssumption DEF Levels
<1>9. CASE Sources[n] = "command"
  BY <1>3, <1>4, <1>6, <1>9, OutputAssumption DEF Levels
<1>10. CASE Sources[n] = "isolate"
  BY <1>3, <1>4, <1>6, <1>10, OutputAssumption DEF Levels
<1> QED BY <1>7, <1>8, <1>9, <1>10

LEMMA LiveShows ==
  ASSUME Layers', NEW k \in Streams
  PROVE  /\ Live(k)' \in Level
         /\ Live(k)' = CommandLevel =>
              k \notin identify' /\ layer'[Show(k)]["command"] # None
         /\ Live(k)' = IsolateLevel =>
              k \notin identify' /\ layer'[Show(k)]["isolate"] # None
<1>1. Show(k) \in Shows
  BY DEF Streams, Show
<1> DEFINE u == layer'[Show(k)]
<1>2. /\ u \in [Source -> Level]
      /\ u["command"] \in {None, CommandLevel}
      /\ u["isolate"] \in {None, IsolateLevel}
      /\ \A src \in Plain : u[src] \in Written \cup {None}
  BY <1>1 DEF Layers, CommandFrames
<1>3. Live(k)' = IF k \in identify' THEN Lit
                 ELSE IF Routed(k)' /\ Claimed(u) THEN Compose(u) ELSE None
  BY DEF Live, Claimed, Compose, Owners
<1> HIDE DEF u
<1>4. CASE k \in identify'
  BY <1>3, <1>4, OutputAssumption DEF Level, Levels
<1>5. CASE k \notin identify' /\ Routed(k)' /\ Claimed(u)
  <2>1. Live(k)' = Compose(u)
    BY <1>3, <1>5
  <2> QED BY <1>2, <1>5, <2>1, ComposeShows DEF Level, u
<1>6. CASE k \notin identify' /\ ~(Routed(k)' /\ Claimed(u))
  BY <1>3, <1>6, OutputAssumption DEF Level, Levels
<1> QED BY <1>4, <1>5, <1>6

Shown ==
  \A k \in Streams :
    /\ active[k].on => active[k].show = (k \notin identify)
    /\ wire[k] = CommandLevel =>
         active[k].show /\ layer[Show(k)]["command"] # None
    /\ wire[k] = IsolateLevel =>
         active[k].show /\ layer[Show(k)]["isolate"] # None

\* A pass keeps the wire of an armed engine true to the claims: either it
\* sends everything, or the claims changed only on the universes it sends.
LEMMA PassShown ==
  ASSUME Lights, Layers', state' = "armed",
         NEW tick \in BOOLEAN, NEW shows \in SUBSET Shows,
         NEW identifying \in BOOLEAN, Pass(tick, shows, identifying),
         \/ tick
         \/ /\ Shown
            /\ \A s \in Shows \ shows :
                 /\ layer'[s]["command"] = layer[s]["command"]
                 /\ layer'[s]["isolate"] = layer[s]["isolate"]
  PROVE  Shown'
<1> DEFINE want(k) == Wanted(k)'
           sends(k) == want(k) # None /\ Due(k, tick, shows, identifying)
                       /\ CanSend(k)
<1>1. /\ active' = [k \in Streams |->
            IF want(k) = None THEN Inactive
            ELSE [on |-> TRUE, sent |-> active[k].sent \/ sends(k),
                  show |-> CarriesShow(k)']]
      /\ wire' = [k \in Streams |->
            IF sends(k) THEN want(k)
            ELSE IF Retires(k) THEN Parting(k) ELSE wire[k]]
  BY DEF Pass
<1>2. SUFFICES ASSUME NEW k \in Streams
               PROVE  /\ active'[k].on => active'[k].show = (k \notin identify')
                      /\ wire'[k] = CommandLevel =>
                           active'[k].show /\ layer'[Show(k)]["command"] # None
                      /\ wire'[k] = IsolateLevel =>
                           active'[k].show /\ layer'[Show(k)]["isolate"] # None
  BY DEF Shown
<1>3. want(k) = Live(k)'
  BY DEF Wanted
<1>4. CarriesShow(k)' = (k \notin identify')
  BY DEF CarriesShow
<1>5. Retires(k) <=> active[k].sent /\ want(k) = None
  BY DEF Retires
<1>6. Show(k) \in Shows /\ Protocol(k) \in {Artnet, SACN}
  BY DEF Streams, Show, Protocol
<1>7. CommandLevel \notin {0, None} /\ IsolateLevel \notin {0, None}
  BY OutputAssumption DEF Levels
<1> HIDE DEF want
<1>8. CASE want(k) = None
  <2>1. active'[k] = Inactive /\ ~sends(k)
    BY <1>1, <1>8
  <2>2. wire'[k] = IF active[k].sent THEN Parting(k) ELSE wire[k]
    BY <1>1, <1>5, <1>8, <2>1
  <2>3. wire'[k] \in {0, None}
    BY <2>2, PartingIsDark DEF Lights
  <2> QED BY <1>7, <2>1, <2>3 DEF Inactive
<1>9. CASE want(k) # None
  <2>1. active'[k].on /\ active'[k].show = (k \notin identify')
    BY <1>1, <1>4, <1>9
  <2>2. wire'[k] = IF sends(k) THEN want(k) ELSE wire[k]
    BY <1>1, <1>5, <1>9
  <2>3. CASE sends(k)
    BY <1>3, <2>1, <2>2, <2>3, LiveShows
  <2>4. CASE ~sends(k) /\ wire[k] \in {CommandLevel, IsolateLevel}
    <3>1. active[k].sent /\ active[k].on /\ CanSend(k)
      BY <1>6, <1>7, <2>4 DEF Lights, CanSend
    <3>2. ~Due(k, tick, shows, identifying)
      BY <1>9, <2>4, <3>1
    <3>3. ~tick /\ Shown
      BY <3>2 DEF Due
    <3>4. active[k].show
      BY <2>4, <3>3 DEF Shown
    <3>5. active[k].show = CarriesShow(k)'
      BY <3>1, <3>2 DEF Due, Handover
    <3>6. k \notin identify' /\ Show(k) \notin shows
      BY <1>4, <3>2, <3>4, <3>5 DEF Due
    <3>7. /\ layer'[Show(k)]["command"] = layer[Show(k)]["command"]
          /\ layer'[Show(k)]["isolate"] = layer[Show(k)]["isolate"]
      BY <1>6, <3>3, <3>6
    <3> QED BY <2>1, <2>2, <2>4, <3>3, <3>6, <3>7 DEF Shown
  <2>5. CASE ~sends(k) /\ wire[k] \notin {CommandLevel, IsolateLevel}
    BY <2>1, <2>2, <2>5
  <2> QED BY <2>3, <2>4, <2>5
<1> QED BY <1>8, <1>9

\* The claims of commands and Isolate outside some universes stay.
Keeps(shows) ==
  \A s \in Shows \ shows :
    /\ layer'[s]["command"] = layer[s]["command"]
    /\ layer'[s]["isolate"] = layer[s]["isolate"]

LEMMA PassOverShown ==
  ASSUME Lights, Layers', Shown, state' = "armed", identify' = identify,
         NEW shows \in SUBSET Shows, PassOver(shows), Keeps(shows)
  PROVE  Shown'
<1>1. CASE shows = {}
  <2>1. UNCHANGED output /\ Keeps({})
    BY <1>1 DEF PassOver, NoPass
  <2>2. \A k \in Streams : Show(k) \in Shows
    BY DEF Streams, Show
  <2> QED BY <2>1, <2>2 DEF Shown, output, Keeps
<1>2. CASE shows # {}
  BY <1>2, PassShown DEF PassOver, Keeps
<1> QED BY <1>1, <1>2

LEMMA SourceKeeps ==
  ASSUME Layers, NEW src \in Source, NEW F, layer' = WithSource(src, F)
  PROVE  /\ Keeps(Changed(src, F))
         /\ src \in Plain => Keeps({})
<1>1. "command" \in Source /\ "isolate" \in Source
  BY SourceValue
<1>2. \A s \in Shows, p \in Source :
        layer'[s][p] = IF p = src THEN F[s] ELSE layer[s][p]
  BY DEF WithSource, Layers
<1> QED BY <1>1, <1>2 DEF Keeps, Changed, Plain

LEMMA IsolateEndsShown ==
  ASSUME Lights, Layers, Layers', Shown, state' = "armed", identify' = identify,
         DropIsolate
  PROVE  Shown'
<1>1. "isolate" \in Source
  BY SourceValue
<1>2. Keeps(Changed("isolate", NoClaims))
  BY <1>1, SourceKeeps DEF DropIsolate
<1>3. Changed("isolate", NoClaims) \in SUBSET Shows
  BY DEF Changed
<1> QED BY <1>2, <1>3, PassOverShown DEF DropIsolate

LEMMA ShownIdle ==
  ASSUME Shown, UNCHANGED <<identify, output>>, Keeps({})
  PROVE  Shown'
<1>1. \A k \in Streams : Show(k) \in Shows
  BY DEF Streams, Show
<1> QED BY <1>1 DEF Shown, output, Keeps

LEMMA ShownStep ==
  ASSUME Lights, Layers, Layers', state = "armed" => Shown, state' = "armed",
         [Next]_vars
  PROVE  Shown'
<1>1. ASSUME NEW src \in Edited, NEW s \in Shows, NEW v \in Written,
             SetFrame(src, s, v)
      PROVE  Shown'
  <2>1. src \in Plain
    BY OutputAssumption DEF Plain
  <2>2. Keeps({})
    BY <1>1, <2>1 DEF SetFrame, Keeps, Layers, Plain
  <2> QED BY <1>1, <2>2, ShownIdle DEF SetFrame
<1>2. ASSUME NEW src \in Edited, NEW F \in Claims,
             ReplaceSource(src, F) \/ PublishSource(src, F)
      PROVE  Shown'
  <2>1. src \in Plain /\ src \in Source
    BY OutputAssumption DEF Plain
  <2>2. layer' = WithSource(src, F) /\ identify' = identify /\ state = "armed"
    BY <1>2 DEF ReplaceSource, PublishSource
  <2>3. Keeps(Changed(src, F)) /\ Keeps({})
    BY <2>1, <2>2, SourceKeeps
  <2>4. CASE ReplaceSource(src, F)
    <3>1. Changed(src, F) \in SUBSET Shows
      BY DEF Changed
    <3> QED BY <2>2, <2>3, <2>4, <3>1, PassOverShown DEF ReplaceSource
  <2>5. CASE PublishSource(src, F)
    <3> DEFINE shows == {s \in Shows : layer[s][src] # None \/ F[s] # None}
    <3>1. Pass(FALSE, shows, FALSE) /\ shows \in SUBSET Shows
      BY <2>5 DEF PublishSource
    <3> HIDE DEF shows
    <3> QED BY <2>2, <2>3, <3>1, PassShown DEF Keeps
  <2> QED BY <1>2, <2>4, <2>5
<1>3. ASSUME NEW i \in Commands, FireCommand(i) \/ WindowEnds(i) PROVE Shown'
  <2> DEFINE F == CommandFrames(command')
  <2>1. /\ layer' = WithSource("command", F) /\ PassOver(Changed("command", F))
        /\ identify' = identify /\ state = "armed"
    BY <1>3 DEF FireCommand, WindowEnds
  <2> HIDE DEF F
  <2>2. "command" \in Source
    BY SourceValue
  <2>3. Keeps(Changed("command", F)) /\ Changed("command", F) \in SUBSET Shows
    BY <2>1, <2>2, SourceKeeps DEF Changed
  <2> QED BY <2>1, <2>3, PassOverShown
<1>4. ASSUME NEW F \in [Shows -> {IsolateLevel, None}], SetIsolateFrames(F)
      PROVE  Shown'
  <2>1. /\ layer' = WithSource("isolate", F) /\ PassOver(Changed("isolate", F))
        /\ identify' = identify /\ state = "armed"
    BY <1>4 DEF SetIsolateFrames
  <2>2. "isolate" \in Source
    BY SourceValue
  <2>3. Keeps(Changed("isolate", F)) /\ Changed("isolate", F) \in SUBSET Shows
    BY <2>1, <2>2, SourceKeeps DEF Changed
  <2> QED BY <2>1, <2>3, PassOverShown
<1>5. CASE EndIsolate
  BY <1>5, IsolateEndsShown DEF EndIsolate
<1>6. ASSUME NEW c \in Clients, Heartbeat(c) PROVE Shown'
  <2>1. /\ UNCHANGED <<state, identify>>
        /\ DropIsolate \/ UNCHANGED <<layer, isolate, output>>
    BY <1>6 DEF Heartbeat
  <2>2. UNCHANGED layer => Keeps({})
    BY DEF Keeps
  <2> QED BY <2>1, <2>2, IsolateEndsShown, ShownIdle
<1>7. ASSUME NEW c \in Clients, Goodbye(c) PROVE Shown'
  <2>1. ~(state = "armed" /\ ~LeaseAlive')
    BY <1>7 DEF Goodbye, DisarmLocked, HoldLocked
  <2>2. /\ UNCHANGED <<state, identify>>
        /\ DropIsolate \/ UNCHANGED <<layer, isolate, output>>
    BY <1>7, <2>1 DEF Goodbye
  <2>3. UNCHANGED layer => Keeps({})
    BY DEF Keeps
  <2> QED BY <2>2, <2>3, IsolateEndsShown, ShownIdle
<1>8. ASSUME NEW c \in Clients, Arm(c) PROVE Shown'
  <2>1. CASE state = "armed"
    <3>1. UNCHANGED <<identify, output, layer>>
      BY <1>8, <2>1 DEF Arm, sources
    <3>2. Keeps({})
      BY <3>1 DEF Keeps
    <3> QED BY <2>1, <3>1, <3>2, ShownIdle
  <2>2. CASE state # "armed"
    <3>1. Pass(TRUE, {}, FALSE)
      BY <1>8, <2>2 DEF Arm
    <3> QED BY <3>1, PassShown
  <2> QED BY <2>1, <2>2
<1>9. CASE Tick
  <2>1. Pass(TRUE, {}, FALSE)
    BY <1>9 DEF Tick
  <2> QED BY <2>1, PassShown
<1>10. ASSUME NEW ks \in Identities, SetIdentify(ks) PROVE Shown'
  <2>1. Pass(FALSE, {}, TRUE) /\ UNCHANGED <<layer, state>>
    BY <1>10 DEF SetIdentify
  <2> QED BY <2>1, PassShown
<1>11. ASSUME NEW r \in Routings, SetRouting(r) PROVE Shown'
  <2>1. Pass(FALSE, {}, FALSE) /\ UNCHANGED <<layer, state>>
    BY <1>11 DEF SetRouting
  <2> QED BY <2>1, PassShown
<1>12. ASSUME NEW shows \in SUBSET Shows, Push(shows) PROVE Shown'
  <2>1. Pass(FALSE, shows, FALSE) /\ UNCHANGED <<layer, state>>
    BY <1>12 DEF Push, sources
  <2> QED BY <2>1, PassShown
<1>13. ASSUME \/ \E a \in {"blackout", "hold"} : SetLeaseLossAction(a)
              \/ \E c \in Clients : FallsSilent(c) \/ StartIsolate(c)
              \/ Firing \/ TickDisarmed
              \/ AdapterChanges
              \/ UNCHANGED vars
       PROVE  Shown'
  <2>1. UNCHANGED <<layer, identify, output, state>>
    BY <1>13 DEF SetLeaseLossAction, FallsSilent, StartIsolate, Firing,
                 TimerFires, OrphanFires, TickDisarmed, AdapterChanges, vars,
                 sources
  <2>2. Keeps({})
    BY <2>1 DEF Keeps
  <2> QED BY <2>1, <2>2, ShownIdle
<1>14. ~Disarm /\ ~TickBlackout /\ ~TickHold
  BY DEF Disarm, TickBlackout, TickHold, DisarmLocked, HoldLocked
<1> QED
  BY <1>1, <1>2, <1>3, <1>4, <1>5, <1>6, <1>7, <1>8, <1>9, <1>10, <1>11, <1>12,
     <1>13, <1>14 DEF Next, Ticking

\* What is proved together: a held look is taken from the wire of an armed
\* engine.
OnWire ==
  /\ Lights
  /\ Layers
  /\ state = "armed" => Shown
  /\ HeldLookIsNotTransient

\* The look held from here on has no transient level: what is composed is
\* composed after they are dropped, and what is kept was no transient.
LEMMA HoldIsClean ==
  ASSUME OnWire, Layers', Holding, NEW k \in Streams
  PROVE  /\ hold'[k] \in Level \/ hold'[k] = wire[k]
         /\ hold'[k] \notin {CommandLevel, IsolateLevel}
<1>1. state = "armed" /\ Shown /\ Lights
  BY DEF OnWire, Holding
<1>2. Live(k)' \in Level /\ Live(k)' \notin {CommandLevel, IsolateLevel}
  <2>1. \A s \in Shows : ~Transient(s)'
    BY LayersDropped DEF OnWire, Holding, HoldLocked
  <2>2. Show(k) \in Shows
    BY DEF Streams, Show
  <2> QED BY <2>1, <2>2, LiveShows DEF Transient
<1>3. hold'[k] = IF ~active[k].on THEN None
                 ELSE IF ~active[k].sent THEN Live(k)'
                 ELSE IF active[k].show /\ Transient(Show(k))
                 THEN (IF Live(k)' = None THEN 0 ELSE Live(k)')
                 ELSE wire[k]
  BY DEF Holding, HoldLocked
<1>4. /\ {0, None} \subseteq Level
      /\ {0, None} \cap {CommandLevel, IsolateLevel} = {}
  BY OutputAssumption DEF Level, Levels
<1>5. \/ active[k].show /\ Transient(Show(k))
      \/ wire[k] \notin {CommandLevel, IsolateLevel}
  BY <1>1 DEF Shown, Transient
<1> HIDE DEF Live
<1> QED BY <1>2, <1>3, <1>4, <1>5

LEMMA OnWireInit == Init => OnWire
<1>1. Init => Shown /\ HeldLookIsNotTransient
  BY OutputAssumption DEF Init, Shown, HeldLookIsNotTransient, Inactive, Levels
<1> QED BY <1>1, LightsInit, LayersInit DEF OnWire

LEMMA OnWireStep == OnWire /\ [Next]_vars => OnWire'
<1> SUFFICES ASSUME OnWire, [Next]_vars PROVE OnWire'
  OBVIOUS
<1>1. Lights' /\ Layers'
  BY LightsStep, LayersStep DEF OnWire
<1>2. state' = "armed" => Shown'
  BY <1>1, ShownStep DEF OnWire
<1>3. None \notin {CommandLevel, IsolateLevel}
  BY OutputAssumption DEF Levels
<1>4. HeldLookIsNotTransient'
  <2>1. CASE hold' = hold
    BY <2>1 DEF OnWire, HeldLookIsNotTransient
  <2>2. CASE hold' = [k \in Streams |-> None]
    BY <1>3, <2>2 DEF HeldLookIsNotTransient
  <2>3. CASE Holding
    BY <1>1, <2>3, HoldIsClean DEF HeldLookIsNotTransient
  <2> QED BY <2>1, <2>2, <2>3, StepShapes DEF Steady, Arms, DisarmLocked
<1> QED BY <1>1, <1>2, <1>4 DEF OnWire

\* While armed, the level of a command or of Isolate is on the wire only as
\* long as the command, or Isolate, is on.
THEOREM TransientsAlwaysLeave == Spec => []TransientsLeaveTheWire
<1>1. OnWire => TransientsLeaveTheWire
  <2> SUFFICES ASSUME OnWire, state = "armed", NEW k \in Streams
               PROVE  /\ wire[k] = CommandLevel =>
                           \E i \in Commands :
                             command[i] = "fired" /\ target[i] = Show(k)
                      /\ wire[k] = IsolateLevel => isolate # None
    BY DEF TransientsLeaveTheWire
  <2>1. Show(k) \in Shows /\ Shown /\ Layers
    BY DEF Streams, Show, OnWire
  <2> QED BY <2>1 DEF Shown, Layers, CommandFrames
<1> QED BY <1>1, OnWireInit, OnWireStep, PTL DEF Spec

\* The held look never has the level of a one-shot command or of Isolate.
THEOREM HeldLookIsClean == Spec => []HeldLookIsNotTransient
<1>1. OnWire => HeldLookIsNotTransient
  BY DEF OnWire
<1> QED BY <1>1, OnWireInit, OnWireStep, PTL DEF Spec

-----------------------------------------------------------------------------
(* Types. *)

Settings ==
  /\ routing \in Routings \cup {{<<Artnet, s>> : s \in Shows}}
  /\ identify \in Identities \cup {{}}
  /\ choice \in {"blackout", "hold"}
  /\ state \in {"disarmed", "armed", "holding"}
  /\ clients \in [Clients -> {"fresh", "stale", "absent"}]
  /\ openable \in BOOLEAN
  /\ target \in [Commands -> Shows]
  /\ isolate \in Clients \cup {None}

LEMMA SettingsStep == Settings /\ [Next]_vars => Settings'
<1> SUFFICES ASSUME Settings, [Next]_vars PROVE Settings'
  OBVIOUS
<1>1. ASSUME NEW src \in Edited,
             \/ \E s \in Shows, v \in Written : SetFrame(src, s, v)
             \/ \E F \in Claims : ReplaceSource(src, F) \/ PublishSource(src, F)
      PROVE  Settings'
  BY <1>1 DEF Settings, SetFrame, ReplaceSource, PublishSource, transients
<1>2. ASSUME NEW r \in Routings, SetRouting(r) PROVE Settings'
  BY <1>2 DEF Settings, SetRouting, transients
<1>3. ASSUME NEW ks \in Identities, SetIdentify(ks) PROVE Settings'
  BY <1>3 DEF Settings, SetIdentify, transients
<1>4. ASSUME NEW a \in {"blackout", "hold"}, SetLeaseLossAction(a)
      PROVE  Settings'
  BY <1>4 DEF Settings, SetLeaseLossAction, transients
<1>5. ASSUME NEW i \in Commands, FireCommand(i) \/ WindowEnds(i)
      PROVE  Settings'
  BY <1>5 DEF Settings, FireCommand, WindowEnds
<1>6. ASSUME \/ \E F \in [Shows -> {IsolateLevel, None}] : SetIsolateFrames(F)
             \/ EndIsolate
      PROVE  Settings'
  BY <1>6 DEF Settings, SetIsolateFrames, EndIsolate, DropIsolate, transients
<1>7. ASSUME NEW c \in Clients, Arm(c) PROVE Settings'
  BY <1>7 DEF Settings, Arm, sources, transients
<1>8. ASSUME NEW c \in Clients, Heartbeat(c) PROVE Settings'
  <2>1. clients' \in [Clients -> {"fresh", "stale", "absent"}]
    BY <1>8 DEF Settings, Heartbeat
  <2>2. isolate' = None \/ isolate' = isolate
    BY <1>8 DEF Heartbeat, DropIsolate
  <2> QED BY <1>8, <2>1, <2>2 DEF Settings, Heartbeat
<1>9. ASSUME NEW c \in Clients, Goodbye(c) PROVE Settings'
  <2>1. clients' \in [Clients -> {"fresh", "stale", "absent"}]
    BY <1>9 DEF Settings, Goodbye
  <2>2. /\ isolate' = None \/ isolate' = isolate
        /\ state' \in {"disarmed", "holding", state}
        /\ target' = target
    BY <1>9 DEF Goodbye, DropIsolate, DisarmLocked, HoldLocked,
                TransientsDropped
  <2> QED BY <1>9, <2>1, <2>2 DEF Settings, Goodbye, HoldLocked
<1>10. ASSUME NEW c \in Clients, FallsSilent(c) \/ StartIsolate(c)
       PROVE  Settings'
  BY <1>10 DEF Settings, FallsSilent, StartIsolate, sources, transients
<1>11. CASE Disarm \/ TickBlackout
  BY <1>11 DEF Settings, Disarm, TickBlackout, DisarmLocked, TransientsDropped
<1>12. CASE TickHold
  BY <1>12 DEF Settings, TickHold, HoldLocked, TransientsDropped
<1>13. CASE Tick
  BY <1>13 DEF Settings, Tick
<1>14. ASSUME \/ \E shows \in SUBSET Shows : Push(shows)
              \/ Firing \/ TickDisarmed \/ AdapterChanges \/ UNCHANGED vars
       PROVE  Settings'
  BY <1>14 DEF Settings, Push, Firing, TimerFires, OrphanFires, TickDisarmed,
               AdapterChanges, sources, transients, vars
<1> QED
  BY <1>1, <1>2, <1>3, <1>4, <1>5, <1>6, <1>7, <1>8, <1>9, <1>10, <1>11, <1>12,
     <1>13, <1>14 DEF Next, Ticking

Frames ==
  /\ hold \in [Streams -> Level]
  /\ active \in [Streams -> [on : BOOLEAN, sent : BOOLEAN, show : BOOLEAN]]
  /\ wire \in [Streams -> Level]
  /\ link \in BOOLEAN

LEMMA PartingLevel == \A k \in Streams : Parting(k) \in Level
BY OutputAssumption DEF Parting, Level, Levels

LEMMA WantedLevel ==
  ASSUME Layers', Settings', hold' \in [Streams -> Level], NEW k \in Streams
  PROVE  Wanted(k)' \in Level
<1>1. Live(k)' \in Level /\ None \in Level
  BY LiveShows DEF Level
<1>2. state' \in {"disarmed", "armed", "holding"}
  BY DEF Settings
<1> HIDE DEF Live
<1> QED BY <1>1, <1>2 DEF Wanted

LEMMA PassFrames ==
  ASSUME Frames, Layers', Settings', hold' \in [Streams -> Level], Passes
  PROVE  Frames'
<1>1. PICK tick \in BOOLEAN, shows \in SUBSET Shows, identifying \in BOOLEAN :
        Pass(tick, shows, identifying)
  BY DEF Passes
<1>2. CASE state' = "disarmed"
  BY <1>1, <1>2 DEF Pass, output, Frames
<1>3. CASE state' # "disarmed"
  <2> DEFINE want(k) == Wanted(k)'
             sends(k) == want(k) # None /\ Due(k, tick, shows, identifying)
                         /\ CanSend(k)
  <2>1. /\ active' = [k \in Streams |->
              IF want(k) = None THEN Inactive
              ELSE [on |-> TRUE, sent |-> active[k].sent \/ sends(k),
                    show |-> CarriesShow(k)']]
        /\ wire' = [k \in Streams |->
              IF sends(k) THEN want(k)
              ELSE IF Retires(k) THEN Parting(k) ELSE wire[k]]
        /\ link' = (link \/ \E k \in Streams : Protocol(k) = SACN /\ sends(k))
    BY <1>1, <1>3 DEF Pass
  <2>2. \A k \in Streams : want(k) \in Level
    BY WantedLevel
  <2> HIDE DEF want, sends
  <2>3. wire' \in [Streams -> Level]
    BY <2>1, <2>2, PartingLevel DEF Frames
  <2>4. link' \in BOOLEAN
    BY <2>1
  <2>5. \A k \in Streams : CarriesShow(k)' \in BOOLEAN
    BY DEF CarriesShow
  <2>6. active' \in [Streams -> [on : BOOLEAN, sent : BOOLEAN, show : BOOLEAN]]
    BY <2>1, <2>5 DEF Inactive
  <2> QED BY <2>3, <2>4, <2>6 DEF Frames
<1> QED BY <1>2, <1>3

\* Everything that is proved of the engine.
Invariant == OnWire /\ Ticks /\ Settings /\ Frames

LEMMA FramesStep ==
  ASSUME Invariant, OnWire', Settings', [Next]_vars
  PROVE  Frames'
<1>1. CASE hold' \in [Streams -> Level] /\ (UNCHANGED output \/ Passes)
  BY <1>1, PassFrames DEF Invariant, OnWire, Frames, output
<1>2. CASE Steady
  BY <1>1, <1>2 DEF Steady, Invariant, Frames
<1>3. CASE Arms
  BY <1>1, <1>3 DEF Arms, Level
<1>4. CASE Holding
  <2>1. \A k \in Streams : hold'[k] \in Level
    BY <1>4, HoldIsClean DEF Invariant, Frames, OnWire
  <2>2. hold' \in [Streams -> Level]
    BY <1>4, <2>1 DEF Holding, HoldLocked
  <2> QED BY <1>1, <1>4, <2>2 DEF Holding
<1>5. CASE DisarmLocked
  <2>1. wire' \in [Streams -> Level]
    BY <1>5, PartingLevel DEF DisarmLocked, Invariant, Frames
  <2> QED BY <1>5, <2>1 DEF DisarmLocked, Frames, Inactive, Level
<1> QED BY <1>2, <1>3, <1>4, <1>5, StepShapes

LEMMA InvariantInit == Init => Invariant
<1>1. Init => Settings
  BY DEF Init, Settings
<1>2. ASSUME Init PROVE Frames
  <2>1. /\ hold \in [Streams -> Level] /\ wire \in [Streams -> Level]
        /\ link \in BOOLEAN
    BY <1>2 DEF Init, Level
  <2>2. active \in [Streams -> [on : BOOLEAN, sent : BOOLEAN, show : BOOLEAN]]
    BY <1>2 DEF Init, Inactive
  <2> QED BY <2>1, <2>2 DEF Frames
<1> QED BY <1>1, <1>2, OnWireInit, TicksInit DEF Invariant

LEMMA InvariantStep == Invariant /\ [Next]_vars => Invariant'
BY OnWireStep, TicksStep, SettingsStep, FramesStep DEF Invariant

\* Every variable keeps its type, and however the operator arms and disarms,
\* the chains of ticks stay within the bound that Arm checks.
THEOREM TypeCorrect == Spec => []TypeOK
<1>1. Invariant => TypeOK
  <2> SUFFICES ASSUME Invariant PROVE TypeOK
    OBVIOUS
  <2>1. orphans \in 0..MaxChains /\ waiting \in 0..MaxChains
    BY OutputAssumption DEF Invariant, Ticks
  <2> QED BY <2>1 DEF Invariant, OnWire, Layers, Ticks, Settings, Frames, TypeOK
<1> QED BY <1>1, InvariantInit, InvariantStep, PTL DEF Spec

-----------------------------------------------------------------------------
(* The promise of the master Arm.  StepShapes maps each handler to a step of *)
(* MasterArm: what it does in a disarmed engine is a stutter, in a held one  *)
(* Held, in an armed one Output.                                             *)

LEMMA HoldingPass ==
  ASSUME Lights, Passes, state' = "holding"
  PROVE  \A k \in Streams :
           /\ wire'[k] \in {wire[k], hold'[k], 0}
           /\ hold'[k] # None => wire'[k] \in {wire[k], hold'[k]}
<1>1. PICK tick \in BOOLEAN, shows \in SUBSET Shows, identifying \in BOOLEAN :
        Pass(tick, shows, identifying)
  BY DEF Passes
<1> DEFINE want(k) == Wanted(k)'
           sends(k) == want(k) # None /\ Due(k, tick, shows, identifying)
                       /\ CanSend(k)
<1>2. wire' = [k \in Streams |->
         IF sends(k) THEN want(k)
         ELSE IF Retires(k) THEN Parting(k) ELSE wire[k]]
  BY <1>1 DEF Pass
<1>3. SUFFICES ASSUME NEW k \in Streams
               PROVE  /\ wire'[k] \in {wire[k], hold'[k], 0}
                      /\ hold'[k] # None => wire'[k] \in {wire[k], hold'[k]}
  OBVIOUS
<1>4. want(k) = hold'[k] /\ (Retires(k) => want(k) = None)
  BY DEF Wanted, Retires
<1> HIDE DEF want, sends
<1>5. wire'[k] = IF sends(k) THEN want(k)
                 ELSE IF Retires(k) THEN Parting(k) ELSE wire[k]
  BY <1>2
<1> QED BY <1>4, <1>5, PartingIsDark

LEMMA StepKeepsPromise ==
  Invariant /\ Invariant' /\ [Next]_vars => [Promise!Next]_Promise!vars
<1> SUFFICES ASSUME Invariant, Invariant', [Next]_vars
             PROVE  [Promise!Next]_Promise!vars
  OBVIOUS
<1>1. /\ wire' \in [Streams -> Levels \cup {None}]
      /\ hold' \in [Streams -> Levels \cup {None}]
      /\ state \in {"disarmed", "armed", "holding"}
      /\ HeldLookIsNotTransient'
      /\ Lights /\ Lights'
  BY DEF Invariant, OnWire, Frames, Settings, Level
<1>2. CASE Steady
  <2>1. CASE UNCHANGED output
    BY <1>2, <2>1 DEF Steady, output, Promise!vars
  <2>2. CASE Passes /\ state = "disarmed"
    <3>1. UNCHANGED output
      BY <1>2, <2>2 DEF Steady, Passes, Pass
    <3> QED BY <1>2, <3>1 DEF Steady, output, Promise!vars
  <2>3. CASE Passes /\ state = "armed"
    BY <1>1, <1>2, <2>3 DEF Steady, Promise!Next, Promise!Output
  <2>4. CASE Passes /\ state = "holding"
    <3>1. state' = "holding" /\ hold' = hold
      BY <1>2, <2>4 DEF Steady
    <3>2. \A k \in Streams :
            /\ wire'[k] \in {wire[k], hold'[k]} \cup {0}
            /\ hold[k] # None => wire'[k] \in {wire[k], hold[k]}
      BY <1>1, <2>4, <3>1, HoldingPass
    <3> QED BY <2>4, <3>1, <3>2 DEF Promise!Next, Promise!Held, Promise!Holds
  <2> QED BY <1>1, <1>2, <2>1, <2>2, <2>3, <2>4 DEF Steady
<1>3. CASE Arms
  BY <1>1, <1>3 DEF Arms, Promise!Next, Promise!Arm
<1>4. CASE state # "disarmed" /\ DisarmLocked
  <2>1. state' = "disarmed" /\ hold' = [k \in Streams |-> None]
    BY <1>4 DEF DisarmLocked
  <2>2. \A k \in Streams : wire'[k] \in {0, None}
    BY <1>1, <2>1 DEF Lights
  <2>3. wire' \in [Streams -> {0, None}]
    BY <1>1, <2>2
  <2> QED BY <1>4, <2>1, <2>3
         DEF Promise!Next, Promise!Blackout, Promise!Dark
<1>5. CASE Holding
  <2>1. state = "armed" /\ state' = "holding"
    BY <1>5 DEF Holding, HoldLocked
  <2>2. hold' \in [Streams -> (Levels \ {CommandLevel, IsolateLevel})
                               \cup {None}]
    BY <1>1 DEF HeldLookIsNotTransient
  <2>3. \A k \in Streams : wire'[k] \in {wire[k], hold'[k]} \cup {0}
    <3>1. CASE UNCHANGED output
      BY <3>1 DEF output
    <3>2. CASE Passes
      BY <1>1, <2>1, <3>2, HoldingPass
    <3> QED BY <1>5, <3>1, <3>2 DEF Holding
  <2> QED BY <2>1, <2>2, <2>3 DEF Promise!Next, Promise!Hold, Promise!Holds
<1> QED BY <1>2, <1>3, <1>4, <1>5, StepShapes

\* The engine implements MasterArm: for any set of shows, browsers, commands
\* and routings, what receivers see is armed output, a held look that stays
\* frozen, or darkness that lasts until the next Arm.
THEOREM EngineKeepsPromise == Spec => ImplementsMasterArm
<1>1. Init => Promise!Init
  BY DEF Init, Promise!Init
<1> QED
  BY <1>1, InvariantInit, InvariantStep, StepKeepsPromise, PTL
     DEF Spec, ImplementsMasterArm, Promise!Spec

\* The parts of the engine's invariant together, for every routing and client.
THEOREM OutputIsSound == Spec => []OutputInvariant
BY TypeCorrect, DisarmedIsDark, LitIsTransmitted, TransientsEndWithArm,
   TicksAlwaysGoOn, PTL DEF OutputInvariant
=============================================================================
