------------------------------ MODULE MasterArm ------------------------------
(***************************************************************************)
(* What the output engine promises whoever presses Arm, in terms of the    *)
(* levels that the receivers of each stream hold: levels move while armed; *)
(* a lost lease blacks out, or freezes a look without the levels of one-   *)
(* shot commands and Isolate; a frozen look stays frozen; disarmed is dark *)
(* and stays dark.                                                         *)
(***************************************************************************)
EXTENDS Naturals

CONSTANTS
  Streams,     \* one universe on one protocol each
  Levels,      \* what a stream may show, 0 being dark
  Transients,  \* levels of commands and Isolate
  None         \* nothing on the wire, or nothing held

VARIABLES
  state,  \* disarmed, armed or holding
  wire,   \* wire[k]: the level the receivers of stream k were sent last
  held    \* held[k]: the level frozen on stream k, or None

vars == <<state, wire, held>>

Dark == {0, None}

Init ==
  /\ state = "disarmed"
  /\ wire = [k \in Streams |-> None]
  /\ held = [k \in Streams |-> None]

\* An edit, a tick, a routing change reaches the wire.
Output ==
  /\ state = "armed"
  /\ wire' \in [Streams -> Levels \cup {None}]
  /\ UNCHANGED <<state, held>>

\* The operator presses Arm.
Arm ==
  /\ state # "armed"
  /\ state' = "armed"
  /\ wire' \in [Streams -> Levels \cup {None}]
  /\ held' = [k \in Streams |-> None]

\* The operator disarms, or the lease is lost and the choice is Blackout.
Blackout ==
  /\ state # "disarmed"
  /\ state' = "disarmed"
  /\ wire' \in [Streams -> Dark]
  /\ held' = [k \in Streams |-> None]

\* The streams either keep their level, or show the held one from now on; a
\* stream without a held level is dark.
Holds ==
  \A k \in Streams : wire'[k] \in {wire[k], held'[k]} \cup {0}

\* The lease is lost and the choice is Hold last look.
Hold ==
  /\ state = "armed"
  /\ state' = "holding"
  /\ held' \in [Streams -> (Levels \ Transients) \cup {None}]
  /\ Holds

\* Nothing but the held look reaches the wire.
Held ==
  /\ state = "holding"
  /\ UNCHANGED <<state, held>>
  /\ Holds
  /\ \A k \in Streams : held[k] # None => wire'[k] \in {wire[k], held[k]}

Next == Output \/ Arm \/ Blackout \/ Hold \/ Held

Spec == Init /\ [][Next]_vars
=============================================================================
