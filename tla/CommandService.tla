--------------------------- MODULE CommandService ---------------------------
(***************************************************************************)
(* What RDMController promises to those who submit commands, whatever the  *)
(* responders and the network do: a command moves forward only, it ends    *)
(* once, a node port has one command on the wire, and the commands for one *)
(* device through one port reach the wire in the order of submission.  One *)
(* handler of the controller may move several commands at once.            *)
(***************************************************************************)
EXTENDS Naturals

CONSTANTS Ids, Ports, None, Results

VARIABLES
  life,    \* life[c]: unused, pending, wire or done
  device,  \* device[c]: the port and responder of command c
  result   \* result[c]: what its submitter was told, or None

vars == <<life, device, result>>

\* Outcomes of a command that was never in flight, and of one that was.
Unsent == {"unreachable", "broadcast", "aborted"}
InFlight == Results \ {"unreachable", "broadcast", None}

Init ==
  /\ life = [c \in Ids |-> "unused"]
  /\ result = [c \in Ids |-> None]

Stays(c) == life'[c] = life[c] /\ result'[c] = result[c]

Accepted(c) == life[c] = "unused" /\ life'[c] = "pending" /\ result'[c] = None

Begun(c) ==
  life[c] \in {"unused", "pending"} /\ life'[c] = "wire" /\ result'[c] = None

EndedUnsent(c) ==
  /\ life[c] \in {"unused", "pending"}
  /\ life'[c] = "done" /\ result'[c] \in Unsent

Ended(c) ==
  life[c] = "wire" /\ life'[c] = "done" /\ result'[c] \in InFlight

\* A port has one command on the wire.
OnePerPort ==
  \A c, e \in Ids :
    life[c] = "wire" /\ life[e] = "wire" /\ device[c][1] = device[e][1]
      => c = e

\* No command overtakes an earlier one for the same device.
InOrder ==
  \A c, e \in Ids :
    c < e /\ device[c] = device[e] /\ life[c] = "pending"
      => life[e] \in {"unused", "pending"}

Next ==
  /\ \A c \in Ids :
       /\ Stays(c) \/ Accepted(c) \/ Begun(c) \/ EndedUnsent(c) \/ Ended(c)
       /\ life[c] # "unused" => device'[c] = device[c]
  /\ OnePerPort'
  /\ InOrder'

Spec == Init /\ [][Next]_vars
=============================================================================
