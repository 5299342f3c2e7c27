-------------------------- MODULE MCRDMController --------------------------
(* Small instances of the controller: two responders, two node ports. *)
EXTENDS RDMController, TLC
CONSTANTS portA, portB, uidA, uidB, everyone, pidA, pidB, queuedMsg, statusMsgs
Req(l, x, cl, pid) == [link |-> l, uid |-> x, class |-> cl, pid |-> pid]
OnePort  == {portA}
TwoPorts == {portA, portB}
OneUID   == {uidA}
TwoUIDs  == {uidA, uidB}
AllPIDs  == {pidA, pidB, queuedMsg, statusMsgs}
\* The parameters an answer may carry, where only one matters.
FewPIDs  == {pidA, queuedMsg, statusMsgs}
\* One responder behind one port: every kind of answer to a GET and a SET.
Exchange == {Req(portA, uidA, "get", pidA), Req(portA, uidA, "set", pidA)}
\* Two responders sharing a port.
Shared == {Req(portA, uidA, "get", pidA), Req(portA, uidB, "get", pidA),
           Req(portA, uidB, "set", pidA)}
\* One responder reached through two ports.
Twice == {Req(portA, uidA, "get", pidA), Req(portB, uidA, "get", pidA)}
=============================================================================
