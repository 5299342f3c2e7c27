------------------------------ MODULE MCNodeSide ------------------------------
(* One run for four components that do not meet: each behaviour moves one of   *)
(* them, so that the states add up instead of multiplying.                     *)
EXTENDS NodeSession, DeviceReads, RigWalk, LiveFeed, TLC

CONSTANTS homeIP, newIP, c1, c2, p1, p2, u1, f1, f2, r1, r2, r3, g1, b1
TwoAddrs == {homeIP, newIP}
TwoCalls == {c1, c2}
Bind(b) == [ip |-> homeIP, bind |-> b]
Edits == {[key |-> Bind(1), target |-> newIP], [key |-> Bind(2), target |-> none]}
TwoPorts == {p1, p2}
OneUID == {u1}
TwoFixtures == {f1, f2}
ThreeReqs == {r1, r2, r3}
OneEngine == {g1}
OneBrowser == {b1}
LoggedKinds == {"rdm", "strange"}

VARIABLE part
allVars == <<sessionVars, devVars, walkVars, feedVars, part>>

Init ==
  /\ part \in {"session", "reads", "walk", "feed"}
  /\ SessionInit /\ ReadsInit /\ WalkInit /\ FeedInit

Next ==
  \/ /\ part = "session" /\ SessionNext
     /\ UNCHANGED <<devVars, walkVars, feedVars, part>>
  \/ /\ part = "reads" /\ ReadsNext
     /\ UNCHANGED <<sessionVars, walkVars, feedVars, part>>
  \/ /\ part = "walk" /\ WalkNext
     /\ UNCHANGED <<sessionVars, devVars, feedVars, part>>
  \/ /\ part = "feed" /\ FeedNext
     /\ UNCHANGED <<sessionVars, devVars, walkVars, part>>

Spec ==
  /\ Init /\ [][Next]_allVars
  /\ WF_allVars(part = "reads" /\ ReaderStep /\ UNCHANGED <<sessionVars, walkVars, feedVars, part>>)
  /\ WF_allVars(part = "reads" /\ RegistryStep /\ UNCHANGED <<sessionVars, walkVars, feedVars, part>>)

(* The state has the shape the code gives it; a call waits under its own key and *)
(* can be recognised by the address it asked for; a started session has one next *)
(* tick; what is pending is queued once, and a reader that sleeps beside a queue *)
(* is about to be woken; no batch is sent into a channel that was closed.        *)
NodeSideInvariant ==
  /\ SessionTypeOK /\ ReadsTypeOK /\ WalkTypeOK /\ FeedTypeOK
  /\ WaitersAreCalls /\ TargetWhileAlone /\ OnePollChain
  /\ PendingIsQueued /\ NoLostWakeup
  /\ NoSendOnClosed
=============================================================================
