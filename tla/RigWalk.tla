--------------------------------- MODULE RigWalk ---------------------------------
(* Rig Walk: an ordered list of devices to visit, a cursor, and IDENTIFY turned *)
(* on for the device under the cursor and off for the one it leaves.  A request *)
(* reads the session, speaks to the rig and writes the session, each under the  *)
(* store's mutex or none, so requests interleave.  The store is a file that is  *)
(* replaced by a rename; the process may die and start again.                   *)
EXTENDS Naturals, Sequences, FiniteSets, SequencesExt

CONSTANTS
  Fixtures,    \* the devices of the rig
  WalkReqs,    \* the requests of a behaviour
  Overlap,     \* requests that may be under way at once
  Outcomes,    \* whether a SET of IDENTIFY may be answered by an error
  noSession

ASSUME WalkAssumption ==
  /\ Overlap \in Nat \ {0} /\ Outcomes \subseteq BOOLEAN
  /\ IsFiniteSet(WalkReqs)

Entry == [device : Fixtures, status : {"unvisited", "confirmed", "problem"},
          on : BOOLEAN, err : BOOLEAN]
Walks == [devices : Seq(Entry), current : Nat, auto : BOOLEAN]

VARIABLES
  session,   \* the store's session or noSession; current 0 is no device
  disk,      \* the session file, or noSession
  flashing,  \* the devices that identify
  leftover,  \* devices that flashed when their session was replaced or ended
  ops        \* the requests under way: what is left for each to do
walkVars == <<session, disk, flashing, leftover, ops>>

Idle == [do |-> "idle", snap |-> noSession, index |-> 0, err |-> FALSE]

WalkTypeOK ==
  /\ session = noSession \/ session \in Walks
  /\ disk = noSession \/ disk \in Walks
  /\ flashing \subseteq Fixtures /\ leftover \subseteq Fixtures
  /\ ops \in [WalkReqs ->
                [do : {"idle", "stop", "build", "leave", "left", "enter", "entered",
                       "retried", "quieted", "silenced", "ended", "over"},
                 snap : {noSession} \cup Walks, index : Nat, err : BOOLEAN]]

WalkInit ==
  /\ session = noSession /\ disk = noSession
  /\ flashing = {} /\ leftover = {}
  /\ ops = [r \in WalkReqs |-> Idle]

CurrentDevice(w) ==
  IF w # noSession /\ w.current \in 1 .. Len(w.devices)
  THEN {w.devices[w.current].device} ELSE {}
IndexOf(w, d) == {i \in 1 .. Len(w.devices) : w.devices[i].device = d}

(* Mutate and persistLocked: the file follows the session unless the write     *)
(* fails, which is ignored; it is never half written.                          *)
Stored(w) == session' = w /\ disk' \in {w, disk}

(* walkSetIdentify: the device obeys and says so, does not obey, or obeys and  *)
(* the answer is lost.  Succeeds(err) is what the caller is told.              *)
SetIdentify(d, on, err) ==
  /\ flashing' \in {IF on THEN flashing \cup {d} ELSE flashing \ {d}}
                     \cup (IF err THEN {flashing} ELSE {})
Marked(w, i, on, err) ==
  [w EXCEPT !.devices[i].on = on, !.devices[i].err = err]

Busy == {r \in WalkReqs : ops[r].do \notin {"idle", "over"}}
May(r) == ops[r].do = "idle" /\ Cardinality(Busy) < Overlap
Becomes(r, op) == ops' = [ops EXCEPT ![r] = op]
Over(r) == Becomes(r, [Idle EXCEPT !.do = "over"])

----------------------------------------------------------------------------
(* handleStartWalkSession: the previous session's device off, whatever comes   *)
(* of it; a new session; the cursor to its first device.                       *)
Start(r) ==
  /\ May(r)
  /\ Becomes(r, [Idle EXCEPT !.do = "build", !.snap = session])
  /\ UNCHANGED <<session, disk, flashing, leftover>>

NewWalk(ds) ==
  [devices |-> [i \in 1 .. Len(ds) |->
                  [device |-> ds[i], status |-> "unvisited", on |-> FALSE, err |-> FALSE]],
   current |-> 0, auto |-> TRUE]
Build(r, ds) ==
  /\ ops[r].do = "build"
  /\ IF CurrentDevice(ops[r].snap) = {} THEN UNCHANGED flashing
     ELSE \E err \in Outcomes, d \in CurrentDevice(ops[r].snap) : SetIdentify(d, FALSE, err)
  /\ Stored(NewWalk(ds))
  /\ leftover' = flashing'
  /\ Becomes(r, [Idle EXCEPT !.do = "leave", !.index = 1])

(* walkAdvanceTo, from goto, from auto-advance and from a start: it works on a *)
(* copy of the session from here to its last step.                             *)
Goto(r, i) ==
  /\ May(r)
  /\ Becomes(r, [Idle EXCEPT !.do = "leave", !.index = i])
  /\ UNCHANGED <<session, disk, flashing, leftover>>

Leave(r) ==
  /\ ops[r].do = "leave"
  /\ LET i == ops[r].index
         reachable == session # noSession /\ i \in 1 .. Len(session.devices)
         prev == IF reachable THEN CurrentDevice(session) ELSE {}
     IN IF ~reachable THEN Over(r) /\ UNCHANGED flashing
        ELSE IF prev = {} \/ session.current = i
        THEN /\ Becomes(r, [ops[r] EXCEPT !.do = "enter", !.snap = session])
             /\ UNCHANGED flashing
        ELSE \E err \in Outcomes, d \in prev :
               /\ SetIdentify(d, FALSE, err)
               /\ Becomes(r, [ops[r] EXCEPT !.do = "left", !.snap = session, !.err = err])
  /\ UNCHANGED <<session, disk, leftover>>

(* Seeded bug: what became of turning the last device off is not noted. *)
LeftUnmarked(r) ==
  /\ ops[r].do = "left"
  /\ Becomes(r, [ops[r] EXCEPT !.do = "enter"])
  /\ UNCHANGED <<session, disk, flashing, leftover>>

(* The outcome is noted if the device is still in its place. *)
Left(r) ==
  /\ ops[r].do = "left"
  /\ LET w == ops[r].snap
         p == w.current
         same == session # noSession /\ p <= Len(session.devices)
                   /\ session.devices[p].device = w.devices[p].device
     IN IF session = noSession THEN UNCHANGED <<session, disk>>
        ELSE Stored(IF same THEN Marked(session, p, FALSE, ops[r].err) ELSE session)
  /\ Becomes(r, [ops[r] EXCEPT !.do = "enter"])
  /\ UNCHANGED <<flashing, leftover>>

Enter(r) ==
  /\ ops[r].do = "enter"
  /\ \E err \in Outcomes :
       /\ SetIdentify(ops[r].snap.devices[ops[r].index].device, TRUE, err)
       /\ Becomes(r, [ops[r] EXCEPT !.do = "entered", !.err = err])
  /\ UNCHANGED <<session, disk, leftover>>

Entered(r) ==
  /\ ops[r].do = "entered"
  /\ LET i == ops[r].index
         at == [session EXCEPT !.current = i]
     IN IF session = noSession THEN UNCHANGED <<session, disk>>
        ELSE Stored(IF i <= Len(session.devices) THEN Marked(at, i, ~ops[r].err, ops[r].err)
                    ELSE at)
  /\ Over(r)
  /\ UNCHANGED <<flashing, leftover>>

(* handleWalkStatus: one mutation; a confirmed current device may move on. *)
SetStatus(r, d, s) ==
  /\ May(r) /\ session # noSession
  /\ \E i \in IndexOf(session, d) :
       /\ Stored([session EXCEPT !.devices[i].status = s])
       /\ IF s = "confirmed" /\ session.auto /\ i = session.current /\ i < Len(session.devices)
          THEN Becomes(r, [Idle EXCEPT !.do = "leave", !.index = i + 1])
          ELSE Over(r)
  /\ UNCHANGED <<flashing, leftover>>

ToggleAuto(r) ==
  /\ May(r) /\ session # noSession
  /\ Stored([session EXCEPT !.auto = ~@])
  /\ Over(r)
  /\ UNCHANGED <<flashing, leftover>>

(* identify/retry and identify/off: the device under the cursor, on or off. *)
Identify(r, on) ==
  /\ May(r)
  /\ \E err \in Outcomes, d \in CurrentDevice(session) :
       /\ SetIdentify(d, on, err)
       /\ Becomes(r, [Idle EXCEPT !.do = IF on THEN "retried" ELSE "quieted",
                                !.snap = session, !.err = err])
  /\ UNCHANGED <<session, disk, leftover>>
Identified(r) ==
  /\ ops[r].do \in {"retried", "quieted"}
  /\ LET same == CurrentDevice(session) = CurrentDevice(ops[r].snap)
     IN IF session = noSession THEN UNCHANGED <<session, disk>>
        ELSE Stored(IF same THEN Marked(session, session.current,
                                        ops[r].do = "retried" /\ ~ops[r].err, ops[r].err)
                    ELSE session)
  /\ Over(r)
  /\ UNCHANGED <<flashing, leftover>>

(* identify/all-off: every device of the session, failures noted by place; the *)
(* cursor leaves the list.  The devices are asked concurrently: one step here. *)
Quieted(w, Failed(_)) ==
  [w EXCEPT !.devices = [i \in 1 .. Len(w.devices) |->
                           [w.devices[i] EXCEPT !.on = FALSE, !.err = Failed(i)]]]
Shorter(m, n) == IF m < n THEN m ELSE n
AllOff(r, failed) ==
  /\ May(r) /\ session # noSession
  /\ LET ds == {session.devices[i].device : i \in 1 .. Len(session.devices)} IN
       /\ failed \subseteq ds
       /\ \E deaf \in SUBSET failed : flashing' = flashing \ (ds \ deaf)
  /\ Becomes(r, [Idle EXCEPT !.do = "silenced",
                           !.snap = Quieted(session, LAMBDA i : session.devices[i].device \in failed)])
  /\ UNCHANGED <<session, disk, leftover>>
Silenced(r) ==
  /\ ops[r].do = "silenced"
  /\ IF session = noSession THEN UNCHANGED <<session, disk>>
     ELSE LET was == ops[r].snap.devices IN
          Stored([Quieted([session EXCEPT !.devices = SubSeq(@, 1, Shorter(Len(@), Len(was)))],
                          LAMBDA i : was[i].err)
                  EXCEPT !.current = 0,
                         !.devices = @ \o SubSeq(session.devices, Len(@) + 1, Len(session.devices))])
  /\ Over(r)
  /\ UNCHANGED <<flashing, leftover>>

(* handleWalkEnd: the current device off, then the session and its file go. *)
End(r) ==
  /\ May(r)
  /\ IF CurrentDevice(session) = {} THEN UNCHANGED flashing
     ELSE \E err \in Outcomes, d \in CurrentDevice(session) : SetIdentify(d, FALSE, err)
  /\ Becomes(r, [Idle EXCEPT !.do = "ended"])
  /\ UNCHANGED <<session, disk, leftover>>
Ended(r) ==
  /\ ops[r].do = "ended"
  /\ session' = noSession
  /\ disk' \in {noSession, disk}
  /\ leftover' = flashing
  /\ Over(r)
  /\ UNCHANGED flashing

(* The process dies and starts again from the file; the rig goes on flashing. *)
CrashAndRestart ==
  /\ session' = disk
  /\ ops' = [r \in WalkReqs |-> IF ops[r].do = "idle" THEN Idle ELSE [Idle EXCEPT !.do = "over"]]
  /\ leftover' = flashing
  /\ UNCHANGED <<disk, flashing>>

\* walkCandidates: the devices of any scope, in any order the walk may take.
Orders == {s \in UNION {[1 .. n -> Fixtures] : n \in 1 .. Cardinality(Fixtures)} : IsInjective(s)}

RequestStep(r) ==
  \/ Start(r)
  \/ \E ds \in Orders : Build(r, ds)
  \/ \E i \in 1 .. Cardinality(Fixtures) : Goto(r, i)
  \/ Leave(r) \/ Left(r) \/ Enter(r) \/ Entered(r)
  \/ \E d \in Fixtures, s \in {"unvisited", "confirmed", "problem"} : SetStatus(r, d, s)
  \/ ToggleAuto(r)
  \/ \E on \in BOOLEAN : Identify(r, on)
  \/ Identified(r)
  \/ \E failed \in SUBSET Fixtures :
       (failed = {} \/ TRUE \in Outcomes) /\ AllOff(r, failed)
  \/ Silenced(r)
  \/ End(r) \/ Ended(r)

WalkNext ==
  \/ \E r \in WalkReqs : RequestStep(r)
  \/ CrashAndRestart

WalkSpec == WalkInit /\ [][WalkNext]_walkVars

----------------------------------------------------------------------------
(* While no request is under way, a device of the session that flashes is the  *)
(* one under the cursor, or its entry says that its last identify failed, so   *)
(* that the browser can offer to retry; devices that were already flashing     *)
(* when the session began, or when the process died, are not known to it.      *)
(* (Requests one at a time; OneFlashing is about overlapping ones.)            *)
StrayIsRecorded ==
  (Busy = {} /\ session # noSession) =>
    \A i \in 1 .. Len(session.devices) :
      LET e == session.devices[i]
      IN e.device \in flashing \ leftover => i = session.current \/ e.err

(* "exactly one fixture is ever flashing" (web/walk.go:3), what a dead process *)
(* or a replaced session left behind aside.                                    *)
OneFlashing == Busy = {} => Cardinality(flashing \ leftover) <= 1
=============================================================================
