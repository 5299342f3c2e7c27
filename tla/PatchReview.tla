------------------------------ MODULE PatchReview ------------------------------
(* What the show says of itself and of the rig (internal/patch/collision.go,    *)
(* asfound.go; internal/web/reconcilecommit.go; internal/walk/sort.go): the     *)
(* findings of a patch, the comparison of what an entry wants with what was     *)
(* read off its device, and the order in which devices are walked.              *)
EXTENDS Integers, FiniteSets, Sequences
-------------------------------------------------------------------------------
(* DetectCollisions.  An entry is [universe, start, footprint, number]; findings *)
(* are a set, for overlaps and numbers come in the order of a Go map.            *)
CONSTANTS
  UniverseSize,         \* 512
  EntryChoices,     \* the entries a patch is made of
  MaxEntries,       \* bound
  unnumbered        \* no fixture number

ASSUME ReviewAssumption ==
  /\ UniverseSize \in Nat
  /\ \A e \in EntryChoices : e.start \in Nat /\ e.footprint \in Nat

VARIABLE patch      \* the entries in patch order

EndAddress(e) == IF e.footprint = 0 THEN e.start ELSE e.start + e.footprint - 1

InvalidAddress(e) == e.start = 0 \/ e.start > UniverseSize
Occupies(e) == ~InvalidAddress(e) /\ e.footprint # 0

Finding(kind, is, universe, from, to) ==
  [kind |-> kind, entries |-> is, universe |-> universe, from |-> from, to |-> to]

\* min and max, of two slots.
Least(a, b) == IF a < b THEN a ELSE b
Most(a, b) == IF a < b THEN b ELSE a

EntryFindings(p) ==
  UNION {LET e == p[i]
         IN IF InvalidAddress(e) THEN {Finding("invalid_address", {i}, e.universe, e.start, 0)}
            ELSE IF e.footprint = 0 THEN {Finding("zero_footprint", {i}, e.universe, e.start, 0)}
            ELSE IF EndAddress(e) > UniverseSize
                 THEN {Finding("overflow", {i}, e.universe, e.start, EndAddress(e))} ELSE {}
         : i \in DOMAIN p}

Overlapping(a, b) ==
  /\ Occupies(a) /\ Occupies(b) /\ a.universe = b.universe
  /\ a.start =< EndAddress(b) /\ b.start =< EndAddress(a)

OverlapFindings(p) ==
  UNION {{Finding("overlap", {i, j}, p[i].universe, Most(p[i].start, p[j].start),
                  Least(EndAddress(p[i]), EndAddress(p[j])))
            : j \in {k \in DOMAIN p : i < k /\ Overlapping(p[i], p[k])}} : i \in DOMAIN p}

WithNumber(p, n) == {i \in DOMAIN p : p[i].number = n}
NumberFindings(p) ==
  {Finding("duplicate_fixture_number", is, 0, 0, 0)
     : is \in {WithNumber(p, p[i].number) : i \in {k \in DOMAIN p : p[k].number # unnumbered}} \ 
              {{i} : i \in DOMAIN p}}

DetectCollisions(p) == EntryFindings(p) \cup OverlapFindings(p) \cup NumberFindings(p)

ReviewInit == patch = << >>
AddEntry == Len(patch) < MaxEntries /\ \E e \in EntryChoices : patch' = Append(patch, e)
ReviewNext == AddEntry
ReviewSpec == ReviewInit /\ [][ReviewNext]_patch
-------------------------------------------------------------------------------
(* DiffEntry.  One entry of the patch and the devices it may be committed to.  A *)
(* setting is [known, value, state], as it is stored.                            *)
CONSTANTS
  Rig,              \* devices
  OwnFields,        \* what the entry itself says: {"startAddress", "universe"}
  Optional,         \* what only some fixtures have: {"panInvert"}
  Fitted,           \* [Rig -> the optional settings the device has]
  SettingValues,    \* numbers above 0
  Requests,         \* requests that may run at the same time
  uncommitted       \* no device

ASSUME DiffAssumption ==
  /\ OwnFields \subseteq {"startAddress", "universe"}
  /\ Optional \cap {"startAddress", "universe"} = {}
  /\ Fitted \in [Rig -> SUBSET Optional]
  /\ uncommitted \notin Rig /\ SettingValues # {} /\ 0 \notin SettingValues

Fields == OwnFields \cup Optional
PushableFields == Fields \ {"universe"}         \* and the channel count, in the code

VARIABLES
  entry,            \* [uid, own, intended, foundUID, found]
  device,           \* [Rig -> [Fields -> value]]: what the devices are set to
  passes,           \* per request, what it still has to write, read or store
  since             \* history: the devices set since their stored reading was taken

diffVars == <<entry, device, passes, since>>

SettingUnknown == [known |-> FALSE, value |-> 0, state |-> "unknown"]
NotFittedSetting == [known |-> FALSE, value |-> 0, state |-> "not_fitted"]
SettingRead(v) == [known |-> TRUE, value |-> v, state |-> "read"]

NormalizeSettingState(s) ==
  [s EXCEPT !.state = IF s.known THEN "read" ELSE IF s.state = "not_fitted" THEN "not_fitted" ELSE "unknown"]

EmptyAsFound == [f \in Fields |-> SettingUnknown]
ReadFromUID(e) == e.uid # uncommitted /\ e.foundUID = e.uid
AsFound(e) == IF ReadFromUID(e) THEN e.found ELSE EmptyAsFound

IntendedKnown(e, f) ==
  CASE f = "universe" -> TRUE
    [] f = "startAddress" -> e.own[f] # 0
    [] OTHER -> e.intended[f].known
IntendedValue(e, f) == IF f \in OwnFields THEN e.own[f] ELSE e.intended[f].value

Classify(found, known, equal) ==
  IF found.state = "not_fitted" /\ ~found.known THEN "not_fitted"
  ELSE IF ~found.known THEN "unread"
  ELSE IF ~known THEN "intended_unset"
  ELSE IF equal THEN "match" ELSE "differs"

DiffLine(e, f) ==
  LET found == AsFound(e)[f]
  IN Classify(found, IntendedKnown(e, f), IntendedValue(e, f) = found.value)

\* A show file of before the states has none: what it knows was read, the rest is unknown.
FromShowFile ==
  {[known |-> TRUE, value |-> v, state |-> ""] : v \in SettingValues}
  \cup {[known |-> FALSE, value |-> 0, state |-> ""]}

\* A request: what it writes, if it does, and what it has read, once it has.
Pass(d, ws) == [uid |-> d, writes |-> ws, read |-> FALSE, found |-> EmptyAsFound, stale |-> FALSE]
NoPass == Pass(uncommitted, {})
StartsPass(q, d, ws) == passes[q] = NoPass /\ passes' = [passes EXCEPT ![q] = Pass(d, ws)]

DiffInit ==
  /\ device \in [Rig -> [Fields -> SettingValues]]
  /\ \E own \in [OwnFields -> SettingValues \cup {0}], s \in FromShowFile :
       /\ \A f \in OwnFields : f = "universe" => own[f] # 0
       /\ entry = [uid |-> uncommitted, own |-> own, foundUID |-> uncommitted, found |-> EmptyAsFound,
                   intended |-> [f \in Optional |-> NormalizeSettingState(s)]]
  /\ passes = [q \in Requests |-> NoPass] /\ since = {}

\* readAsFound: whether a setting is fitted is known from the device's own list, when it
\* gives one; the universe is its port's, and each of the rest may fail by itself.
Answer(d, f, listed) ==
  IF listed /\ f \in Optional \ Fitted[d] THEN {NotFittedSetting}
  ELSE {SettingUnknown} \cup {SettingRead(device[d][g]) : g \in {f} \cap (OwnFields \cup Fitted[d])}
Readings(d) ==
  {r \in [Fields -> {SettingUnknown, NotFittedSetting} \cup {SettingRead(v) : v \in SettingValues}] :
     \E listed \in BOOLEAN : \A f \in Fields : r[f] \in Answer(d, f, listed)}

\* The readings of d, taken or stored, are behind it once it is set.
Sets(d, f, v) ==
  /\ device' = [device EXCEPT ![d][f] = v]
  /\ since' = since \cup {d}
Outdated(ps, d) ==
  [q \in Requests |-> IF ps[q].uid = d /\ ps[q].read THEN [ps[q] EXCEPT !.stale = TRUE] ELSE ps[q]]

WithoutDevice(e) == [e EXCEPT !.uid = uncommitted, !.foundUID = uncommitted, !.found = EmptyAsFound]

Commits(q) ==
  /\ \E d \in Rig :
       /\ StartsPass(q, d, {})
       /\ entry' = [WithoutDevice(entry) EXCEPT !.uid = d]
  /\ UNCHANGED <<device, since>>

\* The confirmation of a match leaves the readings as they are.
ConfirmsMatch ==
  /\ \E d \in Rig : entry' = [entry EXCEPT !.uid = d]
  /\ UNCHANGED <<device, passes, since>>

Rereads(q) ==
  /\ entry.uid # uncommitted
  /\ StartsPass(q, entry.uid, {})
  /\ UNCHANGED <<entry, device, since>>

\* By hand, or by the commit of its device to another entry.
Decommits ==
  /\ entry.uid # uncommitted
  /\ entry' = WithoutDevice(entry)
  /\ UNCHANGED <<device, passes, since>>

\* AdoptAsIntended: what was read off the committed device becomes the intention.
Adopts ==
  /\ ReadFromUID(entry)
  /\ \E f \in Optional :
       /\ entry.found[f].known
       /\ entry' = [entry EXCEPT !.intended[f] = SettingRead(entry.found[f].value)]
  /\ UNCHANGED <<device, passes, since>>

\* A push writes what the patch wanted of one field when it was asked for, unless the
\* committed device has said that it has no such setting, and reads the device again.
StateOf(e, f) == NormalizeSettingState(e.found[f]).state
PushRefused(e, f) ==
  \/ f \notin PushableFields
  \/ ReadFromUID(e) /\ StateOf(e, f) = "not_fitted"
  \/ ~IntendedKnown(e, f)

Pushes(q) ==
  /\ entry.uid # uncommitted
  /\ \E f \in Fields :
       StartsPass(q, entry.uid, {<<g, IntendedValue(entry, g)>> : g \in {h \in {f} : ~PushRefused(entry, h)}})
  /\ UNCHANGED <<entry, device, since>>

\* The write may fail, and does on a device that has no such setting.
PushField(q) ==
  /\ passes[q].writes # {}
  /\ LET d == passes[q].uid
         written == [passes EXCEPT ![q].writes = {}]
     IN \/ passes' = written /\ UNCHANGED <<device, since>>
        \/ \E w \in passes[q].writes :
             /\ w[1] \in OwnFields \cup Fitted[d]
             /\ Sets(d, w[1], w[2])
             /\ passes' = Outdated(written, d)
  /\ UNCHANGED entry

\* The device may be out of reach altogether.
ReadAsFound(q) ==
  /\ passes[q].uid # uncommitted /\ passes[q].writes = {} /\ ~passes[q].read
  /\ \/ passes' = [passes EXCEPT ![q] = NoPass]
     \/ \E r \in Readings(passes[q].uid) :
          passes' = [passes EXCEPT ![q].read = TRUE, ![q].found = r]
  /\ UNCHANGED <<entry, device, since>>

\* refreshAsFound keeps the readings of the device the entry is still committed to.
StoresReadings(q) ==
  /\ passes[q].read
  /\ passes' = [passes EXCEPT ![q] = NoPass]
  /\ LET x == passes[q]
     IN IF entry.uid # x.uid THEN UNCHANGED <<entry, since>>
        ELSE /\ entry' = [entry EXCEPT !.foundUID = x.uid, !.found = x.found]
             /\ since' = IF x.stale THEN since \cup {x.uid} ELSE since \ {x.uid}
  /\ UNCHANGED device

\* By hand, at the fixture's own menu.
SetByHand ==
  /\ \E d \in Rig, v \in SettingValues : \E f \in OwnFields \cup Fitted[d] :
       Sets(d, f, v) /\ passes' = Outdated(passes, d)
  /\ UNCHANGED entry

RequestStep(q) ==
  \/ Commits(q) \/ Rereads(q) \/ Pushes(q)
  \/ PushField(q) \/ ReadAsFound(q) \/ StoresReadings(q)

DiffNext == ConfirmsMatch \/ Decommits \/ Adopts \/ SetByHand \/ \E q \in Requests : RequestStep(q)
DiffSpec == DiffInit /\ [][DiffNext]_diffVars
-------------------------------------------------------------------------------
(* Less.  A device is [uid, model, port, address, known, channels, probed, seen]: *)
(* "known" says whether its address is, "probed" whether its channel count is.    *)
CONSTANTS
  WalkDevices,      \* the devices a walk may start with
  MaxWalk           \* bound

ASSUME WalkAssumption ==
  \A x \in WalkDevices :
    /\ x.uid \in Nat /\ x.model \in Nat /\ x.port \in Nat /\ x.address \in Nat /\ x.seen \in Nat
    /\ x.known \in BOOLEAN /\ x.probed \in BOOLEAN

VARIABLE candidates \* the devices about to be walked, in no order

Orders == {"address", "address_desc", "model", "uid", "discovery"}

HasAddress(x) == x.known /\ ~(x.probed /\ x.channels = 0)

LessByAddress(x, y, desc) ==
  IF HasAddress(x) # HasAddress(y) THEN HasAddress(x)
  ELSE IF ~HasAddress(x) THEN x.uid < y.uid
  ELSE IF x.port # y.port THEN (IF desc THEN x.port > y.port ELSE x.port < y.port)
  ELSE IF x.address # y.address THEN (IF desc THEN x.address > y.address ELSE x.address < y.address)
  ELSE x.uid < y.uid

Less(x, y, order) ==
  CASE order = "discovery" /\ x.seen # y.seen -> x.seen < y.seen
    [] order = "model" /\ x.model # y.model -> x.model < y.model
    [] order \in {"address", "address_desc"} -> LessByAddress(x, y, order = "address_desc")
    [] OTHER -> x.uid < y.uid

WalkOrderInit == candidates = {}
Discovered ==
  /\ Cardinality(candidates) < MaxWalk
  /\ \E x \in WalkDevices :
       /\ \A y \in candidates : y.uid # x.uid
       /\ candidates' = candidates \cup {x}
WalkOrderNext == Discovered
WalkOrderSpec == WalkOrderInit /\ [][WalkOrderNext]_candidates
-------------------------------------------------------------------------------
\* The reference: the slots of the universe that the entry drives.
SlotsOf(e) == IF InvalidAddress(e) \/ e.footprint = 0 THEN {}
              ELSE {<<e.universe, n>> : n \in e.start .. Least(EndAddress(e), UniverseSize)}

\* Two entries are found to overlap exactly when a DMX slot is driven by both, and the range
\* reported for them begins at such a slot; a patch with no error has one driver per slot
\* and none beyond the last.
OverlapsAreShared ==
  \A i, j \in DOMAIN patch :
    LET found == {x \in DetectCollisions(patch) : x.kind = "overlap" /\ x.entries = {i, j}}
        shared == SlotsOf(patch[i]) \cap SlotsOf(patch[j])
    IN i < j => /\ (found # {}) = (shared # {})
                /\ \A x \in found : <<x.universe, x.from>> \in shared /\ x.from =< x.to

Errors == {x \in DetectCollisions(patch) : x.kind # "zero_footprint"}
CleanPatchIsSound ==
  Errors = {} =>
    /\ \A i \in DOMAIN patch : patch[i].start \in 1 .. UniverseSize /\ EndAddress(patch[i]) =< UniverseSize
    /\ \A i, j \in DOMAIN patch :
         i # j => /\ SlotsOf(patch[i]) \cap SlotsOf(patch[j]) = {}
                  /\ patch[i].number # patch[j].number \/ patch[i].number = unnumbered

\* "Never infer 'not fitted' from a missing supported-parameter list": a line says so only
\* of a device that has no such setting.
NotFittedIsTrue ==
  \A f \in Fields : DiffLine(entry, f) = "not_fitted" => f \notin OwnFields \cup Fitted[entry.uid]

\* A difference, and a match, is one of the committed device and of now, unless the device
\* has been set since the reading was taken; whichever requests were in progress meanwhile.
DiffIsTrue ==
  \A f \in Fields :
    entry.uid # uncommitted /\ entry.uid \notin since =>
      /\ DiffLine(entry, f) = "match" => device[entry.uid][f] = IntendedValue(entry, f)
      /\ DiffLine(entry, f) = "differs" => device[entry.uid][f] # IntendedValue(entry, f)

\* Wherever a difference could be applied the push does not refuse it, and nothing but the
\* committed device's own word keeps a setting that it has from being written: a stale block
\* "must never veto a write".  A setting is known exactly when its state says it was read.
ApplyIsHonoured ==
  /\ \A f \in PushableFields :
       \/ DiffLine(entry, f) = "differs"
       \/ entry.uid # uncommitted /\ f \in OwnFields \cup Fitted[entry.uid] /\ IntendedKnown(entry, f)
       => ~PushRefused(entry, f)
  /\ \A f \in Fields : entry.found[f].known = (entry.found[f].state = "read")
  /\ \A f \in Optional : entry.intended[f].known = (entry.intended[f].state = "read")

\* Less puts devices of different UIDs into one order, the same whatever order they arrived
\* in, and by address those without one come last in both directions.
OneWalkOrder ==
  \A order \in Orders :
    /\ \A x, y \in candidates : x # y => (Less(x, y, order) <=> ~Less(y, x, order))
    /\ \A x, y, z \in candidates : Less(x, y, order) /\ Less(y, z, order) => Less(x, z, order)
    /\ order \in {"address", "address_desc"} =>
         \A x, y \in candidates : HasAddress(x) /\ ~HasAddress(y) => Less(x, y, order)
===============================================================================
