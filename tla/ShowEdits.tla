------------------------------ MODULE ShowEdits ------------------------------
(* Editing the open show over HTTP (internal/web showguard.go, patch.go,        *)
(* reconcilecommit.go, patchimport.go; internal/patch match.go, asfound.go).    *)
(* Every request for the show waits for showMu and keeps it until its handler   *)
(* has returned, slow RDM reads included; a request may carry the revision of   *)
(* the show its page was drawn from, and one drawn from another show is turned  *)
(* away.  An entry is committed to a device, holds what was read off a device   *)
(* (as found) and what the patch wants (intended).                              *)
(* A device setting stands for the adoptable settings (personality, curve,      *)
(* inversions, label), which the code treats alike; an address stands for       *)
(* universe and start address together.  Saves succeed here: ShowStore has the  *)
(* failures.                                                                    *)
EXTENDS Naturals, FiniteSets

CONSTANTS
  Shows, Clients, Ids, Devices,
  Settings,        \* values of a device setting
  Addresses,
  Likeness,        \* [Devices -> 0 .. 60]: what type and footprint say for a device, in hundredths
  Writable,        \* the RDM writes this behaviour tries: TRUE to let them fail, FALSE to let them succeed
  none, untold,    \* no value; a request without X-Benny-Show
  MaxRequests, MaxDrift   \* bounds: requests; changes of the rig by others

ASSUME EditConstants ==
  /\ Likeness \in [Devices -> 0 .. 60] /\ Writable \subseteq BOOLEAN
  /\ MaxRequests \in Nat /\ MaxDrift \in Nat

Reading == [from : Devices, setting : Settings]
Entry == [uid : Devices \cup {none}, state : {"unresolved", "confirmed", "rejected"},
          found : Reading \cup {none}, intended : Reading \cup {none}, addr : Addresses]

VARIABLES
  show,            \* the open show
  entries,         \* [Shows -> [Ids -> Entry or none]]
  revision,        \* showRevision
  era,             \* shows opened, emptied or replaced through a boundary request so far
  page,            \* [Clients -> what the page was drawn from]
  queued,          \* [Clients -> the request waiting for showMu, or none]
  handler,         \* the slow handler holding showMu, or none
  rig,             \* [Devices -> the device's own address and setting]
  online,          \* devices the registry lists
  requests, drift

editVars == <<show, entries, revision, era, page, queued, handler, rig, online, requests, drift>>
rigVars == <<rig, online, drift>>

Blank(a) == [uid |-> none, state |-> "unresolved", found |-> none, intended |-> none, addr |-> a]
Confirmed(e, d) == [e EXCEPT !.uid = d, !.state = "confirmed"]
Here(i) == entries[show][i]
Listed == {i \in Ids : Here(i) # none}
Free == Ids \ Listed

EditInit ==
  /\ show \in Shows /\ entries = [s \in Shows |-> [i \in Ids |-> none]]
  /\ revision = 0 /\ era = 0
  /\ page = [c \in Clients |-> [token |-> 0, era |-> 0]]
  /\ queued = [c \in Clients |-> none] /\ handler = none
  /\ rig \in [Devices -> [addr : Addresses, setting : Settings]] /\ online = Devices
  /\ requests = 0 /\ drift = 0

-----------------------------------------------------------------------------
(* showGuard *)

(* A page draws itself from the show: any read, which also waits for showMu. *)
Look(c) ==
  /\ handler = none
  /\ page' = [page EXCEPT ![c] = [token |-> revision, era |-> era]]
  /\ UNCHANGED <<show, entries, revision, era, queued, handler, rigVars, requests>>

Ask(c) ==
  /\ queued[c] = none /\ requests < MaxRequests
  /\ \E token \in {page[c].token, untold} :
       queued' = [queued EXCEPT ![c] = [token |-> token, era |-> page[c].era]]
  /\ requests' = requests + 1
  /\ UNCHANGED <<show, entries, revision, era, page, handler, rigVars>>

AnyToken(q) == TRUE                            \* bug: the token is not compared under the lock
TokenHolds(q) == q.token = untold \/ q.token = revision

Refuse(c) ==
  /\ handler = none /\ queued[c] # none /\ ~TokenHolds(queued[c])
  /\ queued' = [queued EXCEPT ![c] = none]
  /\ UNCHANGED <<show, entries, revision, era, page, handler, rigVars, requests>>

(* The lock is taken; the answer tells the page the revision it now sees. *)
Admitted(c, bump) ==
  /\ handler = none /\ queued[c] # none /\ TokenHolds(queued[c])
  /\ queued' = [queued EXCEPT ![c] = none]
  /\ revision' = revision + bump /\ era' = era + bump
  /\ page' = [page EXCEPT ![c] = [token |-> revision', era |-> era']]
  /\ UNCHANGED requests

(* The paths of showGuard's boundary list: load another show, create one, and   *)
(* empty this one (new, reset-active).                                          *)
Boundary(c) ==
  /\ Admitted(c, 1)
  /\ \/ \E s \in Shows : show' = s /\ UNCHANGED entries
     \/ entries' = [entries EXCEPT ![show] = [i \in Ids |-> none]] /\ UNCHANGED show
  /\ UNCHANGED <<handler, rigVars>>

(* A handler on the open show. *)
OnShow(c) == Admitted(c, 0) /\ UNCHANGED show
Quick(c) == OnShow(c) /\ UNCHANGED <<handler, rigVars>>
Put(i, e) == entries' = [entries EXCEPT ![show][i] = e]

-----------------------------------------------------------------------------
(* entries: create, import, edit, delete *)

CreateEntry(c) == Quick(c) /\ \E i \in Free, a \in Addresses : Put(i, Blank(a))

(* handleUpdatePatchEntry keeps the pairing and both setting blocks. *)
UpdateEntry(c) ==
  Quick(c) /\ \E i \in Listed, a \in Addresses : Put(i, [Here(i) EXCEPT !.addr = a])

DeleteEntry(c) == Quick(c) /\ \E i \in Listed : Put(i, none)

(* handlePatchImport: "fresh" replaces the list, "merge" adds the addresses it  *)
(* does not find and leaves reconciliation alone where it finds one.            *)
Import(c) ==
  /\ Quick(c)
  /\ \E i \in Free, a \in Addresses :
       \/ entries' = [entries EXCEPT ![show] = [j \in Ids |-> IF j = i THEN Blank(a) ELSE none]]
       \/ (\A j \in Listed : Here(j).addr # a) /\ Put(i, Blank(a))

(* handlePatchAdopt: "fresh" replaces the list by the rig; "merge" updates the   *)
(* entry a device is already paired with and lists every other device.          *)
PairedTo(d) == {i \in Listed : Here(i).uid = d}
AdoptRig(c) ==
  /\ Quick(c)
  /\ \E kept \in {{}, Listed} :
     LET known == {d \in online : kept \cap PairedTo(d) # {}} IN
     \E id \in [online -> Ids] :                          \* an entry for every device
       /\ \A d \in online : id[d] \in IF d \in known THEN PairedTo(d) ELSE Free
       /\ \A d, x \in online : d # x => id[d] # id[x]
       /\ entries' = [entries EXCEPT ![show] = [i \in Ids |->
            IF \E d \in online : id[d] = i
            THEN LET d == CHOOSE x \in online : id[x] = i
                 IN IF d \in known THEN [Here(i) EXCEPT !.addr = rig[d].addr, !.state = "confirmed"]
                    ELSE Confirmed(Blank(rig[d].addr), d)
            ELSE IF i \in kept THEN Here(i) ELSE none]]

-----------------------------------------------------------------------------
(* reconciliation: what the matcher proposes and what the user says *)

(* scorePair: 0.40 for the address, up to 0.60 for type and footprint. *)
Score(e, d) == (IF rig[d].addr = e.addr THEN 40 ELSE 0) + Likeness[d]
Candidates(e) == {d \in online : Score(e, d) >= 25}
Best(e) == {d \in Candidates(e) : \A x \in Candidates(e) : Score(e, x) <= Score(e, d)}
Tied(e) == {d \in Candidates(e) : \A b \in Best(e) : Score(e, b) - Score(e, d) <= 10}

(* reconcileEntry: the device an entry's row names, or none (missing, ambiguous). *)
RowDevice(e) ==
  IF e.uid # none /\ e.state = "confirmed"
  THEN IF e.uid \in online THEN e.uid ELSE none
  ELSE IF Cardinality(Tied(e)) = 1 THEN CHOOSE d \in Tied(e) : TRUE ELSE none
Mismatched == {i \in Listed : RowDevice(Here(i)) # none
                              /\ rig[RowDevice(Here(i))].addr # Here(i).addr}

Confirm(c) == Quick(c) /\ \E i \in Listed, d \in Devices : Put(i, Confirmed(Here(i), d))
Reject(c) ==
  Quick(c) /\ \E i \in Listed : Put(i, [Here(i) EXCEPT !.uid = none, !.state = "rejected"])

(* A SET that fails may or may not have reached the device. *)
Written(d, failed) == IF failed THEN BOOLEAN ELSE {TRUE}

(* handlePatchReconcileFix: set the device's address, then pair. *)
Fix(c) ==
  /\ OnShow(c) /\ UNCHANGED <<handler, online, drift>>
  /\ \E i \in Listed, d \in online, failed \in Writable :
       /\ \E lands \in Written(d, failed) :
            rig' = IF lands THEN [rig EXCEPT ![d].addr = Here(i).addr] ELSE rig
       /\ IF failed THEN UNCHANGED entries ELSE Put(i, Confirmed(Here(i), d))

(* handlePatchReconcileFixAll: every mismatched row at once; the writes run     *)
(* concurrently, so of two rows naming one device either may land last, and     *)
(* only the rows whose write succeeded are paired.                              *)
FixAll(c) ==
  /\ OnShow(c) /\ UNCHANGED <<handler, online, drift>>
  /\ \E failed \in IF TRUE \in Writable THEN SUBSET Mismatched ELSE {{}} :
     \E lost \in SUBSET failed :
     LET landed(d) == {i \in Mismatched \ lost : RowDevice(Here(i)) = d} IN
     \E last \in [{d \in online : landed(d) # {}} -> Mismatched] :
       /\ \A d \in DOMAIN last : last[d] \in landed(d)
       /\ rig' = [d \in Devices |->
                    IF d \in DOMAIN last THEN [rig[d] EXCEPT !.addr = Here(last[d]).addr] ELSE rig[d]]
       /\ entries' = [entries EXCEPT ![show] = [i \in Ids |->
            IF i \in Mismatched \ failed THEN Confirmed(Here(i), RowDevice(Here(i))) ELSE Here(i)]]

-----------------------------------------------------------------------------
(* commit, re-read, push: handlers that hold showMu through an RDM read *)

Decommitted(e) == [e EXCEPT !.uid = none, !.state = "unresolved", !.found = none]
Decommit(c) == Quick(c) /\ \E i \in Listed : Put(i, Decommitted(Here(i)))

Reads(i, d) == handler' = [entry |-> i, from |-> d]

(* Any other entry of the device is decommitted first. *)
Commit(c) ==
  /\ OnShow(c) /\ UNCHANGED rigVars
  /\ \E i \in Listed, d \in Devices :
       /\ entries' = [entries EXCEPT ![show] = [j \in Ids |->
            CASE j = i -> Confirmed(Decommitted(Here(i)), d)
              [] j # i /\ Here(j) # none /\ Here(j).uid = d -> Decommitted(Here(j))
              [] OTHER -> Here(j)]]
       /\ Reads(i, d)

Reread(c) ==
  /\ OnShow(c) /\ UNCHANGED <<entries, rigVars>>
  /\ \E i \in Listed : Here(i).uid # none /\ Reads(i, Here(i).uid)

(* handleReconcilePush: the named fields' intended values, then a read. *)
Push(c) ==
  /\ OnShow(c) /\ UNCHANGED <<entries, online, drift>>
  /\ \E i \in Listed, failed \in Writable :
       LET e == Here(i) IN
       /\ e.uid \in online
       /\ \E lands \in Written(e.uid, failed), setting \in BOOLEAN :
            rig' = CASE ~lands -> rig
                     [] lands /\ ~setting -> [rig EXCEPT ![e.uid].addr = e.addr]
                     [] lands /\ setting /\ e.intended # none ->
                          [rig EXCEPT ![e.uid].setting = e.intended.setting]
                     [] OTHER -> rig
       /\ Reads(i, e.uid)

(* refreshAsFound: readings are stored only against the device they came off,   *)
(* and only while the entry is still committed to it.                           *)
Refreshed ==
  /\ handler # none
  /\ \/ /\ handler.from \in online
        /\ Here(handler.entry) # none /\ Here(handler.entry).uid = handler.from
        /\ Put(handler.entry, [Here(handler.entry) EXCEPT
             !.found = [from |-> handler.from, setting |-> rig[handler.from].setting]])
     \/ UNCHANGED entries             \* unreachable, or no longer committed
  /\ handler' = none
  /\ UNCHANGED <<show, revision, era, page, queued, rigVars, requests>>

(* AdoptAsIntended: only from readings of the committed device. *)
AdoptsAnything(e) == IF e.found # none THEN [e EXCEPT !.intended = e.found] ELSE e    \* bug: a substitute inherits
AdoptAsIntended(e) ==
  IF e.found # none /\ e.found.from = e.uid THEN [e EXCEPT !.intended = e.found] ELSE e
AdoptIntended(c) == Quick(c) /\ \E i \in Listed : Put(i, AdoptAsIntended(Here(i)))

-----------------------------------------------------------------------------
(* the rig changes without the show: a device's own menu, another controller,   *)
(* the per-device pages, discovery *)
Drift ==
  /\ drift < MaxDrift /\ drift' = drift + 1
  /\ \/ \E d \in Devices, s \in Settings : rig' = [rig EXCEPT ![d].setting = s] /\ UNCHANGED online
     \/ \E d \in Devices :
          /\ online' = IF d \in online THEN online \ {d} ELSE online \cup {d}
          /\ UNCHANGED rig
  /\ UNCHANGED <<show, entries, revision, era, page, queued, handler, requests>>

Request(c) ==
  \/ Look(c) \/ Ask(c) \/ Refuse(c) \/ Boundary(c)
  \/ CreateEntry(c) \/ UpdateEntry(c) \/ DeleteEntry(c) \/ Import(c) \/ AdoptRig(c)
  \/ Confirm(c) \/ Reject(c) \/ Fix(c) \/ FixAll(c)
  \/ Decommit(c) \/ Commit(c) \/ Reread(c) \/ Push(c) \/ AdoptIntended(c)

EditNext == (\E c \in Clients : Request(c)) \/ Refreshed \/ Drift
EditSpec == EditInit /\ [][EditNext]_editVars

-----------------------------------------------------------------------------
EditTypeOK ==
  /\ show \in Shows /\ entries \in [Shows -> [Ids -> Entry \cup {none}]]
  /\ revision \in Nat /\ era \in Nat /\ requests \in 0 .. MaxRequests /\ drift \in 0 .. MaxDrift
  /\ page \in [Clients -> [token : Nat, era : Nat]]
  /\ queued \in [Clients -> [token : Nat \cup {untold}, era : Nat] \cup {none}]
  /\ handler \in [entry : Ids, from : Devices] \cup {none}
  /\ rig \in [Devices -> [addr : Addresses, setting : Settings]] /\ online \subseteq Devices

(* An edit from a page that told which show it was drawn from lands on that     *)
(* show, however long it waited behind another client's handler: not on the     *)
(* show loaded, or the one emptied, in between (showguard.go).                  *)
EditsOwnShow ==
  [][\A c \in Clients :
       (/\ queued[c] # none /\ queued'[c] = none /\ queued[c].token # untold
        /\ (entries' # entries \/ rig' # rig \/ handler' # handler))
       => queued[c].era = era]_editVars

(* What an entry learns as its intention was read off the device it is then     *)
(* committed to: a substitute never inherits the settings of the dead fixture   *)
(* it replaces (asfound.go, ReadFromUID), whatever was confirmed, fixed,        *)
(* committed and read in between.                                               *)
ReadingsBelong ==
  [][\A s \in Shows, i \in Ids :
       (/\ entries[s][i] # none /\ entries'[s][i] # none
        /\ entries'[s][i].intended # entries[s][i].intended)
       => /\ entries'[s][i].intended # none
          /\ entries'[s][i].intended.from = entries[s][i].uid]_editVars

=============================================================================
