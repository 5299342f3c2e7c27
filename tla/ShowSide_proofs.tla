---------------------------- MODULE ShowSide_proofs ----------------------------
(* Theorems about ShowStore (what a restart opens, damaged files, recovery) and   *)
(* about ShowEdits (types, on which show an edit lands, whose readings become an  *)
(* intention), and about both as MCShowSide composes them.                        *)
EXTENDS MCShowSide, FiniteSetTheorems, TLAPS

\* What an operation in flight is: an edit, a recovery and a repair write the
\* active show, a create a show that no marker names, and what is about to be
\* marked is on disk.
OpFits ==
  op # absent /\ op.step # "clear" =>
    /\ op.does \in {"edit", "recover", "repair"} =>
         op.id = active /\ op.step # "mark"
    /\ op.does = "create" =>
         /\ store = "show" /\ op.id \in NewShows
         /\ op.step \in {"read", "backup", "write", "mark"} => op.id # marker
    /\ op.does = "load" => store = "show" /\ op.step \in {"mark", "install"}
    /\ op.step = "mark" => file[op.id] = op.content
    /\ op.step \in {"backup", "write"} /\ RefusesDamage /\ op.does # "recover"
         => file[op.id] # damaged

\* A Clear that has removed the default show's files has wiped the marker.
ClearFits ==
  op # absent /\ op.step = "clear" =>
    /\ store = "show"
    /\ default \notin op.left =>
         wiped /\ (~op.failed => marker = absent /\ file[default] = absent)

\* The marker names the active show, or the one about to be installed.
MarkedIsActive ==
  \/ wiped
  \/ Reloaded[1] = IF op # absent /\ op.step = "install" THEN op.id ELSE active

\* What a restart would open, by the step the operation has reached.
OpensSaved ==
  \/ Reloaded = saved
  \/ damages > 0 /\ file[Reloaded[1]] = damaged
  \/ wiped
OpensOp == wiped \/ Reloaded = <<op.id, op.content>>

StoreInv ==
  /\ StoreTypeOK
  /\ store # "show" => active = default
  /\ OpFits /\ ClearFits /\ MarkedIsActive
  /\ IF op # absent /\ op.step = "install" THEN OpensOp ELSE OpensSaved

-----------------------------------------------------------------------------
LEMMA ReloadedType ==
  ASSUME StoreTypeOK
  PROVE  Reloaded \in Files \X (Contents \cup {absent})
<1>1. 0 \in Contents
  BY StoreBounds DEF Contents
<1>2. \A c : Opened(c) \in Contents \cup {absent}
  BY <1>1 DEF Opened, Readable
<1>3. default \in Files /\ NewShows \subseteq Files
  BY DEF Files
<1> QED BY <1>2, <1>3 DEF Reloaded

LEMMA ReloadedSame ==
  ASSUME UNCHANGED <<store, file, marker>>
  PROVE  Reloaded' = Reloaded
BY DEF Reloaded, Opened, Readable

\* A file other than the one a restart opens is not looked at.
LEMMA OtherFile ==
  ASSUME StoreTypeOK, NEW i \in Files, i # Reloaded[1], UNCHANGED <<store, marker>>,
         NEW c, file' = [file EXCEPT ![i] = c]
  PROVE  Reloaded' = Reloaded
<1>1. default \in Files /\ NewShows \subseteq Files /\ file \in [Files -> OnDisk]
  BY DEF Files, StoreTypeOK
<1>2. \A j \in Files : j # i => file'[j] = file[j]
  BY <1>1
<1>3. CASE store = "show" /\ marker \in NewShows
  BY <1>1, <1>2, <1>3 DEF Reloaded, Opened, Readable
<1>4. CASE ~(store = "show" /\ marker \in NewShows)
  BY <1>1, <1>2, <1>4 DEF Reloaded, Opened, Readable
<1> QED BY <1>3, <1>4

\* The file a restart opens, once it has content c.
LEMMA ThisFile ==
  ASSUME StoreTypeOK, UNCHANGED <<store, marker>>, NEW c \in Contents,
         file' = [file EXCEPT ![Reloaded[1]] = c]
  PROVE  Reloaded' = <<Reloaded[1], c>>
<1>1. default \in Files /\ NewShows \subseteq Files /\ file \in [Files -> OnDisk]
  BY DEF Files, StoreTypeOK
<1>2. CASE store = "show" /\ marker \in NewShows
  <2>1. Reloaded[1] = marker /\ Reloaded'[1] = marker /\ Reloaded'[2] = Opened(file[marker])'
    BY <1>2 DEF Reloaded
  <2> QED BY <1>1, <1>2, <2>1 DEF Reloaded, Opened, Readable
<1>3. CASE ~(store = "show" /\ marker \in NewShows)
  <2>1. Reloaded[1] = default
    BY <1>3 DEF Reloaded
  <2> QED BY <1>1, <1>3, <2>1 DEF Reloaded, Opened, Readable
<1> QED BY <1>2, <1>3

LEMMA Marked ==
  ASSUME StoreTypeOK, store = "show", UNCHANGED <<store, file>>, NEW i \in Files,
         marker' = i, file[i] \in Contents
  PROVE  Reloaded' = <<i, file[i]>>
BY DEF Reloaded, Opened, Readable, Files

LEMMA SavingType ==
  ASSUME NEW does \in {"edit", "create", "load", "recover", "repair"},
         NEW i \in Files, NEW c \in Contents
  PROVE  /\ Saving(does, i, c) \in Saves
         /\ Saving(does, i, c).step = "read" /\ Saving(does, i, c).does = does
         /\ Saving(does, i, c).id = i /\ Saving(does, i, c).content = c
BY DEF Saving, Saves, OnDisk

-----------------------------------------------------------------------------
LEMMA StoreInvInit == StoreInit => StoreInv
<1> SUFFICES ASSUME StoreInit PROVE StoreInv
  OBVIOUS
<1>1. 0 \in Contents /\ default \in Files /\ 0 \in 0 .. MaxSaves /\ 0 \in 0 .. MaxFaults
  BY StoreBounds DEF Contents, Files
<1>2. StoreTypeOK
  <2>1. file \in [Files -> OnDisk] /\ bak \in [Files -> OnDisk]
    BY DEF StoreInit, OnDisk
  <2>2. held \in Contents \cup {absent} /\ saved \in Files \X (Contents \cup {absent})
    BY <1>1 DEF StoreInit
  <2>3. damages \in 0 .. faults /\ faults \in 0 .. MaxFaults
    BY <1>1 DEF StoreInit
  <2> QED BY <1>1, <2>1, <2>2, <2>3 DEF StoreInit, StoreTypeOK
<1>3. marker \notin NewShows
  BY ValuesApart DEF StoreInit, Files
<1>4. Reloaded = saved
  <2>1. file[default] = absent /\ absent \notin Contents
    BY <1>1, ValuesApart DEF StoreInit
  <2> QED BY <1>3, <2>1 DEF StoreInit, Reloaded, Opened, Readable
<1>5. Reloaded[1] = active /\ active = default /\ op = absent
  BY <1>3 DEF StoreInit, Reloaded
<1> QED BY <1>2, <1>4, <1>5 DEF StoreInv, OpFits, ClearFits, MarkedIsActive, OpensSaved

\* The first step of an operation, and a draft in memory: what a restart opens
\* is as it was.
LEMMA BeginKeeps ==
  ASSUME StoreInv,
         \/ EnsureActive \/ Edit \/ RecoverActive \/ Clear
         \/ (\E s \in NewShows : CreatePatch(s)) \/ (\E i \in Files : LoadPatch(i))
  PROVE  StoreInv'
<1>0. StoreTypeOK /\ op = absent /\ UNCHANGED <<store, file, bak, marker, active, saved, wiped, faults, damages>>
  BY DEF StoreInv, EnsureActive, Edit, RecoverActive, Clear, CreatePatch, LoadPatch, Idle
<1>1. Reloaded' = Reloaded
  BY <1>0, ReloadedSame
<1>2. OpensSaved' /\ (wiped' \/ Reloaded'[1] = active')
  BY <1>0, <1>1 DEF StoreInv, OpensSaved, MarkedIsActive
<1>3. written < MaxSaves => written + 1 \in Contents /\ written + 1 \in 0 .. MaxSaves
  BY <1>0, StoreBounds DEF StoreTypeOK, Contents
<1>4. \A x \in Files : x \in NewShows \/ x = default
  BY DEF Files
<1>a. CASE EnsureActive
  BY <1>0, <1>1, <1>2, <1>3, <1>a DEF StoreInv, StoreTypeOK, EnsureActive, OpFits, ClearFits, MarkedIsActive
<1>b. CASE Edit
  <2>1. op' \in Saves /\ op' # absent /\ op'.step = "read" /\ op'.does = "edit" /\ op'.id = active
    BY <1>0, <1>3, <1>b, SavingType, ValuesApart DEF Edit, StoreTypeOK
  <2> QED BY <1>0, <1>1, <1>2, <1>3, <1>b, <2>1 DEF StoreInv, StoreTypeOK, Edit, OpFits, ClearFits, MarkedIsActive
<1>c. CASE RecoverActive
  <2>1. op' = [Saving("recover", active, bak[active]) EXCEPT !.step = "write"] /\ bak[active] \in Contents
    BY <1>c DEF RecoverActive, Readable
  <2>2. op' \in Saves /\ op' # absent /\ op'.step = "write" /\ op'.does = "recover" /\ op'.id = active
    BY <1>0, <2>1, ValuesApart DEF Saving, Saves, OnDisk, StoreTypeOK
  <2> QED BY <1>0, <1>1, <1>2, <1>c, <2>2 DEF StoreInv, StoreTypeOK, RecoverActive, OpFits, ClearFits, MarkedIsActive
<1>d. CASE Clear
  <2>1. op' \in Clears /\ op' # absent /\ op'.step = "clear" /\ default \in op'.left
    <3> DEFINE L == {i \in Files : i = default \/ file[i] # absent \/ bak[i] # absent}
    <3>1. op' = [step |-> "clear", left |-> L, failed |-> FALSE]
      BY <1>d DEF Clear
    <3>2. L \in SUBSET Files /\ default \in L
      BY DEF Files
    <3> HIDE DEF L
    <3>3. op' \in Clears
      BY <3>1, <3>2 DEF Clears
    <3> QED BY <3>1, <3>2, <3>3, ValuesApart
  <2> QED BY <1>0, <1>1, <1>2, <1>d, <2>1 DEF StoreInv, StoreTypeOK, Clear, OpFits, ClearFits, MarkedIsActive
<1>e. CASE \E s \in NewShows : CreatePatch(s)
  <2> PICK s \in NewShows : CreatePatch(s)
    BY <1>e
  <2>1. /\ op' \in Saves /\ op' # absent /\ op'.step = "read" /\ op'.does = "create"
        /\ op'.id = s /\ s \in NewShows /\ s # marker /\ store = "show"
    BY <1>0, <1>3, SavingType, ValuesApart DEF CreatePatch, Files
  <2> QED BY <1>0, <1>1, <1>2, <1>3, <2>1 DEF StoreInv, StoreTypeOK, CreatePatch, OpFits, ClearFits, MarkedIsActive
<1>f. CASE \E i \in Files : LoadPatch(i)
  <2> PICK i \in Files : LoadPatch(i)
    BY <1>f
  <2>1. op' = [Saving("load", i, file[i]) EXCEPT !.step = "mark"] /\ file[i] \in Contents /\ store = "show"
    BY DEF LoadPatch, Readable
  <2>2. /\ op' \in Saves /\ op' # absent /\ op'.step = "mark" /\ op'.does = "load"
        /\ op'.id = i /\ op'.content = file[i]
    BY <2>1, ValuesApart DEF Saving, Saves, OnDisk
  <2> QED BY <1>0, <1>1, <1>2, <2>1, <2>2 DEF StoreInv, StoreTypeOK, LoadPatch, OpFits, ClearFits, MarkedIsActive
<1> QED BY <1>a, <1>b, <1>c, <1>d, <1>e, <1>f

\* An operation that goes from step to step.
LEMMA SaveShape ==
  ASSUME StoreInv, op # absent, op.step # "clear"
  PROVE  op \in Saves
BY DEF StoreInv, StoreTypeOK, Clears

LEMMA ClearShape ==
  ASSUME StoreInv, op # absent, op.step = "clear"
  PROVE  op \in Clears
BY DEF StoreInv, StoreTypeOK, Saves

LEMMA ReadPreviousKeeps ==
  ASSUME StoreInv, ReadPrevious
  PROVE  StoreInv'
<1>0. StoreTypeOK /\ op \in Saves /\ op # absent /\ op.step = "read" /\ file[op.id] \in OnDisk
  BY SaveShape DEF StoreInv, StoreTypeOK, ReadPrevious, Saves
<1>1. UNCHANGED <<store, file, bak, marker, held, active, written, saved, wiped, faults, damages>>
  BY DEF ReadPrevious
<1>2. Reloaded' = Reloaded
  BY <1>1, ReloadedSame
<1>3. OpensSaved' /\ (wiped' \/ Reloaded'[1] = active')
  BY <1>0, <1>1, <1>2 DEF StoreInv, OpensSaved, MarkedIsActive
<1>4. CASE file[op.id] = damaged /\ RefusesDamage
  <2>1. op' = absent
    BY <1>4 DEF ReadPrevious
  <2> QED BY <1>0, <1>1, <1>2, <1>3, <2>1
          DEF StoreInv, StoreTypeOK, OpFits, ClearFits, MarkedIsActive
<1>5. CASE ~(file[op.id] = damaged /\ RefusesDamage)
  <2>1. op' = [op EXCEPT !.prev = file[op.id],
                         !.step = IF BacksUp(file[op.id]) THEN "backup" ELSE "write"]
    BY <1>5 DEF ReadPrevious
  <2>2. /\ op' \in Saves /\ op'.step \in {"backup", "write"}
        /\ op'.id = op.id /\ op'.does = op.does /\ op'.content = op.content
    BY <1>0, <2>1 DEF Saves
  <2>3. op' # absent
    BY <2>2, ValuesApart
  <2> QED BY <1>0, <1>1, <1>2, <1>3, <1>5, <2>2, <2>3
          DEF StoreInv, StoreTypeOK, OpFits, ClearFits, MarkedIsActive, RefusesDamage
<1> QED BY <1>4, <1>5

LEMMA WriteBackupKeeps ==
  ASSUME StoreInv, WriteBackup
  PROVE  StoreInv'
<1>0. StoreTypeOK /\ op \in Saves /\ op # absent /\ op.step = "backup"
  BY SaveShape DEF StoreInv, WriteBackup
<1>1. UNCHANGED <<store, file, marker, held, active, written, saved, wiped, faults, damages>>
  BY DEF WriteBackup
<1>2. Reloaded' = Reloaded
  BY <1>1, ReloadedSame
<1>3. OpensSaved' /\ (wiped' \/ Reloaded'[1] = active')
  BY <1>0, <1>1, <1>2 DEF StoreInv, OpensSaved, MarkedIsActive
<1>4. bak' \in [Files -> OnDisk]
  BY <1>0 DEF WriteBackup, StoreTypeOK, Saves
<1>5. /\ op' \in Saves /\ op'.step = "write"
      /\ op'.id = op.id /\ op'.does = op.does /\ op'.content = op.content
  BY <1>0 DEF WriteBackup, Saves
<1>6. op' # absent
  BY <1>5, ValuesApart
<1> QED BY <1>0, <1>1, <1>2, <1>3, <1>4, <1>5, <1>6
        DEF StoreInv, StoreTypeOK, OpFits, ClearFits, MarkedIsActive, RefusesDamage

\* The rename: a new show's file is not the one a restart opens, any other is.
LEMMA WriteFileKeeps ==
  ASSUME StoreInv, WriteFile
  PROVE  StoreInv'
<1>0. StoreTypeOK /\ op \in Saves /\ op # absent /\ op.step = "write"
  BY SaveShape DEF StoreInv, WriteFile
<1>1. /\ UNCHANGED <<store, bak, marker, held, active, written, saved, wiped, faults, damages>>
      /\ file' = [file EXCEPT ![op.id] = op.content]
      /\ op' = [op EXCEPT !.step = IF op.does = "create" THEN "mark" ELSE "install"]
  BY DEF WriteFile
<1>2. op.id \in Files /\ op.content \in Contents
  BY <1>0 DEF Saves
<1>3. file' \in [Files -> OnDisk] /\ file'[op.id] = op.content
  BY <1>0, <1>1, <1>2 DEF StoreTypeOK, OnDisk
<1>4. /\ op' \in Saves /\ op'.id = op.id /\ op'.does = op.does /\ op'.content = op.content
      /\ op'.step = IF op.does = "create" THEN "mark" ELSE "install"
  BY <1>0, <1>1 DEF Saves
<1>5. op' # absent
  BY <1>4, ValuesApart
<1>6. StoreTypeOK'
  BY <1>0, <1>1, <1>3, <1>4 DEF StoreTypeOK
<1>7. op.does \in {"edit", "create", "recover", "repair"}
  BY <1>0 DEF StoreInv, OpFits, Saves
<1>8. OpFits' /\ ClearFits' /\ (store' # "show" => active' = default)
  BY <1>0, <1>1, <1>3, <1>4, <1>5, <1>7 DEF StoreInv, OpFits, ClearFits
<1>9. wiped \/ Reloaded[1] = active
  BY <1>0 DEF StoreInv, MarkedIsActive
<1>a. CASE wiped
  BY <1>1, <1>6, <1>8, <1>a DEF StoreInv, MarkedIsActive, OpensSaved, OpensOp
<1>b. CASE ~wiped /\ op.does = "create"
  <2>1. op.id # marker /\ op.id \in NewShows /\ store = "show"
    BY <1>0, <1>b DEF StoreInv, OpFits
  <2>2. op.id # Reloaded[1]
    BY <2>1, StoreBounds DEF Reloaded
  <2>3. Reloaded' = Reloaded
    BY <1>0, <1>1, <1>2, <2>2, OtherFile
  <2>4. op'.step = "mark"
    BY <1>4, <1>b
  <2>5. file'[Reloaded[1]] = file[Reloaded[1]]
    BY <1>0, <1>1, <2>2, ReloadedType DEF StoreTypeOK
  <2>6. OpensSaved
    BY <1>0 DEF StoreInv
  <2> QED BY <1>0, <1>1, <1>6, <1>8, <1>9, <1>b, <2>3, <2>4, <2>5, <2>6
          DEF StoreInv, MarkedIsActive, OpensSaved
<1>c. CASE ~wiped /\ op.does # "create"
  <2>1. op.id = active
    BY <1>0, <1>7, <1>c DEF StoreInv, OpFits
  <2>2. Reloaded[1] = op.id
    BY <1>9, <1>c, <2>1
  <2>3. Reloaded' = <<op.id, op.content>>
    BY <1>0, <1>1, <1>2, <2>2, ThisFile
  <2>4. op'.step = "install"
    BY <1>4, <1>c
  <2> QED BY <1>4, <1>5, <1>6, <1>8, <2>3, <2>4 DEF StoreInv, MarkedIsActive, OpensOp
<1> QED BY <1>a, <1>b, <1>c

LEMMA WriteMarkerKeeps ==
  ASSUME StoreInv, WriteMarker
  PROVE  StoreInv'
<1>0. StoreTypeOK /\ op \in Saves /\ op # absent /\ op.step = "mark"
  BY SaveShape DEF StoreInv, WriteMarker
<1>1. /\ UNCHANGED <<store, file, bak, held, active, written, saved, faults, damages>>
      /\ marker' = op.id /\ wiped' = FALSE /\ op' = [op EXCEPT !.step = "install"]
  BY DEF WriteMarker
<1>2. op.id \in Files /\ op.content \in Contents
  BY <1>0 DEF Saves
<1>3. store = "show" /\ file[op.id] = op.content
  BY <1>0 DEF StoreInv, OpFits, Saves
<1>4. /\ op' \in Saves /\ op'.id = op.id /\ op'.does = op.does /\ op'.content = op.content
      /\ op'.step = "install"
  BY <1>0, <1>1 DEF Saves
<1>5. op' # absent
  BY <1>4, ValuesApart
<1>6. Reloaded' = <<op.id, op.content>>
  BY <1>0, <1>1, <1>2, <1>3, Marked
<1>7. StoreTypeOK'
  BY <1>0, <1>1, <1>2, <1>4 DEF StoreTypeOK
<1> QED BY <1>0, <1>1, <1>3, <1>4, <1>5, <1>6, <1>7
        DEF StoreInv, OpFits, ClearFits, MarkedIsActive, OpensOp

LEMMA InstallKeeps ==
  ASSUME StoreInv, Install
  PROVE  StoreInv'
<1>0. StoreTypeOK /\ op \in Saves /\ op # absent /\ op.step = "install"
  BY SaveShape DEF StoreInv, Install
<1>1. /\ UNCHANGED <<store, file, bak, marker, written, wiped, faults, damages>>
      /\ held' = op.content /\ active' = op.id /\ saved' = <<op.id, op.content>>
      /\ op' = absent
  BY DEF Install
<1>2. op.id \in Files /\ op.content \in Contents
  BY <1>0 DEF Saves
<1>3. StoreTypeOK'
  BY <1>0, <1>1, <1>2 DEF StoreTypeOK
<1>4. Reloaded' = Reloaded
  BY <1>1, ReloadedSame
<1>5. store # "show" => op.id = default
  BY <1>0 DEF StoreInv, OpFits, Saves
<1>6. OpensOp /\ (wiped \/ Reloaded[1] = op.id)
  BY <1>0 DEF StoreInv, MarkedIsActive
<1> QED BY <1>1, <1>3, <1>4, <1>5, <1>6
        DEF StoreInv, OpFits, ClearFits, MarkedIsActive, OpensOp, OpensSaved

LEMMA StepFailsKeeps ==
  ASSUME StoreInv, StepFails
  PROVE  StoreInv'
<1>0. StoreTypeOK /\ op \in Saves /\ op # absent /\ op.step \in {"read", "backup", "write", "mark"}
  BY SaveShape DEF StoreInv, StepFails
<1>1. /\ UNCHANGED <<store, file, bak, marker, held, active, written, saved, wiped, damages>>
      /\ op' = absent /\ faults' = faults + 1 /\ faults < MaxFaults
  BY DEF StepFails
<1>2. faults' \in 0 .. MaxFaults /\ damages \in 0 .. faults'
  BY <1>0, <1>1, StoreBounds DEF StoreTypeOK
<1>3. StoreTypeOK'
  BY <1>0, <1>1, <1>2 DEF StoreTypeOK
<1>4. Reloaded' = Reloaded
  BY <1>1, ReloadedSame
<1> QED BY <1>0, <1>1, <1>3, <1>4
        DEF StoreInv, OpFits, ClearFits, MarkedIsActive, OpensSaved

LEMMA ClearRemovesKeeps ==
  ASSUME StoreInv, NEW i \in Files, ClearRemoves(i)
  PROVE  StoreInv'
<1>0. /\ StoreTypeOK /\ op \in Clears /\ op # absent /\ op.step = "clear" /\ i \in op.left
      /\ i = default \/ default \notin op.left
  BY ClearShape DEF StoreInv, ClearRemoves
<1>1. wiped' /\ UNCHANGED <<store, held, active, written, saved, damages>>
  BY DEF ClearRemoves
<1>2. PICK stuck \in SUBSET ClearOrder(i) :
        /\ stuck # {} => faults < MaxFaults
        /\ file' = IF "file" \in stuck THEN file ELSE [file EXCEPT ![i] = absent]
        /\ bak' = IF "bak" \in stuck THEN bak ELSE [bak EXCEPT ![i] = absent]
        /\ marker' = IF i = default /\ "marker" \notin stuck THEN absent ELSE marker
        /\ op' = [op EXCEPT !.left = @ \ {i}, !.failed = @ \/ stuck # {}]
        /\ faults' = IF stuck = {} THEN faults ELSE faults + 1
  BY DEF ClearRemoves
<1>3. faults' \in 0 .. MaxFaults /\ damages \in 0 .. faults'
  BY <1>0, <1>2, StoreBounds DEF StoreTypeOK
<1>4. file' \in [Files -> OnDisk] /\ bak' \in [Files -> OnDisk]
  BY <1>0, <1>2 DEF StoreTypeOK, OnDisk
<1>5. marker' \in Files \cup {absent}
  BY <1>0, <1>2 DEF StoreTypeOK
<1>6. /\ op' = [step |-> "clear", left |-> op.left \ {i}, failed |-> op.failed \/ stuck # {}]
      /\ op.left \ {i} \in SUBSET Files /\ op.failed \in BOOLEAN
  BY <1>0, <1>2 DEF Clears
<1>7. op' \in Clears /\ op'.step = "clear" /\ op'.left = op.left \ {i}
  BY <1>6 DEF Clears
<1>8. op' # absent /\ (~op'.failed => ~op.failed /\ stuck = {})
  BY <1>6, <1>7, ValuesApart
<1>9. StoreTypeOK'
  BY <1>0, <1>1, <1>3, <1>4, <1>5, <1>7 DEF StoreTypeOK
<1>10. ~op'.failed /\ default \notin op'.left => marker' = absent /\ file'[default] = absent
  <2> SUFFICES ASSUME ~op'.failed, default \notin op'.left
               PROVE  marker' = absent /\ file'[default] = absent
    OBVIOUS
  <2>1. ~op.failed /\ stuck = {} /\ file' = [file EXCEPT ![i] = absent]
        /\ file \in [Files -> OnDisk] /\ default \in Files
    BY <1>0, <1>2, <1>8 DEF StoreTypeOK, Files
  <2>2. CASE i = default
    BY <1>2, <2>1, <2>2
  <2>3. CASE i # default
    <3>1. default \notin op.left
      BY <1>7, <2>3
    <3> QED BY <1>0, <1>2, <2>1, <2>3, <3>1 DEF StoreInv, ClearFits
  <2> QED BY <2>2, <2>3
<1> QED BY <1>0, <1>1, <1>7, <1>8, <1>9, <1>10
        DEF StoreInv, OpFits, ClearFits, MarkedIsActive, OpensSaved

LEMMA ClearEndsKeeps ==
  ASSUME StoreInv, ClearEnds
  PROVE  StoreInv'
<1>0. /\ StoreTypeOK /\ op # absent /\ op.step = "clear" /\ default \notin op.left
  BY DEF StoreInv, ClearEnds
<1>1. op' = absent /\ UNCHANGED <<store, file, bak, marker, written, faults, damages>>
  BY DEF ClearEnds
<1>2. store = "show" /\ wiped /\ (~op.failed => marker = absent /\ file[default] = absent)
  BY <1>0 DEF StoreInv, ClearFits
<1>3. CASE op.failed
  BY <1>0, <1>1, <1>2, <1>3
     DEF ClearEnds, StoreInv, StoreTypeOK, OpFits, ClearFits, MarkedIsActive, OpensSaved
<1>4. CASE ~op.failed
  <2>1. held' = absent /\ active' = default /\ saved' = <<default, absent>> /\ ~wiped'
    BY <1>4 DEF ClearEnds
  <2>2. default \in Files /\ absent \notin NewShows /\ absent \notin Contents
    BY ValuesApart DEF Files
  <2>3. Reloaded' = <<default, absent>>
    BY <1>1, <1>2, <1>4, <2>2 DEF Reloaded, Opened, Readable
  <2>4. StoreTypeOK'
    BY <1>0, <1>1, <2>1, <2>2 DEF StoreTypeOK, ClearEnds
  <2> QED BY <1>1, <2>1, <2>3, <2>4
          DEF StoreInv, OpFits, ClearFits, MarkedIsActive, OpensSaved
<1> QED BY <1>3, <1>4

LEMMA CrashKeeps ==
  ASSUME StoreInv, Crash
  PROVE  StoreInv'
<1>0. StoreTypeOK
  BY DEF StoreInv
<1>1. /\ faults < MaxFaults /\ faults' = faults + 1 /\ wiped' = FALSE
      /\ active' = Reloaded[1] /\ held' = Reloaded[2] /\ saved' = Reloaded
      /\ op' = RepairAfterLoad
      /\ UNCHANGED <<store, file, bak, marker, written, damages>>
  BY DEF Crash
<1>2. Reloaded' = Reloaded
  BY <1>1, ReloadedSame
<1>3. faults' \in 0 .. MaxFaults /\ damages \in 0 .. faults'
  BY <1>0, <1>1, StoreBounds DEF StoreTypeOK
<1>4. Reloaded \in Files \X (Contents \cup {absent})
  BY <1>0, ReloadedType
<1>5. store # "show" => Reloaded[1] = default
  BY DEF Reloaded
<1>6. \/ op' = absent
      \/ /\ op' \in Saves /\ op' # absent /\ op'.step = "read" /\ op'.does = "repair"
         /\ op'.id = default /\ store # "show"
  <2>1. CASE RepairAfterLoad = absent
    BY <1>1, <2>1
  <2>2. CASE store = "sacn" /\ RepairAfterLoad = Saving("repair", default, 0)
    <3>1. 0 \in Contents /\ default \in Files
      BY StoreBounds DEF Contents, Files
    <3> QED BY <1>1, <2>2, <3>1, SavingType, ValuesApart
  <2> QED BY <2>1, <2>2 DEF RepairAfterLoad, Saving
<1>7. StoreTypeOK'
  BY <1>0, <1>1, <1>3, <1>4, <1>6 DEF StoreTypeOK
<1> QED BY <1>1, <1>2, <1>5, <1>6, <1>7
        DEF StoreInv, OpFits, ClearFits, MarkedIsActive, OpensSaved

LEMMA DamageKeeps ==
  ASSUME StoreInv, NEW i \in Files, Damage(i)
  PROVE  StoreInv'
<1>0. StoreTypeOK /\ op = absent
  BY DEF StoreInv, Damage, Idle
<1>1. /\ UNCHANGED <<store, marker, held, active, op, written, saved, wiped>>
      /\ faults < MaxFaults /\ faults' = faults + 1 /\ damages' = damages + 1
  BY DEF Damage
<1>2. faults' \in 0 .. MaxFaults /\ damages' \in 0 .. faults' /\ damages' > 0
  BY <1>0, <1>1, StoreBounds DEF StoreTypeOK
<1>3. \/ file' = [file EXCEPT ![i] = damaged] /\ bak' = bak
      \/ bak' = [bak EXCEPT ![i] = damaged] /\ file' = file
  BY DEF Damage
<1>4. file' \in [Files -> OnDisk] /\ bak' \in [Files -> OnDisk]
  BY <1>0, <1>3 DEF StoreTypeOK, OnDisk
<1>5. StoreTypeOK'
  BY <1>0, <1>1, <1>2, <1>4 DEF StoreTypeOK
<1>6. Reloaded'[1] = Reloaded[1]
  BY <1>1 DEF Reloaded
<1>7. Reloaded' = Reloaded \/ file'[Reloaded[1]] = damaged
  <2>1. CASE i = Reloaded[1] /\ file' = [file EXCEPT ![i] = damaged]
    BY <1>0, <2>1 DEF StoreTypeOK
  <2>2. CASE i # Reloaded[1] /\ file' = [file EXCEPT ![i] = damaged]
    BY <1>0, <1>1, <2>2, OtherFile
  <2>3. CASE file' = file
    BY <1>1, <2>3, ReloadedSame
  <2> QED BY <1>3, <2>1, <2>2, <2>3
<1>8. \/ Reloaded = saved
      \/ file[Reloaded[1]] = damaged
      \/ wiped
  BY <1>0 DEF StoreInv, OpensSaved
<1>9. file[Reloaded[1]] = damaged => file'[Reloaded[1]] = damaged
  BY <1>0, <1>3, ReloadedType DEF StoreTypeOK
<1>10. OpensSaved'
  BY <1>1, <1>2, <1>6, <1>7, <1>8, <1>9 DEF OpensSaved
<1>11. MarkedIsActive'
  BY <1>0, <1>1, <1>6 DEF StoreInv, MarkedIsActive
<1> QED BY <1>0, <1>1, <1>5, <1>10, <1>11 DEF StoreInv, OpFits, ClearFits

LEMMA StoreInvStep == StoreInv /\ [StoreNext]_storeVars => StoreInv'
<1> SUFFICES ASSUME StoreInv, [StoreNext]_storeVars PROVE StoreInv'
  OBVIOUS
<1>1. CASE StoreNext
  BY <1>1, BeginKeeps, ReadPreviousKeeps, WriteBackupKeeps, WriteFileKeeps, WriteMarkerKeeps,
     InstallKeeps, StepFailsKeeps, ClearRemovesKeeps, ClearEndsKeeps, CrashKeeps, DamageKeeps
     DEF StoreNext
<1>2. CASE UNCHANGED storeVars
  <2>1. Reloaded' = Reloaded
    BY <1>2, ReloadedSame DEF storeVars
  <2> QED BY <1>2, <2>1 DEF storeVars, StoreInv, StoreTypeOK, OpFits, ClearFits,
                           MarkedIsActive, OpensSaved, OpensOp, RefusesDamage
<1> QED BY <1>1, <1>2

LEMMA StoreInvHolds == StoreSpec => []StoreInv
BY StoreInvInit, StoreInvStep, PTL DEF StoreSpec

-----------------------------------------------------------------------------
\* Every variable of the stores keeps its type.
THEOREM StoreTypeCorrect == StoreSpec => []StoreTypeOK
<1>1. StoreInv => StoreTypeOK
  BY DEF StoreInv
<1> QED BY <1>1, StoreInvHolds, PTL

\* initCatalogActive, savePatch and the other stores' saves: wherever the
\* process dies, the next start opens what was saved last or what was being
\* saved.
THEOREM RestartOpensSaved == StoreSpec => []RestartKeepsShow
<1>1. StoreInv => RestartKeepsShow
  <2> SUFFICES ASSUME StoreInv PROVE RestartKeepsShow
    OBVIOUS
  <2>1. CASE op # absent /\ op.step = "install"
    <3>1. OpensOp
      BY <2>1 DEF StoreInv
    <3> QED BY <2>1, <3>1 DEF OpensOp, RestartKeepsShow
  <2>2. CASE ~(op # absent /\ op.step = "install")
    BY <2>2 DEF StoreInv, OpensSaved, RestartKeepsShow
  <2> QED BY <2>1, <2>2
<1> QED BY <1>1, StoreInvHolds, PTL

\* savePatch and saveLocked refuse what they cannot read: a damaged show or
\* library file outlives every edit.
THEOREM DamagedFileStays == StoreSpec => DamageIsKept
<1>1. StoreInv /\ [StoreNext]_storeVars
        => [\A i \in Files : RefusesDamage /\ file[i] = damaged /\ file'[i] # damaged
              => op.step = "clear" \/ op.does = "recover"]_storeVars
  <2> SUFFICES ASSUME StoreInv, StoreNext, NEW i \in Files,
                      RefusesDamage, file[i] = damaged, file'[i] # damaged
               PROVE  op.step = "clear" \/ op.does = "recover"
    OBVIOUS
  <2>1. file' # file
    OBVIOUS
  <2>2. \/ WriteFile \/ (\E j \in Files : ClearRemoves(j) \/ Damage(j))
    BY <2>1 DEF StoreNext, EnsureActive, Edit, RecoverActive, Clear, CreatePatch, LoadPatch,
       ReadPrevious, WriteBackup, WriteMarker, Install, StepFails, ClearEnds, Crash
  <2>3. CASE \E j \in Files : Damage(j)
    BY <2>1, <2>3 DEF StoreInv, StoreTypeOK, Damage
  <2>4. CASE \E j \in Files : ClearRemoves(j)
    BY <2>4 DEF ClearRemoves
  <2>5. CASE WriteFile
    <3>1. op # absent /\ op.step = "write" /\ file' = [file EXCEPT ![op.id] = op.content]
      BY <2>5 DEF WriteFile
    <3>2. i = op.id
      BY <3>1 DEF StoreInv, StoreTypeOK
    <3> QED BY <3>1, <3>2 DEF StoreInv, OpFits
  <2> QED BY <2>2, <2>3, <2>4, <2>5
<1> QED BY <1>1, StoreInvHolds, PTL DEF StoreSpec, DamageIsKept

-----------------------------------------------------------------------------
\* What is copied to a .bak can be read, and one spoilt file is one file.
Copies ==
  store \in {"show", "settings"} =>
    /\ op # absent /\ op.step = "backup" => op.prev \in Contents
    /\ damages = 0 => \A i \in Files : file[i] # damaged /\ bak[i] # damaged
    /\ damages = 1 => \A i, j \in Files : file[i] # damaged \/ bak[j] # damaged

\* Nothing the program does spoils a file of these two stores.
LEMMA NothingSpoilt ==
  ASSUME StoreInv, Copies, store \in {"show", "settings"}, StoreNext,
         ~\E i \in Files : Damage(i)
  PROVE  /\ damages' = damages
         /\ \A i \in Files : /\ file'[i] = file[i] \/ file'[i] # damaged
                             /\ bak'[i] = bak[i] \/ bak'[i] # damaged
<1>0. StoreTypeOK /\ damaged \notin Contents /\ absent # damaged
  BY ValuesApart DEF StoreInv
<1>1. damages' = damages
  BY DEF StoreNext, EnsureActive, Edit, RecoverActive, Clear, CreatePatch, LoadPatch,
     ReadPrevious, WriteBackup, WriteFile, WriteMarker, Install, StepFails, ClearRemoves,
     ClearEnds, Crash
<1>2. CASE WriteBackup
  <2>1. op.prev \in Contents /\ bak' = [bak EXCEPT ![op.id] = op.prev] /\ file' = file
    BY <1>2 DEF Copies, WriteBackup
  <2> QED BY <1>0, <1>1, <2>1 DEF StoreTypeOK
<1>3. CASE WriteFile
  <2>1. op \in Saves
    BY <1>3, SaveShape DEF WriteFile
  <2>2. op.content \in Contents /\ file' = [file EXCEPT ![op.id] = op.content] /\ bak' = bak
    BY <1>3, <2>1 DEF WriteFile, Saves
  <2> QED BY <1>0, <1>1, <2>2 DEF StoreTypeOK
<1>4. CASE \E i \in Files : ClearRemoves(i)
  <2> PICK i \in Files : ClearRemoves(i)
    BY <1>4
  <2>1. /\ file' = file \/ file' = [file EXCEPT ![i] = absent]
        /\ bak' = bak \/ bak' = [bak EXCEPT ![i] = absent]
    BY DEF ClearRemoves
  <2> QED BY <1>0, <1>1, <2>1 DEF StoreTypeOK
<1>5. CASE file' = file /\ bak' = bak
  BY <1>1, <1>5
<1>6. WriteBackup \/ WriteFile \/ (\E i \in Files : ClearRemoves(i)) \/ (file' = file /\ bak' = bak)
  BY DEF StoreNext, EnsureActive, Edit, RecoverActive, Clear, CreatePatch, LoadPatch,
     ReadPrevious, WriteMarker, Install, StepFails, ClearEnds, Crash
<1> QED BY <1>2, <1>3, <1>4, <1>5, <1>6

\* savePatch and saveSettingsFile copy a file only after decoding it.
LEMMA CopyWasRead ==
  ASSUME StoreInv, Copies, store \in {"show", "settings"}, StoreNext,
         op' # absent, op'.step = "backup"
  PROVE  op'.prev \in Contents
<1>1. CASE ReadPrevious
  <2>1. /\ op' = [op EXCEPT !.prev = file[op.id],
                            !.step = IF BacksUp(file[op.id]) THEN "backup" ELSE "write"]
        /\ op \in Saves
    BY <1>1, SaveShape DEF ReadPrevious
  <2>2. op'.step = IF BacksUp(file[op.id]) THEN "backup" ELSE "write"
    BY <2>1 DEF Saves
  <2> QED BY <2>1, <2>2 DEF Saves, BacksUp, Readable
<1>2. CASE op' = op
  BY <1>2 DEF Copies
<1>3. CASE op # absent /\ op.step \in {"backup", "write", "mark"} /\ (WriteBackup \/ WriteFile \/ WriteMarker)
  <2>1. op \in Saves
    BY <1>3, SaveShape
  <2>2. op'.step \in {"write", "mark", "install"}
    BY <1>3, <2>1 DEF WriteBackup, WriteFile, WriteMarker, Saves
  <2> QED BY <2>2
<1>4. CASE \E i \in Files : ClearRemoves(i)
  <2>1. op \in Clears /\ op # absent /\ op.step = "clear"
    BY <1>4, ClearShape DEF ClearRemoves
  <2>2. op'.step = "clear"
    BY <1>4, <2>1 DEF ClearRemoves, Clears
  <2> QED BY <2>2
<1>5. CASE Edit \/ RecoverActive \/ Clear \/ (\E s \in NewShows : CreatePatch(s))
           \/ (\E i \in Files : LoadPatch(i)) \/ Crash
  <2>1. CASE Edit \/ \E s \in NewShows : CreatePatch(s)
    BY <2>1 DEF Edit, CreatePatch, Saving
  <2>2. CASE RecoverActive \/ \E i \in Files : LoadPatch(i)
    BY <2>2 DEF RecoverActive, LoadPatch, Saving
  <2>3. CASE Clear \/ Crash
    BY <2>3 DEF Clear, Crash, RepairAfterLoad
  <2> QED BY <1>5, <2>1, <2>2, <2>3
<1>6. CASE Install \/ StepFails \/ ClearEnds
  BY <1>6 DEF Install, StepFails, ClearEnds
<1>7. CASE EnsureActive \/ (\E i \in Files : Damage(i))
  BY <1>7, <1>2 DEF EnsureActive, Damage
<1> QED BY <1>1, <1>3, <1>4, <1>5, <1>6, <1>7
        DEF StoreNext, WriteBackup, WriteFile, WriteMarker

LEMMA CopiesStep == StoreInv /\ Copies /\ [StoreNext]_storeVars => Copies'
<1> SUFFICES ASSUME StoreInv, Copies, StoreNext, store \in {"show", "settings"}
             PROVE  Copies'
  BY DEF Copies, StoreNext, storeVars, EnsureActive, Edit, RecoverActive, Clear, CreatePatch,
     LoadPatch, ReadPrevious, WriteBackup, WriteFile, WriteMarker, Install, StepFails,
     ClearRemoves, ClearEnds, Crash, Damage
<1>0. StoreTypeOK /\ damages \in Nat
  BY StoreBounds DEF StoreInv, StoreTypeOK
<1>1. op' # absent /\ op'.step = "backup" => op'.prev \in Contents
  BY CopyWasRead
<1>2. CASE \E i \in Files : Damage(i)
  <2> PICK d \in Files : Damage(d)
    BY <1>2
  <2>1. /\ damages' = damages + 1
        /\ \/ file' = [file EXCEPT ![d] = damaged] /\ bak' = bak
           \/ bak' = [bak EXCEPT ![d] = damaged] /\ file' = file
    BY DEF Damage
  <2>2. damages' # 0 /\ (damages' = 1 => damages = 0)
    BY <1>0, <2>1
  <2>3. damages' = 1 => \A i, j \in Files : file'[i] # damaged \/ bak'[j] # damaged
    BY <1>0, <2>1, <2>2 DEF Copies
  <2> QED BY <1>1, <2>2, <2>3 DEF Copies
<1>3. CASE ~\E i \in Files : Damage(i)
  <2>1. /\ damages' = damages
        /\ \A i \in Files : /\ file'[i] = file[i] \/ file'[i] # damaged
                            /\ bak'[i] = bak[i] \/ bak'[i] # damaged
    BY <1>3, NothingSpoilt
  <2> QED BY <1>1, <2>1 DEF Copies
<1> QED BY <1>2, <1>3

\* savePatch and saveSettingsFile keep the last good content beside the file:
\* one spoilt file, at any moment, never costs both.
THEOREM OneSpoiltFileIsRecoverable == StoreSpec => []CanRecover
<1>1. StoreInit => Copies
  BY ValuesApart DEF StoreInit, Copies
<1>2. StoreInv /\ Copies => CanRecover
  <2> SUFFICES ASSUME StoreInv, Copies, store \in {"show", "settings"}, damages =< 1,
                      NEW i \in Files, file[i] # absent, bak[i] # absent
               PROVE  Readable(file[i]) \/ Readable(bak[i])
    BY DEF CanRecover
  <2>1. damages = 0 \/ damages = 1
    BY StoreBounds DEF StoreInv, StoreTypeOK
  <2>2. file[i] # damaged \/ bak[i] # damaged
    BY <2>1 DEF Copies
  <2> QED BY <2>2 DEF StoreInv, StoreTypeOK, OnDisk, Readable
<1> QED BY <1>1, <1>2, StoreInvHolds, CopiesStep, PTL DEF StoreSpec

--------------------------------------------------------------------------------
(* ShowEdits: requests for the open show.                                         *)

(* A request that says which show it was drawn from was drawn in the era its     *)
(* revision belongs to.                                                         *)
Drawn(p) == p.token # untold => p.token = p.era
EditInv ==
  /\ EditTypeOK
  /\ revision = era
  /\ \A c \in Clients : page[c].token = page[c].era /\ (queued[c] # none => Drawn(queued[c]))

(* What a step may make of an entry that stays.                                 *)
Keeps(e, f) ==
  \/ f.intended = e.intended
  \/ f.intended # none /\ f.intended.from = e.uid
Lists == [Ids -> Entry \cup {none}]
Relists(f) ==
  /\ f \in Lists /\ entries' = [entries EXCEPT ![show] = f]
  /\ \A i \in Ids : Here(i) # none /\ f[i] # none => Keeps(Here(i), f[i])
EntryStep == entries' = entries \/ \E f \in Lists : Relists(f)

LEMMA HereTypes ==
  ASSUME EditTypeOK
  PROVE  /\ show \in Shows /\ entries \in [Shows -> Lists] /\ entries[show] \in Lists
         /\ \A i \in Ids : Here(i) = entries[show][i] /\ Here(i) \in Entry \cup {none}
         /\ \A i \in Listed : i \in Ids /\ Here(i) # none /\ Here(i) \in Entry
         /\ \A i \in Free : i \in Ids /\ Here(i) = none
<1>1. show \in Shows /\ entries \in [Shows -> Lists]
  BY DEF EditTypeOK, Lists
<1>2. entries[show] \in Lists
  BY <1>1
<1>3. \A i \in Ids : Here(i) = entries[show][i] /\ Here(i) \in Entry \cup {none}
  BY <1>2 DEF Lists, Here
<1> QED BY <1>1, <1>2, <1>3 DEF Listed, Free

(* The operators on one entry.                                                  *)
LEMMA BlankIsEntry ==
  ASSUME NEW at \in Addresses
  PROVE  Blank(at) \in Entry
BY DEF Blank, Entry

LEMMA ConfirmedKeeps ==
  ASSUME NEW e \in Entry, NEW d \in Devices
  PROVE  Confirmed(e, d) \in Entry /\ Keeps(e, Confirmed(e, d))
BY DEF Confirmed, Entry, Keeps

LEMMA MovedKeeps ==
  ASSUME NEW e \in Entry, NEW at \in Addresses
  PROVE  [e EXCEPT !.addr = at] \in Entry /\ Keeps(e, [e EXCEPT !.addr = at])
BY DEF Entry, Keeps

LEMMA AddressedKeeps ==
  ASSUME NEW e \in Entry, NEW at \in Addresses
  PROVE  LET g == [e EXCEPT !.addr = at, !.state = "confirmed"]
         IN g \in Entry /\ Keeps(e, g)
BY DEF Entry, Keeps

LEMMA RejectedKeeps ==
  ASSUME NEW e \in Entry
  PROVE  LET g == [e EXCEPT !.uid = none, !.state = "rejected"]
         IN g \in Entry /\ Keeps(e, g)
BY DEF Entry, Keeps

LEMMA DecommittedKeeps ==
  ASSUME NEW e \in Entry
  PROVE  Decommitted(e) \in Entry /\ Keeps(e, Decommitted(e))
BY DEF Decommitted, Entry, Keeps

LEMMA AdoptedKeeps ==
  ASSUME NEW e \in Entry
  PROVE  AdoptAsIntended(e) \in Entry /\ Keeps(e, AdoptAsIntended(e))
BY DEF AdoptAsIntended, Entry, Keeps

LEMMA FoundKeeps ==
  ASSUME NEW e \in Entry, NEW d \in Devices, NEW s \in Settings
  PROVE  LET g == [e EXCEPT !.found = [from |-> d, setting |-> s]]
         IN g \in Entry /\ Keeps(e, g)
BY DEF Entry, Reading, Keeps

LEMMA PutStep ==
  ASSUME EditTypeOK, NEW i \in Ids, NEW e \in Entry \cup {none},
         Here(i) # none /\ e # none => Keeps(Here(i), e), Put(i, e)
  PROVE  EntryStep
<1> DEFINE f == [entries[show] EXCEPT ![i] = e]
<1>1. f \in Lists
  BY HereTypes DEF Lists
<1>2. entries' = [entries EXCEPT ![show] = f]
  BY HereTypes DEF Put
<1>3. ASSUME NEW j \in Ids, Here(j) # none, f[j] # none PROVE Keeps(Here(j), f[j])
  <2>1. CASE j = i
    BY <1>3, <2>1, HereTypes DEF Lists
  <2>2. CASE j # i
    BY <1>3, <2>2, HereTypes DEF Lists, Keeps
  <2> QED BY <2>1, <2>2
<1> HIDE DEF f
<1> QED BY <1>1, <1>2, <1>3 DEF EntryStep, Relists

LEMMA ListStep ==
  ASSUME EditTypeOK, NEW f \in Lists, entries' = [entries EXCEPT ![show] = f],
         \A i \in Ids : Here(i) # none /\ f[i] # none => Keeps(Here(i), f[i])
  PROVE  EntryStep
BY DEF EntryStep, Relists

LEMMA StepTypes ==
  ASSUME EditTypeOK, EntryStep
  PROVE  entries' \in [Shows -> Lists]
BY HereTypes DEF EntryStep, Relists

(* What each handler makes of the list.                                         *)
LEMMA SmallEditStep ==
  ASSUME EditTypeOK, NEW c \in Clients,
         CreateEntry(c) \/ UpdateEntry(c) \/ DeleteEntry(c) \/ Confirm(c) \/ Reject(c)
         \/ Decommit(c) \/ AdoptIntended(c)
  PROVE  EntryStep
<1>1. CASE CreateEntry(c)
  <2>1. PICK i \in Free, at \in Addresses : Put(i, Blank(at))
    BY <1>1 DEF CreateEntry
  <2>2. i \in Ids /\ Here(i) = none /\ Blank(at) \in Entry \cup {none}
    BY HereTypes, BlankIsEntry
  <2> QED BY <2>1, <2>2, PutStep
<1>2. CASE UpdateEntry(c)
  <2>1. PICK i \in Listed, at \in Addresses : Put(i, [Here(i) EXCEPT !.addr = at])
    BY <1>2 DEF UpdateEntry
  <2>2. i \in Ids /\ Here(i) \in Entry
    BY HereTypes
  <2> QED BY <2>1, <2>2, MovedKeeps, PutStep
<1>3. CASE DeleteEntry(c)
  <2>1. PICK i \in Listed : Put(i, none)
    BY <1>3 DEF DeleteEntry
  <2> QED BY <2>1, HereTypes, PutStep
<1>4. CASE Confirm(c)
  <2>1. PICK i \in Listed, d \in Devices : Put(i, Confirmed(Here(i), d))
    BY <1>4 DEF Confirm
  <2>2. i \in Ids /\ Here(i) \in Entry
    BY HereTypes
  <2> QED BY <2>1, <2>2, ConfirmedKeeps, PutStep
<1>5. CASE Reject(c)
  <2>1. PICK i \in Listed : Put(i, [Here(i) EXCEPT !.uid = none, !.state = "rejected"])
    BY <1>5 DEF Reject
  <2>2. i \in Ids /\ Here(i) \in Entry
    BY HereTypes
  <2> QED BY <2>1, <2>2, RejectedKeeps, PutStep
<1>6. CASE Decommit(c)
  <2>1. PICK i \in Listed : Put(i, Decommitted(Here(i)))
    BY <1>6 DEF Decommit
  <2>2. i \in Ids /\ Here(i) \in Entry
    BY HereTypes
  <2> QED BY <2>1, <2>2, DecommittedKeeps, PutStep
<1>7. CASE AdoptIntended(c)
  <2>1. PICK i \in Listed : Put(i, AdoptAsIntended(Here(i)))
    BY <1>7 DEF AdoptIntended
  <2>2. i \in Ids /\ Here(i) \in Entry
    BY HereTypes
  <2> QED BY <2>1, <2>2, AdoptedKeeps, PutStep
<1> QED BY <1>1, <1>2, <1>3, <1>4, <1>5, <1>6, <1>7

LEMMA ImportStep ==
  ASSUME EditTypeOK, NEW c \in Clients, Import(c)
  PROVE  EntryStep
<1>1. PICK i \in Free, at \in Addresses :
        \/ entries' = [entries EXCEPT ![show] = [j \in Ids |-> IF j = i THEN Blank(at) ELSE none]]
        \/ Put(i, Blank(at))
  BY DEF Import
<1>2. i \in Ids /\ Here(i) = none /\ Blank(at) \in Entry
  BY HereTypes, BlankIsEntry
<1>3. CASE entries' = [entries EXCEPT ![show] = [j \in Ids |-> IF j = i THEN Blank(at) ELSE none]]
  <2> DEFINE f == [j \in Ids |-> IF j = i THEN Blank(at) ELSE none]
  <2>1. f \in Lists /\ \A j \in Ids : Here(j) # none => f[j] = none
    BY <1>2 DEF Lists
  <2> HIDE DEF f
  <2> QED BY <1>3, <2>1, ListStep DEF f
<1>4. CASE Put(i, Blank(at))
  BY <1>2, <1>4, PutStep
<1> QED BY <1>1, <1>3, <1>4

LEMMA AdoptRigStep ==
  ASSUME EditTypeOK, NEW c \in Clients, AdoptRig(c)
  PROVE  EntryStep
<1> DEFINE Known(kept) == {d \in online : kept \cap PairedTo(d) # {}}
           Adopted(kept, id, i) ==
             IF \E d \in online : id[d] = i
             THEN LET d == CHOOSE x \in online : id[x] = i
                  IN IF d \in Known(kept)
                     THEN [Here(i) EXCEPT !.addr = rig[d].addr, !.state = "confirmed"]
                     ELSE Confirmed(Blank(rig[d].addr), d)
             ELSE IF i \in kept THEN Here(i) ELSE none
<1>1. PICK kept \in {{}, Listed} : \E id \in [online -> Ids] :
        /\ \A d \in online : id[d] \in IF d \in Known(kept) THEN PairedTo(d) ELSE Free
        /\ entries' = [entries EXCEPT ![show] = [i \in Ids |-> Adopted(kept, id, i)]]
  BY DEF AdoptRig
<1>2. PICK id \in [online -> Ids] :
        /\ \A d \in online : id[d] \in IF d \in Known(kept) THEN PairedTo(d) ELSE Free
        /\ entries' = [entries EXCEPT ![show] = [i \in Ids |-> Adopted(kept, id, i)]]
  BY <1>1
<1> DEFINE f == [i \in Ids |-> Adopted(kept, id, i)]
<1>3. ASSUME NEW i \in Ids
      PROVE  /\ Adopted(kept, id, i) \in Entry \cup {none}
             /\ Here(i) # none /\ Adopted(kept, id, i) # none
                => Keeps(Here(i), Adopted(kept, id, i))
  <2>1. CASE \E d \in online : id[d] = i
    <3> DEFINE d == CHOOSE x \in online : id[x] = i
    <3>1. d \in online /\ id[d] = i
      BY <2>1
    <3> HIDE DEF d
    <3>2. d \in Devices /\ rig[d].addr \in Addresses
      BY <3>1 DEF EditTypeOK
    <3>3. CASE d \in Known(kept)
      <4>1. Adopted(kept, id, i) = [Here(i) EXCEPT !.addr = rig[d].addr, !.state = "confirmed"]
        BY <2>1, <3>3 DEF d
      <4>2. i \in Listed
        BY <1>2, <3>1, <3>3 DEF PairedTo
      <4>3. Here(i) \in Entry
        BY <4>2, HereTypes
      <4> DEFINE e == Here(i)
                 g == [e EXCEPT !.addr = rig[d].addr, !.state = "confirmed"]
      <4>4. g \in Entry /\ Keeps(e, g)
        BY <3>2, <4>3, AddressedKeeps
      <4> HIDE DEF Adopted, g
      <4> QED BY <4>1, <4>4 DEF g
    <3>4. CASE d \notin Known(kept)
      <4>1. Adopted(kept, id, i) = Confirmed(Blank(rig[d].addr), d)
        BY <2>1, <3>4 DEF d
      <4>2. i \in Free
        BY <1>2, <3>1, <3>4
      <4>3. Blank(rig[d].addr) \in Entry
        BY <3>2, BlankIsEntry
      <4>4. Confirmed(Blank(rig[d].addr), d) \in Entry
        BY <3>2, <4>3, ConfirmedKeeps
      <4> QED BY <4>1, <4>2, <4>4, HereTypes
    <3> QED BY <3>3, <3>4
  <2>2. CASE ~\E d \in online : id[d] = i
    <3>1. Adopted(kept, id, i) \in {Here(i), none}
      BY <2>2
    <3> QED BY <3>1, HereTypes DEF Keeps
  <2> QED BY <2>1, <2>2
<1> HIDE DEF Adopted
<1>4. f \in Lists
  BY <1>3 DEF Lists
<1>5. \A i \in Ids : Here(i) # none /\ f[i] # none => Keeps(Here(i), f[i])
  BY <1>3
<1> HIDE DEF f
<1> QED BY <1>2, <1>4, <1>5, ListStep DEF f

LEMMA FixStep ==
  ASSUME EditTypeOK, NEW c \in Clients, Fix(c)
  PROVE  EntryStep
<1>1. PICK i \in Listed, d \in online, failed \in Writable :
        IF failed THEN UNCHANGED entries ELSE Put(i, Confirmed(Here(i), d))
  BY DEF Fix
<1>2. i \in Ids /\ Here(i) \in Entry /\ d \in Devices
  BY HereTypes DEF EditTypeOK
<1>3. CASE UNCHANGED entries
  BY <1>3 DEF EntryStep
<1>4. CASE Put(i, Confirmed(Here(i), d))
  BY <1>2, <1>4, ConfirmedKeeps, PutStep
<1> QED BY <1>1, <1>3, <1>4

\* The device that a row names is one of the rig.
LEMMA RowTypes ==
  ASSUME EditTypeOK, NEW e \in Entry, RowDevice(e) # none
  PROVE  RowDevice(e) \in online
<1>1. CASE e.uid # none /\ e.state = "confirmed"
  BY <1>1 DEF RowDevice
<1>2. CASE ~(e.uid # none /\ e.state = "confirmed")
  <2>1. Cardinality(Tied(e)) = 1 /\ RowDevice(e) = CHOOSE d \in Tied(e) : TRUE
    BY <1>2 DEF RowDevice
  <2>2. Tied(e) # {}
    BY <2>1, FS_EmptySet
  <2>3. RowDevice(e) \in Tied(e)
    BY <2>1, <2>2
  <2> QED BY <2>3 DEF Tied, Candidates
<1> QED BY <1>1, <1>2

LEMMA FixAllStep ==
  ASSUME EditTypeOK, NEW c \in Clients, FixAll(c)
  PROVE  EntryStep
<1> DEFINE Fixed(failed) == [i \in Ids |->
             IF i \in Mismatched \ failed THEN Confirmed(Here(i), RowDevice(Here(i))) ELSE Here(i)]
<1>1. PICK failed : entries' = [entries EXCEPT ![show] = Fixed(failed)]
  BY DEF FixAll
<1>2. ASSUME NEW i \in Ids
      PROVE  /\ Fixed(failed)[i] \in Entry \cup {none}
             /\ Here(i) # none => Keeps(Here(i), Fixed(failed)[i])
  <2>1. CASE i \in Mismatched \ failed
    <3>1. Here(i) \in Entry /\ RowDevice(Here(i)) # none
      BY <2>1, HereTypes DEF Mismatched
    <3>2. RowDevice(Here(i)) \in Devices
      BY <3>1, RowTypes DEF EditTypeOK
    <3>3. Fixed(failed)[i] = Confirmed(Here(i), RowDevice(Here(i)))
      BY <2>1
    <3> HIDE DEF Fixed
    <3> QED BY <3>1, <3>2, <3>3, ConfirmedKeeps
  <2>2. CASE i \notin Mismatched \ failed
    BY <2>2, HereTypes DEF Keeps
  <2> QED BY <2>1, <2>2
<1> DEFINE f == Fixed(failed)
<1>3. f \in Lists
  <2>1. \A i \in Ids : f[i] \in Entry \cup {none}
    BY <1>2
  <2> QED BY <2>1 DEF Lists
<1>4. \A i \in Ids : Here(i) # none => Keeps(Here(i), f[i])
  BY <1>2
<1> HIDE DEF Fixed
<1>5. entries' = [entries EXCEPT ![show] = f]
  BY <1>1
<1> HIDE DEF f
<1> QED BY <1>3, <1>4, <1>5, ListStep

LEMMA CommitStep ==
  ASSUME EditTypeOK, NEW c \in Clients, Commit(c)
  PROVE  EntryStep
<1> DEFINE Paired(i, d) == [j \in Ids |->
             CASE j = i -> Confirmed(Decommitted(Here(i)), d)
               [] j # i /\ Here(j) # none /\ Here(j).uid = d -> Decommitted(Here(j))
               [] OTHER -> Here(j)]
<1>1. PICK i \in Listed, d \in Devices : entries' = [entries EXCEPT ![show] = Paired(i, d)]
  BY DEF Commit
<1> DEFINE f == Paired(i, d)
<1>2. i \in Ids /\ Here(i) \in Entry
  BY HereTypes
<1>3. ASSUME NEW j \in Ids
      PROVE  f[j] \in Entry \cup {none} /\ (Here(j) # none => Keeps(Here(j), f[j]))
  <2>1. CASE j = i
    <3> DEFINE e == Here(i)
               g == Decommitted(e)
               h == Confirmed(g, d)
    <3>1. g \in Entry /\ g.intended = e.intended
      BY <1>2 DEF Decommitted, Entry
    <3>2. f[j] = h
      BY <2>1
    <3> HIDE DEF g, f
    <3>3. h \in Entry /\ h.intended = g.intended
      BY <3>1 DEF Confirmed, Entry
    <3> HIDE DEF h
    <3> QED BY <2>1, <3>1, <3>2, <3>3 DEF Keeps
  <2>2. CASE j # i /\ Here(j) # none /\ Here(j).uid = d
    <3>1. Here(j) \in Entry /\ f[j] = Decommitted(Here(j))
      BY <2>2, HereTypes
    <3> HIDE DEF f
    <3> QED BY <3>1, DecommittedKeeps
  <2>3. CASE j # i /\ ~(Here(j) # none /\ Here(j).uid = d)
    <3>1. f[j] = Here(j)
      BY <2>3
    <3> HIDE DEF f
    <3> QED BY <3>1, HereTypes DEF Keeps
  <2> QED BY <2>1, <2>2, <2>3
<1>4. f \in Lists
  <2>1. \A j \in Ids : f[j] \in Entry \cup {none}
    BY <1>3
  <2> QED BY <2>1 DEF Lists
<1>5. \A j \in Ids : Here(j) # none => Keeps(Here(j), f[j])
  BY <1>3
<1>6. entries' = [entries EXCEPT ![show] = f]
  BY <1>1
<1> HIDE DEF f
<1> QED BY <1>4, <1>5, <1>6, ListStep

LEMMA RefreshedStep ==
  ASSUME EditTypeOK, Refreshed
  PROVE  EntryStep
<1>1. handler \in [entry : Ids, from : Devices]
  BY DEF EditTypeOK, Refreshed
<1> DEFINE i == handler.entry
           d == handler.from
           e == Here(i)
           g == [e EXCEPT !.found = [from |-> d, setting |-> rig[d].setting]]
<1>2. i \in Ids /\ d \in Devices /\ rig[d].setting \in Settings
  BY <1>1 DEF EditTypeOK
<1>3. CASE Here(i) # none /\ Put(i, g)
  <2>1. e \in Entry
    BY <1>2, <1>3, HereTypes
  <2>2. g \in Entry /\ Keeps(e, g)
    BY <1>2, <2>1, FoundKeeps
  <2> HIDE DEF g
  <2> QED BY <1>2, <1>3, <2>2, PutStep
<1>4. CASE UNCHANGED entries
  BY <1>4 DEF EntryStep
<1> QED BY <1>3, <1>4 DEF Refreshed

LEMMA BoundaryStep ==
  ASSUME EditTypeOK, NEW c \in Clients, Boundary(c)
  PROVE  EntryStep /\ show' \in Shows
<1>1. CASE \E s \in Shows : show' = s /\ UNCHANGED entries
  BY <1>1 DEF EntryStep
<1>2. CASE entries' = [entries EXCEPT ![show] = [i \in Ids |-> none]] /\ UNCHANGED show
  <2> DEFINE f == [i \in Ids |-> none]
  <2>1. f \in Lists /\ \A i \in Ids : f[i] = none
    BY DEF Lists
  <2> HIDE DEF f
  <2>2. EntryStep
    BY <1>2, <2>1, ListStep DEF f
  <2> QED BY <1>2, <2>2, HereTypes
<1> QED BY <1>1, <1>2 DEF Boundary

(* The guard: pages and requests, and what their tokens say.                    *)
GuardInv ==
  /\ revision \in Nat /\ era \in Nat /\ requests \in 0 .. MaxRequests
  /\ page \in [Clients -> [token : Nat, era : Nat]]
  /\ queued \in [Clients -> [token : Nat \cup {untold}, era : Nat] \cup {none}]
  /\ revision = era
  /\ \A c \in Clients : page[c].token = page[c].era /\ (queued[c] # none => Drawn(queued[c]))

LEMMA GuardKept ==
  ASSUME EditInv
  PROVE  GuardInv
BY DEF EditInv, EditTypeOK, GuardInv

LEMMA AdmittedKeeps ==
  ASSUME GuardInv, NEW c \in Clients, NEW bump \in {0, 1}, Admitted(c, bump)
  PROVE  GuardInv'
<1> DEFINE P == [token |-> revision', era |-> era']
<1>1. revision' \in Nat /\ era' \in Nat /\ revision' = era'
  BY DEF Admitted, GuardInv
<1>2. P \in [token : Nat, era : Nat] /\ P.token = P.era
  BY <1>1
<1>3. page' = [page EXCEPT ![c] = P] /\ queued' = [queued EXCEPT ![c] = none] /\ requests' = requests
  BY DEF Admitted
<1> HIDE DEF P
<1>4. /\ page' \in [Clients -> [token : Nat, era : Nat]]
      /\ queued' \in [Clients -> [token : Nat \cup {untold}, era : Nat] \cup {none}]
  BY <1>2, <1>3 DEF GuardInv
<1>5. ASSUME NEW x \in Clients
      PROVE  page'[x].token = page'[x].era /\ (queued'[x] # none => Drawn(queued'[x]))
  <2>1. page'[x] = P \/ page'[x] = page[x]
    BY <1>3 DEF GuardInv
  <2>2. queued'[x] = none \/ queued'[x] = queued[x]
    BY <1>3 DEF GuardInv
  <2> QED BY <1>2, <2>1, <2>2 DEF GuardInv
<1> QED BY <1>1, <1>3, <1>4, <1>5 DEF GuardInv

LEMMA GuardSteps ==
  ASSUME GuardInv, NEW c \in Clients, Look(c) \/ Ask(c) \/ Refuse(c)
  PROVE  GuardInv'
<1>0. MaxRequests \in Nat
  BY EditConstants
<1>1. CASE Look(c)
  <2> DEFINE P == [token |-> revision, era |-> era]
  <2>1. P \in [token : Nat, era : Nat] /\ P.token = P.era
    BY DEF GuardInv
  <2>2. page' = [page EXCEPT ![c] = P] /\ UNCHANGED <<queued, revision, era, requests>>
    BY <1>1 DEF Look
  <2> HIDE DEF P
  <2>3. page' \in [Clients -> [token : Nat, era : Nat]]
    BY <2>1, <2>2 DEF GuardInv
  <2>4. \A x \in Clients : page'[x] = P \/ page'[x] = page[x]
    BY <2>2 DEF GuardInv
  <2> QED BY <2>1, <2>2, <2>3, <2>4 DEF GuardInv
<1>2. CASE Ask(c)
  <2>1. PICK token \in {page[c].token, untold} :
          queued' = [queued EXCEPT ![c] = [token |-> token, era |-> page[c].era]]
    BY <1>2 DEF Ask
  <2> DEFINE Q == [token |-> token, era |-> page[c].era]
  <2>2. page[c].token \in Nat /\ page[c].era \in Nat /\ page[c].token = page[c].era
    BY DEF GuardInv
  <2>3. Q \in [token : Nat \cup {untold}, era : Nat] /\ Drawn(Q)
    BY <2>1, <2>2 DEF Drawn
  <2>4. queued' = [queued EXCEPT ![c] = Q] /\ UNCHANGED <<page, revision, era>>
    BY <1>2, <2>1 DEF Ask
  <2> HIDE DEF Q
  <2>5. queued' \in [Clients -> [token : Nat \cup {untold}, era : Nat] \cup {none}]
    BY <2>3, <2>4 DEF GuardInv
  <2>6. \A x \in Clients : queued'[x] = Q \/ queued'[x] = queued[x]
    BY <2>4 DEF GuardInv
  <2>7. requests' \in 0 .. MaxRequests
    BY <1>0, <1>2 DEF Ask, GuardInv
  <2> QED BY <2>3, <2>4, <2>5, <2>6, <2>7 DEF GuardInv
<1>3. CASE Refuse(c)
  <2>1. queued' = [queued EXCEPT ![c] = none] /\ UNCHANGED <<page, revision, era, requests>>
    BY <1>3 DEF Refuse
  <2>2. queued' \in [Clients -> [token : Nat \cup {untold}, era : Nat] \cup {none}]
    BY <2>1 DEF GuardInv
  <2>3. \A x \in Clients : queued'[x] = none \/ queued'[x] = queued[x]
    BY <2>1 DEF GuardInv
  <2> QED BY <2>1, <2>2, <2>3 DEF GuardInv
<1> QED BY <1>1, <1>2, <1>3

(* The rig, and the handler that is slow.                                       *)
RigOK ==
  /\ rig \in [Devices -> [addr : Addresses, setting : Settings]] /\ online \subseteq Devices
  /\ drift \in 0 .. MaxDrift
HandlerOK == handler \in [entry : Ids, from : Devices] \cup {none}

LEMMA InvParts ==
  EditInv <=> /\ show \in Shows /\ entries \in [Shows -> Lists]
              /\ GuardInv /\ RigOK /\ HandlerOK
BY DEF EditInv, EditTypeOK, Lists, GuardInv, RigOK, HandlerOK

LEMMA InvParts2 ==
  EditInv' <=> /\ show' \in Shows /\ entries' \in [Shows -> Lists]
               /\ GuardInv' /\ RigOK' /\ HandlerOK'
BY DEF EditInv, EditTypeOK, Lists, GuardInv, RigOK, HandlerOK

LEMMA SameRig ==
  ASSUME EditInv, UNCHANGED rigVars
  PROVE  RigOK'
BY InvParts DEF RigOK, rigVars

LEMMA FixRig ==
  ASSUME EditInv, NEW c \in Clients, Fix(c) \/ FixAll(c) \/ Push(c)
  PROVE  RigOK'
<1>0. RigOK
  BY InvParts
<1>1. CASE Fix(c)
  <2>1. PICK i \in Listed, d \in online : rig' \in {rig, [rig EXCEPT ![d].addr = Here(i).addr]}
    BY <1>1 DEF Fix
  <2>2. Here(i).addr \in Addresses
    BY HereTypes DEF EditInv, Entry
  <2>3. rig[d] \in [addr : Addresses, setting : Settings]
    BY <1>0 DEF RigOK
  <2>4. rig' \in [Devices -> [addr : Addresses, setting : Settings]]
    BY <1>0, <2>1, <2>2, <2>3 DEF RigOK
  <2> QED BY <1>0, <1>1, <2>4 DEF RigOK, Fix
<1>2. CASE FixAll(c)
  <2> DEFINE Aimed(on, last) == rig' = [d \in Devices |->
                IF d \in on THEN [rig[d] EXCEPT !.addr = Here(last[d]).addr] ELSE rig[d]]
             Landed(lost, d) == {i \in Mismatched \ lost : RowDevice(Here(i)) = d}
             On(lost) == {d \in online : Landed(lost, d) # {}}
  <2>5. PICK failed : \E lost \in SUBSET failed : \E last \in [On(lost) -> Mismatched] :
          /\ \A d \in DOMAIN last : last[d] \in Landed(lost, d)
          /\ Aimed(DOMAIN last, last)
          /\ entries' = [entries EXCEPT ![show] = [i \in Ids |->
               IF i \in Mismatched \ failed THEN Confirmed(Here(i), RowDevice(Here(i))) ELSE Here(i)]]
    BY <1>2 DEF FixAll
  <2>0. \E lost : \E last \in [On(lost) -> Mismatched] : Aimed(DOMAIN last, last)
    <3> HIDE DEF On, Landed, Aimed
    <3> QED BY <2>5
  <2>1. PICK on \in SUBSET online : \E last \in [on -> Mismatched] : Aimed(on, last)
    <3>1. PICK lost : \E last \in [On(lost) -> Mismatched] : Aimed(DOMAIN last, last)
      BY <2>0
    <3>2. On(lost) \in SUBSET online
      OBVIOUS
    <3> HIDE DEF On, Landed, Aimed
    <3>3. \E last \in [On(lost) -> Mismatched] : Aimed(On(lost), last)
      BY <3>1
    <3> QED BY <3>2, <3>3
  <2>3. PICK last \in [on -> Mismatched] : Aimed(on, last)
    BY <2>1
  <2>2. ASSUME NEW d \in Devices PROVE rig'[d] \in [addr : Addresses, setting : Settings]
    <3>1. rig[d] \in [addr : Addresses, setting : Settings]
      BY <1>0 DEF RigOK
    <3>2. CASE d \in on
      <4>1. last[d] \in Listed
        BY <2>3, <3>2 DEF Mismatched
      <4>2. Here(last[d]).addr \in Addresses
        BY <4>1, HereTypes DEF EditInv, Entry
      <4> QED BY <2>3, <3>1, <3>2, <4>2
    <3>3. CASE d \notin on
      BY <2>3, <3>1, <3>3
    <3> QED BY <3>2, <3>3
  <2>4. rig' \in [Devices -> [addr : Addresses, setting : Settings]]
    BY <2>3, <2>2
  <2> QED BY <1>0, <1>2, <2>4 DEF RigOK, FixAll
<1>3. CASE Push(c)
  <2>1. PICK i \in Listed, on \in BOOLEAN :
          /\ Here(i).uid \in online
          /\ \/ rig' = rig
             \/ rig' = [rig EXCEPT ![Here(i).uid].addr = Here(i).addr]
             \/ /\ Here(i).intended # none
                /\ rig' = [rig EXCEPT ![Here(i).uid].setting = Here(i).intended.setting]
    BY <1>3 DEF Push
  <2>2. Here(i) \in Entry
    BY HereTypes DEF EditInv
  <2> DEFINE e == Here(i)
  <2>3. e.addr \in Addresses /\ (e.intended # none => e.intended.setting \in Settings)
    BY <2>2 DEF Entry, Reading
  <2>4. rig[e.uid] \in [addr : Addresses, setting : Settings]
    BY <1>0, <2>1 DEF RigOK
  <2> HIDE DEF e
  <2>5. \/ rig' = rig
        \/ rig' = [rig EXCEPT ![e.uid].addr = e.addr]
        \/ e.intended # none /\ rig' = [rig EXCEPT ![e.uid].setting = e.intended.setting]
    BY <2>1 DEF e
  <2>6. rig' \in [Devices -> [addr : Addresses, setting : Settings]]
    BY <1>0, <2>3, <2>4, <2>5 DEF RigOK
  <2> QED BY <1>0, <1>3, <2>6 DEF RigOK, Push
<1> QED BY <1>1, <1>2, <1>3

\* A handler on the open show: the guard's part is the same for all of them.
LEMMA HandlerKeeps ==
  ASSUME EditInv, NEW c \in Clients, OnShow(c), EntryStep, RigOK', HandlerOK'
  PROVE  EditInv'
<1>1. GuardInv'
  BY InvParts, AdmittedKeeps DEF OnShow
<1>2. show' \in Shows
  BY InvParts DEF OnShow
<1>3. entries' \in [Shows -> Lists]
  BY StepTypes DEF EditInv
<1> QED BY <1>1, <1>2, <1>3, InvParts2

LEMMA QuickKeeps ==
  ASSUME EditInv, NEW c \in Clients, Quick(c), EntryStep
  PROVE  EditInv'
<1>1. RigOK'
  BY SameRig DEF Quick
<1>2. HandlerOK'
  BY InvParts DEF Quick, HandlerOK
<1> QED BY <1>1, <1>2, HandlerKeeps DEF Quick

LEMMA RequestKeeps ==
  ASSUME EditInv, NEW c \in Clients, Request(c)
  PROVE  EditInv' /\ EntryStep
<1>0. EditTypeOK /\ HandlerOK
  BY InvParts DEF EditInv
<1>1. CASE Look(c) \/ Ask(c) \/ Refuse(c)
  <2>1. UNCHANGED <<show, entries, handler, rigVars>>
    BY <1>1 DEF Look, Ask, Refuse
  <2>2. GuardInv'
    BY <1>1, InvParts, GuardSteps
  <2>3. RigOK' /\ HandlerOK'
    BY <1>0, <2>1, SameRig DEF HandlerOK
  <2> QED BY <2>1, <2>2, <2>3, InvParts, InvParts2 DEF EntryStep
<1>2. CASE Boundary(c)
  <2>1. EntryStep /\ show' \in Shows
    BY <1>0, <1>2, BoundaryStep
  <2>2. entries' \in [Shows -> Lists]
    BY <1>0, <2>1, StepTypes
  <2>3. GuardInv'
    BY <1>2, InvParts, AdmittedKeeps DEF Boundary
  <2>4. RigOK' /\ HandlerOK'
    BY <1>0, <1>2, SameRig DEF Boundary, HandlerOK
  <2> QED BY <2>1, <2>2, <2>3, <2>4, InvParts2
<1>3. CASE \/ CreateEntry(c) \/ UpdateEntry(c) \/ DeleteEntry(c) \/ Confirm(c) \/ Reject(c)
           \/ Decommit(c) \/ AdoptIntended(c)
  <2>1. Quick(c)
    BY <1>3 DEF CreateEntry, UpdateEntry, DeleteEntry, Confirm, Reject, Decommit, AdoptIntended
  <2> QED BY <1>0, <1>3, <2>1, SmallEditStep, QuickKeeps
<1>4. CASE Import(c)
  BY <1>0, <1>4, ImportStep, QuickKeeps DEF Import
<1>5. CASE AdoptRig(c)
  BY <1>0, <1>5, AdoptRigStep, QuickKeeps DEF AdoptRig
<1>6. CASE Fix(c)
  <2>1. OnShow(c) /\ HandlerOK'
    BY <1>0, <1>6 DEF Fix, HandlerOK
  <2> QED BY <1>0, <1>6, <2>1, FixStep, FixRig, HandlerKeeps
<1>7. CASE FixAll(c)
  <2>1. OnShow(c) /\ HandlerOK'
    BY <1>0, <1>7 DEF FixAll, HandlerOK
  <2> QED BY <1>0, <1>7, <2>1, FixAllStep, FixRig, HandlerKeeps
<1>8. CASE Commit(c)
  <2>1. OnShow(c) /\ UNCHANGED rigVars
    BY <1>8 DEF Commit
  <2>2. PICK i \in Listed, d \in Devices : Reads(i, d)
    BY <1>8 DEF Commit
  <2>3. HandlerOK'
    BY <2>2 DEF Reads, HandlerOK, Listed
  <2> QED BY <1>0, <1>8, <2>1, <2>3, CommitStep, SameRig, HandlerKeeps
<1>9. CASE Reread(c)
  <2>1. OnShow(c) /\ UNCHANGED rigVars /\ EntryStep
    BY <1>9 DEF Reread, EntryStep
  <2>2. PICK i \in Listed : Here(i).uid # none /\ Reads(i, Here(i).uid)
    BY <1>9 DEF Reread
  <2>3. i \in Ids /\ Here(i).uid \in Devices
    BY <1>0, <2>2, HereTypes DEF Entry
  <2>4. HandlerOK'
    BY <2>2, <2>3 DEF Reads, HandlerOK
  <2> QED BY <2>1, <2>4, SameRig, HandlerKeeps
<1>10. CASE Push(c)
  <2>1. OnShow(c) /\ EntryStep
    BY <1>10 DEF Push, EntryStep
  <2>2. PICK i \in Listed : Here(i).uid \in online /\ Reads(i, Here(i).uid)
    BY <1>10 DEF Push
  <2>3. i \in Ids /\ Here(i).uid \in Devices
    BY <1>0, <2>2 DEF Listed, EditTypeOK
  <2>4. HandlerOK'
    BY <2>2, <2>3 DEF Reads, HandlerOK
  <2> QED BY <1>10, <2>1, <2>4, FixRig, HandlerKeeps
<1> QED
  BY <1>1, <1>2, <1>3, <1>4, <1>5, <1>6, <1>7, <1>8, <1>9, <1>10 DEF Request

LEMMA EditsKeep ==
  ASSUME EditInv, [EditNext]_editVars
  PROVE  EditInv' /\ EntryStep
<1>0. EditTypeOK /\ HandlerOK /\ RigOK /\ GuardInv
  BY InvParts DEF EditInv
<1>1. CASE \E c \in Clients : Request(c)
  BY <1>1, RequestKeeps
<1>2. CASE Refreshed
  <2>1. EntryStep
    BY <1>0, <1>2, RefreshedStep
  <2>2. entries' \in [Shows -> Lists]
    BY <1>0, <2>1, StepTypes
  <2>3. GuardInv' /\ RigOK' /\ HandlerOK' /\ show' = show
    BY <1>0, <1>2 DEF Refreshed, GuardInv, RigOK, HandlerOK, rigVars
  <2> QED BY <2>1, <2>2, <2>3, InvParts, InvParts2
<1>3. CASE Drift
  <2>1. UNCHANGED <<show, entries, revision, era, page, queued, handler, requests>>
    BY <1>3 DEF Drift
  <2>2. drift' \in 0 .. MaxDrift
    BY <1>0, <1>3, EditConstants DEF Drift, RigOK
  <2>3. rig' \in [Devices -> [addr : Addresses, setting : Settings]] /\ online' \subseteq Devices
    <3>1. CASE \E d \in Devices, s \in Settings : rig' = [rig EXCEPT ![d].setting = s] /\ UNCHANGED online
      BY <1>0, <3>1 DEF RigOK
    <3>2. CASE \E d \in Devices :
                 /\ online' = IF d \in online THEN online \ {d} ELSE online \cup {d}
                 /\ UNCHANGED rig
      BY <1>0, <3>2 DEF RigOK
    <3> QED BY <1>3, <3>1, <3>2 DEF Drift
  <2>4. GuardInv' /\ RigOK' /\ HandlerOK'
    BY <1>0, <2>1, <2>2, <2>3 DEF GuardInv, RigOK, HandlerOK
  <2> QED BY <2>1, <2>4, InvParts, InvParts2 DEF EntryStep
<1>4. CASE UNCHANGED editVars
  <2>1. GuardInv' /\ RigOK' /\ HandlerOK' /\ show' = show /\ entries' = entries
    BY <1>0, <1>4 DEF editVars, GuardInv, RigOK, HandlerOK
  <2> QED BY <2>1, InvParts, InvParts2 DEF EntryStep
<1> QED BY <1>1, <1>2, <1>3, <1>4 DEF EditNext

LEMMA EditsInit ==
  ASSUME EditInit
  PROVE  EditInv
<1>1. GuardInv
  BY EditConstants DEF EditInit, GuardInv
<1>2. RigOK /\ HandlerOK /\ show \in Shows
  BY EditConstants DEF EditInit, RigOK, HandlerOK
<1>3. entries \in [Shows -> Lists]
  BY DEF EditInit, Lists
<1> QED BY <1>1, <1>2, <1>3, InvParts

(* The state of the show, the guard and the rig keeps its type, and a request's  *)
(* revision and the era of its page never part.                                 *)
THEOREM EditsTypeCorrect == EditSpec => []EditInv
<1>1. EditInit => EditInv
  BY EditsInit
<1>2. EditInv /\ [EditNext]_editVars => EditInv'
  BY EditsKeep
<1> QED BY <1>1, <1>2, PTL DEF EditSpec

(* An edit whose page told which show it was drawn from lands on that show       *)
(* (showguard.go): the token is compared under the lock the handler keeps.       *)
THEOREM EditsLandOnOwnShow == EditSpec => EditsOwnShow
<1> DEFINE Lands == \A c \in Clients :
             (/\ queued[c] # none /\ queued'[c] = none /\ queued[c].token # untold
              /\ (entries' # entries \/ rig' # rig \/ handler' # handler))
             => queued[c].era = era
<1>1. ASSUME EditInv, EditNext, NEW c \in Clients,
             queued[c] # none, queued'[c] = none, queued[c].token # untold,
             entries' # entries \/ rig' # rig \/ handler' # handler
      PROVE  queued[c].era = era
  <2>1. queued \in [Clients -> [token : Nat \cup {untold}, era : Nat] \cup {none}]
    BY <1>1 DEF EditInv, EditTypeOK
  <2>2. PICK d \in Clients : Request(d)
    BY <1>1 DEF EditNext, Refreshed, Drift
  <2>3. ~Look(d) /\ ~Refuse(d)
    BY <1>1 DEF Look, Refuse, rigVars
  <2>4. ~Ask(d)
    BY <1>1 DEF Ask, rigVars
  <2>5. Admitted(d, 0) \/ Admitted(d, 1)
    BY <2>2, <2>3, <2>4 DEF Request, Boundary, CreateEntry, UpdateEntry, DeleteEntry, Import,
       AdoptRig, Confirm, Reject, Fix, FixAll, Decommit, Commit, Reread, Push, AdoptIntended,
       Quick, OnShow
  <2>6. TokenHolds(queued[d]) /\ queued' = [queued EXCEPT ![d] = none]
    BY <2>5 DEF Admitted
  <2>7. c = d
    BY <1>1, <2>1, <2>6
  <2> QED BY <1>1, <2>6, <2>7 DEF TokenHolds, EditInv, Drawn
<1>2. EditInv /\ [EditNext]_editVars => [Lands]_editVars
  BY <1>1 DEF EditNext
<1> QED BY <1>2, EditsTypeCorrect, PTL DEF EditSpec, EditsOwnShow

(* What an entry learns as its intention was read off the device it is committed *)
(* to: a substitute never inherits the settings of the fixture it replaces       *)
(* (AdoptAsIntended, ReadFromUID).                                               *)
THEOREM IntentionsBelong == EditSpec => ReadingsBelong
<1> DEFINE Belong == \A s \in Shows, i \in Ids :
             (/\ entries[s][i] # none /\ entries'[s][i] # none
              /\ entries'[s][i].intended # entries[s][i].intended)
             => /\ entries'[s][i].intended # none
                /\ entries'[s][i].intended.from = entries[s][i].uid
<1>1. ASSUME EditInv, EntryStep, NEW s \in Shows, NEW i \in Ids,
             entries[s][i] # none, entries'[s][i] # none,
             entries'[s][i].intended # entries[s][i].intended
      PROVE  /\ entries'[s][i].intended # none
             /\ entries'[s][i].intended.from = entries[s][i].uid
  <2>1. PICK f \in Lists : Relists(f)
    BY <1>1 DEF EntryStep
  <2>2. show \in Shows /\ entries \in [Shows -> Lists]
    BY <1>1, InvParts
  <2>3. entries' = [entries EXCEPT ![show] = f]
    BY <2>1 DEF Relists
  <2>4. s = show /\ entries'[s] = f
    BY <1>1, <2>2, <2>3
  <2> QED BY <1>1, <2>1, <2>4 DEF Relists, Here, Keeps
<1>2. EditInv /\ [EditNext]_editVars => [Belong]_editVars
  BY <1>1, EditsKeep
<1> QED BY <1>2, EditsTypeCorrect, PTL DEF EditSpec, ReadingsBelong

-------------------------------------------------------------------------------
(* The findings of a patch.                                                     *)
Reviewable == patch \in Seq(EntryChoices)

LEMMA ReviewableHolds == ReviewSpec => []Reviewable
<1>1. ReviewInit => Reviewable
  BY DEF ReviewInit, Reviewable
<1>2. Reviewable /\ [ReviewNext]_patch => Reviewable'
  BY DEF Reviewable, ReviewNext, AddEntry
<1> QED BY <1>1, <1>2, PTL DEF ReviewSpec

\* Two stretches of slots that both begin within the universe share one exactly when they meet.
LEMMA SharedSlots ==
  ASSUME NEW x \in EntryChoices, NEW y \in EntryChoices
  PROVE  /\ Overlapping(x, y) <=> SlotsOf(x) \cap SlotsOf(y) # {}
         /\ Overlapping(x, y) =>
              /\ <<x.universe, Most(x.start, y.start)>> \in SlotsOf(x) \cap SlotsOf(y)
              /\ Most(x.start, y.start) =< Least(EndAddress(x), EndAddress(y))
<1> DEFINE at == Most(x.start, y.start)
<1>t. /\ UniverseSize \in Nat /\ x.start \in Nat /\ x.footprint \in Nat /\ y.start \in Nat /\ y.footprint \in Nat
  BY ReviewAssumption
<1>e. /\ EndAddress(x) \in Nat /\ EndAddress(y) \in Nat
      /\ Occupies(x) => x.start \in 1 .. UniverseSize /\ x.start =< EndAddress(x)
      /\ Occupies(y) => y.start \in 1 .. UniverseSize /\ y.start =< EndAddress(y)
  BY <1>t DEF EndAddress, Occupies, InvalidAddress
<1>1. ASSUME Overlapping(x, y)
      PROVE  <<x.universe, at>> \in SlotsOf(x) \cap SlotsOf(y) /\ at =< Least(EndAddress(x), EndAddress(y))
  <2>1. Occupies(x) /\ Occupies(y) /\ x.universe = y.universe
        /\ x.start =< EndAddress(y) /\ y.start =< EndAddress(x)
    BY <1>1 DEF Overlapping
  <2>2. /\ at \in x.start .. Least(EndAddress(x), UniverseSize)
        /\ at \in y.start .. Least(EndAddress(y), UniverseSize)
        /\ at =< Least(EndAddress(x), EndAddress(y))
    BY <1>t, <1>e, <2>1 DEF Most, Least
  <2>3. /\ SlotsOf(x) = {<<x.universe, n>> : n \in x.start .. Least(EndAddress(x), UniverseSize)}
        /\ SlotsOf(y) = {<<y.universe, n>> : n \in y.start .. Least(EndAddress(y), UniverseSize)}
    BY <2>1 DEF SlotsOf, Occupies
  <2> HIDE DEF at
  <2>4. <<x.universe, at>> \in SlotsOf(x) /\ <<y.universe, at>> \in SlotsOf(y)
    BY <2>2, <2>3
  <2> QED BY <2>1, <2>2, <2>4
<1>2. ASSUME SlotsOf(x) \cap SlotsOf(y) # {}  PROVE Overlapping(x, y)
  <2>1. SlotsOf(x) # {} /\ SlotsOf(y) # {}
    BY <1>2
  <2>2. Occupies(x) /\ Occupies(y)
    BY <2>1 DEF SlotsOf, Occupies
  <2>3. /\ SlotsOf(x) = {<<x.universe, n>> : n \in x.start .. Least(EndAddress(x), UniverseSize)}
        /\ SlotsOf(y) = {<<y.universe, n>> : n \in y.start .. Least(EndAddress(y), UniverseSize)}
    BY <2>2 DEF SlotsOf, Occupies
  <2>4. PICK n \in x.start .. Least(EndAddress(x), UniverseSize),
             k \in y.start .. Least(EndAddress(y), UniverseSize) :
               x.universe = y.universe /\ n = k
    BY <1>2, <2>3
  <2>5. x.start =< EndAddress(y) /\ y.start =< EndAddress(x)
    BY <1>t, <1>e, <2>4 DEF Least
  <2> QED BY <2>2, <2>4, <2>5 DEF Overlapping
<1> QED BY <1>1, <1>2

\* The findings of overlap are those of the pairs that overlap.
LEMMA OverlapFound ==
  ASSUME Reviewable, NEW i \in DOMAIN patch, NEW j \in DOMAIN patch, i < j
  PROVE  {x \in DetectCollisions(patch) : x.kind = "overlap" /\ x.entries = {i, j}}
           = IF Overlapping(patch[i], patch[j])
             THEN {Finding("overlap", {i, j}, patch[i].universe, Most(patch[i].start, patch[j].start),
                           Least(EndAddress(patch[i]), EndAddress(patch[j])))}
             ELSE {}
<1> DEFINE pair(k, n) == Finding("overlap", {k, n}, patch[k].universe, Most(patch[k].start, patch[n].start),
                           Least(EndAddress(patch[k]), EndAddress(patch[n])))
<1>1. \A x \in EntryFindings(patch) \cup NumberFindings(patch) : x.kind # "overlap"
  BY DEF EntryFindings, NumberFindings, Finding
<1> DEFINE meeting(k) == {n \in DOMAIN patch : k < n /\ Overlapping(patch[k], patch[n])}
           of(k) == {pair(k, n) : n \in meeting(k)}
<1>2. OverlapFindings(patch) = UNION {of(k) : k \in DOMAIN patch}
  BY DEF OverlapFindings
<1>3. \A k, n : pair(k, n).kind = "overlap" /\ pair(k, n).entries = {k, n}
  BY DEF Finding
<1> HIDE DEF pair
<1>4. DOMAIN patch \subseteq Nat
  BY DEF Reviewable
<1>5. \A k, n \in DOMAIN patch : k < n /\ {k, n} = {i, j} => k = i /\ n = j
  BY <1>4
<1>6. ASSUME NEW x \in DetectCollisions(patch), x.kind = "overlap", x.entries = {i, j}
      PROVE  Overlapping(patch[i], patch[j]) /\ x = pair(i, j)
  <2>1. x \in UNION {of(k) : k \in DOMAIN patch}
    BY <1>1, <1>2, <1>6 DEF DetectCollisions
  <2>2. PICK k \in DOMAIN patch : x \in of(k)
    BY <2>1
  <2>3. PICK n \in meeting(k) : x = pair(k, n)
    BY <2>2
  <2>4. k = i /\ n = j
    BY <1>3, <1>5, <1>6, <2>3
  <2> QED BY <2>3, <2>4
<1>7. ASSUME Overlapping(patch[i], patch[j])
      PROVE  pair(i, j) \in DetectCollisions(patch)
  <2>1. j \in meeting(i)
    BY <1>7
  <2>2. pair(i, j) \in of(i)
    BY <2>1
  <2> QED BY <1>2, <2>2 DEF DetectCollisions
<1>8. {x \in DetectCollisions(patch) : x.kind = "overlap" /\ x.entries = {i, j}}
        = IF Overlapping(patch[i], patch[j]) THEN {pair(i, j)} ELSE {}
  BY <1>3, <1>6, <1>7
<1> QED BY <1>8 DEF pair

\* Every overlap that is found is one of slots, and every one of slots is found.
THEOREM OverlapsAreFound == ReviewSpec => []OverlapsAreShared
<1>1. Reviewable => OverlapsAreShared
  <2> SUFFICES ASSUME Reviewable, NEW i \in DOMAIN patch, NEW j \in DOMAIN patch, i < j
               PROVE  LET found == {x \in DetectCollisions(patch) : x.kind = "overlap" /\ x.entries = {i, j}}
                          shared == SlotsOf(patch[i]) \cap SlotsOf(patch[j])
                      IN /\ (found # {}) = (shared # {})
                         /\ \A x \in found : <<x.universe, x.from>> \in shared /\ x.from =< x.to
    BY DEF OverlapsAreShared
  <2> DEFINE found == {x \in DetectCollisions(patch) : x.kind = "overlap" /\ x.entries = {i, j}}
             shared == SlotsOf(patch[i]) \cap SlotsOf(patch[j])
             only == Finding("overlap", {i, j}, patch[i].universe, Most(patch[i].start, patch[j].start),
                             Least(EndAddress(patch[i]), EndAddress(patch[j])))
  <2>1. patch[i] \in EntryChoices /\ patch[j] \in EntryChoices
    BY DEF Reviewable
  <2>2. found = IF Overlapping(patch[i], patch[j]) THEN {only} ELSE {}
    BY OverlapFound
  <2>3. Overlapping(patch[i], patch[j]) <=> shared # {}
    BY <2>1, SharedSlots
  <2>4. Overlapping(patch[i], patch[j]) =>
          /\ <<patch[i].universe, Most(patch[i].start, patch[j].start)>> \in shared
          /\ Most(patch[i].start, patch[j].start) =< Least(EndAddress(patch[i]), EndAddress(patch[j]))
    BY <2>1, SharedSlots
  <2>5. only.universe = patch[i].universe /\ only.from = Most(patch[i].start, patch[j].start)
        /\ only.to = Least(EndAddress(patch[i]), EndAddress(patch[j]))
    BY DEF Finding
  <2> HIDE DEF found, shared, only
  <2>6. (found # {}) = (shared # {}) /\ \A x \in found : <<x.universe, x.from>> \in shared /\ x.from =< x.to
    BY <2>2, <2>3, <2>4, <2>5
  <2> QED BY <2>6 DEF found, shared
<1> QED BY <1>1, ReviewableHolds, PTL

\* A patch without an error lies in its universes, with one driver per slot and one entry per number.
THEOREM CleanPatchesAreSound == ReviewSpec => []CleanPatchIsSound
<1>1. Reviewable => CleanPatchIsSound
  <2> SUFFICES ASSUME Reviewable, Errors = {}
               PROVE  /\ \A i \in DOMAIN patch :
                           patch[i].start \in 1 .. UniverseSize /\ EndAddress(patch[i]) =< UniverseSize
                      /\ \A i, j \in DOMAIN patch :
                           i # j => /\ SlotsOf(patch[i]) \cap SlotsOf(patch[j]) = {}
                                    /\ patch[i].number # patch[j].number \/ patch[i].number = unnumbered
    BY DEF CleanPatchIsSound
  <2>p. \A i \in DOMAIN patch : patch[i] \in EntryChoices
    BY DEF Reviewable
  <2>d. DOMAIN patch \subseteq Nat
    BY DEF Reviewable
  <2>1. ASSUME NEW i \in DOMAIN patch
        PROVE  patch[i].start \in 1 .. UniverseSize /\ EndAddress(patch[i]) =< UniverseSize
    <3> DEFINE e == patch[i]
               own == IF InvalidAddress(e) THEN {Finding("invalid_address", {i}, e.universe, e.start, 0)}
                      ELSE IF e.footprint = 0 THEN {Finding("zero_footprint", {i}, e.universe, e.start, 0)}
                      ELSE IF EndAddress(e) > UniverseSize
                      THEN {Finding("overflow", {i}, e.universe, e.start, EndAddress(e))} ELSE {}
    <3>1. own \subseteq EntryFindings(patch)
      BY DEF EntryFindings
    <3>2. \A x \in own : x.kind = "zero_footprint"
      BY <3>1 DEF Errors, DetectCollisions
    <3>3. e.start \in Nat /\ e.footprint \in Nat /\ UniverseSize \in Nat
      BY <2>p, ReviewAssumption
    <3>4. ~InvalidAddress(e)
      BY <3>2 DEF Finding
    <3>5. e.footprint # 0 => ~(EndAddress(e) > UniverseSize)
      BY <3>2, <3>4 DEF Finding
    <3>6. e.start \in 1 .. UniverseSize
      BY <3>3, <3>4 DEF InvalidAddress
    <3> QED BY <3>3, <3>5, <3>6 DEF EndAddress
  <2>2. ASSUME NEW i \in DOMAIN patch, NEW j \in DOMAIN patch, i < j
        PROVE  /\ SlotsOf(patch[i]) \cap SlotsOf(patch[j]) = {}
               /\ patch[i].number # patch[j].number \/ patch[i].number = unnumbered
    <3>1. ~Overlapping(patch[i], patch[j])
      <4> DEFINE only == Finding("overlap", {i, j}, patch[i].universe, Most(patch[i].start, patch[j].start),
                                 Least(EndAddress(patch[i]), EndAddress(patch[j])))
      <4>1. Overlapping(patch[i], patch[j]) => only \in DetectCollisions(patch)
        BY <2>2, OverlapFound
      <4>2. only.kind # "zero_footprint"
        BY DEF Finding
      <4> HIDE DEF only
      <4> QED BY <4>1, <4>2 DEF Errors
    <3>2. SlotsOf(patch[i]) \cap SlotsOf(patch[j]) = {}
      BY <2>p, <3>1, SharedSlots
    <3>3. ASSUME patch[i].number = patch[j].number, patch[i].number # unnumbered PROVE FALSE
      <4> DEFINE is == WithNumber(patch, patch[i].number)
                 twice == Finding("duplicate_fixture_number", is, 0, 0, 0)
      <4>1. i \in is /\ j \in is /\ i # j
        BY <2>2, <2>d, <3>3 DEF WithNumber
      <4>2. is \in {WithNumber(patch, patch[k].number) : k \in {n \in DOMAIN patch : patch[n].number # unnumbered}}
        BY <3>3
      <4> HIDE DEF is
      <4>3. is \notin {{k} : k \in DOMAIN patch}
        BY <4>1
      <4>4. twice \in NumberFindings(patch)
        BY <4>2, <4>3 DEF NumberFindings
      <4>5. twice.kind = "duplicate_fixture_number"
        BY DEF Finding
      <4> HIDE DEF twice
      <4> QED BY <4>4, <4>5 DEF Errors, DetectCollisions
    <3> QED BY <3>2, <3>3
  <2>3. \A i, j \in DOMAIN patch : i # j => i < j \/ j < i
    BY <2>d
  <2> QED BY <2>1, <2>2, <2>3
<1> QED BY <1>1, ReviewableHolds, PTL
-------------------------------------------------------------------------------
(* The comparison of an entry with its device.                                  *)
StoredSettings == {SettingUnknown, NotFittedSetting} \cup {SettingRead(v) : v \in SettingValues}
Intentions == {SettingUnknown} \cup {SettingRead(v) : v \in SettingValues}
Committable == Rig \cup {uncommitted}
EntryRecords ==
  [uid : Committable, own : [OwnFields -> SettingValues \cup {0}], foundUID : Committable,
   found : [Fields -> StoredSettings], intended : [Optional -> Intentions]]
PassRecords ==
  [uid : Committable, writes : SUBSET (Fields \X SettingValues), read : BOOLEAN,
   found : [Fields -> StoredSettings], stale : BOOLEAN]

DiffTypes ==
  /\ device \in [Rig -> [Fields -> SettingValues]]
  /\ entry \in EntryRecords
  /\ passes \in [Requests -> PassRecords]
  /\ since \subseteq Rig

\* A reading is d's own word, and as d is now set.
Honest(d, r) == \A f \in Fields : r[f] = NotFittedSetting => f \in Optional \ Fitted[d]
UpToDate(d, r, now) == \A f \in Fields : r[f].known => r[f].value = now[d][f]

\* The readings of an entry and of a request are of the device they are attributed to, and
\* of now unless it has been set since: what makes every line of the comparison true.
DiffKnows ==
  /\ entry.foundUID \in Rig =>
       /\ Honest(entry.foundUID, entry.found)
       /\ entry.foundUID \notin since => UpToDate(entry.foundUID, entry.found, device)
  /\ \A q \in Requests :
       /\ passes[q].writes # {} \/ passes[q].read => passes[q].uid \in Rig
       /\ passes[q].read =>
            /\ Honest(passes[q].uid, passes[q].found)
            /\ ~passes[q].stale => UpToDate(passes[q].uid, passes[q].found, device)

DiffInv == DiffTypes /\ DiffKnows

\* The three settings there are.
LEMMA SettingKinds ==
  /\ ~SettingUnknown.known /\ SettingUnknown.state = "unknown"
  /\ ~NotFittedSetting.known /\ NotFittedSetting.state = "not_fitted"
  /\ \A v : SettingRead(v).known /\ SettingRead(v).state = "read" /\ SettingRead(v).value = v
  /\ SettingUnknown.known \in BOOLEAN /\ NotFittedSetting.known \in BOOLEAN
  /\ \A v : SettingRead(v).known \in BOOLEAN
<1>1. /\ ~SettingUnknown.known /\ SettingUnknown.state = "unknown"
      /\ ~NotFittedSetting.known /\ NotFittedSetting.state = "not_fitted"
      /\ \A v : SettingRead(v).known /\ SettingRead(v).state = "read" /\ SettingRead(v).value = v
  BY DEF SettingUnknown, NotFittedSetting, SettingRead
<1>2. SettingUnknown.known \in BOOLEAN /\ NotFittedSetting.known \in BOOLEAN /\ \A v : SettingRead(v).known \in BOOLEAN
  BY DEF SettingUnknown, NotFittedSetting, SettingRead
<1> QED BY <1>1, <1>2

LEMMA SettingIs ==
  ASSUME NEW s \in StoredSettings
  PROVE  /\ s.known \in BOOLEAN
         /\ s.known <=> s.state = "read"
         /\ s.known => s.value \in SettingValues
         /\ s.state = "not_fitted" <=> s = NotFittedSetting
         /\ NormalizeSettingState(s).state = s.state
<1>1. /\ NormalizeSettingState(SettingUnknown).state = "unknown"
      /\ NormalizeSettingState(NotFittedSetting).state = "not_fitted"
      /\ \A v : NormalizeSettingState(SettingRead(v)).state = "read"
  BY DEF SettingUnknown, NotFittedSetting, SettingRead, NormalizeSettingState
<1> QED BY <1>1, SettingKinds DEF StoredSettings

LEMMA SettingsAre ==
  /\ Intentions \subseteq StoredSettings
  /\ SettingUnknown \in StoredSettings /\ ~SettingUnknown.known /\ SettingUnknown # NotFittedSetting
  /\ NotFittedSetting \in StoredSettings /\ ~NotFittedSetting.known
  /\ \A v \in SettingValues : /\ SettingRead(v) \in Intentions /\ SettingRead(v).known
                              /\ SettingRead(v).value = v /\ SettingRead(v) # NotFittedSetting
<1>1. SettingUnknown # NotFittedSetting /\ \A v : SettingRead(v) # NotFittedSetting
  BY SettingKinds
<1> QED BY <1>1, SettingKinds DEF StoredSettings, Intentions

LEMMA EmptyIsHonest ==
  /\ EmptyAsFound \in [Fields -> StoredSettings]
  /\ \A d : Honest(d, EmptyAsFound) /\ \A now : UpToDate(d, EmptyAsFound, now)
  BY SettingsAre DEF EmptyAsFound, Honest, UpToDate

LEMMA DiffInvInit == DiffInit => DiffInv
<1> SUFFICES ASSUME DiffInit PROVE DiffInv
  OBVIOUS
<1>1. PICK own \in [OwnFields -> SettingValues \cup {0}], s \in FromShowFile :
        entry = [uid |-> uncommitted, own |-> own, foundUID |-> uncommitted, found |-> EmptyAsFound,
                 intended |-> [f \in Optional |-> NormalizeSettingState(s)]]
  BY DEF DiffInit
<1>2. NormalizeSettingState(s) \in Intentions
  <2>1. CASE s = [known |-> FALSE, value |-> 0, state |-> ""]
    <3>0. ~s.known /\ s.state # "not_fitted"
      BY <2>1
    <3>2. NormalizeSettingState(s) = [s EXCEPT !.state = "unknown"]
      BY <3>0 DEF NormalizeSettingState
    <3>1. NormalizeSettingState(s) = SettingUnknown
      BY <2>1, <3>2 DEF SettingUnknown
    <3> QED BY <3>1, SettingsAre DEF Intentions
  <2>2. CASE \E v \in SettingValues : s = [known |-> TRUE, value |-> v, state |-> ""]
    <3>1. PICK v \in SettingValues : s = [known |-> TRUE, value |-> v, state |-> ""]
      BY <2>2
    <3>2. s.known
      BY <3>1
    <3>3. NormalizeSettingState(s) = [s EXCEPT !.state = "read"]
      BY <3>2 DEF NormalizeSettingState
    <3>4. NormalizeSettingState(s) = SettingRead(v)
      BY <3>1, <3>3 DEF SettingRead
    <3> QED BY <3>4, SettingsAre
  <2> QED BY <2>1, <2>2 DEF FromShowFile
<1>3. entry \in EntryRecords
  BY <1>1, <1>2, EmptyIsHonest DEF EntryRecords, Committable
<1>4. NoPass \in PassRecords /\ NoPass.writes = {} /\ ~NoPass.read
  BY EmptyIsHonest DEF NoPass, Pass, PassRecords, Committable
<1>5. DiffTypes
  BY <1>3, <1>4 DEF DiffTypes, DiffInit
<1>6. entry.foundUID \notin Rig
  BY <1>1, DiffAssumption
<1>7. DiffKnows
  BY <1>4, <1>6 DEF DiffKnows, DiffInit
<1> QED BY <1>5, <1>7 DEF DiffInv

\* What a reading may be, of a device that is there.
LEMMA ReadingsAreTrue ==
  ASSUME DiffTypes, NEW d \in Rig, NEW r \in Readings(d)
  PROVE  r \in [Fields -> StoredSettings] /\ Honest(d, r) /\ UpToDate(d, r, device)
<1>1. r \in [Fields -> StoredSettings]
  BY DEF Readings, StoredSettings
<1>2. PICK listed \in BOOLEAN : \A f \in Fields : r[f] \in Answer(d, f, listed)
  BY DEF Readings
<1>3. ASSUME NEW f \in Fields
      PROVE  /\ r[f] = NotFittedSetting => f \in Optional \ Fitted[d]
             /\ r[f].known => r[f].value = device[d][f]
  <2>1. device[d][f] \in SettingValues
    BY DEF DiffTypes
  <2>2. CASE listed /\ f \in Optional \ Fitted[d]
    BY <1>2, <2>2, SettingsAre DEF Answer
  <2>3. CASE ~(listed /\ f \in Optional \ Fitted[d])
    <3>1. r[f] \in {SettingUnknown, SettingRead(device[d][f])}
      BY <1>2, <2>3 DEF Answer
    <3> QED BY <2>1, <3>1, SettingsAre
  <2> QED BY <2>2, <2>3
<1> QED BY <1>1, <1>3 DEF Honest, UpToDate

\* Only the entry changes, and what it has found is nothing, or what it had found.
LEMMA EntryMoves ==
  ASSUME DiffInv, UNCHANGED <<device, since>>, entry' \in EntryRecords, UNCHANGED passes,
         \/ entry'.foundUID = uncommitted
         \/ entry'.foundUID = entry.foundUID /\ entry'.found = entry.found
  PROVE  DiffInv'
<1>1. DiffTypes'
  BY DEF DiffInv, DiffTypes
<1>3. uncommitted \notin Rig
  BY DiffAssumption
<1>4. DiffKnows'
  BY <1>3 DEF DiffInv, DiffKnows, UpToDate, Honest
<1> QED BY <1>1, <1>4 DEF DiffInv

LEMMA PassStep ==
  ASSUME DiffInv, UNCHANGED <<entry, device, since>>, NEW q \in Requests, NEW x \in PassRecords,
         passes' = [passes EXCEPT ![q] = x],
         x.writes # {} \/ x.read => x.uid \in Rig,
         x.read => Honest(x.uid, x.found) /\ (~x.stale => UpToDate(x.uid, x.found, device))
  PROVE  DiffInv'
<1>1. DiffTypes'
  BY DEF DiffInv, DiffTypes
<1>2. \A p \in Requests : passes'[p] = IF p = q THEN x ELSE passes[p]
  BY DEF DiffInv, DiffTypes
<1>3. DiffKnows'
  BY <1>2 DEF DiffInv, DiffKnows, UpToDate, Honest
<1> QED BY <1>1, <1>3 DEF DiffInv

\* A device is set: what was read off it, stored or not, is out of date.
LEMMA SetStep ==
  ASSUME DiffInv, NEW d \in Rig, NEW f \in Fields, NEW v \in SettingValues,
         NEW ps \in [Requests -> PassRecords],
         \A q \in Requests : /\ ps[q].writes \subseteq passes[q].writes
                             /\ ps[q].uid = passes[q].uid /\ ps[q].read = passes[q].read
                             /\ ps[q].found = passes[q].found /\ ps[q].stale = passes[q].stale,
         Sets(d, f, v), passes' = Outdated(ps, d), UNCHANGED entry
  PROVE  DiffInv'
<1>1. /\ device' = [device EXCEPT ![d][f] = v]
      /\ since' = since \cup {d}
  BY DEF Sets
<1>2. device' \in [Rig -> [Fields -> SettingValues]] /\ \A o \in Rig \ {d} : device'[o] = device[o]
  BY <1>1 DEF DiffInv, DiffTypes
<1>3. \A q \in Requests :
        /\ passes'[q] \in PassRecords
        /\ passes'[q].writes \subseteq passes[q].writes
        /\ passes'[q].uid = passes[q].uid /\ passes'[q].read = passes[q].read
        /\ passes'[q].found = passes[q].found
        /\ ~passes'[q].stale /\ passes'[q].read => ~passes[q].stale /\ passes[q].uid # d
  <2> SUFFICES ASSUME NEW q \in Requests
               PROVE  /\ passes'[q] \in PassRecords
                      /\ passes'[q].writes \subseteq passes[q].writes
                      /\ passes'[q].uid = passes[q].uid /\ passes'[q].read = passes[q].read
                      /\ passes'[q].found = passes[q].found
                      /\ ~passes'[q].stale /\ passes'[q].read => ~passes[q].stale /\ passes[q].uid # d
    OBVIOUS
  <2>1. /\ ps[q] \in PassRecords /\ ps[q].writes \subseteq passes[q].writes
        /\ ps[q].uid = passes[q].uid /\ ps[q].read = passes[q].read
        /\ ps[q].found = passes[q].found /\ ps[q].stale = passes[q].stale
    OBVIOUS
  <2>2. passes'[q] = IF ps[q].uid = d /\ ps[q].read THEN [ps[q] EXCEPT !.stale = TRUE] ELSE ps[q]
    BY DEF Outdated
  <2>3. CASE ps[q].uid = d /\ ps[q].read
    <3>1. passes'[q] = [ps[q] EXCEPT !.stale = TRUE]
      BY <2>2, <2>3
    <3>2. /\ passes'[q] \in PassRecords /\ passes'[q].writes = ps[q].writes
          /\ passes'[q].uid = ps[q].uid /\ passes'[q].read = ps[q].read
          /\ passes'[q].found = ps[q].found
      BY <2>1, <3>1 DEF PassRecords
    <3>3. passes'[q].stale
      BY <2>1, <3>1 DEF PassRecords
    <3> QED BY <2>1, <3>2, <3>3
  <2>4. CASE ~(ps[q].uid = d /\ ps[q].read)
    <3>1. passes'[q] = ps[q]
      BY <2>2, <2>4
    <3>2. ps[q].read \in BOOLEAN /\ ps[q].stale \in BOOLEAN
      BY <2>1 DEF PassRecords
    <3>3. ~ps[q].stale /\ ps[q].read => ~passes[q].stale /\ passes[q].uid # d
      BY <2>1, <2>4, <3>2
    <3> QED BY <2>1, <3>1, <3>3
  <2> QED BY <2>3, <2>4
<1>4. DiffTypes'
  <2>1. passes' \in [Requests -> PassRecords]
    BY <1>3 DEF Outdated
  <2>2. since' \subseteq Rig
    BY <1>1 DEF DiffInv, DiffTypes
  <2> QED BY <1>2, <2>1, <2>2 DEF DiffInv, DiffTypes
<1>5. \A o \in Rig \ {d} : \A r : UpToDate(o, r, device) => UpToDate(o, r, device')
  BY <1>2 DEF UpToDate
<1>6. DiffKnows'
  <2>1. entry'.foundUID \in Rig =>
          /\ Honest(entry'.foundUID, entry'.found)
          /\ entry'.foundUID \notin since' => UpToDate(entry'.foundUID, entry'.found, device')
    BY <1>1, <1>5 DEF DiffInv, DiffKnows
  <2>2. ASSUME NEW q \in Requests
        PROVE  /\ passes'[q].writes # {} \/ passes'[q].read => passes'[q].uid \in Rig
               /\ passes'[q].read =>
                    /\ Honest(passes'[q].uid, passes'[q].found)
                    /\ ~passes'[q].stale => UpToDate(passes'[q].uid, passes'[q].found, device')
    BY <1>3, <1>5 DEF DiffInv, DiffKnows
  <2> QED BY <2>1, <2>2 DEF DiffKnows, Honest
<1> QED BY <1>4, <1>6 DEF DiffInv

LEMMA PassRecordIs ==
  ASSUME NEW d \in Committable, NEW ws \in SUBSET (Fields \X SettingValues)
  PROVE  /\ Pass(d, ws) \in PassRecords /\ Pass(d, ws).uid = d
         /\ Pass(d, ws).writes = ws /\ ~Pass(d, ws).read
         /\ NoPass \in PassRecords /\ NoPass.writes = {} /\ ~NoPass.read
  BY EmptyIsHonest DEF Pass, NoPass, PassRecords, Committable

LEMMA EntryKeeps ==
  ASSUME DiffTypes, NEW d \in Committable
  PROVE  /\ [entry EXCEPT !.uid = d] \in EntryRecords
         /\ [entry EXCEPT !.uid = d].foundUID = entry.foundUID
         /\ [entry EXCEPT !.uid = d].found = entry.found
         /\ WithoutDevice(entry) \in EntryRecords /\ WithoutDevice(entry).foundUID = uncommitted
         /\ [WithoutDevice(entry) EXCEPT !.uid = d] \in EntryRecords
         /\ [WithoutDevice(entry) EXCEPT !.uid = d].foundUID = uncommitted
<1>1. entry \in EntryRecords /\ uncommitted \in Committable /\ EmptyAsFound \in [Fields -> StoredSettings]
  BY EmptyIsHonest DEF DiffTypes, Committable
<1>2. WithoutDevice(entry) \in EntryRecords /\ WithoutDevice(entry).foundUID = uncommitted
  BY <1>1 DEF WithoutDevice, EntryRecords
<1>3. /\ [WithoutDevice(entry) EXCEPT !.uid = d] \in EntryRecords
      /\ [WithoutDevice(entry) EXCEPT !.uid = d].foundUID = uncommitted
  BY <1>2 DEF EntryRecords
<1> QED BY <1>1, <1>2, <1>3 DEF EntryRecords

\* What the patch wants of a field that it lets be emptied.
LEMMA WantedIsSetting ==
  ASSUME DiffTypes, NEW f \in Fields, ~PushRefused(entry, f)
  PROVE  IntendedValue(entry, f) \in SettingValues
<1>1. f \in PushableFields /\ IntendedKnown(entry, f)
  BY DEF PushRefused
<1>2. f # "universe"
  BY <1>1 DEF PushableFields
<1>3. CASE f \in OwnFields
  <2>1. f = "startAddress"
    BY <1>2, <1>3, DiffAssumption
  <2>2. entry.own[f] # 0
    BY <1>1, <2>1 DEF IntendedKnown
  <2>3. entry.own[f] \in SettingValues \cup {0}
    BY <1>3 DEF DiffTypes, EntryRecords
  <2> QED BY <1>3, <2>2, <2>3 DEF IntendedValue
<1>4. CASE f \notin OwnFields
  <2>1. f \in Optional
    BY <1>4 DEF Fields
  <2>2. f \notin {"startAddress", "universe"}
    BY <2>1, DiffAssumption
  <2>3. entry.intended[f].known
    BY <1>1, <2>2 DEF IntendedKnown
  <2>4. entry.intended[f] \in Intentions
    BY <2>1 DEF DiffTypes, EntryRecords
  <2>5. IntendedValue(entry, f) = entry.intended[f].value
    BY <1>4 DEF IntendedValue
  <2> QED BY <2>3, <2>4, <2>5, SettingIs, SettingsAre
<1> QED BY <1>3, <1>4

LEMMA StartKeeps ==
  ASSUME DiffInv, NEW q \in Requests, NEW d \in Rig, NEW ws \in SUBSET (Fields \X SettingValues),
         StartsPass(q, d, ws), UNCHANGED <<entry, device, since>>
  PROVE  DiffInv'
<1>1. d \in Committable
  BY DEF Committable
<1>2. Pass(d, ws) \in PassRecords /\ Pass(d, ws).uid = d /\ ~Pass(d, ws).read
  BY <1>1, PassRecordIs
<1>3. passes' = [passes EXCEPT ![q] = Pass(d, ws)]
  BY DEF StartsPass
<1> HIDE DEF Pass
<1> QED BY <1>2, <1>3, PassStep

LEMMA RequestKeepsDiff ==
  ASSUME DiffInv, NEW q \in Requests, RequestStep(q)
  PROVE  DiffInv'
<1>t. DiffTypes /\ passes[q] \in PassRecords /\ entry.uid \in Committable
  BY DEF DiffInv, DiffTypes, EntryRecords
<1>1. CASE Commits(q)
  <2>1. PICK d \in Rig : StartsPass(q, d, {}) /\ entry' = [WithoutDevice(entry) EXCEPT !.uid = d]
    BY <1>1 DEF Commits
  <2>2. UNCHANGED <<device, since>>
    BY <1>1 DEF Commits
  <2>3. entry' \in EntryRecords /\ entry'.foundUID = uncommitted
    BY <1>t, <2>1, EntryKeeps DEF Committable
  <2>4. Pass(d, {}) \in PassRecords /\ Pass(d, {}).uid = d /\ Pass(d, {}).writes = {} /\ ~Pass(d, {}).read
    BY PassRecordIs DEF Committable
  <2>5. passes' = [passes EXCEPT ![q] = Pass(d, {})]
    BY <2>1 DEF StartsPass
  <2>6. \A p \in Requests : passes'[p] = IF p = q THEN Pass(d, {}) ELSE passes[p]
    BY <1>t, <2>5 DEF DiffTypes
  <2>7. DiffTypes'
    BY <1>t, <2>2, <2>3, <2>4, <2>5 DEF DiffTypes
  <2>8. entry'.foundUID \notin Rig
    BY <2>3, DiffAssumption
  <2>9. DiffKnows'
    BY <2>2, <2>4, <2>6, <2>8 DEF DiffInv, DiffKnows, Honest, UpToDate
  <2> QED BY <2>7, <2>9 DEF DiffInv
<1>2. CASE Rereads(q)
  <2>1. entry.uid \in Rig /\ StartsPass(q, entry.uid, {}) /\ UNCHANGED <<entry, device, since>>
    BY <1>t, <1>2 DEF Rereads, Committable
  <2> QED BY <2>1, StartKeeps
<1>3. CASE Pushes(q)
  <2>1. PICK f \in Fields :
          StartsPass(q, entry.uid, {<<g, IntendedValue(entry, g)>> : g \in {h \in {f} : ~PushRefused(entry, h)}})
    BY <1>3 DEF Pushes
  <2>2. entry.uid \in Rig /\ UNCHANGED <<entry, device, since>>
    BY <1>t, <1>3 DEF Pushes, Committable
  <2>3. {<<g, IntendedValue(entry, g)>> : g \in {h \in {f} : ~PushRefused(entry, h)}}
          \in SUBSET (Fields \X SettingValues)
    BY <1>t, WantedIsSetting
  <2> QED BY <2>1, <2>2, <2>3, StartKeeps
<1>4. CASE PushField(q)
  <2> DEFINE d == passes[q].uid
             emptied == [passes EXCEPT ![q].writes = {}]
  <2>1. d \in Rig /\ UNCHANGED entry
    BY <1>4 DEF PushField, DiffInv, DiffKnows
  <2>2. [passes[q] EXCEPT !.writes = {}] \in PassRecords
    BY <1>t DEF PassRecords
  <2>3. emptied = [passes EXCEPT ![q] = [passes[q] EXCEPT !.writes = {}]]
    BY <1>t DEF DiffTypes
  <2>4. emptied \in [Requests -> PassRecords]
    BY <1>t, <2>2, <2>3 DEF DiffTypes
  <2>5. ASSUME NEW p \in Requests
        PROVE  /\ emptied[p].writes \subseteq passes[p].writes
               /\ emptied[p].uid = passes[p].uid /\ emptied[p].read = passes[p].read
               /\ emptied[p].found = passes[p].found /\ emptied[p].stale = passes[p].stale
    <3>1. CASE p = q
      BY <1>t, <2>3, <3>1 DEF PassRecords, DiffTypes
    <3>2. CASE p # q
      BY <1>t, <2>3, <3>2 DEF DiffTypes
    <3> QED BY <3>1, <3>2
  <2>6. CASE passes' = emptied /\ UNCHANGED <<device, since>>
    <3>1. DiffTypes'
      BY <1>t, <2>1, <2>4, <2>6 DEF DiffTypes
    <3>2. DiffKnows'
      BY <2>1, <2>5, <2>6 DEF DiffInv, DiffKnows, Honest, UpToDate
    <3> QED BY <3>1, <3>2 DEF DiffInv
  <2>7. CASE \E w \in passes[q].writes :
               /\ w[1] \in OwnFields \cup Fitted[d]
               /\ Sets(d, w[1], w[2])
               /\ passes' = Outdated(emptied, d)
    <3>1. PICK w \in passes[q].writes : Sets(d, w[1], w[2]) /\ passes' = Outdated(emptied, d)
      BY <2>7
    <3>2. w \in Fields \X SettingValues
      BY <1>t DEF PassRecords
    <3>3. w[1] \in Fields /\ w[2] \in SettingValues
      BY <3>2
    <3> HIDE DEF emptied, d
    <3> QED BY <2>1, <2>4, <2>5, <3>1, <3>3, SetStep
  <2> QED BY <1>4, <2>6, <2>7 DEF PushField
<1>5. CASE ReadAsFound(q)
  <2>1. passes[q].uid \in Rig /\ UNCHANGED <<entry, device, since>>
    BY <1>t, <1>5 DEF ReadAsFound, PassRecords, Committable
  <2>2. CASE passes' = [passes EXCEPT ![q] = NoPass]
    <3>1. NoPass \in PassRecords /\ NoPass.writes = {} /\ ~NoPass.read
      BY <1>t, PassRecordIs
    <3> QED BY <2>1, <2>2, <3>1, PassStep
  <2>3. CASE \E r \in Readings(passes[q].uid) :
               passes' = [passes EXCEPT ![q].read = TRUE, ![q].found = r]
    <3>1. PICK r \in Readings(passes[q].uid) :
            passes' = [passes EXCEPT ![q].read = TRUE, ![q].found = r]
      BY <2>3
    <3> DEFINE x == [passes[q] EXCEPT !.read = TRUE, !.found = r]
    <3>2. r \in [Fields -> StoredSettings] /\ Honest(passes[q].uid, r) /\ UpToDate(passes[q].uid, r, device)
      BY <1>t, <2>1, ReadingsAreTrue
    <3>3. x \in PassRecords /\ x.uid = passes[q].uid /\ x.found = r
      BY <1>t, <3>2 DEF PassRecords
    <3>4. passes' = [passes EXCEPT ![q] = x]
      BY <1>t, <3>1 DEF DiffTypes
    <3> HIDE DEF x
    <3> QED BY <2>1, <3>2, <3>3, <3>4, PassStep
  <2> QED BY <1>5, <2>2, <2>3 DEF ReadAsFound
<1>6. CASE StoresReadings(q)
  <2> DEFINE x == passes[q]
  <2>1. /\ x.read /\ passes' = [passes EXCEPT ![q] = NoPass] /\ UNCHANGED device
        /\ IF entry.uid # x.uid THEN UNCHANGED <<entry, since>>
           ELSE /\ entry' = [entry EXCEPT !.foundUID = x.uid, !.found = x.found]
                /\ since' = IF x.stale THEN since \cup {x.uid} ELSE since \ {x.uid}
    BY <1>6 DEF StoresReadings
  <2>2. /\ x.uid \in Rig /\ Honest(x.uid, x.found) /\ (~x.stale => UpToDate(x.uid, x.found, device))
        /\ x.found \in [Fields -> StoredSettings]
    BY <1>t, <2>1 DEF DiffInv, DiffKnows, PassRecords
  <2>3. NoPass \in PassRecords /\ NoPass.writes = {} /\ ~NoPass.read
    BY <1>t, PassRecordIs
  <2>4. CASE entry.uid # x.uid
    <3>1. UNCHANGED <<entry, device, since>>
      BY <2>1, <2>4
    <3> QED BY <2>1, <2>3, <3>1, PassStep
  <2>5. CASE entry.uid = x.uid
    <3>1. /\ entry' = [entry EXCEPT !.foundUID = x.uid, !.found = x.found]
          /\ since' = IF x.stale THEN since \cup {x.uid} ELSE since \ {x.uid}
      BY <2>1, <2>5
    <3>2. entry' \in EntryRecords /\ entry'.foundUID = x.uid /\ entry'.found = x.found
      BY <1>t, <2>2, <3>1 DEF DiffTypes, EntryRecords, Committable
    <3>3. \A p \in Requests : passes'[p] = IF p = q THEN NoPass ELSE passes[p]
      BY <1>t, <2>1 DEF DiffTypes
    <3>4. since' \subseteq Rig /\ (x.uid \notin since' => ~x.stale)
      BY <1>t, <2>2, <3>1 DEF DiffTypes
    <3>5. DiffTypes'
      BY <1>t, <2>1, <2>3, <3>2, <3>4 DEF DiffTypes
    <3>6. DiffKnows'
      BY <2>1, <2>2, <2>3, <3>2, <3>3, <3>4 DEF DiffInv, DiffKnows, Honest, UpToDate
    <3> QED BY <3>5, <3>6 DEF DiffInv
  <2> QED BY <2>4, <2>5
<1> QED BY <1>1, <1>2, <1>3, <1>4, <1>5, <1>6 DEF RequestStep

LEMMA DiffInvStep ==
  ASSUME DiffInv, [DiffNext]_diffVars
  PROVE  DiffInv'
<1>t. DiffTypes /\ entry \in EntryRecords
  BY DEF DiffInv, DiffTypes
<1>1. CASE ConfirmsMatch
  <2>1. PICK d \in Rig : entry' = [entry EXCEPT !.uid = d]
    BY <1>1 DEF ConfirmsMatch
  <2>2. entry' \in EntryRecords /\ entry'.foundUID = entry.foundUID /\ entry'.found = entry.found
    BY <1>t, <2>1, EntryKeeps DEF Committable
  <2> QED BY <1>1, <2>2, EntryMoves DEF ConfirmsMatch
<1>2. CASE Decommits
  <2>1. entry' \in EntryRecords /\ entry'.foundUID = uncommitted
    BY <1>t, <1>2, EntryKeeps DEF Decommits, Committable
  <2> QED BY <1>2, <2>1, EntryMoves DEF Decommits
<1>3. CASE Adopts
  <2>1. PICK f \in Optional :
          /\ entry.found[f].known
          /\ entry' = [entry EXCEPT !.intended[f] = SettingRead(entry.found[f].value)]
    BY <1>3 DEF Adopts
  <2>2. entry.found[f] \in StoredSettings
    BY <1>t DEF EntryRecords, Fields
  <2>3. SettingRead(entry.found[f].value) \in Intentions
    BY <2>1, <2>2, SettingIs, SettingsAre
  <2>4. entry' \in EntryRecords /\ entry'.foundUID = entry.foundUID /\ entry'.found = entry.found
    BY <1>t, <2>1, <2>3 DEF EntryRecords
  <2> QED BY <1>3, <2>4, EntryMoves DEF Adopts
<1>4. CASE SetByHand
  <2>0. PICK d \in Rig, v \in SettingValues :
          \E f \in OwnFields \cup Fitted[d] : Sets(d, f, v) /\ passes' = Outdated(passes, d)
    BY <1>4 DEF SetByHand
  <2>1. PICK f \in OwnFields \cup Fitted[d] :
          Sets(d, f, v) /\ passes' = Outdated(passes, d) /\ UNCHANGED entry
    BY <1>4, <2>0 DEF SetByHand
  <2>2. f \in Fields
    BY <2>1, DiffAssumption DEF Fields
  <2>3. passes \in [Requests -> PassRecords]
    BY <1>t DEF DiffTypes
  <2> QED BY <2>1, <2>2, <2>3, SetStep
<1>5. CASE \E q \in Requests : RequestStep(q)
  BY <1>5, RequestKeepsDiff
<1>6. CASE UNCHANGED diffVars
  BY <1>6 DEF diffVars, DiffInv, DiffTypes, DiffKnows, Honest, UpToDate
<1> QED BY <1>1, <1>2, <1>3, <1>4, <1>5, <1>6 DEF DiffNext

LEMMA DiffInvHolds == DiffSpec => []DiffInv
  BY DiffInvInit, DiffInvStep, PTL DEF DiffSpec

\* What a line says of the field, from the reading it rests on.
LEMMA LineIs ==
  ASSUME DiffInv, NEW f \in Fields
  PROVE  /\ AsFound(entry)[f] \in StoredSettings
         /\ AsFound(entry)[f].state # "unknown" => entry.uid \in Rig /\ entry.foundUID = entry.uid
                                                   /\ AsFound(entry) = entry.found
         /\ DiffLine(entry, f) = "not_fitted" => AsFound(entry)[f] = NotFittedSetting
         /\ DiffLine(entry, f) \in {"match", "differs"} =>
              /\ AsFound(entry)[f].known /\ IntendedKnown(entry, f)
              /\ DiffLine(entry, f) = "match" <=> IntendedValue(entry, f) = AsFound(entry)[f].value
<1>1. entry \in EntryRecords
  BY DEF DiffInv, DiffTypes
<1>2. AsFound(entry)[f] \in StoredSettings
  BY <1>1, EmptyIsHonest DEF AsFound, EntryRecords
<1>3. AsFound(entry)[f].state # "unknown" => ReadFromUID(entry) /\ AsFound(entry) = entry.found
  BY SettingsAre DEF AsFound, EmptyAsFound, SettingUnknown
<1>4. ReadFromUID(entry) => entry.uid \in Rig /\ entry.foundUID = entry.uid
  BY <1>1 DEF ReadFromUID, EntryRecords, Committable
<1> DEFINE found == AsFound(entry)[f]
           equal == IntendedValue(entry, f) = found.value
<1>5. DiffLine(entry, f) = Classify(found, IntendedKnown(entry, f), equal)
  BY DEF DiffLine
<1> HIDE DEF found, equal
<1>6. Classify(found, IntendedKnown(entry, f), equal) = "not_fitted" => found.state = "not_fitted"
  BY DEF Classify
<1>7. Classify(found, IntendedKnown(entry, f), equal) \in {"match", "differs"} =>
        /\ found.known /\ IntendedKnown(entry, f)
        /\ Classify(found, IntendedKnown(entry, f), equal) = "match" <=> equal
  BY DEF Classify
<1> QED BY <1>2, <1>3, <1>4, <1>5, <1>6, <1>7, SettingIs DEF found, equal

\* "Not fitted" is never inferred: it is the committed device's own word.
LEMMA FittedIsKnown == DiffInv => NotFittedIsTrue
<1> SUFFICES ASSUME DiffInv, NEW f \in Fields, DiffLine(entry, f) = "not_fitted"
             PROVE  f \notin OwnFields \cup Fitted[entry.uid]
  BY DEF NotFittedIsTrue
<1>1. AsFound(entry)[f] = NotFittedSetting
  BY LineIs
<1>2. NotFittedSetting.state # "unknown"
  BY DEF NotFittedSetting
<1>3. entry.uid \in Rig /\ entry.foundUID = entry.uid /\ AsFound(entry) = entry.found
  BY <1>1, <1>2, LineIs
<1>4. Honest(entry.uid, entry.found)
  BY <1>3 DEF DiffInv, DiffKnows
<1>5. f \in Optional \ Fitted[entry.uid]
  BY <1>1, <1>3, <1>4 DEF Honest
<1> QED BY <1>5, DiffAssumption

LEMMA LinesAreTrue == DiffInv => DiffIsTrue
<1> SUFFICES ASSUME DiffInv, NEW f \in Fields, entry.uid # uncommitted, entry.uid \notin since
             PROVE  /\ DiffLine(entry, f) = "match" => device[entry.uid][f] = IntendedValue(entry, f)
                    /\ DiffLine(entry, f) = "differs" => device[entry.uid][f] # IntendedValue(entry, f)
  BY DEF DiffIsTrue
<1>1. ASSUME DiffLine(entry, f) \in {"match", "differs"}
      PROVE  AsFound(entry)[f].value = device[entry.uid][f]
  <2>1. AsFound(entry)[f].known /\ AsFound(entry)[f] \in StoredSettings
    BY <1>1, LineIs
  <2>2. AsFound(entry)[f].state # "unknown"
    BY <2>1, SettingIs, SettingKinds
  <2>3. entry.uid \in Rig /\ entry.foundUID = entry.uid /\ AsFound(entry) = entry.found
    BY <2>2, LineIs
  <2>4. UpToDate(entry.uid, entry.found, device)
    BY <2>3 DEF DiffInv, DiffKnows
  <2> QED BY <2>1, <2>3, <2>4 DEF UpToDate
<1> QED BY <1>1, LineIs

LEMMA PushesAreHonoured == DiffInv => ApplyIsHonoured
<1> SUFFICES ASSUME DiffInv PROVE ApplyIsHonoured
  OBVIOUS
<1>1. entry \in EntryRecords
  BY DEF DiffInv, DiffTypes
<1>2. ASSUME NEW f \in Fields PROVE entry.found[f].known = (entry.found[f].state = "read")
  <2>1. entry.found[f] \in StoredSettings
    BY <1>1 DEF EntryRecords
  <2>2. entry.found[f].known \in BOOLEAN /\ (entry.found[f].known <=> entry.found[f].state = "read")
    BY <2>1, SettingIs
  <2> QED BY <2>2
<1>3. ASSUME NEW f \in Optional PROVE entry.intended[f].known = (entry.intended[f].state = "read")
  <2>1. entry.intended[f] \in StoredSettings
    BY <1>1, SettingsAre DEF EntryRecords
  <2>2. entry.intended[f].known \in BOOLEAN /\ (entry.intended[f].known <=> entry.intended[f].state = "read")
    BY <2>1, SettingIs
  <2> QED BY <2>2
<1>4. ASSUME NEW f \in PushableFields,
             \/ DiffLine(entry, f) = "differs"
             \/ entry.uid # uncommitted /\ f \in OwnFields \cup Fitted[entry.uid] /\ IntendedKnown(entry, f),
             PushRefused(entry, f)
      PROVE  FALSE
  <2>f. f \in Fields /\ entry.found[f] \in StoredSettings
    BY <1>1 DEF PushableFields, EntryRecords
  <2>1. IntendedKnown(entry, f)
    BY <1>4, <2>f, LineIs
  <2>2. ReadFromUID(entry) /\ StateOf(entry, f) = "not_fitted"
    BY <1>4, <2>1 DEF PushRefused
  <2>3. entry.found[f] = NotFittedSetting
    BY <2>f, <2>2, SettingIs DEF StateOf
  <2>4. entry.uid \in Rig /\ entry.foundUID = entry.uid /\ AsFound(entry) = entry.found
    BY <1>1, <2>2 DEF ReadFromUID, AsFound, EntryRecords, Committable
  <2>5. f \in Optional \ Fitted[entry.uid]
    BY <2>f, <2>3, <2>4 DEF DiffInv, DiffKnows, Honest
  <2>6. DiffLine(entry, f) # "differs"
    BY <2>f, <2>3, <2>4, LineIs, SettingKinds
  <2> QED BY <1>4, <2>5, <2>6, DiffAssumption
<1> QED BY <1>2, <1>3, <1>4 DEF ApplyIsHonoured

\* Whatever requests are in progress, and whoever sets a device meanwhile, a line of the
\* comparison is true of the committed device and the push writes what may be emptied.
THEOREM ComparisonIsTrue == DiffSpec => [](NotFittedIsTrue /\ DiffIsTrue /\ ApplyIsHonoured)
  BY DiffInvHolds, FittedIsKnown, LinesAreTrue, PushesAreHonoured, PTL
-------------------------------------------------------------------------------
(* The order of a walk.                                                         *)
Walkable == candidates \subseteq WalkDevices /\ \A x, y \in candidates : x.uid = y.uid => x = y

LEMMA WalkableHolds == WalkOrderSpec => []Walkable
<1>1. WalkOrderInit => Walkable
  BY DEF WalkOrderInit, Walkable
<1>2. Walkable /\ [WalkOrderNext]_candidates => Walkable'
  <2> SUFFICES ASSUME Walkable, [WalkOrderNext]_candidates PROVE Walkable'
    OBVIOUS
  <2>1. CASE Discovered
    BY <2>1 DEF Walkable, Discovered
  <2> QED BY <2>1 DEF WalkOrderNext, Walkable
<1> QED BY <1>1, <1>2, PTL DEF WalkOrderSpec

\* What Less compares, and nothing else of a device.
Comparable(x) ==
  /\ x.uid \in Nat /\ x.model \in Nat /\ x.port \in Nat /\ x.address \in Nat /\ x.seen \in Nat
  /\ HasAddress(x) \in BOOLEAN

LEMMA DevicesCompare == \A x \in WalkDevices : Comparable(x)
  BY WalkAssumption DEF Comparable, HasAddress

\* Each key decides between two devices of different UIDs, one way round.
LEMMA AddressDecides ==
  ASSUME NEW x, NEW y, Comparable(x), Comparable(y), NEW desc \in BOOLEAN
  PROVE  /\ x.uid # y.uid => (LessByAddress(x, y, desc) <=> ~LessByAddress(y, x, desc))
         /\ HasAddress(x) /\ ~HasAddress(y) => LessByAddress(x, y, desc)
<1>1. CASE HasAddress(x) # HasAddress(y)
  BY <1>1 DEF LessByAddress, Comparable
<1>2. CASE ~HasAddress(x) /\ ~HasAddress(y)
  BY <1>2 DEF LessByAddress, Comparable
<1>3. CASE HasAddress(x) /\ HasAddress(y) /\ x.port # y.port
  BY <1>3 DEF LessByAddress, Comparable
<1>4. CASE HasAddress(x) /\ HasAddress(y) /\ x.port = y.port
  BY <1>4 DEF LessByAddress, Comparable
<1> QED BY <1>1, <1>2, <1>3, <1>4 DEF Comparable

LEMMA AddressChains ==
  ASSUME NEW x, NEW y, NEW z, Comparable(x), Comparable(y), Comparable(z), NEW desc \in BOOLEAN,
         LessByAddress(x, y, desc), LessByAddress(y, z, desc)
  PROVE  LessByAddress(x, z, desc)
  BY DEF LessByAddress, Comparable

LEMMA LessIs ==
  ASSUME NEW x, NEW y, NEW order \in Orders
  PROVE  /\ order = "uid" => (Less(x, y, order) <=> x.uid < y.uid)
         /\ order = "discovery" =>
              (Less(x, y, order) <=> (x.seen # y.seen /\ x.seen < y.seen) \/ (x.seen = y.seen /\ x.uid < y.uid))
         /\ order = "model" =>
              (Less(x, y, order) <=> (x.model # y.model /\ x.model < y.model) \/ (x.model = y.model /\ x.uid < y.uid))
         /\ order \in {"address", "address_desc"} =>
              (Less(x, y, order) <=> LessByAddress(x, y, order = "address_desc"))
<1>1. CASE order = "uid"
  BY <1>1 DEF Less
<1>2. CASE order = "discovery"
  <2>1. CASE x.seen = y.seen
    BY <1>2, <2>1 DEF Less
  <2>2. CASE x.seen # y.seen
    BY <1>2, <2>2 DEF Less
  <2> QED BY <1>2, <2>1, <2>2
<1>3. CASE order = "model"
  <2>1. CASE x.model = y.model
    BY <1>3, <2>1 DEF Less
  <2>2. CASE x.model # y.model
    BY <1>3, <2>2 DEF Less
  <2> QED BY <1>3, <2>1, <2>2
<1>4. CASE order \in {"address", "address_desc"}
  BY <1>4 DEF Less
<1> QED BY <1>1, <1>2, <1>3, <1>4 DEF Orders

LEMMA KeysDecide ==
  ASSUME NEW x, NEW y, Comparable(x), Comparable(y), NEW order \in Orders, x.uid # y.uid
  PROVE  Less(x, y, order) <=> ~Less(y, x, order)
<1>1. CASE order = "uid"
  BY <1>1, LessIs DEF Comparable
<1>2. CASE order = "discovery"
  BY <1>2, LessIs DEF Comparable
<1>3. CASE order = "model"
  BY <1>3, LessIs DEF Comparable
<1>4. CASE order \in {"address", "address_desc"}
  <2> DEFINE desc == order = "address_desc"
  <2>1. LessByAddress(x, y, desc) <=> ~LessByAddress(y, x, desc)
    BY AddressDecides
  <2>2. (Less(x, y, order) <=> LessByAddress(x, y, desc)) /\ (Less(y, x, order) <=> LessByAddress(y, x, desc))
    BY <1>4, LessIs
  <2> HIDE DEF desc
  <2> QED BY <2>1, <2>2
<1> QED BY <1>1, <1>2, <1>3, <1>4 DEF Orders

LEMMA KeysChain ==
  ASSUME NEW x, NEW y, NEW z, Comparable(x), Comparable(y), Comparable(z), NEW order \in Orders,
         Less(x, y, order), Less(y, z, order)
  PROVE  Less(x, z, order)
<1>1. CASE order = "uid"
  BY <1>1, LessIs DEF Comparable
<1>2. CASE order = "discovery"
  BY <1>2, LessIs DEF Comparable
<1>3. CASE order = "model"
  BY <1>3, LessIs DEF Comparable
<1>4. CASE order \in {"address", "address_desc"}
  <2> DEFINE desc == order = "address_desc"
  <2>1. /\ Less(x, y, order) <=> LessByAddress(x, y, desc)
        /\ Less(y, z, order) <=> LessByAddress(y, z, desc)
        /\ Less(x, z, order) <=> LessByAddress(x, z, desc)
    BY <1>4, LessIs
  <2>2. desc \in BOOLEAN
    OBVIOUS
  <2> HIDE DEF desc
  <2> QED BY <2>1, <2>2, AddressChains
<1> QED BY <1>1, <1>2, <1>3, <1>4 DEF Orders

\* Whatever devices a walk starts with, every one of its orders is a strict total order of them.
THEOREM WalkHasOneOrder == WalkOrderSpec => []OneWalkOrder
<1>1. Walkable => OneWalkOrder
  <2> SUFFICES ASSUME Walkable, NEW order \in Orders
               PROVE  /\ \A x, y \in candidates : x # y => (Less(x, y, order) <=> ~Less(y, x, order))
                      /\ \A x, y, z \in candidates :
                           Less(x, y, order) /\ Less(y, z, order) => Less(x, z, order)
                      /\ order \in {"address", "address_desc"} =>
                           \A x, y \in candidates : HasAddress(x) /\ ~HasAddress(y) => Less(x, y, order)
    BY DEF OneWalkOrder
  <2>1. \A x \in candidates : Comparable(x)
    BY DevicesCompare DEF Walkable
  <2>2. \A x, y \in candidates : x # y => x.uid # y.uid
    BY DEF Walkable
  <2>3. \A x, y \in candidates : x # y => (Less(x, y, order) <=> ~Less(y, x, order))
    BY <2>1, <2>2, KeysDecide
  <2>4. \A x, y, z \in candidates : Less(x, y, order) /\ Less(y, z, order) => Less(x, z, order)
    BY <2>1, KeysChain
  <2>5. ASSUME order \in {"address", "address_desc"}, NEW x \in candidates, NEW y \in candidates,
               HasAddress(x), ~HasAddress(y)
        PROVE  Less(x, y, order)
    <3>1. Less(x, y, order) <=> LessByAddress(x, y, order = "address_desc")
      BY <2>5, LessIs
    <3>2. Comparable(x) /\ Comparable(y)
      BY <2>1
    <3> QED BY <2>5, <3>1, <3>2, AddressDecides
  <2> QED BY <2>3, <2>4, <2>5
<1> QED BY <1>1, WalkableHolds, PTL
-------------------------------------------------------------------------------
(* The composition (MCShowSide). *)

LEMMA SidesStep ==
  ASSUME [Next]_allVars
  PROVE  /\ [StoreNext]_storeVars /\ [EditNext]_editVars
         /\ [ReviewNext]_patch /\ [DiffNext]_diffVars /\ [WalkOrderNext]_candidates
<1>1. CASE ShowNext /\ UNCHANGED <<reviewVars, part>>
  <2>1. UNCHANGED patch /\ UNCHANGED diffVars /\ UNCHANGED candidates
    BY <1>1 DEF reviewVars
  <2>2. [StoreNext]_storeVars /\ [EditNext]_editVars
    BY <1>1 DEF ShowNext
  <2> QED BY <2>1, <2>2
<1>2. CASE RigNext /\ UNCHANGED <<showVars, part>>
  <2>1. UNCHANGED storeVars /\ UNCHANGED editVars
    BY <1>2 DEF showVars
  <2>2. [ReviewNext]_patch /\ [DiffNext]_diffVars /\ [WalkOrderNext]_candidates
    BY <1>2 DEF RigNext
  <2> QED BY <2>1, <2>2
<1>3. CASE UNCHANGED allVars
  <2>1. UNCHANGED showVars /\ UNCHANGED reviewVars
    BY <1>3 DEF allVars
  <2>2. UNCHANGED storeVars /\ UNCHANGED editVars
    BY <2>1 DEF showVars
  <2>3. UNCHANGED patch /\ UNCHANGED diffVars /\ UNCHANGED candidates
    BY <2>1 DEF reviewVars
  <2> QED BY <2>2, <2>3
<1> QED BY <1>1, <1>2, <1>3 DEF Next

\* The devices and their entry, in the parts of the run that leave them alone.
LEMMA AtHomeIsKnown ==
  ASSUME entry = AtHome, passes = [q \in Requests |-> NoPass], since = {},
         device = [d \in Rig |-> [f \in Fields |-> FirstSetting]]
  PROVE  DiffInv
<1>1. FirstSetting \in SettingValues
  BY DiffAssumption DEF FirstSetting
<1>2. device \in [Rig -> [Fields -> SettingValues]]
  BY <1>1
<1>3. SettingUnknown \in Intentions
  BY DEF Intentions
<1>4. entry \in EntryRecords
  BY <1>1, <1>3, EmptyIsHonest DEF AtHome, EntryRecords, Committable
<1>5. NoPass \in PassRecords /\ NoPass.writes = {} /\ ~NoPass.read
  BY EmptyIsHonest DEF NoPass, Pass, PassRecords, Committable
<1>6. entry.foundUID \notin Rig
  BY DiffAssumption DEF AtHome
<1>7. DiffTypes
  BY <1>2, <1>4, <1>5 DEF DiffTypes
<1>8. DiffKnows
  BY <1>5, <1>6 DEF DiffKnows
<1> QED BY <1>7, <1>8 DEF DiffInv

(* The files beside the shows in memory, as the run composes them: every variable *)
(* has the shape the code gives it, a show that was saved can be opened again     *)
(* after a crash, from the file or from its backup (writeFileDurable, LoadShow),  *)
(* and the findings of the patch, its comparison with the rig and the order of a  *)
(* walk say what is so (DetectCollisions, DiffEntry, Less).                       *)
THEOREM ShowSideIsSound == Spec => []ShowSideInvariant
<1>1. Init => StoreInit /\ EditInit /\ ReviewInit /\ WalkOrderInit /\ DiffInv
  <2> SUFFICES ASSUME Init PROVE StoreInit /\ EditInit /\ ReviewInit /\ WalkOrderInit /\ DiffInv
    OBVIOUS
  <2>1. CASE part = "diff"
    BY <2>1, DiffInvInit DEF Init, DiffStarts
  <2>2. CASE part # "diff"
    BY <2>2, AtHomeIsKnown DEF Init
  <2>3. StoreInit /\ EditInit /\ ReviewInit /\ WalkOrderInit
    BY DEF Init
  <2> QED BY <2>1, <2>2, <2>3
<1>2. [Next]_allVars => /\ [StoreNext]_storeVars /\ [EditNext]_editVars
                        /\ [ReviewNext]_patch /\ [DiffNext]_diffVars /\ [WalkOrderNext]_candidates
  BY SidesStep
<1>3. Spec => StoreSpec /\ EditSpec
  BY <1>1, <1>2, PTL DEF Spec, StoreSpec, EditSpec
<1>4. Spec => ReviewSpec /\ WalkOrderSpec
  BY <1>1, <1>2, PTL DEF Spec, ReviewSpec, WalkOrderSpec
<1>5. DiffInv /\ [DiffNext]_diffVars => DiffInv'
  BY DiffInvStep
<1>6. Spec => []DiffInv
  BY <1>1, <1>2, <1>5, PTL DEF Spec
<1>7. EditInv => EditTypeOK
  BY DEF EditInv
<1>8. DiffInv => NotFittedIsTrue /\ DiffIsTrue /\ ApplyIsHonoured
  BY FittedIsKnown, LinesAreTrue, PushesAreHonoured
<1>9. /\ StoreTypeOK /\ EditTypeOK /\ CanRecover
      /\ OverlapsAreShared /\ CleanPatchIsSound
      /\ NotFittedIsTrue /\ DiffIsTrue /\ ApplyIsHonoured
      /\ OneWalkOrder
      => ShowSideInvariant
  BY DEF ShowSideInvariant
<1>10. Spec => []StoreTypeOK /\ []EditTypeOK /\ []CanRecover
  BY <1>3, <1>7, StoreTypeCorrect, OneSpoiltFileIsRecoverable, EditsTypeCorrect, PTL
<1>11. Spec => []OverlapsAreShared /\ []CleanPatchIsSound /\ []OneWalkOrder
  BY <1>4, OverlapsAreFound, CleanPatchesAreSound, WalkHasOneOrder, PTL
<1> QED BY <1>6, <1>8, <1>9, <1>10, <1>11, PTL
===============================================================================
