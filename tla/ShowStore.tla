------------------------------ MODULE ShowStore ------------------------------
(* The files this program must never lose: the shows and their catalogue        *)
(* (internal/patch durable.go, catalog.go, entry.go), the settings              *)
(* (internal/web/settingsdurable.go), the sACN settings (internal/sacn) and the *)
(* fixture library (internal/library).  Every one is replaced by the same       *)
(* routine - read the previous file, copy it to .bak, write a temporary file    *)
(* and rename it - with rules of its own about a file that cannot be read.      *)
(* The process may die between any two steps and every step may fail.  Each     *)
(* store holds its own lock for a whole operation and no file is shared, so a   *)
(* behaviour follows one store, and one operation at a time.                    *)
EXTENDS Naturals, FiniteSets

CONSTANTS
  NewShows,        \* the identities CreatePatch may give a show
  default,      \* the show with the historical file path; the only file of the other stores
  absent,         \* no file, no show, no operation
  damaged,      \* a file its decoder rejects
  MaxSaves,     \* bound: contents ever written
  MaxFaults,    \* bound: failed steps, crashes and damaged files together
  Stores        \* the stores followed, of {"show", "settings", "sacn", "library"}

ASSUME StoreBounds == MaxSaves \in Nat /\ MaxFaults \in Nat /\ default \notin NewShows
ASSUME KnownStores == Stores \subseteq {"show", "settings", "sacn", "library"}

Files == NewShows \cup {default}
Contents == 0 .. MaxSaves               \* 0: the defaults a store starts with
OnDisk == Contents \cup {absent, damaged}

(* Operations: a save, step by step, and a Clear. *)
Saves == [step : {"read", "backup", "write", "mark", "install"},
          does : {"edit", "create", "load", "recover", "repair"},
          id : Files, content : Contents, prev : OnDisk]
Clears == [step : {"clear"}, left : SUBSET Files, failed : BOOLEAN]

ASSUME ValuesApart ==
  /\ absent # damaged /\ damaged \notin Contents
  /\ absent \notin Contents \cup Files \cup Saves \cup Clears

VARIABLES
  store,        \* which store this behaviour follows
  file,         \* [Files -> OnDisk]
  bak,          \* [Files -> OnDisk]: the .bak beside each file
  marker,       \* the .active file: the show to open at startup
  held,         \* the content in memory; absent: no show
  active,       \* activePath
  op,           \* the operation holding the lock, or absent
  written,      \* contents ever handed to a save
  saved,        \* <<active, content>> as the last success reported them
  wiped,        \* a Clear removed the marker and did not finish
  faults, damages

storeVars == <<store, file, bak, marker, held, active, op, written, saved, wiped, faults, damages>>

Readable(c) == c \in Contents
Idle == op = absent

(* What a store does about a file it cannot read. *)
RefusesDamage == store \in {"show", "library"}      \* the save fails, the file stays
PromotesDamage(c) == store # "library" /\ c # absent     \* bug: a damaged file becomes the .bak
BacksUp(c) == CASE store = "show"     -> Readable(c)
                [] store = "settings" -> Readable(c)   \* only a file that still parses
                [] store = "sacn"     -> c # absent
                [] OTHER              -> FALSE

(* NewStore and initCatalogActive: the marked show, and never another one when  *)
(* its file is gone or damaged.  The other stores start from their defaults.    *)
Opened(c) == IF Readable(c) THEN c ELSE IF store = "show" THEN absent ELSE 0
Reloaded ==
  IF store = "show" /\ marker \in NewShows
  THEN <<marker, Opened(file[marker])>> ELSE <<default, Opened(file[default])>>

(* loadSettings of sACN repairs what it cannot read and saves the repair.       *)
RepairAfterLoad ==
  IF store = "sacn" /\ ~Readable(file[default])
  THEN [step |-> "read", does |-> "repair", id |-> default, content |-> 0, prev |-> absent]
  ELSE absent

StoreInit ==
  /\ store \in Stores
  /\ file = [i \in Files |-> absent] /\ bak = [i \in Files |-> absent]
  /\ marker = absent /\ active = default
  /\ held = IF store = "show" THEN absent ELSE 0
  /\ op = absent /\ written = 0
  /\ saved = <<default, IF store = "show" THEN absent ELSE 0>>
  /\ wiped = FALSE /\ faults = 0 /\ damages = 0

Saving(does, id, c) == [step |-> "read", does |-> does, id |-> id, content |-> c, prev |-> absent]

(* EnsureActive: a draft in memory; the next Mutate saves it. *)
EnsureActive ==
  /\ Idle /\ store = "show" /\ held = absent /\ written < MaxSaves
  /\ held' = written + 1 /\ written' = written + 1
  /\ UNCHANGED <<store, file, bak, marker, active, op, saved, wiped, faults, damages>>

(* Mutate needs an active show; ReplaceChecked does not.  POST /api/settings,   *)
(* sacn's Set and every library edit are the same operation.                    *)
Edit ==
  /\ Idle /\ written < MaxSaves
  /\ op' = Saving("edit", active, written + 1) /\ written' = written + 1
  /\ UNCHANGED <<store, file, bak, marker, held, active, saved, wiped, faults, damages>>

(* The identity is a time stamp: no file has it, and no marker names it. *)
CreatePatch(s) ==
  /\ Idle /\ store = "show" /\ file[s] = absent /\ bak[s] = absent /\ s # marker
  /\ written < MaxSaves
  /\ op' = Saving("create", s, written + 1) /\ written' = written + 1
  /\ UNCHANGED <<store, file, bak, marker, held, active, saved, wiped, faults, damages>>

LoadPatch(i) ==
  /\ Idle /\ store = "show" /\ Readable(file[i])
  /\ op' = [Saving("load", i, file[i]) EXCEPT !.step = "mark"]
  /\ UNCHANGED <<store, file, bak, marker, held, active, written, saved, wiped, faults, damages>>

(* RecoverActive writes the .bak over whatever is there, a damaged file too. *)
RecoverActive ==
  /\ Idle /\ store = "show" /\ Readable(bak[active])
  /\ op' = [Saving("recover", active, bak[active]) EXCEPT !.step = "write"]
  /\ UNCHANGED <<store, file, bak, marker, held, active, written, saved, wiped, faults, damages>>

(* savePatch, saveSettingsFile, writeSettings, saveLocked: look at what is there. *)
SavesAnyway ==      \* bug: the previous file is copied without being decoded
  /\ op # absent /\ op.step = "read"
  /\ op' = [op EXCEPT !.prev = file[op.id], !.step = IF BacksUp(file[op.id]) THEN "backup" ELSE "write"]
  /\ UNCHANGED <<store, file, bak, marker, held, active, written, saved, wiped, faults, damages>>

ReadPrevious ==
  /\ op # absent /\ op.step = "read"
  /\ LET prev == file[op.id] IN
     op' = IF prev = damaged /\ RefusesDamage THEN absent
           ELSE [op EXCEPT !.prev = prev, !.step = IF BacksUp(prev) THEN "backup" ELSE "write"]
  /\ UNCHANGED <<store, file, bak, marker, held, active, written, saved, wiped, faults, damages>>

WriteBackup ==
  /\ op # absent /\ op.step = "backup"
  /\ bak' = [bak EXCEPT ![op.id] = op.prev]
  /\ op' = [op EXCEPT !.step = "write"]
  /\ UNCHANGED <<store, file, marker, held, active, written, saved, wiped, faults, damages>>

WritesInPlace ==    \* bug: no temporary file: a write that fails leaves half a file
  /\ op # absent /\ op.step = "write"
  /\ \/ /\ file' = [file EXCEPT ![op.id] = op.content]
        /\ op' = [op EXCEPT !.step = IF op.does = "create" THEN "mark" ELSE "install"]
     \/ file' = [file EXCEPT ![op.id] = damaged] /\ op' = absent
  /\ UNCHANGED <<store, bak, marker, held, active, written, saved, wiped, faults, damages>>

(* atomicWrite: the rename replaces the file whole. *)
WriteFile ==
  /\ op # absent /\ op.step = "write"
  /\ file' = [file EXCEPT ![op.id] = op.content]
  /\ op' = [op EXCEPT !.step = IF op.does = "create" THEN "mark" ELSE "install"]
  /\ UNCHANGED <<store, bak, marker, held, active, written, saved, wiped, faults, damages>>

WriteMarker ==
  /\ op # absent /\ op.step = "mark"
  /\ marker' = op.id /\ wiped' = FALSE
  /\ op' = [op EXCEPT !.step = "install"]
  /\ UNCHANGED <<store, file, bak, held, active, written, saved, faults, damages>>

(* Memory last, and the success reported. *)
Install ==
  /\ op # absent /\ op.step = "install"
  /\ held' = op.content /\ active' = op.id /\ saved' = <<op.id, op.content>>
  /\ op' = absent
  /\ UNCHANGED <<store, file, bak, marker, written, wiped, faults, damages>>

(* A read, a write or a rename fails: the error goes back, memory is untouched. *)
StepFails ==
  /\ op # absent /\ op.step \in {"read", "backup", "write", "mark"} /\ faults < MaxFaults
  /\ op' = absent /\ faults' = faults + 1
  /\ UNCHANGED <<store, file, bak, marker, held, active, written, saved, wiped, damages>>

(* Clear removes the default show, its backup, the marker and then every file   *)
(* of the catalogue, one by one, carrying on past a file that will not go; with *)
(* an error memory keeps the show.                                              *)
ClearOrder(i) == IF i = default THEN {"file", "bak", "marker"} ELSE {"file", "bak"}
Clear ==
  /\ Idle /\ store = "show"
  /\ op' = [step |-> "clear", left |-> {i \in Files : i = default \/ file[i] # absent \/ bak[i] # absent},
            failed |-> FALSE]
  /\ UNCHANGED <<store, file, bak, marker, held, active, written, saved, wiped, faults, damages>>

ClearRemoves(i) ==
  /\ op # absent /\ op.step = "clear" /\ i \in op.left
  /\ i = default \/ default \notin op.left
  /\ \E stuck \in SUBSET ClearOrder(i) :
       /\ stuck # {} => faults < MaxFaults
       /\ file' = IF "file" \in stuck THEN file ELSE [file EXCEPT ![i] = absent]
       /\ bak' = IF "bak" \in stuck THEN bak ELSE [bak EXCEPT ![i] = absent]
       /\ marker' = IF i = default /\ "marker" \notin stuck THEN absent ELSE marker
       /\ op' = [op EXCEPT !.left = @ \ {i}, !.failed = @ \/ stuck # {}]
       /\ faults' = IF stuck = {} THEN faults ELSE faults + 1
  /\ wiped' = TRUE
  /\ UNCHANGED <<store, held, active, written, saved, damages>>

ClearEnds ==
  /\ op # absent /\ op.step = "clear" /\ op.left = {}
  /\ op' = absent
  /\ IF op.failed THEN UNCHANGED <<held, active, saved, wiped>>
     ELSE held' = absent /\ active' = default /\ saved' = <<default, absent>> /\ wiped' = FALSE
  /\ UNCHANGED <<store, file, bak, marker, written, faults, damages>>

(* The process dies and is started again. *)
Crash ==
  /\ faults < MaxFaults /\ faults' = faults + 1
  /\ active' = Reloaded[1] /\ held' = Reloaded[2] /\ saved' = Reloaded
  /\ op' = RepairAfterLoad /\ wiped' = FALSE
  /\ UNCHANGED <<store, file, bak, marker, written, damages>>

(* Something outside the program spoils a file while nothing is being saved. *)
Damage(i) ==
  /\ Idle /\ faults < MaxFaults
  /\ \/ /\ file[i] # absent /\ file' = [file EXCEPT ![i] = damaged] /\ UNCHANGED bak
     \/ /\ bak[i] # absent /\ bak' = [bak EXCEPT ![i] = damaged] /\ UNCHANGED file
  /\ faults' = faults + 1 /\ damages' = damages + 1
  /\ UNCHANGED <<store, marker, held, active, op, written, saved, wiped>>

StoreNext ==
  \/ EnsureActive \/ Edit \/ RecoverActive \/ Clear
  \/ \E s \in NewShows : CreatePatch(s)
  \/ \E i \in Files : LoadPatch(i) \/ ClearRemoves(i) \/ Damage(i)
  \/ ReadPrevious \/ WriteBackup \/ WriteFile \/ WriteMarker \/ Install
  \/ StepFails \/ ClearEnds \/ Crash

StoreSpec == StoreInit /\ [][StoreNext]_storeVars

StoreTypeOK ==
  /\ store \in Stores /\ file \in [Files -> OnDisk] /\ bak \in [Files -> OnDisk]
  /\ marker \in Files \cup {absent} /\ active \in Files /\ held \in Contents \cup {absent}
  /\ written \in 0 .. MaxSaves /\ faults \in 0 .. MaxFaults /\ damages \in 0 .. faults
  /\ op \in Saves \cup Clears \cup {absent}
  /\ wiped \in BOOLEAN /\ saved \in Files \X (Contents \cup {absent})

(* Whenever the process dies, the next start opens the show, the settings or    *)
(* the library exactly as the last success reported it, or as the operation in  *)
(* flight was about to leave it: never a mixture, never another show.  Only a   *)
(* file spoilt from outside and a Clear that could not finish are exempt.       *)
RestartKeepsShow ==
  \/ Reloaded = saved
  \/ op # absent /\ op.step # "clear" /\ Reloaded = <<op.id, op.content>>
  \/ damages > 0 /\ file[Reloaded[1]] = damaged
  \/ wiped

(* One spoilt file never costs both copies: of a show or a settings file that   *)
(* was ever backed up, the file or its .bak can be read.                        *)
CanRecover ==
  store \in {"show", "settings"} /\ damages <= 1 =>
    \A i \in Files : file[i] # absent /\ bak[i] # absent => Readable(file[i]) \/ Readable(bak[i])

(* A show or library file that cannot be read is evidence: no edit replaces it, *)
(* only an explicit recovery or a full reset does.                              *)
DamageIsKept ==
  [][\A i \in Files :
       RefusesDamage /\ file[i] = damaged /\ file'[i] # damaged
         => op.step = "clear" \/ op.does = "recover"]_storeVars
=============================================================================
