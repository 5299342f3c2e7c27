----------------------------- MODULE LibraryMerge -----------------------------
(* The fixture library (internal/library store.go, match.go, verification.go,   *)
(* importer.go): one record per manufacturer and model, found by exact key or   *)
(* by tolerant matching of name tokens, merged under the rule "never lose what  *)
(* is already known".  A name is the set of its tokens; its position in         *)
(* MakerNames or ModelNames is its spelling, in key order, 1 the empty one.     *)
(* A record has one mode.  An import is its upserts under one lock, and a save  *)
(* that fails restores the library as it was.                                   *)
EXTENDS Naturals, Sequences, FiniteSets

CONSTANTS
  MakerNames, ModelNames,   \* sequences of token sets
  Maps,                     \* channel maps a mode may have; 0 is the empty one
  unstamped,
  MaxRecords

ASSUME EmptyNamesFirst == MakerNames[1] = {} /\ ModelNames[1] = {}

VARIABLE library        \* sequence of records, as sortRecords and upsertLocked leave it

(* What a GDTF file, a patch entry or a device says of a mode: its map, whether *)
(* the channels carry full detail, and whether the wheels are known.            *)
Payloads == [map : Maps \cup {0}, detail : BOOLEAN, wheels : BOOLEAN]

Told == {p \in Payloads : p.detail = p.wheels /\ (p.map = 0 => ~p.detail)}
Record(i, m, p) == [maker |-> i, model |-> m, mode |-> p, stamp |-> unstamped]
Identities == ((1 .. Len(MakerNames)) \X (1 .. Len(ModelNames))) \ {<<1, 1>>}

Key(r) == <<r.maker, r.model>>
KeyBefore(r, q) == r.maker < q.maker \/ (r.maker = q.maker /\ r.model < q.model)

Contained(ref, text) == ref # {} /\ ref \subseteq text

(* Record.Matches: the models agree when one is contained in the other's full   *)
(* text; two stated manufacturers must not disagree.                            *)
Matches(r, q) ==
  LET rMaker == MakerNames[r.maker]   qMaker == MakerNames[q.maker]
      rText == rMaker \cup ModelNames[r.model]
      qText == qMaker \cup ModelNames[q.model]
  IN \/ Key(r) = Key(q)
     \/ /\ Contained(ModelNames[r.model], qText) \/ Contained(ModelNames[q.model], rText)
        /\ (qMaker # {} /\ rMaker # {}) => Contained(rMaker, qText) \/ Contained(qMaker, rText)

(* matchLocked: the exact key first, then the first tolerant match; 0: none. *)
First(S) == IF S = {} THEN 0 ELSE CHOOSE i \in S : \A j \in S : i <= j
Match(lib, q) ==
  LET exact == {i \in DOMAIN lib : Key(lib[i]) = Key(q)}
      close == {i \in DOMAIN lib : Matches(lib[i], q)}
  IN First(IF exact # {} THEN exact ELSE close)

(* mergeModes for one mode: an incoming mode replaces the stored one, unless it *)
(* is the same profile in less detail, or has no channel map.                   *)
LessDetailed(new, old) ==
  new.map # 0 /\ ~new.detail /\ ~new.wheels /\ new.map = old.map /\ (old.detail \/ old.wheels)

OverwritesMode(new, old) == new   \* bug: the last word wins
MergeMode(new, old) ==
  IF LessDetailed(new, old) THEN old
  ELSE IF new.map = 0 /\ old.map # 0 THEN [new EXCEPT !.map = old.map, !.detail = old.detail]
  ELSE new

(* normalizeMode and mergeModes keep a verification stamp only with the payload *)
(* it was given for.                                                            *)
KeepsAnyStamp(mode, new, old) == IF new = unstamped THEN old ELSE new   \* bug: not compared
KeptStamp(mode, new, old) ==
  IF new = mode THEN new ELSE IF old = mode THEN old ELSE unstamped

(* mergeRecord: the stored spelling wins, an empty field is filled in. *)
Merged(r, q) ==
  LET mode == MergeMode(q.mode, r.mode) IN
  [maker |-> IF r.maker = 1 THEN q.maker ELSE r.maker,
   model |-> IF r.model = 1 THEN q.model ELSE r.model,
   mode |-> mode, stamp |-> KeptStamp(mode, q.stamp, r.stamp)]

(* A new record goes to its place in key order; the others keep theirs. *)
Inserted(lib, q) ==
  LET at == Cardinality({i \in DOMAIN lib : ~KeyBefore(q, lib[i])})
  IN SubSeq(lib, 1, at) \o <<q>> \o SubSeq(lib, at + 1, Len(lib))

UpsertLocked(lib, q) ==
  LET i == Match(lib, q)
  IN IF i = 0 THEN Inserted(lib, q) ELSE [lib EXCEPT ![i] = Merged(@, q)]

LibInit == library = <<>>

(* An import may carry the stamp another install gave the same payload;         *)
(* normalizeMode drops any other.                                               *)
Incoming == {Record(k[1], k[2], p) : k \in Identities, p \in Told}
            \cup {[Record(k[1], k[2], p) EXCEPT !.stamp = p] : k \in Identities, p \in {t \in Told : t.map # 0}}

Upsert(q) ==
  /\ Len(UpsertLocked(library, q)) <= MaxRecords
  /\ library' = UpsertLocked(library, q)

(* Import with mode "replace" starts from an empty library. *)
ImportReplace(q) == library' = <<q>>

Delete(i) ==
  /\ i \in DOMAIN library
  /\ library' = SubSeq(library, 1, i - 1) \o SubSeq(library, i + 1, Len(library))

(* VerifyMode: the reviewed payload must still be the stored one. *)
VerifyMode(i, reviewed, verified) ==
  /\ i \in DOMAIN library /\ library[i].mode = reviewed
  /\ verified => reviewed.map # 0
  /\ library' = [library EXCEPT ![i].stamp = IF verified THEN reviewed ELSE unstamped]

LibNext ==
  \/ \E q \in Incoming : Upsert(q) \/ ImportReplace(q)
  \/ \E i \in 1 .. MaxRecords :
       Delete(i) \/ \E p \in Payloads, v \in BOOLEAN : VerifyMode(i, p, v)

LibSpec == LibInit /\ [][LibNext]_library

(* Whatever is merged into what, the library stays one its own loader accepts:  *)
(* no two records with one key, every record named.                             *)
LoadsAgain ==
  /\ \A i, j \in DOMAIN library : Key(library[i]) = Key(library[j]) => i = j
  /\ \A i \in DOMAIN library : Key(library[i]) # <<1, 1>>

(* Importing the same thing twice is one import: whatever the library holds, a  *)
(* second upsert of a record finds what the first one left and changes nothing. *)
UpsertSettles ==
  \A q \in Incoming : LET once == UpsertLocked(library, q) IN UpsertLocked(once, q) = once

(* No upsert loses a channel map, nor the detail of a map that stays. *)
NeverLoses ==
  \A i \in DOMAIN library, q \in Incoming :
    Match(library, q) = i =>
      LET old == library[i].mode   new == UpsertLocked(library, q)[i].mode
      IN (old.map # 0 => new.map # 0) /\ (old.detail /\ new.map = old.map => new.detail)

(* A verification stamp is only ever on the data that was verified. *)
StampIsCurrent == \A i \in DOMAIN library : library[i].stamp \in {unstamped, library[i].mode}
=============================================================================
