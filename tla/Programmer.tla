----------------------------- MODULE Programmer -----------------------------
(***************************************************************************)
(* The console-lite programmer (internal/patch/programmer.go,              *)
(* programmer_tools.go, faders.go and the handlers of web/programmer*.go   *)
(* and web/faders.go): the selection, the touched values, Highlight with   *)
(* its stepping, the group faders, the one-shot commands, and the sources  *)
(* they publish to the DMX engine.                                         *)
(*                                                                         *)
(* Every method runs under Programmer.mu, and every handler but one under  *)
(* showMu, so an operation is one action.  The exception is the Arm        *)
(* handler: it calls syncProgrammer outside showMu, so it reads the show,  *)
(* hands over the stored groups and syncs in three steps that edits may    *)
(* come between.                                                           *)
(*                                                                         *)
(* A fixture profile is a record: the parameters with their attribute,     *)
(* cell, group and offset, which are virtual, the intensity parts (see     *)
(* FixtureModel), the resting, highlight and locate values, and the mode   *)
(* master a value of a parameter needs.  A touched value is a small        *)
(* number.  Revisions are kept modulo two: an operation adds at most one   *)
(* to each.  Fixtures do not overlap in the shows examined.                *)
(***************************************************************************)
EXTENDS Integers, FiniteSets, Sequences, SequencesExt

CONSTANTS Holdings,     \* set of [order, patch, groups]: what the store may hold
          FirstShow,    \* the one it holds at the start
          ProfileOf,    \* [profile name -> profile record]
          Levels,       \* values and fader levels, 0 the lowest
          LastSlot,     \* the last DMX slot
          Presets,      \* stored presets: sets of [entry, type, param, value]
          SelectTargets,\* the target lists a browser selects
          Commands,     \* command ids
          Focus,        \* which groups of operations one behaviour uses
          MaxTouched,   \* bound: touched values at a time
          MaxMoved,     \* bound: moved faders at a time; one where Arm is examined
          MaxEdits      \* bound: edits of the show

ASSUME ProgrammerConstants ==
    /\ Levels \subseteq Nat /\ 0 \in Levels
    /\ MaxTouched \in Nat /\ MaxMoved \in Nat /\ MaxEdits \in Nat
    /\ \A s \in Holdings : \A e \in DOMAIN s.patch :
          s.patch[e].profile \in DOMAIN ProfileOf

VARIABLES stored,       \* [content, token]: the patch store
          pg,           \* the programmer's fields
          touchedAs,    \* history: the profile each value was touched under
          pub,          \* what each source has published to the engine
          out,          \* the engine: [state, running commands]
          guard,        \* showMu: free, or an edit whose sync is still to come
          arming,       \* the Arm handler: idle, or what it has read
          focus         \* the operations of this behaviour

progVars == <<stored, pg, touchedAs, pub, out, guard, arming, focus>>

Top == CHOOSE l \in Levels : \A k \in Levels : k <= l
NoFrames == [n \in {} |-> 0]
Nothing == [frames |-> NoFrames, levels |-> NoFrames]
EmptyShow == [order |-> <<>>, patch |-> NoFrames, groups |-> NoFrames]
NotArming == [at |-> "idle", content |-> EmptyShow, token |-> 0]

(***************************************************************************)
(* The synced patch: BuildFixtureModel of every entry.                     *)
(***************************************************************************)
Model(p, e) == ProfileOf[p.patch[e].profile]
EntriesOf(p) == DOMAIN p.patch
Keys(p) == UNION {{<<e, x>> : x \in Model(p, e).params} : e \in EntriesOf(p)}

ValidTarget(p, t) ==
    /\ t[1] \in EntriesOf(p)
    /\ t[2] = "" \/ t[2] \in Model(p, t[1]).cells

\* The parameters of a target: a cell's own, or the whole fixture's.
OfTarget(p, t) ==
    {x \in Model(p, t[1]).params \ Model(p, t[1]).raws :
        t[2] = "" \/ Model(p, t[1]).cell[x] = t[2]}

\* inScope: a whole fixture with a software master takes an intensity on
\* its master.
InScope(p, t, attr) ==
    {x \in OfTarget(p, t) :
        /\ Model(p, t[1]).attr[x] = attr
        /\ t[2] = "" /\ attr = "Dimmer" /\ Model(p, t[1]).masters # {}
              => x \in Model(p, t[1]).masters}

SlotOf(p, k) == p.patch[k[1]].at + Model(p, k[1]).offset[k[2]] - 1
IsVirtual(p, k) == k[2] \in Model(p, k[1]).virtuals
Addressable(p, k) == ~IsVirtual(p, k) /\ SlotOf(p, k) <= LastSlot

\* What a set of claimed parameters publishes: bytes at the slots of the
\* real ones that can be addressed, levels under the keys of the virtual.
Published(p, claims) ==
    LET real == {k \in DOMAIN claims : Addressable(p, k)}
    IN  [frames |-> [n \in {SlotOf(p, k) : k \in real} |->
                        claims[CHOOSE k \in real : SlotOf(p, k) = n]],
         levels |-> [k \in {j \in DOMAIN claims : IsVirtual(p, j)} |-> claims[k]]]

\* baseFramesLocked, baseVirtualLocked: every byte at its resting value.
BaseOf(p) ==
    Published(p, [k \in Keys(p) |-> Model(p, k[1]).rest[k[2]]])

(***************************************************************************)
(* overlayLocked: Highlight drives the lit targets; with Lowlight the rest *)
(* of the selection, which only stepping leaves, is dimmed.                *)
(***************************************************************************)
LitTargets(g) ==
    IF g.stepping /\ g.step \in 1 .. Len(g.selection)
    THEN {g.selection[g.step]} ELSE ToSet(g.selection)

HighlightKeys(p, t) ==
    {<<t[1], x>> : x \in {y \in OfTarget(p, t) \cup
                              (IF t[2] = "" THEN {} ELSE Model(p, t[1]).opens[t[2]]) :
                             Model(p, t[1]).high[y] # -1}}

HighlightOf(g) ==
    LET keys == UNION {HighlightKeys(g.synced, t) : t \in LitTargets(g)}
    IN  IF g.highlight
        THEN Published(g.synced, [k \in keys |-> Model(g.synced, k[1]).high[k[2]]])
        ELSE Nothing

\* Lowlit parameters: the intensities of a target that is not highlighted,
\* but nothing a highlighted target covers, no fixture highlighted whole,
\* and no whole-fixture dimmer above a highlighted cell.
LowlitOf(g) ==
    LET p == g.synced
        lit == LitTargets(g)
        covered == UNION {HighlightKeys(p, t) : t \in lit}
        spared(e, x) == Model(p, e).cell[x] = "" /\ \E t \in lit : t[1] = e
    IN  IF ~g.highlight \/ ~g.lowlight THEN {}
        ELSE UNION {{<<t[1], x>> : x \in {y \in InScope(p, t, "Dimmer") :
                                            /\ <<t[1], y>> \notin covered
                                            /\ ~spared(t[1], y)}} :
                       t \in {u \in ToSet(g.selection) \ lit : <<u[1], "">> \notin lit}}

(***************************************************************************)
(* fadersLocked: a fader per fixture type, per intensity part of a type of *)
(* several, per stored group, with the members it has in the synced patch. *)
(***************************************************************************)
TypeOf(p, e) == Model(p, e).type
First(p, t) == p.order[CHOOSE n \in 1 .. Len(p.order) :
                          /\ TypeOf(p, p.order[n]) = t
                          /\ \A m \in 1 .. n - 1 : TypeOf(p, p.order[m]) # t]
Types(p) == {TypeOf(p, e) : e \in EntriesOf(p)}
PartFaders(p, t) ==
    LET m == Model(p, First(p, t))
    IN  IF Cardinality(DOMAIN m.parts) > 1
        THEN {<<"part", t, k>> : k \in DOMAIN m.parts \ m.masterPart} ELSE {}

FaderIds(p, groups) ==
    {<<"type", t>> : t \in Types(p)}
        \cup UNION {PartFaders(p, t) : t \in Types(p)}
        \cup {<<"group", n>> : n \in DOMAIN groups}

Members(p, groups, f) ==
    IF f \notin FaderIds(p, groups) THEN {}
    ELSE IF f[1] = "group" THEN {t \in groups[f[2]] : ValidTarget(p, t)}
    ELSE {<<e, "">> : e \in {d \in EntriesOf(p) : TypeOf(p, d) = f[2]}}

\* The part a fader is the fader of, on a member's model: its own, or the
\* only one of a single-part type.
FadedPart(m, f, hasParts) ==
    IF f[1] = "part" THEN {f[3]} \cap DOMAIN m.parts
    ELSE IF f[1] = "type" /\ ~hasParts /\ Cardinality(DOMAIN m.parts) = 1
         THEN DOMAIN m.parts ELSE {}

\* dimmers: what a fader sets of a member; held: what it holds open.
FaderSets(p, f, t) ==
    LET m == Model(p, t[1])
        part == FadedPart(m, f, f[1] = "type" /\ PartFaders(p, f[2]) # {})
    IN  {<<t[1], x>> : x \in
            IF f[1] = "part" \/ part # {} THEN UNION {m.parts[k].outer : k \in part}
            ELSE InScope(p, t, "Dimmer")}
FaderHolds(p, f, t) ==
    LET m == Model(p, t[1])
        part == FadedPart(m, f, f[1] = "type" /\ PartFaders(p, f[2]) # {})
    IN  {<<t[1], x>> : x \in UNION {m.parts[k].inner : k \in part}}

\* applyFadersLocked: the moved faders in the order they were moved, each
\* overwriting what the earlier ones set; then the held dimmers nobody set.
FadersOf(g) ==
    LET p == g.synced
        sets(f) == UNION {FaderSets(p, f, t) : t \in Members(p, g.groups, f)}
        holds(f) == UNION {FaderHolds(p, f, t) : t \in Members(p, g.groups, f)}
        chans[n \in 0 .. Len(g.moved)] ==
            IF n = 0 THEN NoFrames
            ELSE LET c == g.moved[n]
                 IN  [k \in DOMAIN chans[n - 1] \cup sets(c.id) |->
                         IF k \in sets(c.id) THEN c.level ELSE chans[n - 1][k]]
        set == chans[Len(g.moved)]
        held == UNION {holds(g.moved[n].id) : n \in 1 .. Len(g.moved)}
    IN  Published(p, [k \in DOMAIN set \cup held |->
                        IF k \in DOMAIN set THEN set[k] ELSE Top])

(***************************************************************************)
(* applyLocked and its parts, as operations on what is published.          *)
(***************************************************************************)
ApplyOverlay(b, g) ==
    [b EXCEPT !.highlight = HighlightOf(g), !.lowlight = LowlitOf(g)]
Apply(b, g) ==
    ApplyOverlay([b EXCEPT !.programmer = Published(g.synced, g.values)], g)
ApplyFaders(b, g) == [b EXCEPT !.faders = FadersOf(g)]

Bump(g) == [g EXCEPT !.revision = (@ + 1) % 2]
BumpFaders(g) == [g EXCEPT !.faderRev = (@ + 1) % 2]

(***************************************************************************)
(* Sync: what is gone from the patch leaves the selection and the values,  *)
(* and so do the values of a fixture whose profile changed; a show         *)
(* boundary empties everything.  refreshFadersLocked drops the claims of   *)
(* faders that are gone.                                                   *)
(***************************************************************************)
\* A faulty sync: it keeps the values of every fixture still patched.
KeepsByName(g, p) == {k \in DOMAIN g.values : k[1] \in EntriesOf(p)}

KeptValues(g, p) ==
    {k \in DOMAIN g.values :
        /\ k[1] \in EntriesOf(p)
        /\ k[1] \in EntriesOf(g.synced)
        /\ p.patch[k[1]].profile = g.synced.patch[k[1]].profile}

\* A faulty prune: stepping goes on over a shorter selection.
PrunedStepping(g, p, clear) ==
    LET kept == SelectSeq(g.selection, LAMBDA t : ValidTarget(p, t))
    IN  IF clear
        THEN [g EXCEPT !.selection = <<>>, !.stepping = FALSE,
                       !.values = NoFrames, !.highlight = FALSE]
        ELSE [g EXCEPT !.selection = kept,
                       !.values = [k \in KeptValues(g, p) |-> @[k]]]

Pruned(g, p, clear) ==
    LET kept == SelectSeq(g.selection, LAMBDA t : ValidTarget(p, t))
    IN  IF clear
        THEN [g EXCEPT !.selection = <<>>, !.stepping = FALSE,
                       !.values = NoFrames, !.highlight = FALSE]
        ELSE [g EXCEPT !.selection = kept,
                       !.stepping = @ /\ Len(kept) = Len(g.selection),
                       !.values = [k \in KeptValues(g, p) |-> @[k]]]

\* modelsDigest: identity, profile and address of every entry, in order.
Digest(p) == [order |-> p.order, patch |-> p.patch]

\* The digest of GET /api/faders: the ids and the member counts.
FaderDigest(p, groups) ==
    [f \in FaderIds(p, groups) |-> Cardinality(Members(p, groups, f))]

\* A refresh counts lost claims and changed members as a change of the
\* faders; a faulty one only lost claims.
ToldOfClaims(g, next) == IF next.moved # g.moved THEN BumpFaders(next) ELSE next
Told(g, next) ==
    IF next.moved # g.moved \/ next.faderDigest # g.faderDigest
    THEN BumpFaders(next) ELSE next

RefreshedFaders(g, clear) ==
    LET ids == FaderIds(g.synced, g.groups)
        next == [g EXCEPT !.moved = IF clear THEN <<>>
                                    ELSE SelectSeq(@, LAMBDA c : c.id \in ids),
                          !.faderDigest = FaderDigest(g.synced, g.groups)]
    IN  Told(g, next)

\* What Sync counts as a change of what a browser shows.
SyncTells(g, p, pruned, clear) ==
    \/ Digest(p) # Digest(g.synced)
    \/ Len(pruned.selection) # Len(g.selection)
    \/ Cardinality(DOMAIN pruned.values) # Cardinality(DOMAIN g.values)
    \/ clear /\ g.highlight

SyncedState(token, p, clear, g, pruned) ==
    LET now == [pruned EXCEPT !.synced = p, !.token = token]
    IN  RefreshedFaders(IF SyncTells(g, p, pruned, clear) THEN Bump(now) ELSE now, clear)

\* Sync, from the fields g: it sets pg, pub and the history.
Sync(token, p, clear, g) ==
    /\ IF ~clear /\ g.token = token THEN pg' = g /\ UNCHANGED pub
       ELSE /\ pg' = SyncedState(token, p, clear, g, Pruned(g, p, clear))
            /\ pub' = ApplyFaders(Apply([pub EXCEPT !.base = BaseOf(p)], pg'), pg')
    /\ touchedAs' = [k \in DOMAIN pg'.values |-> touchedAs[k]]

\* syncProgrammer: the stored groups first, then Sync.
SyncProgrammer(clear) ==
    Sync(stored.token, stored.content, clear,
         IF ~clear /\ pg.token = stored.token THEN pg
         ELSE [pg EXCEPT !.groups = stored.content.groups])

(***************************************************************************)
(* showGuard: an edit changes the store inside its handler, and the guard  *)
(* syncs when the handler has returned, clearing on a boundary (switch,    *)
(* new, reset).  showMu is held throughout.                                *)
(***************************************************************************)
EditShow(s, boundary) ==
    /\ guard = "free" /\ stored.token < MaxEdits
    /\ stored' = [content |-> s, token |-> stored.token + 1]
    /\ guard' = IF boundary THEN "boundary" ELSE "edit"
    /\ UNCHANGED <<pg, touchedAs, pub, out, arming, focus>>

GuardSync ==
    /\ guard # "free"
    /\ SyncProgrammer(guard = "boundary")
    /\ guard' = "free"
    /\ UNCHANGED <<stored, out, arming, focus>>

\* The syncProgrammer at the head of every programmer, fader and tests
\* handler, a plain GET included.
HandlerSync ==
    /\ guard = "free" /\ pg.token # stored.token
    /\ SyncProgrammer(FALSE)
    /\ UNCHANGED <<stored, out, guard, arming, focus>>

\* A handler body follows its own sync under showMu; the Arm handler's sync
\* can have come between them.
InHandler == guard = "free" /\ pg.token # 0

(***************************************************************************)
(* handleOutputArm: find the programmer out of date and read the show;     *)
(* hand over its groups; sync, and arm.                                    *)
(***************************************************************************)
ArmReads ==
    /\ "arm" \in focus
    /\ arming.at = "idle" /\ out.state # "armed"
    /\ IF pg.token = stored.token
       THEN out' = [out EXCEPT !.state = "armed"] /\ UNCHANGED arming
       ELSE /\ arming' = [at |-> "read", content |-> stored.content, token |-> stored.token]
            /\ UNCHANGED out
    /\ UNCHANGED <<stored, pg, touchedAs, pub, guard, focus>>

ArmGroups ==
    /\ arming.at = "read"
    /\ pg' = [pg EXCEPT !.groups = arming.content.groups]
    /\ arming' = [arming EXCEPT !.at = "sync"]
    /\ UNCHANGED <<stored, touchedAs, pub, out, guard, focus>>

ArmSyncs ==
    /\ arming.at = "sync"
    /\ Sync(arming.token, arming.content, FALSE, pg)
    /\ out' = [out EXCEPT !.state = "armed"]
    /\ arming' = NotArming
    /\ UNCHANGED <<stored, guard, focus>>

(***************************************************************************)
(* Select: unknown targets refuse the request; any change ends stepping.   *)
(***************************************************************************)
Without(q, t) == SelectSeq(q, LAMBDA u : u # t)
Added(q, t) == IF t \in ToSet(q) THEN q ELSE Append(q, t)
Toggled(q, t) == IF t \in ToSet(q) THEN Without(q, t) ELSE Append(q, t)

Selected(action, targets) ==
    CASE action = "set"    -> FoldLeft(Added, <<>>, targets)
      [] action = "add"    -> FoldLeft(Added, pg.selection, targets)
      [] action = "remove" -> FoldLeft(Without, pg.selection, targets)
      [] action = "toggle" -> FoldLeft(Toggled, pg.selection, targets)
      [] action = "all"    -> [n \in DOMAIN pg.synced.order |-> <<pg.synced.order[n], "">>]
      [] OTHER             -> <<>>

Select(action, targets) ==
    /\ InHandler /\ "select" \in focus
    /\ \A t \in ToSet(targets) : ValidTarget(pg.synced, t)
    /\ action \in {"all", "none"} => targets = <<>>
    /\ LET g == [pg EXCEPT !.selection = Selected(action, targets), !.stepping = FALSE]
       IN  pg' = Bump(g) /\ pub' = ApplyOverlay(pub, g)
    /\ UNCHANGED <<stored, touchedAs, out, guard, arming, focus>>

(***************************************************************************)
(* matchLocked: the channels of an attribute, target by target; a channel  *)
(* two targets share belongs to the first.                                 *)
(***************************************************************************)
Matches(p, targets, attr) ==
    LET keys(t) == {<<t[1], x>> : x \in InScope(p, t, attr)}
        mine(n) == keys(targets[n]) \ UNION {keys(targets[m]) : m \in 1 .. n - 1}
    IN  SelectSeq([n \in DOMAIN targets |-> mine(n)], LAMBDA ks : ks # {})

\* currentLocked: a channel's staged, touched or resting value.
Current(p, pending, k) ==
    IF k \in DOMAIN pending THEN pending[k]
    ELSE IF k \in DOMAIN pg.values THEN pg.values[k] ELSE Model(p, k[1]).rest[k[2]]

\* enforceMasterLocked: a master out of the function's range moves to the
\* near end, or to the value of the wheel slot it was on.
Enforced(p, pending, k, need) ==
    LET mk == <<k[1], need.master>>
        slot == Model(p, k[1]).slot[need.master]
        cur == Current(p, pending, mk)
        same == {w \in need.lo .. need.hi : slot[w] = slot[cur] /\ slot[w] # 0}
        next == IF same # {} THEN CHOOSE w \in same : \A u \in same : w <= u
                ELSE IF cur > need.hi THEN need.hi ELSE need.lo
    IN  IF cur \in need.lo .. need.hi THEN pending
        ELSE [j \in DOMAIN pending \cup {mk} |-> IF j = mk THEN next ELSE pending[j]]

\* placeLocked: stage a value, then the mode master its function needs.
Placed(p, pending, k, v) ==
    LET m == Model(p, k[1])
        staged == [j \in DOMAIN pending \cup {k} |-> IF j = k THEN v ELSE pending[j]]
        needs == {n \in m.needs : n.param = k[2] /\ v >= n.from}
    IN  IF needs = {} THEN staged
        ELSE Enforced(p, staged, k, CHOOSE n \in needs : TRUE)

\* The staged values of a list of matches, the n-th match taking value(n).
InOffsetOrder(p, ks) ==
    SetToSortSeq(ks, LAMBDA a, b : Model(p, a[1]).offset[a[2]] < Model(p, b[1]).offset[b[2]])

Staged(p, matches, value(_)) ==
    LET rows == FlattenSeq([n \in DOMAIN matches |->
                    LET ks == InOffsetOrder(p, matches[n])
                    IN  [i \in DOMAIN ks |-> <<ks[i], value(n)>>]])
    IN  FoldLeft(LAMBDA acc, r : Placed(p, acc, r[1], r[2]), NoFrames, rows)

IsCommand(p, k, v) == <<k[2], v>> \in Model(p, k[1]).commands

\* The pending values join the touched ones, and the sources are written.
Touch(pending) ==
    /\ Cardinality(DOMAIN pg.values \cup DOMAIN pending) <= MaxTouched
    /\ LET g == [pg EXCEPT !.values =
                    [k \in DOMAIN @ \cup DOMAIN pending |->
                        IF k \in DOMAIN pending THEN pending[k] ELSE @[k]]]
       IN  pg' = Bump(g) /\ pub' = Apply(pub, g)
    /\ touchedAs' = [k \in DOMAIN pg.values \cup DOMAIN pending |->
                        IF k \in DOMAIN pending THEN pg.synced.patch[k[1]].profile
                                                ELSE touchedAs[k]]
    /\ UNCHANGED <<stored, out, guard, arming, focus>>

\* commitLocked: nothing applied, or a command among the applied values,
\* refuses the whole request.
Committed(matches, value(_)) ==
    /\ matches # <<>>
    /\ \A n \in DOMAIN matches : \A k \in matches[n] :
          ~IsCommand(pg.synced, k, value(n))
    /\ Touch(Staged(pg.synced, matches, value))

Set(attr) ==
    /\ InHandler /\ "values" \in focus
    /\ \E v \in Levels :
          Committed(Matches(pg.synced, pg.selection, attr), LAMBDA n : v)

(***************************************************************************)
(* Fan: position i of n (from 0) takes From + round(t * (To - From)).      *)
(***************************************************************************)
Magnitude(x) == IF x < 0 THEN -x ELSE x
RoundedDiv(x, d) ==
    IF x >= 0 THEN (2 * x + d) \div (2 * d) ELSE -((2 * (-x) + d) \div (2 * d))

FanStep(shape, i, n) ==
    LET d == n - 1
    IN  CASE shape = "linear"  -> i
          [] shape = "reverse" -> d - i
          [] shape = "mirror"  -> Magnitude(2 * i - d)
          [] OTHER             -> d - Magnitude(2 * i - d)

FanValue(shape, i, n, a, b) == a + RoundedDiv(FanStep(shape, i, n) * (b - a), n - 1)

Shapes == {"linear", "reverse", "mirror", "edges-in"}

Fan(attr) ==
    LET matches == Matches(pg.synced, pg.selection, attr)
        n == Len(matches)
    IN  /\ InHandler /\ "values" \in focus
        /\ \E shape \in Shapes, a, b \in Levels :
              /\ n >= (IF shape \in {"mirror", "edges-in"} THEN 3 ELSE 2)
              /\ Committed(matches, LAMBDA i : FanValue(shape, i - 1, n, a, b))

(***************************************************************************)
(* Locate: every channel with a locate value; mode masters are not moved.  *)
(***************************************************************************)
Locate ==
    LET p == pg.synced
        keys == UNION {{<<t[1], x>> : x \in {y \in OfTarget(p, t) :
                                                Model(p, t[1]).locate[y] # -1}} :
                          t \in ToSet(pg.selection)}
    IN  /\ InHandler /\ "values" \in focus
        /\ keys # {}
        /\ Touch([k \in keys |-> Model(p, k[1]).locate[k[2]]])

(***************************************************************************)
(* RecallPreset: a target takes its own stored value of a channel, else    *)
(* that of the first stored fixture of its type that holds the channel.    *)
(***************************************************************************)
Recalled(p, preset, k) ==
    LET held(n) == preset[n].param = k[2] /\ preset[n].type = TypeOf(p, k[1])
        own == {n \in DOMAIN preset : held(n) /\ preset[n].entry = k[1]}
        donors == {n \in DOMAIN preset : held(n)}
        from == IF own # {} THEN own ELSE donors
    IN  IF from = {} THEN {}
        ELSE {preset[CHOOSE n \in from : \A m \in from : n <= m].value}

RecallPreset(preset) ==
    LET p == pg.synced
        keys == UNION {{<<t[1], x>> : x \in OfTarget(p, t)} : t \in ToSet(pg.selection)}
        got == {k \in keys : Recalled(p, preset, k) # {}}
    IN  /\ InHandler /\ "values" \in focus
        /\ got # {}
        /\ Touch([k \in got |-> CHOOSE v \in Recalled(p, preset, k) : TRUE])

(***************************************************************************)
(* Raw: write or release an offset no parameter covers.                    *)
(***************************************************************************)
Dropped(keys) ==
    LET g == [pg EXCEPT !.values = [k \in DOMAIN @ \ keys |-> @[k]]]
    IN  /\ pg' = Bump(g)
        /\ pub' = Apply(pub, g)
        /\ touchedAs' = [k \in DOMAIN g.values |-> touchedAs[k]]
        /\ UNCHANGED <<stored, out, guard, arming, focus>>

RawWrite(e, x, v) ==
    /\ InHandler /\ "values" \in focus
    /\ e \in EntriesOf(pg.synced) /\ x \in Model(pg.synced, e).raws
    /\ Touch([k \in {<<e, x>>} |-> v])

RawRelease(e, x) ==
    /\ InHandler /\ "values" \in focus
    /\ e \in EntriesOf(pg.synced) /\ x \in Model(pg.synced, e).raws
    /\ Dropped({<<e, x>>})

(***************************************************************************)
(* Clear: Clear All empties the selection too; with a group, or for the    *)
(* selection only, the matching values are released.                       *)
(***************************************************************************)
Cleared(scope, group) ==
    {k \in DOMAIN pg.values :
        LET m == Model(pg.synced, k[1])
        IN  /\ group # "" => k[2] \notin m.raws /\ m.group[k[2]] = group
            /\ \/ scope = "all"
               \/ \E t \in ToSet(pg.selection) :
                     t[1] = k[1] /\ (t[2] = "" \/ m.cell[k[2]] = t[2])}

ClearValues(scope, group) ==
    /\ InHandler /\ "values" \in focus
    /\ scope # "all" \/ group # ""
    /\ Dropped(Cleared(scope, group))

ClearAll ==
    /\ InHandler /\ "select" \in focus
    /\ LET g == [pg EXCEPT !.values = NoFrames, !.selection = <<>>, !.stepping = FALSE]
       IN  pg' = Bump(g) /\ pub' = Apply(pub, g)
    /\ touchedAs' = NoFrames
    /\ UNCHANGED <<stored, out, guard, arming, focus>>

(***************************************************************************)
(* SetHighlight: on or off, Lowlight, and one step through the selection,  *)
(* which does not wrap.                                                    *)
(***************************************************************************)
Stepped(g, step) ==
    LET last == Len(g.selection)
    IN  CASE step = "all" -> [g EXCEPT !.stepping = FALSE]
          [] step = "next" ->
                IF ~g.stepping THEN [g EXCEPT !.stepping = TRUE, !.step = 1]
                ELSE IF g.step < last THEN [g EXCEPT !.step = @ + 1] ELSE g
          [] step = "previous" ->
                IF ~g.stepping THEN [g EXCEPT !.stepping = TRUE, !.step = last]
                ELSE IF g.step > 1 THEN [g EXCEPT !.step = @ - 1] ELSE g
          [] OTHER -> g

SetHighlight(on, low, step) ==
    /\ InHandler /\ "highlight" \in focus
    /\ step \in {"next", "previous"} => on /\ pg.selection # <<>>
    /\ LET g == [pg EXCEPT !.highlight = on, !.lowlight = low,
                           !.stepping = @ /\ on]
       IN  pg' = Bump(Stepped(g, step)) /\ pub' = ApplyOverlay(pub, Stepped(g, step))
    /\ UNCHANGED <<stored, touchedAs, out, guard, arming, focus>>

(***************************************************************************)
(* SetFader, ReleaseFader.  g.moved is faderClaims in the order of their   *)
(* sequence numbers, most recently moved last.                             *)
(***************************************************************************)
SetFader(f, level) ==
    /\ InHandler /\ "faders" \in focus
    /\ f \in FaderIds(pg.synced, pg.groups)
    /\ LET rest == SelectSeq(pg.moved, LAMBDA c : c.id # f)
           g == [pg EXCEPT !.moved = Append(rest, [id |-> f, level |-> level])]
       IN  /\ Len(rest) < (IF "arm" \in focus THEN 1 ELSE MaxMoved)
           /\ pg' = BumpFaders(g) /\ pub' = ApplyFaders(pub, g)
    /\ UNCHANGED <<stored, touchedAs, out, guard, arming, focus>>

ReleaseFader(f) ==
    /\ InHandler /\ "faders" \in focus
    /\ f \in FaderIds(pg.synced, pg.groups)
    /\ \E c \in ToSet(pg.moved) : c.id = f
    /\ LET g == [pg EXCEPT !.moved = SelectSeq(@, LAMBDA c : c.id # f)]
       IN  pg' = BumpFaders(g) /\ pub' = ApplyFaders(pub, g)
    /\ UNCHANGED <<stored, touchedAs, out, guard, arming, focus>>

ReleaseFaders ==
    /\ InHandler /\ "faders" \in focus
    /\ pg.moved # <<>>
    /\ LET g == [pg EXCEPT !.moved = <<>>]
       IN  pg' = BumpFaders(g) /\ pub' = ApplyFaders(pub, g)
    /\ UNCHANGED <<stored, touchedAs, out, guard, arming, focus>>

(***************************************************************************)
(* Command: sent once while output is live, never stored.  The engine ends *)
(* it when its window runs out, or when output stops; commandEnded is then *)
(* called outside the engine's lock.                                       *)
(***************************************************************************)
Command(c, attr) ==
    /\ InHandler /\ "commands" \in focus
    /\ out.state = "armed"
    /\ Matches(pg.synced, pg.selection, attr) # <<>>
    /\ c \notin pg.cmds \cup out.running \cup out.ended
    /\ pg' = [pg EXCEPT !.cmds = @ \cup {c}]
    /\ out' = [out EXCEPT !.running = @ \cup {c}]
    /\ UNCHANGED <<stored, touchedAs, pub, guard, arming, focus>>

WindowEnds(c) ==
    /\ c \in out.running
    /\ out' = [out EXCEPT !.running = @ \ {c}, !.ended = @ \cup {c}]
    /\ UNCHANGED <<stored, pg, touchedAs, pub, guard, arming, focus>>

CommandEnded(c) ==
    /\ c \in out.ended
    /\ out' = [out EXCEPT !.ended = @ \ {c}]
    /\ pg' = [pg EXCEPT !.cmds = @ \ {c}]
    /\ UNCHANGED <<stored, touchedAs, pub, guard, arming, focus>>

\* Disarm, or a lost lease, ends every command on the wire.
OutputStops(state) ==
    /\ out.state = "armed"
    /\ out' = [state |-> state, running |-> {}, ended |-> out.ended \cup out.running]
    /\ UNCHANGED <<stored, pg, touchedAs, pub, guard, arming, focus>>

(***************************************************************************)
(* The specification.                                                      *)
(***************************************************************************)
ProgrammerInit ==
    /\ stored = [content |-> FirstShow, token |-> 1]
    /\ pg = [synced |-> EmptyShow, token |-> 0, selection |-> <<>>, values |-> NoFrames,
             highlight |-> FALSE, lowlight |-> FALSE, stepping |-> FALSE, step |-> 1,
             groups |-> NoFrames, moved |-> <<>>, faderDigest |-> NoFrames,
             revision |-> 0, faderRev |-> 0, cmds |-> {}]
    /\ touchedAs = NoFrames
    /\ pub = [base |-> Nothing, programmer |-> Nothing, highlight |-> Nothing,
              lowlight |-> {}, faders |-> Nothing]
    /\ out = [state |-> "disarmed", running |-> {}, ended |-> {}]
    /\ guard = "free"
    /\ arming = NotArming
    /\ focus \in Focus

Attrs == UNION {{ProfileOf[q].attr[x] : x \in ProfileOf[q].params} : q \in DOMAIN ProfileOf}
Groups == UNION {{ProfileOf[q].group[x] : x \in ProfileOf[q].params \ ProfileOf[q].raws} :
                    q \in DOMAIN ProfileOf}
ValueOps ==
    \/ \E attr \in Attrs : Set(attr) \/ Fan(attr)
    \/ Locate
    \/ \E preset \in Presets : RecallPreset(preset)
    \/ \E e \in EntriesOf(pg.synced) : \E x \in Model(pg.synced, e).raws :
          RawRelease(e, x) \/ \E v \in Levels : RawWrite(e, x, v)
    \/ \E scope \in {"all", "selection"}, group \in Groups \cup {""} : ClearValues(scope, group)

ProgrammerNext ==
    \/ \E s \in Holdings, boundary \in BOOLEAN : EditShow(s, boundary)
    \/ GuardSync \/ HandlerSync
    \/ ArmReads \/ ArmGroups \/ ArmSyncs
    \/ \E action \in {"set", "add", "remove", "toggle"}, ts \in SelectTargets : Select(action, ts)
    \/ \E action \in {"all", "none"} : Select(action, <<>>)
    \/ ValueOps
    \/ ClearAll
    \/ \E on, low \in BOOLEAN, step \in {"", "next", "previous", "all"} :
          SetHighlight(on, low, step)
    \/ \E f \in FaderIds(pg.synced, pg.groups) :
          ReleaseFader(f) \/ \E level \in Levels : SetFader(f, level)
    \/ ReleaseFaders
    \/ \E c \in Commands : \/ \E attr \in Attrs : Command(c, attr)
                           \/ WindowEnds(c) \/ CommandEnded(c)
    \/ \E state \in {"disarmed", "holding"} : OutputStops(state)

(***************************************************************************)
(* Properties.                                                             *)
(***************************************************************************)
ProgrammerTypeOK ==
    /\ pg.revision \in 0 .. 1 /\ pg.faderRev \in 0 .. 1
    /\ \A k \in DOMAIN pg.values : pg.values[k] \in Levels
    /\ pg.cmds \subseteq Commands
    /\ guard \in {"free", "edit", "boundary"}
    /\ arming.at \in {"idle", "read", "sync"}
    /\ DOMAIN touchedAs = DOMAIN pg.values

\* A command is shown as sending exactly as long as the engine runs it or
\* still owes its end (Command, commandEnded).
CommandsAreTold == pg.cmds = out.running \cup out.ended

\* Highlight steps only inside the selection, and only while it is on.
StepIsInSelection ==
    pg.stepping => pg.highlight /\ pg.step \in 1 .. Len(pg.selection)


\* No selection, no touched value and no claimed fader names a fixture, cell
\* or channel the synced patch does not have, and every value was set on the
\* profile its fixture has now.
NothingForeign ==
    /\ \A t \in ToSet(pg.selection) : ValidTarget(pg.synced, t)
    /\ \A k \in DOMAIN pg.values :
          /\ k \in Keys(pg.synced)
          /\ touchedAs[k] = pg.synced.patch[k[1]].profile
    /\ arming.at # "sync" =>
          \A c \in ToSet(pg.moved) : c.id \in FaderIds(pg.synced, pg.groups)

\* Each source on the wire is what the programmer's state says: nothing an
\* operation changed is left unpublished, and a channel several moved
\* faders set follows the most recently moved, so that releasing that one
\* hands it to the next.
LatestMoved(k) ==
    {n \in DOMAIN pg.moved :
        \E t \in Members(pg.synced, pg.groups, pg.moved[n].id) :
            k \in FaderSets(pg.synced, pg.moved[n].id, t)}

HeldOpen(k) ==
    \E n \in DOMAIN pg.moved : \E t \in Members(pg.synced, pg.groups, pg.moved[n].id) :
        k \in FaderHolds(pg.synced, pg.moved[n].id, t)

FaderShown(k) ==
    LET set == LatestMoved(k)
    IN  IF set # {} THEN {pg.moved[CHOOSE n \in set : \A m \in set : m <= n].level}
        ELSE IF HeldOpen(k) THEN {Top} ELSE {}

ShownOnFaders(k) ==
    IF IsVirtual(pg.synced, k)
    THEN IF k \in DOMAIN pub.faders.levels THEN {pub.faders.levels[k]} ELSE {}
    ELSE IF SlotOf(pg.synced, k) \in DOMAIN pub.faders.frames
         THEN {pub.faders.frames[SlotOf(pg.synced, k)]} ELSE {}

SourcesAreCurrent ==
    /\ pg.token # 0 => pub.base = BaseOf(pg.synced)
    /\ pub.programmer = Published(pg.synced, pg.values)
    /\ pub.highlight = HighlightOf(pg)
    /\ pub.lowlight = LowlitOf(pg)
    /\ arming.at # "sync" =>
          \A k \in Keys(pg.synced) :
             IsVirtual(pg.synced, k) \/ Addressable(pg.synced, k)
                => ShownOnFaders(k) = FaderShown(k)

\* What holds of the programmer in every state.
ProgrammerInvariant ==
    /\ ProgrammerTypeOK /\ CommandsAreTold /\ StepIsInSelection
    /\ NothingForeign /\ SourcesAreCurrent

\* What a browser reads never changes under one revision: a change of the
\* selection, the values, Highlight or the fixtures comes with a new
\* programmer revision, a change of the faders with a new fader revision.
ShownProgrammer ==
    <<pg.selection, pg.values, pg.highlight, pg.lowlight,
      IF pg.stepping THEN pg.step ELSE 0, Digest(pg.synced)>>

RevisionTells ==
    [][ /\ ShownProgrammer # ShownProgrammer' => pg.revision # pg'.revision
        /\ <<pg.moved, pg.faderDigest>> # <<pg.moved, pg.faderDigest>>'
              => pg.faderRev # pg'.faderRev ]_progVars

=============================================================================
