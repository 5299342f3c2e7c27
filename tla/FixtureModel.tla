---------------------------- MODULE FixtureModel ----------------------------
(***************************************************************************)
(* The intensity part of a fixture's parameter model                       *)
(* (internal/patch/programmer_model.go): which geometries are cells, which *)
(* scopes get a virtual dimmer, how the dimmers fall into parts, which     *)
(* part is the master, which dimmers are inner, which parts the master     *)
(* channel governs and which the software master multiplies, and what a    *)
(* highlighted cell opens.  Everything here is a pure function of the      *)
(* profile, as BuildFixtureModel is.                                       *)
(*                                                                         *)
(* A profile is [attrs, tree]: the attributes found at each geometry       *)
(* instance, "Colour" standing for a whole set of additive emitters with   *)
(* red, green and blue, and the GDTF geometry tree (instance -> parent;    *)
(* NoTree for a profile imported without it).  Root is the empty instance  *)
(* of channels that name no geometry.  Offsets are left out: a dimmer is   *)
(* named by its instance and whether it is virtual.                        *)
(*                                                                         *)
(* The last part says what light does: every real dimmer above an emitter  *)
(* in the tree dims it on the fixture, and the frames carry the software   *)
(* factors.  It is the reference the promises of the file comment          *)
(* (MASTER MULTIPLIER, INNER DIMMERS, J1c for cells) are read against.     *)
(***************************************************************************)
EXTENDS Integers, FiniteSets

CONSTANTS Instances,    \* geometry instances that carry channels
          Root,         \* the empty instance
          PartKeyOf,    \* [Instances -> part key]: first word of the name
          RootKey,      \* the part key of Root, ""
          BodyKeys,     \* keys that name a body geometry (RootKey among them)
          NoTree,       \* a profile without its geometry tree
          Carried,      \* what may be found at the geometries
          Trees         \* the geometry trees to examine

Attributes == {"Dimmer", "Colour", "Other"}
Anywhere == Instances \cup {Root}

ASSUME ModelConstants ==
    /\ IsFiniteSet(Instances) /\ Root \notin Instances
    /\ RootKey \in BodyKeys
    /\ Carried \subseteq [Anywhere -> SUBSET Attributes]
    /\ Trees \subseteq [Instances -> Anywhere]

Profiles == [attrs : Carried, tree : Trees \cup {NoTree}]

PartKey(i) == IF i = Root THEN RootKey ELSE PartKeyOf[i]

Real(i) == [inst |-> i, virtual |-> FALSE]
Virtual(s) == [inst |-> s, virtual |-> TRUE]
PartOf(d) == PartKey(d.inst)

(***************************************************************************)
(* assignCells: a cell is an instance whose attribute set another instance *)
(* of the fixture has too.                                                 *)
(***************************************************************************)
Cells(q) ==
    {i \in Instances :
        /\ q.attrs[i] # {}
        /\ \E j \in Instances \ {i} : q.attrs[j] = q.attrs[i]}

\* The instances of scope s: one cell, or everything that is not a cell's.
Scope(cells, s) == IF s \in cells THEN {s} ELSE Anywhere \ cells

(***************************************************************************)
(* addVirtualDimmers: a scope with colour and no dimmer of its own; a cell *)
(* only when its part has no real dimmer.                                  *)
(***************************************************************************)
VirtualDimmers(q, cells) ==
    LET has(s, a) == \E i \in Scope(cells, s) : a \in q.attrs[i]
        realParts == {PartKey(i) : i \in {j \in Anywhere : "Dimmer" \in q.attrs[j]}}
    IN  {s \in {Root} \cup cells :
            /\ has(s, "Colour") /\ ~has(s, "Dimmer")
            /\ s # Root => PartKey(s) \notin realParts}

AllDimmers(q, virtuals) ==
    {Real(i) : i \in {j \in Anywhere : "Dimmer" \in q.attrs[j]}}
        \cup {Virtual(s) : s \in virtuals}

(***************************************************************************)
(* assignParts: the master part is the only one that holds no cell and no  *)
(* virtual dimmer, or the only body geometry among several such parts.     *)
(***************************************************************************)
MasterPart(cells, dimmers) ==
    LET cellKeys == {PartKey(i) : i \in cells}
                        \cup {PartOf(d) : d \in {e \in dimmers : e.virtual}}
        candidates == {PartOf(d) : d \in dimmers} \ cellKeys
        body == candidates \cap BodyKeys
    IN  IF Cardinality(candidates) = 1 THEN candidates
        ELSE IF Cardinality(body) = 1 THEN body ELSE {}

(***************************************************************************)
(* The geometry tree: the proper ancestors of every instance.              *)
(***************************************************************************)
Parent(t, i) == IF i = Root THEN Root ELSE t[i]

Ancestors(t) ==
    LET up[n \in 0 .. Cardinality(Instances)] ==
            IF n = 0 THEN [i \in Anywhere |-> i]
            ELSE LET below == up[n - 1] IN [i \in Anywhere |-> Parent(t, below[i])]
        steps == {up[n] : n \in 1 .. Cardinality(Instances)}
    IN  [i \in Anywhere |-> IF t = NoTree THEN {} ELSE {u[i] : u \in steps} \ {Root}]

\* A geometry tree is one: nothing hangs below itself.
ASSUME TreesAreTrees == \A t \in Trees : \A i \in Instances : i \notin Ancestors(t)[i]

(***************************************************************************)
(* markInnerDimmers: the dimmers that lie below another dimmer of their    *)
(* part; nothing is inner without the tree.                                *)
(***************************************************************************)
Inner(dimmers, above) ==
    {d \in dimmers :
        \E e \in dimmers : PartOf(e) = PartOf(d) /\ e.inst \in above[d.inst]}

(***************************************************************************)
(* addVirtualMaster: a fixture of several parts gets a software master,    *)
(* which multiplies the outermost dimmers of the parts that do not lie     *)
(* wholly under a master channel; without the tree every part counts as    *)
(* governed by a master channel.                                           *)
(***************************************************************************)
UnderMaster(q, channels, above, i) ==
    /\ channels # {}
    /\ \/ q.tree = NoTree
       \/ i # Root /\ \E d \in channels : d.inst \in {i} \cup above[i]

Governed(dimmers, master, under) ==
    {k \in {PartOf(d) : d \in dimmers} :
        k \in master \/ \A d \in dimmers : PartOf(d) = k => d \in under}

\* A faulty software master: the parts the master channel is above are
\* multiplied too.
MultipliesOthers(dimmers, inner, master, under) ==
    {d \in dimmers \ inner : PartOf(d) \notin master}
Multiplied(dimmers, inner, master, under) ==
    {d \in dimmers \ inner : PartOf(d) \notin Governed(dimmers, master, under)}

BuildFixtureModel(q) ==
    LET cells == Cells(q)
        dimmers == AllDimmers(q, VirtualDimmers(q, cells))
        parts == {PartOf(d) : d \in dimmers}
        master == MasterPart(cells, dimmers)
        channels == {d \in dimmers : ~d.virtual /\ PartOf(d) \in master}
        above == Ancestors(q.tree)
        inner == Inner(dimmers, above)
        under == {d \in dimmers : UnderMaster(q, channels, above, d.inst)}
    IN  [cells |-> cells, dimmers |-> dimmers, parts |-> parts,
         master |-> master, channels |-> channels, inner |-> inner, under |-> under,
         hasVirtualMaster |-> Cardinality(parts) > 1,
         multiplied |-> IF Cardinality(parts) > 1
                        THEN Multiplied(dimmers, inner, master, under) ELSE {},
         scales |-> [s \in {Root} \cup cells |->
                        {i \in Scope(cells, s) : "Colour" \in q.attrs[i]}],
         above |-> above,
         lit |-> {i \in Instances : "Colour" \in q.attrs[i]}]

(***************************************************************************)
(* masterFor, cellPartDimmer, cellOpens: what a highlighted cell opens     *)
(* besides its own channels.  The code takes the first in channel order.   *)
(***************************************************************************)
OneOf(S) == IF S = {} THEN {} ELSE {CHOOSE d \in S : TRUE}

OutsideCells(m) == {d \in m.dimmers : ~d.virtual /\ d.inst \notin m.cells}

MasterFor(m, s) ==
    OneOf({d \in OutsideCells(m) :
              IF m.master # {} THEN PartOf(d) \in m.master
                               ELSE PartOf(d) = PartKey(s)})

CellPartDimmer(m, s) ==
    IF \E d \in m.dimmers : d.inst = s THEN {}
    ELSE OneOf({d \in OutsideCells(m) : PartOf(d) = PartKey(s)})

\* A faulty highlight: it opens the fixture's master alone.
OpensTheMaster(m, s) == MasterFor(m, s)
CellOpens(m, s) == MasterFor(m, s) \cup CellPartDimmer(m, s)

(***************************************************************************)
(* partDimmers: what a part fader sets.                                    *)
(***************************************************************************)
PartDimmers(m, k) == {d \in m.dimmers \ m.inner : PartOf(d) = k}

(***************************************************************************)
(* Light.  The dimmers an emitter's light passes: the real ones at its     *)
(* geometry and above it in the tree, and the virtual one that scales it.  *)
(***************************************************************************)
Passes(m, i) ==
    {d \in m.dimmers :
        IF d.virtual THEN i \in m.scales[d.inst]
                     ELSE d.inst \in {i} \cup m.above[i]}

\* How often the fixture's master level enters the light of i when a whole-
\* fixture control sets it: through the master channels the light passes,
\* and through each software multiplication of a dimmer it passes.
MasterFactors(m, i) ==
    Cardinality(Passes(m, i) \cap m.channels)
        + Cardinality(Passes(m, i) \cap m.multiplied)

\* How often the level of part k does, set by its part fader.
PartFactors(m, i, k) == Cardinality(Passes(m, i) \cap PartDimmers(m, k))

(***************************************************************************)
(* The geometries the rules are made for: a part lies wholly under the     *)
(* master channel or wholly outside it, light passes the dimmers of one    *)
(* part besides the master, the master channel hangs below no dimmer, no   *)
(* cell below another cell, and no other emitter below a cell whose name   *)
(* has no word ("1"), which the rules take for part of the fixture.        *)
(***************************************************************************)
PartsApart(m) ==
    /\ \A d, e \in m.dimmers :
          PartOf(d) = PartOf(e) /\ PartOf(d) \notin m.master
              => (d \in m.under <=> e \in m.under)
    /\ \A i \in m.lit \cup m.cells :
          /\ Cardinality({PartOf(d) : d \in Passes(m, i)} \ m.master) <= 1
          /\ Cardinality(Passes(m, i) \cap m.channels) <= 1
    /\ \A d \in m.channels : \A e \in m.dimmers : e.inst \notin m.above[d.inst]
    /\ \A s \in m.cells : m.above[s] \cap m.cells = {}
    /\ \A i \in m.lit \ m.cells : \A s \in m.above[i] \cap m.cells : PartKey(s) # RootKey

(***************************************************************************)
(* The cells a highlight can open: no cell hangs below another; the real   *)
(* dimmers above a cell are its part's and the master's, which has one,    *)
(* and so has the part outside the cells; and where there is a master, a   *)
(* cell with a dimmer of its own has no other of its part above it.        *)
(***************************************************************************)
AboveCell(m, s) == {d \in Passes(m, s) : d.inst # s /\ ~d.virtual}

CellsApart(m) ==
    /\ \A s \in m.cells : m.above[s] \cap m.cells = {}
    /\ \A d, e \in OutsideCells(m) :
          PartOf(d) = PartOf(e) /\ PartOf(d) \in m.master \cup {PartKey(s) : s \in m.cells}
              => d = e
    /\ \A s \in m.cells : \A d \in AboveCell(m, s) :
          \/ PartOf(d) \in m.master
          \/ PartOf(d) = PartKey(s) /\ (m.master = {} \/ \A e \in m.dimmers : e.inst # s)

(***************************************************************************)
(* One fixture's patching, as Programmer.Sync does for every entry: the    *)
(* profile arrives, its model is built; later the profile is replaced.     *)
(***************************************************************************)
VARIABLE fixture        \* [profile, model]

FixtureInit ==
    \E q \in Profiles : fixture = [profile |-> q, model |-> BuildFixtureModel(q)]

\* A re-import of the GDTF brings the geometry tree a profile lacked.
Reimport ==
    /\ fixture.profile.tree = NoTree
    /\ \E t \in Trees :
          LET q == [fixture.profile EXCEPT !.tree = t]
          IN  fixture' = [profile |-> q, model |-> BuildFixtureModel(q)]

FixtureNext == Reimport
FixtureSpec == FixtureInit /\ [][FixtureNext]_fixture

(***************************************************************************)
(* Properties.                                                             *)
(***************************************************************************)
\* "Effective part output = master x part, WITHOUT double dimming": where
\* the parts are kept apart by the geometry, the light of every emitter a
\* part fader reaches carries the master level exactly once, and the level
\* of no part twice.
MasterTimesPart ==
    LET m == fixture.model
    IN  m.hasVirtualMaster /\ fixture.profile.tree # NoTree /\ PartsApart(m) =>
            \A i \in m.lit :
                /\ Passes(m, i) # {} => MasterFactors(m, i) = 1
                /\ \A k \in m.parts \ m.master : PartFactors(m, i, k) <= 1

\* "Highlight on a single cell must open its fixture's master, and its part
\* dimmer where that applies": every real dimmer the light of a cell passes
\* is its own or one a highlighted cell opens.
CellsCanBeSeen ==
    LET m == fixture.model
    IN  fixture.profile.tree # NoTree /\ CellsApart(m) =>
            \A s \in m.cells : AboveCell(m, s) \subseteq CellOpens(m, s)

=============================================================================
