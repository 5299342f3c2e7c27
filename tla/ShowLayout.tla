------------------------------ MODULE ShowLayout ------------------------------
(***************************************************************************)
(* The layout of a show (web/layout.go): a grid with layers on which        *)
(* fixtures and saved groups are placed by hand, or derived from the        *)
(* fixtures' positions.  A placement is automatic or made by hand, and the  *)
(* automatic ones are placed anew whenever the positions or the user ask;   *)
(* a fixture with no other place shows in the grid of the Unplaced layer.   *)
(* Every request ends with the automatic derive of the show guard.          *)
(***************************************************************************)
EXTENDS Integers, Sequences, FiniteSets

LOCAL SX == INSTANCE SequencesExt
LOCAL FX == INSTANCE FiniteSetsExt

CONSTANTS Fixtures, SavedGroups,
          nowhere,      \* a fixture without a position
          MaxCell,      \* columns and rows lie in -MaxCell .. MaxCell
          MaxSpan,      \* width and height of a placement
          MaxLayers, MaxObjects, SearchRings, UnplacedCols,
          CellSizes, ZGaps,     \* sequences; the first of each is the default
          Spots,        \* places a user chooses: [col, row, w, h]
          Outlines,     \* objects a user draws, in half cells: [shape, from, to]
          Ranges,       \* heights of a layer made by hand: <<>> or <<low, high>>
          Relocations,  \* positions a location import may bring, by fixture
          FirstShows,   \* shows a server may open: [plan, layout]
          MaxLayoutEdits \* bound: requests

ASSUME LayoutConstants ==
  /\ {MaxCell, MaxSpan, MaxLayers, MaxObjects, SearchRings, MaxLayoutEdits} \subseteq Nat
  /\ UnplacedCols \in Nat \ {0}
  /\ CellSizes # <<>> /\ ZGaps # <<>>

VARIABLES plan,      \* [order: fixtures, at: their positions, groups]: the show
          layout,    \* the stored layout
          asked,     \* the request served last: [what, id]
          edited     \* requests served

layoutVars == <<plan, layout, asked, edited>>

Unplaced == 0
Axis == -MaxCell .. MaxCell
Grid == Axis \X Axis

-----------------------------------------------------------------------------
(* Items and layers.  An item is known by a number of its own, or by the     *)
(* fixture it places.                                                        *)

EntryItem(f) == <<"entry", f>>
Numbered(n) == <<"item", n>>
NumberOf(id) == IF id[1] = "item" THEN id[2] ELSE 0

\* newLayoutID: a number that names no layer or item of the layout.
Fresh(l) ==
  1 + FX!Max({0} \cup l.autoLayers \cup {l.layers[i].id : i \in DOMAIN l.layers}
             \cup {NumberOf(l.items[i].id) : i \in DOMAIN l.items})

Least(S) == IF S = {} THEN 0 ELSE FX!Min(S)
FindLayer(l, id) == Least({i \in DOMAIN l.layers : l.layers[i].id = id})
FindItem(l, id) == Least({i \in DOMAIN l.items : l.items[i].id = id})
EntryItems(l) == {i \in DOMAIN l.items : l.items[i].kind = "entry"}
Holds(l, f) == \E i \in EntryItems(l) : l.items[i].ref = f
Tally(l, kinds) == Cardinality({i \in DOMAIN l.items : l.items[i].kind \in kinds})
IsAuto(x) == x.kind = "entry" /\ x.mode = "auto"

Less(l, i) == [l EXCEPT !.items = SX!RemoveAt(@, i)]
WithItem(l, x) == [l EXCEPT !.items = Append(@, x)]

Covered(x) == (x.col .. x.col + x.w - 1) \X (x.row .. x.row + x.h - 1)
CellsTaken(l, layer) ==
  UNION {Covered(l.items[i]) : i \in {j \in DOMAIN l.items :
           l.items[j].layer = layer /\ l.items[j].kind # "object"}}

NextOrder(l, layer) ==
  FX!Max({0} \cup {l.items[i].order + 1 : i \in {j \in DOMAIN l.items : l.items[j].layer = layer}})

\* renumberItemOrders: contiguous on each layer, ties by place in the list.
Below(l, i) ==
  {j \in DOMAIN l.items : /\ l.items[j].layer = l.items[i].layer
                          /\ \/ l.items[j].order < l.items[i].order
                             \/ l.items[j].order = l.items[i].order /\ j < i}
RenumberItems(l) ==
  [l EXCEPT !.items = [i \in DOMAIN @ |-> [@[i] EXCEPT !.order = Cardinality(Below(l, i))]]]

\* insertLayers: new layers go just before the Unplaced one.
InsertLayers(l, new) ==
  LET at == FindLayer(l, Unplaced) - 1 IN
  [l EXCEPT !.layers = SubSeq(@, 1, at) \o new \o SubSeq(@, at + 1, Len(@))]

\* A layout of the first release has no modes and no Unplaced layer.
NormalizedLayout(l) ==
  LET moded == [l EXCEPT !.items = [i \in DOMAIN @ |->
                  IF @[i].mode = "" THEN [@[i] EXCEPT !.mode = "manual"] ELSE @[i]]]
  IN RenumberItems(IF FindLayer(l, Unplaced) # 0 THEN moded
                   ELSE [moded EXCEPT !.layers = Append(@, [id |-> Unplaced, z |-> <<>>])])

-----------------------------------------------------------------------------
(* The grid of the Unplaced layer: every fixture without a stored item, in   *)
(* patch order, on the cells no stored item takes.  Never stored.            *)

GridCell(k) == <<k % UnplacedCols, k \div UnplacedCols>>

GridItem(f, q, order) ==
  [id |-> EntryItem(f), kind |-> "entry", ref |-> f, layer |-> Unplaced, col |-> q[1], row |-> q[2],
   w |-> 1, h |-> 1, mode |-> "auto", order |-> order, geo |-> <<>>]

OnGrid(waiting, free, base) ==
  [i \in 1 .. FX!Min({Len(waiting), Len(free)}) |-> GridItem(waiting[i], GridCell(free[i]), base + i - 1)]

UnplacedItems(p, l) ==
  LET taken == CellsTaken(l, Unplaced) IN
  OnGrid(SelectSeq(p.order, LAMBDA f : ~Holds(l, f)),
         SelectSeq([k \in 1 .. UnplacedCols * (MaxCell + 1) |-> k - 1], LAMBDA k : GridCell(k) \notin taken),
         Cardinality({i \in DOMAIN l.items : l.items[i].layer = Unplaced}))

Shown(p, l) == l.items \o UnplacedItems(p, l)

\* materialize: an item of that grid is stored, by hand, where it stands.
Materialized(p, l, id) ==
  IF FindItem(l, id) # 0 THEN l
  ELSE [l EXCEPT !.items = @ \o SelectSeq([i \in DOMAIN UnplacedItems(p, l) |->
            [UnplacedItems(p, l)[i] EXCEPT !.mode = "manual"]], LAMBDA x : x.id = id)]

-----------------------------------------------------------------------------
(* Deriving.  Heights that lie close form a layer, or join the first layer   *)
(* whose range they overlap; a position names a cell, and a fixture whose    *)
(* cell is taken gets the free cell nearest its exact position.              *)

\* math.Round(n / d): halves away from zero.
Rounded(n, d) == IF n >= 0 THEN (2 * n + d) \div (2 * d) ELSE -((-2 * n + d) \div (2 * d))

Far(q, x, y, cell) == (q[1] * cell - x) * (q[1] * cell - x) + (q[2] * cell - y) * (q[2] * cell - y)
Nearer(q, b, x, y, cell) ==
  \/ Far(q, x, y, cell) < Far(b, x, y, cell)
  \/ Far(q, x, y, cell) = Far(b, x, y, cell) /\ q[2] < b[2]
  \/ Far(q, x, y, cell) = Far(b, x, y, cell) /\ q[2] = b[2] /\ q[1] < b[1]

Gap(i, j) == IF i > j THEN i - j ELSE j - i
Ring(q, at) == FX!Max({Gap(q[1], at[1]), Gap(q[2], at[2])})

\* bug: the search ends with the first ring that has a free cell.
FirstRing(free, at, x, y, cell) ==
  IF at \in free THEN {at}
  ELSE LET rings == {Ring(q, at) : q \in free} \cap (1 .. SearchRings)
           near == {q \in free : Ring(q, at) = FX!Min(rings)}
       IN IF rings = {} THEN {}
          ELSE {q \in near : \A b \in near : b = q \/ Nearer(q, b, x, y, cell)}

\* The cell of a fixture x, y away from the origin whose position rounds to at, if one is free.
CellFor(free, at, x, y, cell) ==
  IF at \in free THEN {at}
  ELSE LET rings == {Ring(q, at) : q \in free} \cap (1 .. SearchRings)
           near == {q \in free : Ring(q, at) <= 2 * FX!Min(rings) + 1}
       IN IF rings = {} THEN {}
          ELSE {q \in near : \A b \in near : b = q \/ Nearer(q, b, x, y, cell)}

Across(p, l, f) == p.at[f][1] - l.origin[1]
Down(p, l, f) == l.origin[2] - p.at[f][2]
Height(p, f) == p.at[f][3]

AboveAll == 1000

\* An automatic placement: a fixture keeps its item, and its order on the same layer.
AutoItem(f, k, layer, q, was) ==
  [id |-> IF was = {} THEN EntryItem(f) ELSE (CHOOSE x \in was : TRUE).id,
   kind |-> "entry", ref |-> f, layer |-> layer, col |-> q[1], row |-> q[2], w |-> 1, h |-> 1,
   mode |-> "auto", geo |-> <<>>,
   order |-> IF \E x \in was : x.layer = layer THEN (CHOOSE x \in was : TRUE).order ELSE AboveAll + k]

PlaceAt(l, f, k, layer, at, was) ==
  IF at = {} THEN l ELSE WithItem(l, AutoItem(f, k, layer, CHOOSE q \in at : TRUE, was))

PlaceOne(p, l, f, k, layer, cell, was) ==
  PlaceAt(l, f, k, layer,
          CellFor(Grid \ CellsTaken(l, layer), <<Rounded(Across(p, l, f), cell), Rounded(Down(p, l, f), cell)>>,
                  Across(p, l, f), Down(p, l, f), cell),
          was)

Declined(l) == [ok |-> FALSE, l |-> l]
Granted(l) == [ok |-> TRUE, l |-> l]

\* The fixtures to place as clusters of heights, lowest first: sets of fixtures.
Clusters(p, todo, gap) ==
  LET Z == {Height(p, f) : f \in todo}
      starts == {z \in Z : \A y \in Z : y < z => z - y > gap}
      cluster(s) == {f \in todo : /\ Height(p, f) >= s
                                  /\ \A t \in starts : t > s => Height(p, f) < t}
  IN SX!SetToSortSeq({cluster(s) : s \in starts},
                     LAMBDA c, d : \A f \in c, g \in d : Height(p, f) < Height(p, g))

Low(p, c) == FX!Min({Height(p, f) : f \in c})
High(p, c) == FX!Max({Height(p, f) : f \in c})
Joins(p, l, c) ==
  Least({i \in DOMAIN l.layers : /\ l.layers[i].z # <<>>
                                   /\ l.layers[i].z[1] <= High(p, c) /\ Low(p, c) <= l.layers[i].z[2]})

OnLayers(p, l, todo, clusters, cell, before, made) ==
  LET new == [i \in DOMAIN made |->
                [id |-> Fresh(l) + i - 1, z |-> <<Low(p, made[i]), High(p, made[i])>>]]
      layerOf(f) == LET c == CHOOSE c \in SX!ToSet(clusters) : f \in c IN
                    IF Joins(p, l, c) # 0 THEN l.layers[Joins(p, l, c)].id
                    ELSE new[CHOOSE i \in DOMAIN made : made[i] = c].id
  IN IF Len(l.layers) + Len(new) > MaxLayers THEN Declined(l)
     ELSE Granted(RenumberItems(
            SX!FoldLeft(LAMBDA so, k : PlaceOne(p, so, todo[k], k, layerOf(todo[k]), cell,
                                                {x \in before : x.ref = todo[k]}),
                        InsertLayers(l, new), [k \in DOMAIN todo |-> k])))

PlaceTodo(p, l, todo, clusters, cell, before) ==
  OnLayers(p, l, todo, clusters, cell, before, SelectSeq(clusters, LAMBDA c : Joins(p, l, c) = 0))

\* bug: placements by hand are taken off too.
TakesFixtures(l) == [l EXCEPT !.items = SelectSeq(@, LAMBDA x : x.kind # "entry")]

TakenOff(l) == [l EXCEPT !.items = SelectSeq(@, LAMBDA x : ~IsAuto(x))]

Todo(p, kept) == SelectSeq(p.order, LAMBDA f : p.at[f] # nowhere /\ ~Holds(kept, f))

\* autoPlace: automatic placements are taken off, then every fixture with a
\* position and no stored item is placed, in patch order.
AutoPlace(p, l, cell, gap) ==
  PlaceTodo(p, TakenOff(l), Todo(p, TakenOff(l)), Clusters(p, SX!ToSet(Todo(p, TakenOff(l))), gap),
            cell, {x \in SX!ToSet(l.items) : IsAuto(x)})

Located(p) == {f \in SX!ToSet(p.order) : p.at[f] # nowhere}

\* dropAutoDerive: the next derive is a first one.
DropAutoDerive(l) ==
  LET kept == TakenOff(l)
      used == {x.layer : x \in SX!ToSet(kept.items)}
  IN [kept EXCEPT !.layers = SelectSeq(@, LAMBDA y : y.id = Unplaced \/ y.id \in used \/ y.id \notin l.autoLayers),
                  !.derived = FALSE, !.autoDerived = FALSE, !.autoLayers = {}]

Emptied(l) ==
  [l EXCEPT !.items = <<>>, !.derived = FALSE, !.layers = SelectSeq(@, LAMBDA y : y.id = Unplaced)]

AtOrigin(p, l) ==
  IF l.derived THEN l
  ELSE [l EXCEPT !.origin = <<FX!Min({p.at[f][1] : f \in Located(p)}), FX!Max({p.at[f][2] : f \in Located(p)})>>]

AsDerived(r, cell, gap) ==
  IF r.ok THEN Granted([r.l EXCEPT !.derived = TRUE, !.cell = cell, !.gap = gap,
                                   !.autoDerived = FALSE, !.autoLayers = {}])
  ELSE r

\* deriveLayout, on a layout whose automatic derive is dropped; 0 = not in the request.
DeriveOn(p, l, cell, gap, replace) ==
  IF (l.derived /\ ~replace /\ cell # l.cell) \/ Located(p) = {} THEN Declined(l)
  ELSE AsDerived(AutoPlace(p, AtOrigin(p, IF replace THEN Emptied(l) ELSE l), cell, gap), cell, gap)

DeriveLayout(p, l, askedCell, askedGap, replace) ==
  LET saved == l.derived /\ ~l.autoDerived /\ ~replace
      cell == IF askedCell # 0 THEN askedCell ELSE IF saved THEN l.cell ELSE CellSizes[1]
      gap == IF askedGap # 0 THEN askedGap ELSE IF saved THEN l.gap ELSE ZGaps[1]
  IN DeriveOn(p, IF l.derived /\ l.autoDerived /\ ~replace THEN DropAutoDerive(l) ELSE l, cell, gap, replace)

\* autoLayout: what the server derives on its own.
AutoDerived(l, r) ==
  IF ~r.ok THEN l
  ELSE IF l.autoDerived \/ ~l.derived
  THEN [r.l EXCEPT !.autoDerived = TRUE,
                   !.autoLayers = @ \cup ({y.id : y \in SX!ToSet(r.l.layers)} \ {y.id : y \in SX!ToSet(l.layers)})]
  ELSE r.l

AutoLayout(p, l, refresh) ==
  IF Located(p) = {} \/ (l.derived /\ ~refresh) THEN l
  ELSE AutoDerived(l, IF l.derived THEN AutoPlace(p, l, l.cell, l.gap) ELSE DeriveLayout(p, l, 0, 0, FALSE))

\* autoLayoutShow: stored only when it changed something.
ChangedOnly(l, before, after) == IF after = before THEN l ELSE after
AutoLayoutShow(p, l, refresh) ==
  ChangedOnly(l, NormalizedLayout(l), RenumberItems(AutoLayout(p, NormalizedLayout(l), refresh)))

\* settleAuto: after placements were handed back to automatic placement.
SettleAuto(p, l) == IF l.derived THEN AutoPlace(p, l, l.cell, l.gap) ELSE Granted(TakenOff(l))

LayoutInit ==
  /\ \E s \in FirstShows : plan = s.plan /\ layout = AutoLayoutShow(s.plan, s.layout, FALSE)
  /\ asked = [what |-> "open", id |-> <<>>]
  /\ edited = 0

-----------------------------------------------------------------------------
(* Requests.  A layout action works on the normalized layout, stores the     *)
(* result with its orders renumbered, and the show guard derives what is     *)
(* not derived yet.  A refused request stores nothing.                       *)

ServeRequest(what, id) ==
  /\ edited < MaxLayoutEdits /\ edited' = edited + 1
  /\ asked' = [what |-> what, id |-> id]

Store(r) ==
  /\ r.ok
  /\ layout' = AutoLayoutShow(plan, RenumberItems(r.l), FALSE)
  /\ UNCHANGED plan

Now == NormalizedLayout(layout)

Derive(cell, gap, replace) ==
  ServeRequest(IF replace THEN "replace" ELSE "derive", <<>>) /\ Store(DeriveLayout(plan, Now, cell, gap, replace))

RefreshLayout ==
  /\ ServeRequest("refresh", <<>>) /\ layout.derived
  /\ Store(AutoPlace(plan, Now, layout.cell, layout.gap))

InBounds(s) ==
  /\ {s.w, s.h} \subseteq 1 .. MaxSpan
  /\ {s.col, s.row, s.col + s.w - 1, s.row + s.h - 1} \subseteq Axis

\* checkGeometry and overlapping: the other items of the layer leave the cells free.
Fits(l, layer, s, id) ==
  /\ InBounds(s)
  /\ Covered(s) \cap CellsTaken([l EXCEPT !.items = SelectSeq(@, LAMBDA x : x.id # id)], layer) = {}

ItemAt(id, kind, ref, layer, s, order) ==
  [id |-> id, kind |-> kind, ref |-> ref, layer |-> layer, col |-> s.col, row |-> s.row, w |-> s.w, h |-> s.h,
   mode |-> "manual", order |-> order, geo |-> <<>>]

\* A placement by hand takes the place of an automatic one of that fixture.
PlacedByHand(l, id, kind, ref, layer, s) ==
  LET held == {i \in DOMAIN l.items : l.items[i].kind = kind /\ l.items[i].ref = ref}
      auto == {i \in held : IsAuto(l.items[i])}
  IN IF /\ held = auto
        /\ auto # {} \/ Tally(l, {"entry", "group"}) < Len(plan.order) + Cardinality(plan.groups)
        /\ Fits(l, layer, s, id)
     THEN Granted(WithItem(IF auto = {} THEN l ELSE Less(l, FX!Max(auto)),
                           ItemAt(id, kind, ref, layer, s, NextOrder(l, layer))))
     ELSE Declined(l)

Place(kind, ref, layer, s) ==
  /\ ServeRequest("place", IF kind = "entry" THEN EntryItem(ref) ELSE Numbered(Fresh(Now)))
  /\ IF kind = "entry" THEN ref \in SX!ToSet(plan.order) ELSE ref \in plan.groups
  /\ FindLayer(Now, layer) # 0
  /\ Store(PlacedByHand(Now, asked'.id, kind, ref, layer, s))

Moved(l, i, layer, s) ==
  IF FindLayer(l, layer) # 0 /\ Fits(l, layer, s, l.items[i].id)
  THEN Granted([l EXCEPT !.items[i] =
         [@ EXCEPT !.layer = layer, !.col = s.col, !.row = s.row, !.w = s.w, !.h = s.h, !.mode = "manual",
                   !.order = IF layer = l.items[i].layer THEN @ ELSE NextOrder(l, layer)]])
  ELSE Declined(l)

Move(id, layer, s) ==
  /\ ServeRequest("move", id)
  /\ \E l \in {Materialized(plan, Now, id)} :
       \E i \in {FindItem(l, id)} \ {0} :
         l.items[i].kind # "object" /\ Store(Moved(l, i, layer, s))

Remove(id) ==
  /\ ServeRequest("remove", id)
  /\ \E i \in {FindItem(Now, id)} \ {0} : Store(Granted(Less(Now, i)))

Pin(id) ==
  /\ ServeRequest("pin", id)
  /\ \E l \in {Materialized(plan, Now, id)} :
       \E i \in {FindItem(l, id)} \ {0} : Store(Granted([l EXCEPT !.items[i].mode = "manual"]))

HandedBack(l, S) == [l EXCEPT !.items = [i \in DOMAIN @ |-> IF i \in S THEN [@[i] EXCEPT !.mode = "auto"] ELSE @[i]]]

\* reset-auto: one fixture, or all of them when id is <<>>.
ResetAuto(id) ==
  /\ ServeRequest("reset", id)
  /\ id = <<>> \/ \E i \in EntryItems(Now) : Now.items[i].id = id
  /\ \E S \in {{i \in EntryItems(Now) : id \in {<<>>, Now.items[i].id} /\ Now.items[i].mode # "auto"}} :
       Store(IF S = {} THEN Granted(Now) ELSE SettleAuto(plan, HandedBack(Now, S)))

\* item-order: to the front or the back of its layer, or one step.
Restacked(l, i, to) ==
  LET top == Cardinality({j \in DOMAIN l.items : l.items[j].layer = l.items[i].layer})
      next == l.items[i].order + IF to = "forward" THEN 1 ELSE -1
      other == {j \in DOMAIN l.items : l.items[j].layer = l.items[i].layer /\ l.items[j].order = next}
  IN IF to \in {"front", "back"} THEN [l EXCEPT !.items[i].order = IF to = "front" THEN top ELSE -1]
     ELSE [l EXCEPT !.items = [j \in DOMAIN @ |->
             IF j \in other THEN [@[j] EXCEPT !.order = l.items[i].order]
             ELSE IF j = i /\ other # {} THEN [@[j] EXCEPT !.order = next] ELSE @[j]]]

ItemOrder(id, to) ==
  /\ ServeRequest("order", id)
  /\ \E i \in {FindItem(Now, id)} \ {0} : Store(Granted(Restacked(Now, i, to)))

-----------------------------------------------------------------------------
(* Objects, drawn in half cells; the cells they cover block nothing.         *)

Floor(v) == v \div 2
Ceiling(v) == -((-v) \div 2)
Span(v, u) == FX!Max({1, Ceiling(FX!Max({v, u})) - Floor(FX!Min({v, u}))})

Drawable(o) ==
  /\ \A v \in {o.from[1], o.from[2], o.to[1], o.to[2]} : v \in -2 * MaxCell .. 2 * MaxCell
  /\ CASE o.shape = "line" -> o.from # o.to
       [] o.shape = "rect" -> o.to[1] > o.from[1] /\ o.to[2] > o.from[2]
       [] OTHER -> o.from = o.to

\* checkObject: the item of an outline, with the cells it covers.
Drawn(x, o) ==
  [x EXCEPT !.geo = o, !.col = Floor(FX!Min({o.from[1], o.to[1]})), !.row = Floor(FX!Min({o.from[2], o.to[2]})),
            !.w = Span(o.from[1], o.to[1]), !.h = Span(o.from[2], o.to[2])]

ObjectItem(id, layer, order) == ItemAt(id, "object", <<>>, layer, [col |-> 0, row |-> 0, w |-> 1, h |-> 1], order)

ObjectCreate(layer, o) ==
  /\ ServeRequest("draw", Numbered(Fresh(Now)))
  /\ FindLayer(Now, layer) # 0 /\ Drawable(o) /\ Tally(Now, {"object"}) < MaxObjects
  /\ Store(Granted(WithItem(Now, Drawn(ObjectItem(asked'.id, layer, NextOrder(Now, layer)), o))))

ObjectUpdate(id, layer, o) ==
  /\ ServeRequest("redraw", id)
  /\ FindLayer(Now, layer) # 0 /\ Drawable(o)
  /\ \E i \in {FindItem(Now, id)} \ {0} :
       /\ Now.items[i].kind = "object" /\ Now.items[i].geo.shape = o.shape
       /\ Store(Granted([Now EXCEPT !.items[i] =
            Drawn([@ EXCEPT !.layer = layer, !.order = IF layer = Now.items[i].layer THEN @ ELSE NextOrder(Now, layer)], o)]))

ObjectDuplicate(id) ==
  /\ ServeRequest("copy", Numbered(Fresh(Now)))
  /\ Tally(Now, {"object"}) < MaxObjects
  /\ \E i \in {FindItem(Now, id)} \ {0} :
       /\ Now.items[i].kind = "object"
       /\ \E o \in {[Now.items[i].geo EXCEPT !.from = <<@[1] + 2, @[2] + 2>>, !.to = <<@[1] + 2, @[2] + 2>>]} :
            /\ Drawable(o)
            /\ Store(Granted(WithItem(Now,
                 Drawn([Now.items[i] EXCEPT !.id = asked'.id, !.order = NextOrder(Now, Now.items[i].layer)], o))))

ObjectDelete(id) ==
  /\ ServeRequest("erase", id)
  /\ \E i \in {FindItem(Now, id)} \ {0} :
       Now.items[i].kind = "object" /\ Store(Granted(Less(Now, i)))

-----------------------------------------------------------------------------
(* Layers.                                                                   *)

LayerCreate(z) ==
  /\ ServeRequest("layer", <<>>)
  /\ Len(Now.layers) < MaxLayers
  /\ Store(Granted(InsertLayers(Now, <<[id |-> Fresh(Now), z |-> z]>>)))

LayerReorder(perm) ==
  /\ ServeRequest("layers", <<>>)
  /\ Store(Granted([Now EXCEPT !.layers = [i \in DOMAIN @ |-> @[perm[i]]]]))

LayerDelete(id, removeItems) ==
  /\ ServeRequest("unlayer", Numbered(id))
  /\ id # Unplaced
  /\ removeItems \/ \A x \in SX!ToSet(Now.items) : x.layer # id
  /\ \E i \in {FindLayer(Now, id)} \ {0} :
       Store(Granted([Now EXCEPT !.items = SelectSeq(@, LAMBDA x : x.layer # id), !.layers = SX!RemoveAt(@, i)]))

-----------------------------------------------------------------------------
(* Requests on the show that the layout follows.                             *)

\* dropLayoutRefs: the placements of a fixture or group; nothing is stored when there is none.
DropLayoutRefs(l, kind, ref) ==
  LET others == SelectSeq(NormalizedLayout(l).items, LAMBDA x : x.kind # kind \/ x.ref # ref) IN
  IF Len(others) = Len(l.items) THEN l ELSE [NormalizedLayout(l) EXCEPT !.items = others]

DeleteFixture(f) ==
  /\ ServeRequest("delete", EntryItem(f))
  /\ f \in SX!ToSet(plan.order)
  /\ plan' = [plan EXCEPT !.order = SelectSeq(@, LAMBDA g : g # f)]
  /\ layout' = AutoLayoutShow(plan', DropLayoutRefs(layout, "entry", f), FALSE)

DeleteGroup(g) ==
  /\ ServeRequest("ungroup", <<"group", g>>)
  /\ g \in plan.groups
  /\ plan' = [plan EXCEPT !.groups = @ \ {g}]
  /\ layout' = AutoLayoutShow(plan', [Now EXCEPT !.items = SelectSeq(@, LAMBDA x : x.kind # "group" \/ x.ref # g)], FALSE)

AddFixture(f) ==
  /\ ServeRequest("add", EntryItem(f))
  /\ f \notin SX!ToSet(plan.order)
  /\ plan' = [plan EXCEPT !.order = Append(@, f)]
  /\ layout' = AutoLayoutShow(plan', layout, FALSE)

ReorderFixtures(perm) ==
  /\ ServeRequest("reorder", <<>>)
  /\ plan' = [plan EXCEPT !.order = [i \in DOMAIN @ |-> @[perm[i]]]]
  /\ layout' = AutoLayoutShow(plan', layout, FALSE)

\* An MVR import or a location re-import, which refreshes the automatic placements.
Relocate(at) ==
  /\ ServeRequest("relocate", <<>>)
  /\ plan' = [plan EXCEPT !.at = at]
  /\ layout' = AutoLayoutShow(plan', layout, TRUE)

ItemIds == {x.id : x \in SX!ToSet(Shown(plan, Now))}
LayerIds == {y.id : y \in SX!ToSet(Now.layers)}

\* The new orders tried: two places exchanged.
Swaps(S) == {[i \in S |-> IF i = m THEN n ELSE IF i = n THEN m ELSE i] : m, n \in S}

LayoutNext ==
  \/ \E cell \in {0} \cup SX!ToSet(Tail(CellSizes)), gap \in {0} \cup SX!ToSet(Tail(ZGaps)), replace \in BOOLEAN :
       Derive(cell, gap, replace)
  \/ RefreshLayout
  \/ \E layer \in LayerIds, s \in Spots :
       \/ \E f \in Fixtures : Place("entry", f, layer, s)
       \/ \E g \in SavedGroups : Place("group", g, layer, s)
       \/ \E id \in ItemIds : Move(id, layer, s)
  \/ \E id \in ItemIds :
       \/ Remove(id) \/ Pin(id) \/ ResetAuto(id) \/ ObjectDuplicate(id) \/ ObjectDelete(id)
       \/ \E to \in {"front", "back", "forward", "backward"} : ItemOrder(id, to)
       \/ \E layer \in LayerIds, o \in Outlines : ObjectUpdate(id, layer, o)
  \/ ResetAuto(<<>>)
  \/ \E layer \in LayerIds, o \in Outlines : ObjectCreate(layer, o)
  \/ \E z \in Ranges : LayerCreate(z)
  \/ \E perm \in Swaps(DOMAIN Now.layers) : LayerReorder(perm)
  \/ \E layer \in LayerIds, removeItems \in BOOLEAN : LayerDelete(layer, removeItems)
  \/ \E f \in Fixtures : DeleteFixture(f) \/ AddFixture(f)
  \/ \E g \in SavedGroups : DeleteGroup(g)
  \/ \E perm \in Swaps(DOMAIN plan.order) : ReorderFixtures(perm)
  \/ \E at \in Relocations : Relocate(at)
-----------------------------------------------------------------------------
(* Properties.                                                               *)

HandItems(l) == {x \in SX!ToSet(l.items) : ~IsAuto(x)}
StoredItems(l) == SX!ToSet(l.items)

(* A layout that is served is whole: every item lies on a layer that exists, *)
(* and orders are contiguous on a layer once normalized.                     *)
LayoutTypeOK ==
  /\ plan.groups \subseteq SavedGroups /\ SX!ToSet(plan.order) \subseteq Fixtures
  /\ \A x \in StoredItems(Now) : /\ FindLayer(Now, x.layer) # 0
                           /\ x.mode \in {"auto", "manual"} /\ (x.mode = "auto" => x.kind = "entry")
                           /\ x.kind # "object" => InBounds(x)
  /\ Len(Now.layers) <= MaxLayers /\ Tally(Now, {"object"}) <= MaxObjects

(* Whatever is placed, removed, derived or deleted, a browser is shown every  *)
(* fixture of the show exactly once, under an id of its own, and never two    *)
(* fixtures or groups in one cell of a layer (unplacedItems, overlapping).    *)
EveryFixtureShows ==
  \A shown \in {Shown(plan, Now)} :
    /\ \A f \in SX!ToSet(plan.order) :
         Cardinality({i \in DOMAIN shown : shown[i].kind = "entry" /\ shown[i].ref = f}) = 1
    /\ \A i, j \in DOMAIN shown :
         i < j => /\ shown[i].id # shown[j].id
                  /\ \/ shown[i].layer # shown[j].layer
                     \/ "object" \in {shown[i].kind, shown[j].kind}
                     \/ Covered(shown[i]) \cap Covered(shown[j]) = {}

(* Refreshing a refreshed layout moves nothing: the layers a derive makes are *)
(* the ones the next derive joins, and orders and cells come out the same.    *)
RefreshSettles(once, twice) == once.ok => twice = once

(* A fixture placed automatically has the free cell nearest its position: the *)
(* cells taken then are those of the items before it (nearestFree, autoPlace).*)
NearestFreeCell(l) ==
  \A i \in DOMAIN l.items : IsAuto(l.items[i]) =>
    \A x \in {l.items[i]} :
      \A q \in Grid \ CellsTaken([l EXCEPT !.items = SubSeq(@, 1, i - 1)], x.layer) :
        Far(q, Across(plan, l, x.ref), Down(plan, l, x.ref), l.cell)
          >= Far(<<x.col, x.row>>, Across(plan, l, x.ref), Down(plan, l, x.ref), l.cell)

(* The conjunction of the above, for the layout and for what a refresh of it  *)
(* would store.                                                               *)
LayoutInvariant ==
  /\ LayoutTypeOK /\ EveryFixtureShows
  /\ layout.derived =>
       \A once \in {AutoPlace(plan, Now, layout.cell, layout.gap)} :
         /\ RefreshSettles(once, AutoPlace(plan, once.l, layout.cell, layout.gap))
         /\ once.ok => NearestFreeCell(once.l)

\* The request names the item, its fixture, its group or its layer, or says replace.
AskedFor(x) ==
  \/ asked'.what = "replace"
  \/ asked'.what = "reset" /\ x.kind = "entry" /\ asked'.id \in {<<>>, x.id}
  \/ asked'.what \in {"move", "remove", "redraw", "erase"} /\ asked'.id = x.id
  \/ asked'.what = "unlayer" /\ asked'.id = Numbered(x.layer)
  \/ asked'.what = "delete" /\ x.kind = "entry" /\ asked'.id = EntryItem(x.ref)
  \/ asked'.what = "ungroup" /\ x.kind = "group" /\ asked'.id = <<"group", x.ref>>

Stays(x, y) == y = [x EXCEPT !.mode = "manual", !.order = y.order]

(* What was placed by hand -- fixtures, groups, objects -- stays where it is, *)
(* with the stacking among itself and the layers made by hand, whatever the   *)
(* server derives on its own, refreshes or is asked of other items; and       *)
(* pinning a fixture moves none (deriveLayout, autoLayout, materialize).      *)
HandStays ==
  [][ /\ \A x \in HandItems(Now) : AskedFor(x) \/ \E y \in HandItems(Now') : Stays(x, y)
      /\ asked'.what \notin {"replace", "order"} =>
           \A x, y \in HandItems(Now) :
             \A v, w \in HandItems(Now') :
               Stays(x, v) /\ Stays(y, w) /\ ~AskedFor(x) /\ ~AskedFor(y) /\ x.layer = y.layer /\ x.order < y.order => v.order < w.order
      /\ \A y \in SX!ToSet(layout.layers) :
           \/ y.id \in layout.autoLayers \/ asked'.what = "replace" \/ asked' = [what |-> "unlayer", id |-> Numbered(y.id)]
           \/ y \in SX!ToSet(layout'.layers)
      /\ asked'.what = "pin" =>
           {<<x.id, x.layer, x.col, x.row>> : x \in SX!ToSet(Shown(plan, Now))}
             = {<<x.id, x.layer, x.col, x.row>> : x \in SX!ToSet(Shown(plan', Now'))}
    ]_layoutVars
=============================================================================
