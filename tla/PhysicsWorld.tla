---------------------------- MODULE PhysicsWorld ----------------------------
(***************************************************************************)
(* The body pool and the collision detection of calynda_physics.c.  A body *)
(* is a slot of the array world->bodies, and a pointer to it the number of *)
(* the slot.  Destroying a body moves the last one into its slot, so that  *)
(* the pointer phys_body_create returned need not point to it any more.    *)
(* Detection walks the cells of a grid built at its beginning and calls    *)
(* client code for every contact; client code may create and destroy       *)
(* bodies there as well.                                                   *)
(*                                                                         *)
(* Geometry is abstract: where a body is and which bodies touch is chosen  *)
(* at the beginning of a step, after integration, and stays until its end. *)
(***************************************************************************)
EXTENDS Integers, FiniteSets, SequencesExt

CONSTANTS
  Names,        \* identities of bodies, one for each successful creation
  Layers,       \* bits of collision_layer and collision_mask
  Kinds,        \* the kinds of bodies client code creates
  Positions,    \* the grid cells that bodies are in
  BodiesMax,    \* PHYS_MAX_BODIES
  ContactsMax,  \* PHYS_MAX_CONTACTS
  CellMax,      \* PHYS_GRID_MAX_PER_CELL
  GridDim       \* PHYS_GRID_DIM

Coordinates == 0..(GridDim - 1)
Cells == Coordinates \X Coordinates \X Coordinates

Kind == [plane : BOOLEAN, static : BOOLEAN, layer : Layers, mask : SUBSET Layers]

ASSUME WorldAssumption ==
  /\ Kinds \subseteq Kind
  /\ Positions \subseteq Cells
  /\ BodiesMax \in Nat \ {0} /\ ContactsMax \in Nat /\ CellMax \in Nat /\ GridDim \in Nat

VARIABLES
  bodies,     \* world->bodies
  count,      \* world->body_count
  handle,     \* the pointers that creations returned; 0 is NULL
  contacts,   \* world->contacts[0 .. contact_count) during a step
  phase,      \* where phys_world_step is; "client" when it is not running
  rows,       \* the rows of tests the loop over the grid has still to do
  row,        \* the row it is in
  plane,      \* i and j of the loop over planes
  calling,    \* is on_collision running?
  place,      \* the grid cell of each body
  touch,      \* the pairs of bodies that touch
  freed,      \* history: the bodies whose pointer was destroyed
  built,      \* history: the bodies in the world when the grid was built
  removed     \* history: was a body destroyed since?

poolVars == <<bodies, count, handle, freed>>
stepVars == <<contacts, phase, rows, row, plane, place, touch, built>>
worldVars == <<poolVars, stepVars, calling, removed>>

Slots == 1..BodiesMax

\* A slot that was never used is all zero.
Unused == [name |-> "none", id |-> 0, active |-> FALSE]

World == {bodies[i].name : i \in 1..count}
Created == {n \in Names : handle[n] # 0}

NoRow == [a |-> 0, bs |-> <<>>]

WorldInit ==
  /\ bodies = [i \in Slots |-> Unused]
  /\ count = 0
  /\ handle = [n \in Names |-> 0]
  /\ freed = {}
  /\ contacts = <<>>
  /\ phase = "client"
  /\ rows = <<>> /\ row = NoRow /\ plane = <<1, 0>>
  /\ calling = FALSE
  /\ place = <<>> /\ touch = {} /\ built = {}
  /\ removed = FALSE

-----------------------------------------------------------------------------
(* The pool *)

\* Client code runs outside phys_world_step and in on_collision.
ClientHasControl == phase = "client" \/ calling

\* phys_body_create: a full pool returns NULL and changes nothing.
BodyCreate(n, kind) ==
  /\ ClientHasControl
  /\ handle[n] = 0
  /\ count < BodiesMax
  /\ bodies' = [bodies EXCEPT ![count + 1] =
                 [name |-> n, id |-> count + 1, active |-> TRUE, kind |-> kind]]
  /\ count' = count + 1
  /\ handle' = [handle EXCEPT ![n] = count + 1]
  /\ UNCHANGED <<freed, stepVars, calling, removed>>

\* bug: the body that moves keeps the index of its old slot
Unnumbered(moved, idx) == moved

\* The body that moves to slot idx.
Numbered(moved, idx) == [moved EXCEPT !.id = idx]

\* phys_body_destroy, once for each pointer that a creation returned: the last
\* body moves into the slot, and the slot it leaves is not cleared.
BodyDestroy(n) ==
  /\ ClientHasControl
  /\ n \in Created \ freed
  /\ freed' = freed \cup {n}
  /\ LET p == handle[n]
         idx == bodies[p].id
         off == [bodies EXCEPT ![p].active = FALSE]
     IN IF ~bodies[p].active THEN UNCHANGED <<bodies, count, removed>>
        ELSE /\ bodies' = IF idx < count
                          THEN [off EXCEPT ![idx] = Numbered(off[count], idx)]
                          ELSE off
             /\ count' = count - 1
             /\ removed' = TRUE
  /\ UNCHANGED <<handle, stepVars, calling>>

-----------------------------------------------------------------------------
(* Detection *)

\* The neighbours of a cell in the order in which the loops over dx, dy and dz
\* reach them, and the cells in that of the loops over x, y and z.
Offset(l) == <<l \div 9, ((l \div 3) % 3) - 1, (l % 3) - 1>>
CellAt(l) == <<l \div (GridDim * GridDim), (l \div GridDim) % GridDim, l % GridDim>>
Offsets == [l \in 1..18 |-> Offset(l - 1)]
CellSeq == [l \in 1..(GridDim * GridDim * GridDim) |-> CellAt(l - 1)]

\* bug: along the third axis both neighbours are visited
HalfWide == SelectSeq(Offsets, LAMBDA d : d[1] = 1 \/ d[2] > 0 \/ (d[2] = 0 /\ d[3] # 0))

\* The neighbours that detect_collisions visits from a cell; from the others the
\* cell is visited.
Half == SelectSeq(Offsets, LAMBDA d : d[1] = 1 \/ d[2] > 0 \/ (d[2] = 0 /\ d[3] > 0))

\* grid_insert: the bodies of cell c, as many as it holds.
InCell(where, c) ==
  LET all == SelectSeq([i \in 1..count |-> i],
                       LAMBDA i : bodies[i].active /\ where[bodies[i].name] = c)
  IN SubSeq(all, 1, IF Len(all) < CellMax THEN Len(all) ELSE CellMax)

\* The bodies that the k-th body of cell c is tested against.
RowOf(where, c, k) ==
  LET here == InCell(where, c)
      beside == [l \in 1..Len(Half) |->
                   InCell(where, <<c[1] + Half[l][1], c[2] + Half[l][2], c[3] + Half[l][3]>>)]
  IN [a |-> here[k], bs |-> SubSeq(here, k + 1, Len(here)) \o FlattenSeq(beside)]

\* What the loop over the cells of the grid has to do.
GridRows(where) ==
  FlattenSeq([l \in 1..Len(CellSeq) |->
                [k \in 1..Len(InCell(where, CellSeq[l])) |-> RowOf(where, CellSeq[l], k)]])

\* phys_world_step integrates, which moves bodies, and detect_collisions clears
\* the contacts and builds the grid.
StepBegin ==
  /\ phase = "client"
  /\ \E where \in [World -> Positions],
        pairs \in SUBSET {{m, n} : m, n \in World \cup (Names \ Created)} :
       /\ \A pair \in pairs : Cardinality(pair) = 2
       /\ place' = where /\ touch' = pairs /\ rows' = GridRows(where)
  /\ phase' = "grid" /\ row' = NoRow /\ contacts' = <<>>
  /\ built' = World /\ removed' = FALSE
  /\ UNCHANGED <<poolVars, plane, calling>>

\* collide_pair: a body touches a copy of itself.
Touches(a, b) ==
  /\ ~(a.kind.plane /\ b.kind.plane)
  /\ a.name = b.name \/ {a.name, b.name} \in touch

Sees(a, b) == b.kind.layer \in a.kind.mask

\* The filter of the loop over the grid.
Meet(a, b) == ~(a.kind.static /\ b.kind.static) /\ Sees(a, b) /\ Sees(b, a)

Full == Len(contacts) >= ContactsMax

\* The test of slots p and q: detection ends when there is no room for another
\* contact, and client code is told of each.
Test(p, q) ==
  IF Full THEN phase' = "solve" /\ UNCHANGED <<contacts, calling>>
  ELSE /\ UNCHANGED phase
       /\ IF Touches(bodies[p], bodies[q])
          THEN contacts' = Append(contacts, <<p, q>>) /\ calling' = TRUE
          ELSE UNCHANGED <<contacts, calling>>

GridRow ==
  /\ phase = "grid" /\ ~calling /\ row.bs = <<>> /\ rows # <<>>
  /\ row' = IF bodies[Head(rows).a].active THEN Head(rows) ELSE NoRow
  /\ rows' = Tail(rows)
  /\ UNCHANGED <<poolVars, contacts, phase, plane, place, touch, built, calling, removed>>

GridTest ==
  /\ phase = "grid" /\ ~calling /\ row.bs # <<>>
  /\ LET p == row.a  q == Head(row.bs)
     IN IF bodies[q].active /\ Meet(bodies[p], bodies[q]) THEN Test(p, q)
        ELSE UNCHANGED <<contacts, phase, calling>>
  /\ row' = [row EXCEPT !.bs = Tail(@)]
  /\ UNCHANGED <<poolVars, rows, plane, place, touch, built, removed>>

GridDone ==
  /\ phase = "grid" /\ ~calling /\ row.bs = <<>> /\ rows = <<>>
  /\ phase' = "planes" /\ plane' = <<1, 0>>
  /\ UNCHANGED <<poolVars, contacts, rows, row, place, touch, built, calling, removed>>

\* bug: a plane is tested against the bodies after it only
PlaneRowAfter ==
  /\ phase = "planes" /\ ~calling /\ plane[2] = 0 /\ plane[1] <= count
  /\ LET p == bodies[plane[1]]
     IN plane' = IF p.active /\ p.kind.plane THEN <<plane[1], plane[1] + 1>>
                 ELSE <<plane[1] + 1, 0>>
  /\ UNCHANGED <<poolVars, contacts, phase, rows, row, place, touch, built, calling, removed>>

\* Planes are tested against every other body once more.
PlaneRow ==
  /\ phase = "planes" /\ ~calling /\ plane[2] = 0 /\ plane[1] <= count
  /\ LET p == bodies[plane[1]]
     IN plane' = IF p.active /\ p.kind.plane THEN <<plane[1], 1>>
                 ELSE <<plane[1] + 1, 0>>
  /\ UNCHANGED <<poolVars, contacts, phase, rows, row, place, touch, built, calling, removed>>

PlaneTest ==
  /\ phase = "planes" /\ ~calling /\ plane[2] > 0
  /\ LET i == plane[1]  j == plane[2]
     IN IF j > count
        THEN plane' = <<i + 1, 0>> /\ UNCHANGED <<contacts, phase, calling>>
        ELSE /\ plane' = <<i, j + 1>>
             /\ IF /\ i # j /\ bodies[j].active /\ ~bodies[j].kind.plane
                   /\ Sees(bodies[i], bodies[j])
                THEN Test(j, i)
                ELSE UNCHANGED <<contacts, phase, calling>>
  /\ UNCHANGED <<poolVars, rows, row, place, touch, built, removed>>

PlanesDone ==
  /\ phase = "planes" /\ ~calling /\ plane[2] = 0 /\ plane[1] > count
  /\ phase' = "solve"
  /\ UNCHANGED <<poolVars, contacts, rows, row, plane, place, touch, built, calling, removed>>

CallbackReturn ==
  /\ calling
  /\ calling' = FALSE
  /\ UNCHANGED <<poolVars, stepVars, removed>>

\* The solvers read the contacts and move bodies; what detection left behind is
\* not read again.
StepEnd ==
  /\ phase = "solve" /\ ~calling
  /\ phase' = "client"
  /\ contacts' = <<>> /\ rows' = <<>> /\ row' = NoRow /\ plane' = <<1, 0>>
  /\ place' = <<>> /\ touch' = {} /\ built' = {} /\ removed' = FALSE
  /\ UNCHANGED <<poolVars, calling>>

\* The calls of a game script come through the physics package, which makes a body
\* of the shape the script names and hands pointers on as they are.
ClientCall ==
  \E n \in Names : BodyDestroy(n) \/ \E kind \in Kinds : BodyCreate(n, kind)

Detection == GridRow \/ GridTest \/ GridDone \/ PlaneRow \/ PlaneTest \/ PlanesDone

WorldNext == ClientCall \/ StepBegin \/ Detection \/ CallbackReturn \/ StepEnd

WorldSpec == WorldInit /\ [][WorldNext]_worldVars

-----------------------------------------------------------------------------
(* Properties *)

\* Whatever is created and destroyed, through pointers that may mean another
\* body by now and from within detection, the first body_count slots hold
\* distinct active bodies that know their index.
PoolExact ==
  /\ \A i \in 1..count : bodies[i].active /\ bodies[i].id = i
  /\ \A i, j \in 1..count : bodies[i].name = bodies[j].name => i = j

Body(n) == bodies[CHOOSE i \in 1..count : bodies[i].name = n]

\* How many contacts join m and n.
Joined(m, n) ==
  Cardinality({k \in DOMAIN contacts :
                 {bodies[contacts[k][1]].name, bodies[contacts[k][2]].name} = {m, n}})

Near(c, d) == \A k \in 1..3 : c[k] - d[k] \in {-1, 0, 1}

\* Detection came to its end, and no cell was too small.
AllTested ==
  /\ ~Full
  /\ \A c \in Positions : Cardinality({n \in built : place[n] = c}) <= CellMax

Detected == phase = "solve" /\ ~removed

\* Two bodies that are no planes have one contact if they touch, the filter
\* lets them meet and their cells are neighbours, and none otherwise: each
\* pair is found from one of its cells only.  (A plane is in the grid as well
\* as in the loop over planes, and may have two.)
ContactsExact ==
  Detected =>
    \A m, n \in {b \in built : ~Body(b).kind.plane} :
      m # n =>
        /\ Joined(m, n) <= 1
        /\ AllTested =>
             (Joined(m, n) = 1 <=> /\ {m, n} \in touch /\ Meet(Body(m), Body(n))
                                   /\ Near(place[m], place[n]))

\* No body falls through a plane, wherever they are in the grid and whichever
\* was created first (calynda_physics.c: "test all bodies against plane bodies
\* (planes are infinite, not in grid)").
PlanesMet ==
  Detected /\ AllTested =>
    \A p, b \in built :
      /\ Body(p).kind.plane /\ ~Body(b).kind.plane
      /\ {p, b} \in touch /\ Sees(Body(p), Body(b))
      => Joined(p, b) >= 1

\* The world holds the bodies that client code created and did not destroy:
\* destroying the pointer that a creation returned removes that body and no
\* other (calynda_physics.h: "Remove a body from the world").
DestroyRemoves == World = Created \ freed
=============================================================================
