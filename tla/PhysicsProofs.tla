--------------------------- MODULE PhysicsProofs ---------------------------
(***************************************************************************)
(* The pool of bodies keeps its shape for every number of bodies and every *)
(* capacity, although pointers go stale.  Two facts carry the argument: a  *)
(* slot that is active knows its index even when it is only a copy left    *)
(* behind the last body, and the bodies still to be destroyed are never    *)
(* more than the bodies counted, so that the count does not fall below 0.  *)
(***************************************************************************)
EXTENDS PhysicsWorld, FiniteSetTheorems, TLAPS

\* Slots are unused or hold a body that was created, under their own index.
SlotsOK ==
  /\ DOMAIN bodies = Slots
  /\ \A i \in Slots :
       \/ bodies[i] = Unused
       \/ bodies[i] \in [name : Created, id : {i}, active : BOOLEAN, kind : Kinds]

\* Each body still to be destroyed is counted.
OwedOK ==
  /\ IsFiniteSet(Created)
  /\ Cardinality(Created \ freed) <= count

PoolInv ==
  /\ count \in 0..BodiesMax
  /\ handle \in [Names -> 0..BodiesMax]
  /\ freed \subseteq Created
  /\ SlotsOK
  /\ OwedOK
  /\ PoolExact

\* The slots in use hold created bodies.
LEMMA InUse ==
  ASSUME PoolInv, NEW i \in 1..count
  PROVE  /\ i \in Slots /\ bodies[i].active /\ bodies[i].id = i
         /\ bodies[i] \in [name : Created, id : {i}, active : BOOLEAN, kind : Kinds]
         /\ bodies[i].name \in Created
<1>1. i \in Slots
  BY WorldAssumption DEF PoolInv, Slots
<1>2. bodies[i].active /\ bodies[i].id = i
  BY DEF PoolInv, PoolExact
<1>3. ~Unused.active
  BY DEF Unused
<1>4. bodies[i] # Unused
  BY <1>2, <1>3
<1>5. bodies[i] \in [name : Created, id : {i}, active : BOOLEAN, kind : Kinds]
  BY <1>1, <1>4 DEF PoolInv, SlotsOK
<1> QED
  BY <1>1, <1>2, <1>5

\* At the beginning every slot is unused and nothing is created.
LEMMA InitPool == WorldInit => PoolInv
<1> SUFFICES ASSUME WorldInit PROVE PoolInv
  OBVIOUS
<1>1. Created = {}
  BY DEF WorldInit, Created
<1>2. count \in 0..BodiesMax /\ handle \in [Names -> 0..BodiesMax] /\ freed \subseteq Created
  BY WorldAssumption DEF WorldInit
<1>3. SlotsOK
  BY DEF WorldInit, SlotsOK
<1>4. OwedOK
  <2>1. Created \ freed = {}
    BY <1>1
  <2> QED
    BY <1>1, <2>1, FS_EmptySet DEF WorldInit, OwedOK
<1>5. PoolExact
  BY DEF WorldInit, PoolExact
<1> QED
  BY <1>2, <1>3, <1>4, <1>5 DEF PoolInv

\* A creation fills the first slot behind the last body with a new body.
LEMMA CreateKeepsPool ==
  ASSUME NEW n \in Names, NEW kind \in Kinds, PoolInv, BodyCreate(n, kind)
  PROVE  PoolInv'
<1> DEFINE s == count + 1
<1> DEFINE new == [name |-> n, id |-> s, active |-> TRUE, kind |-> kind]
<1>1. /\ s \in Slots /\ s \in 1..BodiesMax /\ s # 0
      /\ count \in 0..BodiesMax /\ count \in Nat
  BY WorldAssumption DEF PoolInv, BodyCreate, Slots
<1>2. bodies' = [bodies EXCEPT ![s] = new] /\ count' = s /\ freed' = freed
  BY DEF BodyCreate
<1>3. handle' = [handle EXCEPT ![n] = s] /\ handle \in [Names -> 0..BodiesMax]
  BY DEF BodyCreate, PoolInv
<1>4. handle' \in [Names -> 0..BodiesMax]
  BY <1>1, <1>3
<1>5. Created' = Created \cup {n} /\ n \notin Created
  BY <1>1, <1>3 DEF Created, BodyCreate
<1>6. bodies'[s] = new /\ \A i \in Slots \ {s} : bodies'[i] = bodies[i]
  BY <1>1, <1>2 DEF PoolInv, SlotsOK
<1>7. SlotsOK'
  <2>1. DOMAIN bodies' = Slots
    BY <1>2 DEF PoolInv, SlotsOK
  <2>2. ASSUME NEW i \in Slots
        PROVE  \/ bodies'[i] = Unused
               \/ bodies'[i] \in [name : Created', id : {i}, active : BOOLEAN, kind : Kinds]
    <3>1. CASE i = s
      BY <3>1, <1>5, <1>6
    <3>2. CASE i # s
      BY <3>2, <1>5, <1>6 DEF PoolInv, SlotsOK
    <3> QED
      BY <3>1, <3>2
  <2> QED
    BY <2>1, <2>2 DEF SlotsOK, Slots
<1>8. OwedOK'
  <2>1. IsFiniteSet(Created) /\ Cardinality(Created \ freed) <= count
    BY DEF PoolInv, OwedOK
  <2>2. IsFiniteSet(Created \ freed)
    BY <2>1, FS_Difference
  <2>3. IsFiniteSet(Created')
    BY <1>5, <2>1, FS_AddElement
  <2>4. Created' \ freed' = (Created \ freed) \cup {n} /\ n \notin Created \ freed
    BY <1>2, <1>5 DEF PoolInv
  <2>5. Cardinality(Created' \ freed') = Cardinality(Created \ freed) + 1
    BY <2>2, <2>4, FS_AddElement
  <2>6. Cardinality(Created \ freed) \in Nat
    BY <2>2, FS_CardinalityType
  <2> QED
    BY <1>1, <1>2, <2>1, <2>3, <2>5, <2>6 DEF OwedOK
<1>9. PoolExact'
  <2>1. \A i \in 1..count : /\ i \in Slots \ {s}
                            /\ bodies[i].active /\ bodies[i].id = i
                            /\ bodies[i].name \in Created
    BY <1>1, InUse, WorldAssumption DEF Slots
  <2>2. 1..count' = 1..count \cup {s}
    BY <1>1, <1>2
  <2>3. \A i \in 1..count' : bodies'[i].active /\ bodies'[i].id = i
    BY <1>6, <2>1, <2>2
  <2>4. \A i, j \in 1..count' : bodies'[i].name = bodies'[j].name => i = j
    <3>1. \A i, j \in 1..count : bodies[i].name = bodies[j].name => i = j
      BY DEF PoolInv, PoolExact
    <3>2. \A i \in 1..count : bodies'[i].name = bodies[i].name /\ bodies'[i].name # n
      BY <1>5, <1>6, <2>1
    <3>3. bodies'[s].name = n
      BY <1>6
    <3> QED
      BY <2>2, <3>1, <3>2, <3>3
  <2> QED
    BY <2>3, <2>4 DEF PoolExact
<1> QED
  BY <1>1, <1>2, <1>4, <1>5, <1>7, <1>8, <1>9 DEF PoolInv

\* A destruction takes out one body, wherever the pointer points by now, or
\* nothing at all.
LEMMA DestroyKeepsPool ==
  ASSUME NEW n \in Names, PoolInv, BodyDestroy(n)
  PROVE  PoolInv'
<1> DEFINE p == handle[n]
<1>1. n \in Created \ freed /\ p \in Slots /\ p \in Nat
  BY WorldAssumption DEF PoolInv, BodyDestroy, Created, Slots
<1>2. /\ count \in 0..BodiesMax /\ count \in Nat
      /\ IsFiniteSet(Created) /\ Cardinality(Created \ freed) <= count
  BY DEF PoolInv, OwedOK
<1>3. /\ handle' = handle /\ Created' = Created /\ freed' = freed \cup {n}
      /\ handle' \in [Names -> 0..BodiesMax] /\ freed' \subseteq Created'
  BY <1>1 DEF BodyDestroy, Created, PoolInv
<1>4. /\ Cardinality(Created \ freed) \in Nat
      /\ Cardinality(Created \ freed) >= 1
      /\ Cardinality(Created' \ freed') = Cardinality(Created \ freed) - 1
  <2>1. IsFiniteSet(Created \ freed)
    BY <1>2, FS_Difference
  <2>2. Created' \ freed' = (Created \ freed) \ {n}
    BY <1>3
  <2>3. Cardinality(Created' \ freed') = Cardinality(Created \ freed) - 1
    <3> DEFINE S == Created \ freed
    <3>1. IsFiniteSet(S) /\ n \in S
      BY <1>1, <2>1
    <3> HIDE DEF S
    <3>2. Cardinality(S \ {n}) = Cardinality(S) - 1
      BY <3>1, FS_RemoveElement
    <3> QED
      BY <2>2, <3>2 DEF S
  <2>4. IsFiniteSet(Created' \ freed') /\ Cardinality(Created' \ freed') \in Nat
    BY <2>1, <2>2, FS_RemoveElement, FS_CardinalityType
  <2>5. Cardinality(Created \ freed) \in Nat
    BY <2>1, FS_CardinalityType
  <2> QED
    BY <2>3, <2>4, <2>5
<1>5. CASE ~bodies[p].active
  <2>1. bodies' = bodies /\ count' = count
    BY <1>5 DEF BodyDestroy
  <2>2. SlotsOK' /\ PoolExact'
    BY <2>1, <1>3 DEF PoolInv, SlotsOK, PoolExact, Slots
  <2>3. OwedOK'
    BY <2>1, <1>2, <1>3, <1>4 DEF OwedOK
  <2> QED
    BY <1>2, <1>3, <2>1, <2>2, <2>3 DEF PoolInv
<1>6. CASE bodies[p].active
  <2> DEFINE off == [bodies EXCEPT ![p].active = FALSE]
  <2>1. /\ bodies[p] \in [name : Created, id : {p}, active : BOOLEAN, kind : Kinds]
        /\ bodies[p].id = p
    BY <1>1, <1>6 DEF PoolInv, SlotsOK, Unused
  <2>2. /\ bodies' = IF p < count THEN [off EXCEPT ![p] = Numbered(off[count], p)] ELSE off
        /\ count' = count - 1
    BY <1>6, <2>1 DEF BodyDestroy
  <2>3. /\ count' \in 0..BodiesMax /\ count' \in Nat /\ count >= 1
        /\ count \in Slots
    BY <1>2, <1>4, <2>2, WorldAssumption DEF Slots
  <2>4. OwedOK'
    BY <1>2, <1>3, <1>4, <2>2, <2>3 DEF OwedOK
  <2>5. /\ bodies[count] \in [name : Created, id : {count}, active : BOOLEAN, kind : Kinds]
        /\ bodies[count].active
    BY <1>2, <2>3, InUse
  <2>6. DOMAIN bodies = Slots /\ DOMAIN bodies' = Slots
    BY <2>2 DEF PoolInv, SlotsOK
  <2>7. \A i \in Slots \ {p} : bodies'[i] = bodies[i]
    BY <1>1, <2>2, <2>6
  <2>8. CASE p < count
    <3>1. bodies'[p] = Numbered(bodies[count], p)
      BY <1>1, <2>2, <2>3, <2>6, <2>8
    <3>2. /\ bodies'[p] \in [name : Created, id : {p}, active : BOOLEAN, kind : Kinds]
          /\ bodies'[p].name = bodies[count].name
          /\ bodies'[p].active
      BY <2>5, <3>1 DEF Numbered
    <3>3. SlotsOK'
      BY <1>3, <2>6, <2>7, <3>2 DEF PoolInv, SlotsOK, Slots
    <3>4. \A i \in 1..count' : i \in 1..count /\ i # count /\ i \in Slots
      BY <1>2, <2>2, <2>3, WorldAssumption DEF Slots
    <3>5. \A i \in 1..count' : bodies'[i].active /\ bodies'[i].id = i
      BY <2>7, <3>2, <3>4 DEF PoolInv, PoolExact
    <3>6. ASSUME NEW i \in 1..count', NEW j \in 1..count',
                 bodies'[i].name = bodies'[j].name
          PROVE  i = j
      <4>1. \A k, l \in 1..count : bodies[k].name = bodies[l].name => k = l
        BY DEF PoolInv, PoolExact
      <4>2. count \in 1..count
        BY <1>2, <2>3
      <4>3. CASE i = p /\ j # p
        BY <3>2, <3>4, <3>6, <2>7, <4>1, <4>2, <4>3
      <4>4. CASE i # p /\ j = p
        BY <3>2, <3>4, <3>6, <2>7, <4>1, <4>2, <4>4
      <4>5. CASE i # p /\ j # p
        BY <3>4, <3>6, <2>7, <4>1, <4>5
      <4> QED
        BY <4>3, <4>4, <4>5
    <3>7. PoolExact'
      BY <3>5, <3>6 DEF PoolExact
    <3> QED
      BY <1>3, <2>3, <2>4, <3>3, <3>7 DEF PoolInv
  <2>9. CASE ~(p < count)
    <3>1. bodies' = off /\ bodies'[p] = [bodies[p] EXCEPT !.active = FALSE]
      BY <1>1, <2>2, <2>6, <2>9
    <3>2. bodies'[p] \in [name : Created, id : {p}, active : BOOLEAN, kind : Kinds]
      <4>1. PICK r \in [name : Created, id : {p}, active : BOOLEAN, kind : Kinds] :
              r = bodies[p]
        BY <2>1
      <4>2. bodies'[p] = [r EXCEPT !.active = FALSE]
        BY <3>1, <4>1
      <4>3. [r EXCEPT !.active = FALSE]
              \in [name : Created, id : {p}, active : BOOLEAN, kind : Kinds]
        BY ONLY r \in [name : Created, id : {p}, active : BOOLEAN, kind : Kinds]
      <4> QED
        BY <4>2, <4>3
    <3>3. SlotsOK'
      BY <1>3, <2>6, <2>7, <3>2 DEF PoolInv, SlotsOK, Slots
    <3>4. \A i \in 1..count' : i \in 1..count /\ i \in Slots \ {p}
      BY <1>1, <1>2, <2>2, <2>3, <2>9, WorldAssumption DEF Slots
    <3>5. PoolExact'
      BY <2>7, <3>4 DEF PoolInv, PoolExact
    <3> QED
      BY <1>3, <2>3, <2>4, <3>3, <3>5 DEF PoolInv
  <2> QED
    BY <1>1, <1>2, <2>8, <2>9
<1> QED
  BY <1>5, <1>6

\* Detection and integration move no body to another slot.
LEMMA DetectionLeavesPool ==
  ASSUME StepBegin \/ Detection \/ CallbackReturn \/ StepEnd \/ UNCHANGED worldVars
  PROVE  UNCHANGED poolVars
BY DEF StepBegin, Detection, GridRow, GridTest, GridDone, PlaneRow, PlaneTest,
       PlanesDone, CallbackReturn, StepEnd, worldVars

\* Every step keeps the pool.
LEMMA PoolStep == PoolInv /\ [WorldNext]_worldVars => PoolInv'
<1> SUFFICES ASSUME PoolInv, [WorldNext]_worldVars PROVE PoolInv'
  OBVIOUS
<1>1. CASE ClientCall
  BY <1>1, CreateKeepsPool, DestroyKeepsPool DEF ClientCall
<1>2. CASE StepBegin \/ Detection \/ CallbackReturn \/ StepEnd \/ UNCHANGED worldVars
  <2>1. bodies' = bodies /\ count' = count /\ handle' = handle /\ freed' = freed
    BY <1>2, DetectionLeavesPool DEF poolVars
  <2> QED
    BY <2>1 DEF PoolInv, SlotsOK, OwedOK, PoolExact, Created, Slots
<1> QED
  BY <1>1, <1>2 DEF WorldNext

\* For every number of bodies, every capacity and every interleaving of
\* phys_body_create and phys_body_destroy with detection, the slots in use hold
\* distinct active bodies that know their index, and body_count stays between 0
\* and PHYS_MAX_BODIES.
THEOREM PoolStaysExact == WorldSpec => []PoolExact
<1>1. PoolInv => PoolExact
  BY DEF PoolInv
<1> QED
  BY InitPool, PoolStep, <1>1, PTL DEF WorldSpec

-----------------------------------------------------------------------------
(* The loop over planes.  A creation in on_collision appends a body that the *)
(* step did not begin with, and moves none; a destruction moves one, and     *)
(* what follows says nothing of such a step.                                 *)

Listed == {contacts[k] : k \in DOMAIN contacts}

\* The body of slot i is a plane and that of slot j has to have a contact with it.
Awaited(i, j) ==
  /\ bodies[i].name \in built /\ bodies[j].name \in built
  /\ bodies[i].kind.plane /\ ~bodies[j].kind.plane
  /\ {bodies[i].name, bodies[j].name} \in touch
  /\ Sees(bodies[i], bodies[j])

\* The loop has gone past the pair.
Passed(i, j) == i < plane[1] \/ (i = plane[1] /\ j < plane[2])

PlaneInv ==
  /\ contacts \in Seq(Listed)
  /\ plane \in Nat \X Nat
  /\ built \subseteq Created
  /\ ~removed => built \subseteq World
  /\ ~removed /\ phase = "planes" =>
       \A i, j \in 1..count : Awaited(i, j) /\ Passed(i, j) => <<j, i>> \in Listed
  /\ ~removed /\ phase = "solve" /\ ~Full =>
       \A i, j \in 1..count : Awaited(i, j) => <<j, i>> \in Listed

\* A contact more.
LEMMA ContactAdded ==
  ASSUME contacts \in Seq(Listed), NEW x, contacts' = Append(contacts, x)
  PROVE  contacts' \in Seq(Listed') /\ Listed' = Listed \cup {x}
<1> DEFINE n == Len(contacts)
<1>1. n \in Nat /\ DOMAIN contacts = 1..n
  OBVIOUS
<1>2. /\ contacts' \in Seq(Listed \cup {x}) /\ Len(contacts') = n + 1
      /\ DOMAIN contacts' = 1..(n + 1)
      /\ contacts'[n + 1] = x /\ \A k \in 1..n : contacts'[k] = contacts[k]
  <2>1. contacts \in Seq(Listed \cup {x})
    OBVIOUS
  <2> QED
    BY <2>1
<1>3. Listed' = Listed \cup {x}
  BY <1>1, <1>2 DEF Listed
<1> QED
  BY <1>2, <1>3

\* A test leaves the loop at a full array of contacts, and else finds the pair
\* when its bodies touch.
LEMMA TestFinds ==
  ASSUME NEW p, NEW q, Test(p, q), contacts \in Seq(Listed)
  PROVE  /\ contacts' \in Seq(Listed') /\ Listed \subseteq Listed'
         /\ Full => contacts' = contacts /\ phase' = "solve" /\ Listed' = Listed
         /\ ~Full => phase' = phase
         /\ ~Full /\ Touches(bodies[p], bodies[q]) => <<p, q>> \in Listed'
<1>1. CASE Full
  BY <1>1 DEF Test, Listed
<1>2. CASE ~Full /\ Touches(bodies[p], bodies[q])
  <2>1. contacts' = Append(contacts, <<p, q>>) /\ phase' = phase
    BY <1>2 DEF Test
  <2>2. contacts' \in Seq(Listed') /\ Listed' = Listed \cup {<<p, q>>}
    BY <2>1, ContactAdded
  <2> QED
    BY <1>2, <2>1, <2>2
<1>3. CASE ~Full /\ ~Touches(bodies[p], bodies[q])
  BY <1>3 DEF Test, Listed
<1> QED
  BY <1>1, <1>2, <1>3

LEMMA InitPlanes == WorldInit => PlaneInv
<1> SUFFICES ASSUME WorldInit PROVE PlaneInv
  OBVIOUS
<1>1. contacts = << >> /\ plane = <<1, 0>> /\ built = {} /\ phase = "client"
  BY DEF WorldInit
<1> QED
  BY <1>1 DEF PlaneInv

\* A body created in a callback is none of those the step began with.
LEMMA CreateKeepsPlanes ==
  ASSUME NEW n \in Names, NEW kind \in Kinds, PoolInv, PlaneInv, BodyCreate(n, kind)
  PROVE  PlaneInv'
<1> DEFINE s == count + 1
<1>1. /\ count \in Nat /\ count' = s /\ s \in Slots
      /\ contacts' = contacts /\ plane' = plane /\ phase' = phase
      /\ built' = built /\ touch' = touch /\ removed' = removed
  BY WorldAssumption DEF PoolInv, BodyCreate, Slots, stepVars
<1>2. /\ bodies'[s].name = n
      /\ \A i \in Slots \ {s} : bodies'[i] = bodies[i]
      /\ \A i \in 1..count : i \in Slots \ {s}
  <2>1. DOMAIN bodies = Slots
    BY DEF PoolInv, SlotsOK
  <2> QED
    BY <1>1, <2>1, WorldAssumption DEF BodyCreate, PoolInv, Slots
<1>3. n \notin built /\ Created \subseteq Created'
  <2>1. handle \in [Names -> 0..BodiesMax] /\ handle' = [handle EXCEPT ![n] = s] /\ handle[n] = 0
    BY DEF PoolInv, BodyCreate
  <2> QED
    BY <2>1, <1>1 DEF PlaneInv, Created
<1>4. 1..count' = 1..count \cup {s}
  BY <1>1
<1>5. World \subseteq World'
  BY <1>1, <1>2, <1>4 DEF World
<1>6. Listed' = Listed /\ (Full' <=> Full)
  BY <1>1 DEF Listed, Full
<1>7. ASSUME NEW i \in 1..count', NEW j \in 1..count', Awaited(i, j)'
      PROVE  i \in 1..count /\ j \in 1..count /\ Awaited(i, j)
  <2>1. i # s /\ j # s
    BY <1>1, <1>2, <1>3, <1>7 DEF Awaited
  <2>2. bodies'[i] = bodies[i] /\ bodies'[j] = bodies[j]
    BY <1>2, <1>4, <2>1
  <2> QED
    BY <1>1, <1>4, <1>7, <2>1, <2>2 DEF Awaited, Sees
<1>8. \A i, j : Passed(i, j)' <=> Passed(i, j)
  BY <1>1 DEF Passed
<1> QED
  BY <1>1, <1>3, <1>5, <1>6, <1>7, <1>8 DEF PlaneInv

\* Through a pointer to a slot in use a destruction removes a body.
LEMMA DestroyKeepsPlanes ==
  ASSUME NEW n \in Names, PoolInv, PlaneInv, BodyDestroy(n)
  PROVE  PlaneInv'
<1>1. /\ contacts' = contacts /\ plane' = plane /\ phase' = phase
      /\ built' = built /\ touch' = touch /\ Created' = Created
  BY DEF BodyDestroy, stepVars, Created
<1>2. Listed' = Listed /\ (Full' <=> Full)
  BY <1>1 DEF Listed, Full
<1>3. CASE removed'
  BY <1>1, <1>2, <1>3 DEF PlaneInv
<1>4. CASE ~removed'
  <2>1. bodies' = bodies /\ count' = count /\ removed' = removed
    BY <1>4 DEF BodyDestroy
  <2> QED
    BY <1>1, <1>2, <2>1 DEF PlaneInv, Awaited, Passed, Sees, World
<1> QED
  BY <1>3, <1>4

\* Steps outside the loop.
LEMMA OthersKeepPlanes ==
  ASSUME PoolInv, PlaneInv,
         \/ StepBegin \/ GridRow \/ GridTest \/ GridDone
         \/ CallbackReturn \/ StepEnd \/ UNCHANGED worldVars
  PROVE  PlaneInv'
<1>1. CASE StepBegin
  <2>1. /\ contacts' = << >> /\ plane' = plane /\ phase' = "grid" /\ built' = World
        /\ Created' = Created /\ World' = World
    BY <1>1 DEF StepBegin, poolVars, Created, World
  <2>2. World \subseteq Created
    BY InUse DEF World
  <2> QED
    BY <2>1, <2>2 DEF PlaneInv
<1>2. CASE GridRow \/ CallbackReturn \/ UNCHANGED worldVars
  <2>1. /\ contacts' = contacts /\ plane' = plane /\ phase' = phase /\ built' = built
        /\ touch' = touch /\ removed' = removed /\ bodies' = bodies /\ count' = count
        /\ handle' = handle
    BY <1>2 DEF GridRow, CallbackReturn, worldVars, poolVars, stepVars
  <2>2. World' = World /\ Created' = Created
    BY <2>1 DEF World, Created
  <2>3. /\ Listed' = Listed
        /\ \A i, j \in 1..count : Awaited(i, j)' = Awaited(i, j) /\ Passed(i, j)' = Passed(i, j)
    BY <2>1 DEF Listed, Awaited, Passed, Sees
  <2> QED
    BY <2>1, <2>2, <2>3 DEF PlaneInv, Full
<1>3. CASE GridTest
  <2> DEFINE p == row.a
  <2> DEFINE q == Head(row.bs)
  <2>1. /\ plane' = plane /\ phase = "grid" /\ built' = built
        /\ removed' = removed /\ World' = World /\ Created' = Created
    BY <1>3 DEF GridTest, poolVars, World, Created
  <2>2. CASE Test(p, q)
    <3>1. /\ contacts' \in Seq(Listed')
          /\ Full => contacts' = contacts /\ phase' = "solve" /\ Listed' = Listed
          /\ ~Full => phase' = phase
      BY <2>2, TestFinds DEF PlaneInv
    <3>2. CASE Full
      <4>1. Full'
        BY <3>1, <3>2 DEF Full
      <4> QED
        BY <2>1, <3>1, <3>2, <4>1 DEF PlaneInv
    <3>3. CASE ~Full
      BY <2>1, <3>1, <3>3 DEF PlaneInv
    <3> QED
      BY <3>2, <3>3
  <2>3. CASE UNCHANGED <<contacts, phase, calling>>
    BY <2>1, <2>3 DEF PlaneInv, Listed
  <2> QED
    BY <1>3, <2>2, <2>3 DEF GridTest
<1>4. CASE GridDone
  <2>1. /\ contacts' = contacts /\ plane' = <<1, 0>> /\ phase' = "planes" /\ built' = built
        /\ removed' = removed /\ World' = World /\ Created' = Created /\ count' = count
    BY <1>4 DEF GridDone, poolVars, World, Created
  <2>2. \A i, j \in 1..count' : ~Passed(i, j)'
    BY <2>1 DEF PoolInv, Passed
  <2>3. Listed' = Listed
    BY <2>1 DEF Listed
  <2> QED
    BY <2>1, <2>2, <2>3 DEF PlaneInv
<1>5. CASE StepEnd
  <2>1. contacts' = << >> /\ plane' = <<1, 0>> /\ built' = {} /\ phase' = "client"
    BY <1>5 DEF StepEnd
  <2> QED
    BY <2>1 DEF PlaneInv
<1> QED
  BY <1>1, <1>2, <1>3, <1>4, <1>5

\* Every step of the loop passes pairs that need no contact or have one now.
LEMMA LoopKeepsPlanes ==
  ASSUME PoolInv, PlaneInv, PlaneRow \/ PlaneTest \/ PlanesDone
  PROVE  PlaneInv'
<1>1. /\ count' = count /\ count \in Nat /\ bodies' = bodies /\ built' = built
      /\ touch' = touch /\ removed' = removed /\ Created' = Created /\ World' = World
  BY DEF PlaneRow, PlaneTest, PlanesDone, PoolInv, poolVars, World, Created
<1>2. \A i, j : Awaited(i, j)' <=> Awaited(i, j)
  BY <1>1 DEF Awaited, Sees
<1>3. plane \in Nat \X Nat /\ contacts \in Seq(Listed)
  BY DEF PlaneInv
<1>4. plane[1] \in Nat /\ plane[2] \in Nat
  BY <1>3
<1>5. CASE PlaneRow
  <2> DEFINE p == bodies[plane[1]]
  <2>1. /\ contacts' = contacts /\ Listed' = Listed /\ phase' = "planes" /\ phase = "planes"
        /\ plane[2] = 0 /\ plane[1] <= count
    BY <1>5 DEF PlaneRow, Listed
  <2>2. plane' = IF p.active /\ p.kind.plane THEN <<plane[1], 1>> ELSE <<plane[1] + 1, 0>>
    BY <1>5 DEF PlaneRow
  <2>3. plane' \in Nat \X Nat
    BY <1>4, <2>2
  <2>4. ASSUME NEW i \in 1..count, NEW j \in 1..count, Awaited(i, j), Passed(i, j)'
        PROVE  Passed(i, j)
    <3>1. bodies[i].kind.plane /\ bodies[i].active
      BY <2>4, InUse DEF Awaited
    <3>2. CASE i = plane[1]
      <4>1. plane' = <<plane[1], 1>>
        BY <2>2, <3>1, <3>2
      <4> QED
        BY <2>4, <3>2, <4>1, <1>4 DEF Passed
    <3>3. CASE i # plane[1]
      BY <2>2, <2>4, <3>3, <1>4, <1>1 DEF Passed
    <3> QED
      BY <3>2, <3>3
  <2> QED
    BY <1>1, <1>2, <1>3, <2>1, <2>3, <2>4 DEF PlaneInv
<1>6. CASE PlaneTest
  <2> DEFINE i0 == plane[1]
  <2> DEFINE j0 == plane[2]
  <2>1. phase = "planes" /\ j0 > 0
    BY <1>6 DEF PlaneTest
  <2>2. CASE j0 > count
    <3>1. plane' = <<i0 + 1, 0>> /\ contacts' = contacts /\ phase' = phase /\ Listed' = Listed
      BY <1>6, <2>2 DEF PlaneTest, Listed
    <3>2. \A i, j \in 1..count : Passed(i, j)' => Passed(i, j)
      BY <1>1, <1>4, <2>2, <3>1 DEF Passed
    <3>3. plane' \in Nat \X Nat
      BY <1>4, <3>1
    <3> QED
      BY <1>1, <1>2, <1>3, <2>1, <3>1, <3>2, <3>3 DEF PlaneInv
  <2>3. CASE ~(j0 > count)
    <3> DEFINE met == /\ i0 # j0 /\ bodies[j0].active /\ ~bodies[j0].kind.plane
                      /\ Sees(bodies[i0], bodies[j0])
    <3>1. /\ plane' = <<i0, j0 + 1>>
          /\ IF met THEN Test(j0, i0) ELSE UNCHANGED <<contacts, phase, calling>>
      BY <1>6, <2>3 DEF PlaneTest
    <3>2. plane' \in Nat \X Nat
      BY <1>4, <3>1
    <3>3. \A i, j \in 1..count : Passed(i, j)' => Passed(i, j) \/ (i = i0 /\ j = j0)
      BY <1>1, <1>4, <3>1 DEF Passed
    <3>4. j0 \in 1..count
      BY <1>1, <1>4, <2>1, <2>3
    <3>5. ASSUME i0 \in 1..count, Awaited(i0, j0)
          PROVE  met /\ Touches(bodies[j0], bodies[i0])
      <4>1. bodies[j0].active
        BY <3>4, InUse
      <4> HIDE DEF i0, j0
      <4> QED
        BY <3>5, <4>1 DEF Awaited, Touches
    <3>6. CASE met
      <4>1. /\ contacts' \in Seq(Listed') /\ Listed \subseteq Listed'
            /\ Full => contacts' = contacts /\ phase' = "solve" /\ Listed' = Listed
            /\ ~Full => phase' = phase
            /\ ~Full /\ Touches(bodies[j0], bodies[i0]) => <<j0, i0>> \in Listed'
        <5>1. Test(j0, i0)
          BY <3>1, <3>6
        <5> HIDE DEF i0, j0
        <5> QED
          BY <5>1, <1>3, TestFinds
      <4>2. CASE Full
        <5>1. Full'
          BY <4>1, <4>2 DEF Full
        <5> QED
          BY <1>1, <3>2, <4>1, <4>2, <5>1 DEF PlaneInv
      <4>3. CASE ~Full
        <5>1. \A i, j \in 1..count : Awaited(i, j) /\ Passed(i, j)' /\ ~removed => <<j, i>> \in Listed'
          <6> SUFFICES ASSUME NEW i \in 1..count, NEW j \in 1..count,
                              Awaited(i, j), Passed(i, j)', ~removed
                       PROVE  <<j, i>> \in Listed'
            OBVIOUS
          <6>1. CASE Passed(i, j)
            BY <6>1, <2>1, <4>1 DEF PlaneInv
          <6>2. CASE i = i0 /\ j = j0
            BY <6>2, <3>5, <4>1, <4>3
          <6> QED
            BY <3>3, <6>1, <6>2
        <5>2. phase' = "planes"
          BY <2>1, <4>1, <4>3
        <5> QED
          BY <1>1, <1>2, <1>3, <3>2, <4>1, <5>1, <5>2 DEF PlaneInv
      <4> QED
        BY <4>2, <4>3
    <3>7. CASE ~met
      <4>1. contacts' = contacts /\ phase' = "planes" /\ Listed' = Listed
        BY <2>1, <3>1, <3>7 DEF Listed
      <4>2. \A i, j \in 1..count : Awaited(i, j) /\ Passed(i, j)' => Passed(i, j)
        <5> SUFFICES ASSUME NEW i \in 1..count, NEW j \in 1..count, Awaited(i, j), Passed(i, j)'
                     PROVE  Passed(i, j)
          OBVIOUS
        <5>1. ~(i = i0 /\ j = j0)
          BY <3>5, <3>7
        <5> QED
          BY <3>3, <5>1
      <4> QED
        BY <1>1, <1>2, <1>3, <2>1, <3>2, <4>1, <4>2 DEF PlaneInv
    <3> QED
      BY <3>6, <3>7
  <2> QED
    BY <2>2, <2>3
<1>7. CASE PlanesDone
  <2>1. /\ contacts' = contacts /\ Listed' = Listed /\ phase = "planes" /\ phase' = "solve"
        /\ plane' = plane /\ plane[1] > count
    BY <1>7 DEF PlanesDone, Listed
  <2>2. \A i, j \in 1..count : Passed(i, j)
    BY <1>1, <1>4, <2>1 DEF Passed
  <2> QED
    BY <1>1, <1>2, <1>3, <2>1, <2>2 DEF PlaneInv
<1> QED
  BY <1>5, <1>6, <1>7

\* When the loop has come to its end every awaited contact is there.
LEMMA PlanesAreMet == PoolInv /\ PlaneInv => PlanesMet
<1> SUFFICES ASSUME PoolInv, PlaneInv, Detected, AllTested,
                    NEW m \in built, NEW n \in built,
                    Body(m).kind.plane, ~Body(n).kind.plane,
                    {m, n} \in touch, Sees(Body(m), Body(n))
             PROVE  Joined(m, n) >= 1
  BY DEF PlanesMet
<1>1. phase = "solve" /\ ~removed /\ ~Full /\ built \subseteq World
  BY DEF Detected, AllTested, PlaneInv
<1>2. ASSUME NEW b \in built
      PROVE  \E i \in 1..count : Body(b) = bodies[i] /\ bodies[i].name = b
  BY <1>1, <1>2 DEF World, Body
<1>3. PICK i \in 1..count : Body(m) = bodies[i] /\ bodies[i].name = m
  BY <1>2
<1>4. PICK j \in 1..count : Body(n) = bodies[j] /\ bodies[j].name = n
  BY <1>2
<1>5. Awaited(i, j)
  BY <1>3, <1>4 DEF Awaited
<1>6. PICK k \in DOMAIN contacts : contacts[k] = <<j, i>>
  BY <1>1, <1>5 DEF PlaneInv, Listed
<1> DEFINE joining == {l \in DOMAIN contacts :
                         {bodies[contacts[l][1]].name, bodies[contacts[l][2]].name} = {m, n}}
<1>7. k \in joining
  BY <1>3, <1>4, <1>6
<1>8. IsFiniteSet(joining)
  <2>1. DOMAIN contacts = 1..Len(contacts) /\ Len(contacts) \in Nat
    BY DEF PlaneInv
  <2>2. IsFiniteSet(DOMAIN contacts)
    BY <2>1, FS_Interval
  <2> QED
    BY <2>2, FS_Subset
<1>9. Cardinality(joining) \in Nat /\ Cardinality(joining) # 0
  BY <1>7, <1>8, FS_CardinalityType, FS_EmptySet
<1> QED
  BY <1>9 DEF Joined

\* The solver finds a contact for every body that touches a plane, whichever of
\* the two was created first and wherever they are in the grid, also when client
\* code creates bodies while detection runs.
THEOREM NothingFallsThrough == WorldSpec => []PlanesMet
<1>1. WorldInit => PoolInv /\ PlaneInv
  BY InitPool, InitPlanes
<1>2. PoolInv /\ PlaneInv /\ [WorldNext]_worldVars => (PoolInv /\ PlaneInv)'
  <2> SUFFICES ASSUME PoolInv, PlaneInv, [WorldNext]_worldVars PROVE PlaneInv'
    BY PoolStep
  <2>1. CASE ClientCall
    BY <2>1, CreateKeepsPlanes, DestroyKeepsPlanes DEF ClientCall
  <2>2. CASE PlaneRow \/ PlaneTest \/ PlanesDone
    BY <2>2, LoopKeepsPlanes
  <2>3. CASE \/ StepBegin \/ GridRow \/ GridTest \/ GridDone
             \/ CallbackReturn \/ StepEnd \/ UNCHANGED worldVars
    BY <2>3, OthersKeepPlanes
  <2> QED
    BY <2>1, <2>2, <2>3 DEF WorldNext, Detection
<1> QED
  BY <1>1, <1>2, PlanesAreMet, PTL DEF WorldSpec
=============================================================================
