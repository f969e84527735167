----------------------------- MODULE SceneGraph -----------------------------
(***************************************************************************)
(* The scene tree of the 3D library (libs/calynda_gfx3d/gfx3d_scene.c):    *)
(* creating, linking and destroying nodes, frustum culling, and the two    *)
(* passes of rendering.                                                    *)
(*                                                                         *)
(* What depends on numbers is chosen: whether the bounds of a node meet    *)
(* the frustum when it is culled, and how far from the camera it is when   *)
(* it is drawn.  Client code may call anything in any order, with three    *)
(* rules the code relies on: a node is added only while it has no parent,  *)
(* never below itself, and it is destroyed only while it has no parent.    *)
(***************************************************************************)
EXTENDS Naturals, Sequences, FiniteSets, SequencesExt

CONSTANTS
  Nodes,           \* addresses gfx3d_node_create can return
  NoNode,          \* NULL
  MaxChildren,     \* GFX3D_SCENE_MAX_CHILDREN
  MaxTransparent,  \* MAX_TRANSPARENT
  Distances        \* the distances from the camera that are told apart

ASSUME SceneAssumption ==
  /\ NoNode \notin Nodes
  /\ MaxChildren \in Nat
  /\ MaxTransparent \in Nat
  /\ Distances \subseteq Nat

VARIABLES
  live,      \* nodes allocated and not freed
  parent,    \* Gfx3dSceneNode.parent
  children,  \* Gfx3dSceneNode.children[0 .. child_count)
  mesh,      \* "none", or what gfx3d_node_set_mesh attached
  visible,   \* Gfx3dSceneNode.visible
  queue,     \* transparent_queue[0 .. transparent_count), kept between frames
  \* history, read by the properties only
  frame      \* the last gfx3d_node_render

sceneVars == <<live, parent, children, mesh, visible, queue, frame>>

Meshes == {"none", "opaque", "transparent"}

NoFrame == [root |-> NoNode, drawn |-> <<>>, far |-> [n \in Nodes |-> 0]]

SceneInit ==
  /\ live = {}
  /\ parent = [n \in Nodes |-> NoNode]
  /\ children = [n \in Nodes |-> <<>>]
  /\ mesh = [n \in Nodes |-> "none"]
  /\ visible = [n \in Nodes |-> TRUE]
  /\ queue = <<>>
  /\ frame = NoFrame

\* What a visit of a node goes on to.
Closed(S) == \A p \in S : ToSet(children[p]) \subseteq S

\* The nodes a recursive function visits from a node: it, and what is below.
Subtree(n) == {m \in Nodes : \A S \in SUBSET Nodes : n \in S /\ Closed(S) => m \in S}

-----------------------------------------------------------------------------
(* The tree *)

NodeCreate(n) ==
  /\ n \notin live
  /\ live' = live \cup {n}
  /\ parent' = [parent EXCEPT ![n] = NoNode]
  /\ children' = [children EXCEPT ![n] = <<>>]
  /\ mesh' = [mesh EXCEPT ![n] = "none"]
  /\ visible' = [visible EXCEPT ![n] = TRUE]
  /\ UNCHANGED <<queue, frame>>

\* Frees the children first; what a freed node held is left in memory.
NodeDestroy(n) ==
  /\ n \in live
  /\ parent[n] = NoNode
  /\ live' = live \ Subtree(n)
  /\ frame' = NoFrame
  /\ UNCHANGED <<parent, children, mesh, visible, queue>>

\* Returns false, and does nothing, when the parent is full.
NodeAddChild(p, c) ==
  /\ {p, c} \subseteq live
  /\ parent[c] = NoNode
  /\ p \notin Subtree(c)
  /\ Len(children[p]) < MaxChildren
  /\ parent' = [parent EXCEPT ![c] = p]
  /\ children' = [children EXCEPT ![p] = Append(@, c)]
  /\ frame' = NoFrame
  /\ UNCHANGED <<live, mesh, visible, queue>>

\* bug: the count goes down, and the entry found stays
Dropped(list, i) == Front(list)

\* The last child takes the place of the one removed.
Taken(list, i) ==
  IF i = Len(list) THEN Front(list) ELSE [Front(list) EXCEPT ![i] = Last(list)]

NodeRemoveChild(p, c) ==
  /\ {p, c} \subseteq live
  /\ c \in ToSet(children[p])
  /\ LET i == CHOOSE j \in DOMAIN children[p] :
                /\ children[p][j] = c
                /\ \A k \in 1..(j - 1) : children[p][k] # c
     IN children' = [children EXCEPT ![p] = Taken(@, i)]
  /\ parent' = [parent EXCEPT ![c] = NoNode]
  /\ frame' = NoFrame
  /\ UNCHANGED <<live, mesh, visible, queue>>

\* A NULL mesh makes the node a transform again.
NodeSetMesh(n, m) ==
  /\ n \in live
  /\ m # mesh[n]
  /\ mesh' = [mesh EXCEPT ![n] = m]
  /\ frame' = NoFrame
  /\ UNCHANGED <<live, parent, children, visible, queue>>

-----------------------------------------------------------------------------
(* Culling and rendering *)

WithMesh(root) == {n \in Subtree(root) : mesh[n] # "none"}

\* Every node below the root is tested on its own; one without a mesh passes.
NodeCull(root, seen) ==
  /\ root \in live
  /\ visible' = [n \in Nodes |->
       IF n \in Subtree(root) THEN mesh[n] = "none" \/ n \in seen ELSE visible[n]]
  /\ frame' = NoFrame
  /\ UNCHANGED <<live, parent, children, mesh, queue>>

\* collect_and_render_opaque: a node that is not visible ends the descent.
Collected[n \in Nodes] ==
  IF ~visible[n] THEN <<>>
  ELSE <<n>> \o FlattenSeq([i \in DOMAIN children[n] |-> Collected[children[n][i]]])

Opaque(root) == SelectSeq(Collected[root], LAMBDA n : mesh[n] = "opaque")
Transparent(root) == SelectSeq(Collected[root], LAMBDA n : mesh[n] = "transparent")

\* bug: transparent_count goes on from the frame before
EnqueuedAfter(root) ==
  LET all == queue \o Transparent(root)
  IN SubSeq(all, 1, IF Len(all) < MaxTransparent THEN Len(all) ELSE MaxTransparent)

\* What the first pass queues: the nodes past the end of the array are dropped.
Enqueued(root) ==
  LET all == Transparent(root)
  IN SubSeq(all, 1, IF Len(all) < MaxTransparent THEN Len(all) ELSE MaxTransparent)

\* qsort leaves entries at the same distance in any order.
BackToFront(list, far) ==
  {s \in [1..Len(list) -> ToSet(list)] :
     /\ \A n \in ToSet(list) : \E i \in DOMAIN s : s[i] = n
     /\ \A i, j \in DOMAIN s : i < j => far[s[i]] >= far[s[j]]}

NodeRender(root, far) ==
  /\ root \in live
  /\ \E s \in BackToFront(Enqueued(root), far) :
       /\ queue' = s
       /\ frame' = [root |-> root, drawn |-> Opaque(root) \o s, far |-> far]
  /\ UNCHANGED <<live, parent, children, mesh, visible>>

SceneNext ==
  \/ \E n \in Nodes : NodeCreate(n) \/ NodeDestroy(n)
  \/ \E p, c \in Nodes : NodeAddChild(p, c) \/ NodeRemoveChild(p, c)
  \/ \E n \in Nodes, m \in Meshes : NodeSetMesh(n, m)
  \/ \E n \in live : \E seen \in SUBSET WithMesh(n) : NodeCull(n, seen)
  \/ \E n \in live, far \in [Nodes -> Distances] : NodeRender(n, far)

SceneSpec == SceneInit /\ [][SceneNext]_sceneVars

-----------------------------------------------------------------------------
(* Properties *)

\* Linking and unlinking keep the nodes a forest that both directions of the
\* pointers agree on, without freed nodes: no child is in two lists or twice
\* in one, none is lost, and every node hangs below one without a parent.
TreeShape ==
  /\ \A p \in live :
       /\ Len(children[p]) <= MaxChildren
       /\ IsInjective(children[p])
       /\ \A c \in ToSet(children[p]) : c \in live /\ parent[c] = p
  /\ \A c \in live :
       parent[c] # NoNode => parent[c] \in live /\ c \in ToSet(children[parent[c]])
  /\ \A n \in live : \E r \in live : parent[r] = NoNode /\ n \in Subtree(r)

\* Every node between the root and n, both included, is visible.
Shown(root, n) == \A a \in Subtree(root) : n \in Subtree(a) => visible[a]

\* m is above n, or in the subtree of an earlier child of a common parent.
Before(m, n) ==
  \/ n \in Subtree(m)
  \/ \E p \in live : \E a, b \in DOMAIN children[p] :
       a < b /\ m \in Subtree(children[p][a]) /\ n \in Subtree(children[p][b])

\* A call of gfx3d_node_render draws every opaque node whose ancestors are all
\* visible, in the order of the tree whatever their distances, then such
\* transparent nodes, the farthest first: each once, and all of them unless
\* there are more than the queue holds.  This is what the code does; two
\* comments say otherwise: that opaque nodes are drawn front to back
\* (gfx3d_scene.h:77), and that the children of a node out of the frustum may
\* still show (gfx3d_scene.c:122).
DrawnExactly ==
  frame.root # NoNode =>
    LET d == frame.drawn
        shown(m) == {n \in Subtree(frame.root) : mesh[n] = m /\ Shown(frame.root, n)}
        late == {n \in ToSet(d) : mesh[n] # "opaque"}
    IN /\ IsInjective(d)
       /\ {n \in ToSet(d) : mesh[n] = "opaque"} = shown("opaque")
       /\ \A i, j \in DOMAIN d : i < j /\ {d[i], d[j]} \cap late = {} => Before(d[i], d[j])
       /\ late \subseteq shown("transparent")
       /\ Len(d) < Cardinality(shown("opaque")) + MaxTransparent
            => late = shown("transparent")
       /\ \A i, j \in DOMAIN d :
            i < j /\ d[i] \in late => d[j] \in late /\ frame.far[d[i]] >= frame.far[d[j]]
=============================================================================
