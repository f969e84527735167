---------------------------- MODULE MCLibraries -----------------------------
(* Small instances of the libraries.  They share no state, so one of them      *)
(* runs at a time, whichever of Running the initial state chooses.             *)
EXTENDS PhysicsWorld, SceneGraph, MotionGestures, MiiPackage, TLC

CONSTANTS Running, Layer

VARIABLE running

\* PhysicsWorld: neighbours along one axis and along several, and cells that
\* are none.
Dynamic == [plane |-> FALSE, static |-> FALSE, layer |-> Layer, mask |-> {Layer}]
Static == [Dynamic EXCEPT !.static = TRUE]
Plane == [Static EXCEPT !.plane = TRUE]
Blind == [Dynamic EXCEPT !.mask = {}]
AllKinds == {Dynamic, Static, Plane, Blind}
MCLayers == {Layer}
Spread == {<<0, 0, 0>>, <<0, 0, 1>>, <<0, 1, 0>>, <<1, 1, 2>>}

\* MotionGestures: one remote, and a script that also passes numbers of remotes
\* that do not exist.  A remote at rest, a swing to the left, a throw and a
\* twist; swings in opposite directions make a shake.  The thresholds are those
\* of motion_init (2.5 g, 2 g, 300 degrees per second) and higher ones.
MCChannels == {0}
MCArguments == {-1, 0, 1}
Rest == [accel |-> <<0, -2, 0>>, gyro |-> <<0, 0, 0>>]
Left == [accel |-> <<-10, -2, 0>>, gyro |-> <<0, 0, 0>>]
Throw == [accel |-> <<4, 2, -8>>, gyro |-> <<1, 0, 0>>]
Twist == [accel |-> <<0, -2, 0>>, gyro |-> <<1, 0, 4>>]
MCSamples == {Rest, Left, Throw, Twist}
MCDefaults == [swing |-> 5, thrust |-> 4, twist |-> 3]
MCThresholds == {[swing |-> 12, thrust |-> 4, twist |-> 3]}

\* MiiPackage: a blank raw Mii, an invalid one and named ones.  Ann and Bob
\* differ in the highest bit of the colour of the hair, which straddles two
\* bytes; Ann and Cid in the size of the lip and the bit behind that colour, which
\* no getter shows.  The header of a remote is 6 bytes long; read at 4 or 8 it gives other bits.
Blank == {}
Ann == {24, 279}
Bob == {24, 279, 281}
Cid == {24, 279, 282, 375}
Gone == {7, 24}
MCFiles == {<<Gone, Ann, Bob>>, <<Ann, Blank, Cid>>, <<Blank, Gone, Blank>>}
MCBlocks == {(4 :> <<Blank, Ann>>) @@ (6 :> <<Cid, Bob>>) @@ (8 :> <<Blank, Blank>>),
             (4 :> <<Blank, Gone>>) @@ (6 :> <<Blank, Blank>>) @@ (8 :> <<Blank, Blank>>)}

\* Names only tell bodies apart, and nodes; the same values stand for both.
Symmetry == Permutations(Names \cup Nodes)

LibrariesInit ==
  running \in Running /\ WorldInit /\ SceneInit /\ MotionInit /\ MiiInit

LibrariesNext ==
  /\ UNCHANGED running
  /\ \/ running = "physics" /\ WorldNext /\ UNCHANGED <<sceneVars, motionVars, miiVars>>
     \/ running = "scene" /\ SceneNext /\ UNCHANGED <<worldVars, motionVars, miiVars>>
     \/ running = "motion" /\ MotionNext /\ UNCHANGED <<worldVars, sceneVars, miiVars>>
     \/ running = "mii" /\ MiiNext /\ UNCHANGED <<worldVars, sceneVars, motionVars>>

LibrariesSpec ==
  LibrariesInit /\ [][LibrariesNext]_<<running, worldVars, sceneVars, motionVars, miiVars>>
=============================================================================
