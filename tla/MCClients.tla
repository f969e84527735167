------------------------------ MODULE MCClients ------------------------------
(* Small instances of what is built on effects: a program that makes memos and *)
(* effects that may read them, and one that makes <Show> and <For> nodes, all  *)
(* on the same signal.                                                         *)
EXTENDS SoliteMemo, SoliteControlFlow

CONSTANTS Running, TheSignal

VARIABLE running

MCSignalOf == [n \in Nodes |-> TheSignal]

ClientsInit == running \in Running /\ MemoInit /\ FlowInit

ClientsNext ==
  /\ UNCHANGED running
  /\ \/ /\ running = "memos"
        /\ MemoNext
        /\ \A n \in Nodes : ~Alive(n)'
        /\ UNCHANGED <<guiVars, locals>>
     \/ /\ running = "nodes"
        /\ FlowNext
        /\ \A e \in Effects \ Nodes : ~Alive(e)'
        /\ UNCHANGED <<cached, got>>

ClientsSpec == ClientsInit /\ [][ClientsNext]_<<running, memoVars, guiVars, locals>>
=============================================================================
