-------------------------------- MODULE MCApp --------------------------------
(* Small instances of SoliteApp: every node on the same signal. *)
EXTENDS SoliteApp

CONSTANT TheSignal

MCSignalOf == [n \in Nodes |-> TheSignal]
=============================================================================
