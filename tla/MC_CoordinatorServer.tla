------------------------ MODULE MC_CoordinatorServer ------------------------
(* CoordinatorServer for TLC.                                               *)
EXTENDS CoordinatorServer

CONSTANT Observer   \* a client that registers nothing

\* The other clients are incarnations of the same worker.
WorkersRegister == [s \in Sessions |-> IF s = Observer THEN {} ELSE Publishers]

=============================================================================
