--------------------------- MODULE MCBusInterface ---------------------------
(* Small instances of BusInterface. *)
EXTENDS BusInterface, TLC

CONSTANTS n1, n2

Alike == Permutations(Nodes)
=============================================================================
