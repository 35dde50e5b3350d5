--------------------------- MODULE MCBusCounters ---------------------------
(* Small instances of BusCounters. *)
EXTENDS BusCountersProofs, TLC

CONSTANTS p1, p2, p3

Alike == Permutations(Publishers)
=============================================================================
