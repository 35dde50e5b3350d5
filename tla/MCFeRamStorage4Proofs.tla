----------------------- MODULE MCFeRamStorage4Proofs -----------------------
(* The instances of MCFeRamStorage4, with the inductive invariant; the     *)
(* assumptions of the theorems hold for them.                              *)
EXTENDS MCFeRamStorage4, FeRamStorage4Proofs

ASSUME CounterUseHolds == CounterUse
ASSUME NoFalseSlotHolds == NoFalseSlot
=============================================================================
