-------------------------- MODULE MCFlashDurability --------------------------
(* The instances of MCFlashStorage with the history variable. *)
EXTENDS MCFlashStorage, FlashDurability
=============================================================================
