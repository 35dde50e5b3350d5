-------------------------- MODULE FlashDurability --------------------------
(***************************************************************************)
(* FlashStorage implements KeyValueStore.  The refinement mapping for kv   *)
(* is StoredIn, a function of the flash alone: what the constructor would *)
(* find if the power failed now.  It is kept in the history variable       *)
(* stored, so that a step evaluates it once.                               *)
(***************************************************************************)
EXTENDS FlashStorage

VARIABLE stored   (* the data of every id as a restart would find it       *)

DurabilityInit == Init /\ stored = StoredIn(flash)
DurabilityNext == Next /\ stored' = StoredIn(flash')
DurabilitySpec == DurabilityInit /\ [][DurabilityNext]_<<vars, stored>>

\* with the fairness of LiveSpec
DurabilityLiveSpec == DurabilitySpec /\ WF_vars(Work) /\ <>[][Call \/ Work]_vars

KVS == INSTANCE KeyValueStore WITH
         kv <- stored,
         op <- IF pc = "full" THEN NoOp ELSE op,
         Values <- {<< >>} \cup {Payload(c) : c \in Contents},
         Nothing <- << >>,
         DataOf <- Payload

\* A crash loses nothing that was acknowledged and never leaves half of a
\* write: whatever the power supply does, the data of an id changes only when
\* its new entry is complete, and then to the whole new data, and closing,
\* collecting, erasing and recovering sectors change the data of no id.
AtomicDurableMap == KVS!Spec
=============================================================================
