-------------------------- MODULE MCFeRamStorage4 --------------------------
(* Small instances of FeRamStorage4. *)
EXTENDS FeRamStorage4

CONSTANTS a, b, c1, c2

\* Two values of which a mixture has the checksum of the first, while no mixture
\* of them with the bytes of a new FeRam passes for a slot
Counters == {<<5, 1, 5, 3>>, <<1, 5, 5, 4>>}

OneCounter == {<<5, 1, 5, 3>>}

\* A value whose first three bytes and an erased fourth one pass for a slot
WithFalseSlot == {<<5, 1, 5, 3>>, <<2, 0, 0, 0>>}

\* Values of other sizes
Shorter == {<<5, 1, 5, 3>>, <<7>>}
=============================================================================
