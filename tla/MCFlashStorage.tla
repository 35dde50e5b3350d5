--------------------------- MODULE MCFlashStorage ---------------------------
(* Small instances of FlashStorage. *)
EXTENDS FlashStorage, TLC

CONSTANTS a, b,         (* two ids     *)
          erased, x, y  (* contents    *)

\* sizes in cells: erasing an element writes data of size zero
SmallSizes == [c \in Contents |-> IF c = erased THEN 0 ELSE 1]
MixedSizes == [c \in Contents |-> IF c = erased THEN 0 ELSE IF c = x THEN 1 ELSE 2]

\* ids are alike, and so are contents of one size
Alike == Permutations({a, b}) \cup Permutations({x, y})
=============================================================================
