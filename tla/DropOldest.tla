----------------------------- MODULE DropOldest -----------------------------
(***************************************************************************)
(* What a queue of N places promises (util/src/Queue.hpp): elements leave  *)
(* in the order in which they came, and only the oldest one is given up    *)
(* when there is no place for a new one.  A restart empties the queue.     *)
(***************************************************************************)
EXTENDS Naturals, Sequences

CONSTANTS Elements, N

VARIABLE list

Init == list = << >>

Add(e) == list' = Append(IF Len(list) < N THEN list ELSE Tail(list), e)

Remove == /\ list # << >>
          /\ list' = Tail(list)

Restart == list' = << >>

Next == \/ \E e \in Elements : Add(e)
        \/ Remove
        \/ Restart

Spec == Init /\ [][Next]_list
=============================================================================
