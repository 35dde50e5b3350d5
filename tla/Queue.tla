------------------------------- MODULE Queue -------------------------------
(***************************************************************************)
(* The ring buffer of util/src/Queue.hpp: N elements, the index of the     *)
(* front and the number of elements.  An element that is added to a full   *)
(* queue goes where the front is, and the front moves on: the oldest       *)
(* element is lost.                                                        *)
(***************************************************************************)
EXTENDS Naturals, Sequences

CONSTANTS
  Elements,   (* what the queue may hold                                   *)
  N           (* number of places, at least 1                              *)

Queues == [elements : [0 .. N - 1 -> Elements], front : 0 .. N - 1, c : 0 .. N]

NewQueue(e) == [elements |-> [i \in 0 .. N - 1 |-> e], front |-> 0, c |-> 0]

IsEmpty(q) == q.c = 0

GetFront(q) == q.elements[q.front]

\* mutant of AddBack: the front of a full queue stays
AddBackKeepsFront(q, e) ==
  [elements |-> [q.elements EXCEPT ![(q.front + q.c) % N] = e],
   front    |-> q.front,
   c        |-> IF q.c = N THEN N ELSE q.c + 1]

\* mutant of AddBack: the number of elements grows beyond the places
AddBackCounts(q, e) ==
  [elements |-> [q.elements EXCEPT ![(q.front + q.c) % N] = e],
   front    |-> IF q.c = N THEN (q.front + 1) % N ELSE q.front,
   c        |-> q.c + 1]

AddBack(q, e) ==
  [elements |-> [q.elements EXCEPT ![(q.front + q.c) % N] = e],
   front    |-> IF q.c = N THEN (q.front + 1) % N ELSE q.front,
   c        |-> IF q.c = N THEN N ELSE q.c + 1]

RemoveFront(q) ==
  IF q.c = 0 THEN q
  ELSE [elements |-> q.elements, front |-> (q.front + 1) % N, c |-> q.c - 1]

\* the list of elements the ring stands for, operator [] for every index
Contents(q) == [i \in 1 .. q.c |-> q.elements[(q.front + i - 1) % N]]
=============================================================================
