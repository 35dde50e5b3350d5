--------------------------- MODULE KeyValueStore ---------------------------
(***************************************************************************)
(* What a Storage promises its callers (system/src/Storage.hpp): a map     *)
(* from ids to data that survives a restart.  A write replaces the data of *)
(* one id in a single step, which may happen before the caller learns of   *)
(* it: after a power failure the id holds either the old data or all of    *)
(* the new data.  A write may be refused (storage full).  Clearing forgets *)
(* everything, but is not atomic: while it runs, and after it was cut      *)
(* short, an id may hold any data of the value set (an older value may     *)
(* reappear), though never a mixture of values.                            *)
(***************************************************************************)

CONSTANTS
  Ids,       (* the ids of elements                                        *)
  Values,    (* the data that may be stored, the empty data among them     *)
  Nothing,   (* the empty data, read for an id that was never written      *)
  Contents,  (* what callers write                                         *)
  DataOf(_)  (* the data an id holds after a content was written           *)

VARIABLES
  kv,      (* the stored data of every id                                  *)
  op       (* the operation in progress                                    *)

kvVars == <<kv, op>>

NoOp == [kind |-> "none"]
WriteOp(i, c) == [kind |-> "write", id |-> i, content |-> c]
ClearOp == [kind |-> "clear"]

Init ==
  /\ kv = [i \in Ids |-> Nothing]
  /\ op = NoOp

BeginWrite(i, c) ==
  /\ op = NoOp
  /\ op' = WriteOp(i, c)
  /\ UNCHANGED kv

\* the write takes effect, all of it at once
Commit ==
  /\ op.kind = "write"
  /\ kv' = [kv EXCEPT ![op.id] = DataOf(op.content)]
  /\ op' = NoOp

\* out of memory, or the power failed before the write took effect
Abandon ==
  /\ op # NoOp
  /\ op' = NoOp
  /\ UNCHANGED kv

BeginClear ==
  /\ op = NoOp
  /\ op' = ClearOp
  /\ UNCHANGED kv

ClearSome ==
  /\ op = ClearOp
  /\ kv' \in [Ids -> Values]
  /\ UNCHANGED op

EndClear ==
  /\ op = ClearOp
  /\ kv' = [i \in Ids |-> Nothing]
  /\ op' = NoOp

\* the power fails half way through a clear, between or within two erasures
CutClear ==
  /\ op = ClearOp
  /\ kv' \in [Ids -> Values]
  /\ op' = NoOp

Next ==
  \/ \E i \in Ids, c \in Contents : BeginWrite(i, c)
  \/ Commit
  \/ Abandon
  \/ BeginClear
  \/ ClearSome
  \/ EndClear
  \/ CutClear

Spec == Init /\ [][Next]_kvVars

TypeOK ==
  /\ kv \in [Ids -> Values]
  /\ op \in {NoOp, ClearOp} \cup {WriteOp(i, c) : i \in Ids, c \in Contents}
=============================================================================
