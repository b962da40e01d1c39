---------------------------- MODULE CyclicQueue ----------------------------
(***************************************************************************)
(* The result queue, CyclicQueue of src/utils/mem_pool.h: an array of      *)
(* capability cells that the host hands out in regions.  A region starts   *)
(* where the last one ended and may run over the end of the array, so      *)
(* everything is counted modulo the capability.  A queue is a record of    *)
(* the ends of its free part; what the regions hold is in array.           *)
(***************************************************************************)
EXTENDS Integers, Sequences

CONSTANT capability  \* capability_, in cells

ASSUME CapabilityAssumption == capability \in Nat \ {0}

Cells == 0..capability - 1

Reset == [start |-> 0, end |-> capability]

TryMax(q) == q.start

GetFree(q) == (q.end + capability - q.start) % capability

Push(q, size) == [q EXCEPT !.start = (q.start + size) % capability]

Pop(q, size) == [q EXCEPT !.end = (q.end + size) % capability]

-----------------------------------------------------------------------------
(* The rows of d cells each that are read from position at on.             *)
Row(array, at, d, i) == [j \in 1..d |-> array[((at + i * d) + (j - 1)) % capability]]

RowsAt(array, at, d, size) == [i \in 1..size |-> Row(array, at, d, i - 1)]

(* Seeded fault: what runs over the end of the array is lost. *)
WrittenUnwrapped(array, at, d, rows) ==
  [c \in Cells |->
     LET off == c - at
     IN  IF off >= 0 /\ off < Len(rows) * d THEN rows[(off \div d) + 1][(off % d) + 1] ELSE array[c]]

(* array with rows of d cells written from position at on. *)
Written(array, at, d, rows) ==
  [c \in Cells |->
     LET off == (c - at) % capability
     IN  IF off < Len(rows) * d THEN rows[(off \div d) + 1][(off % d) + 1] ELSE array[c]]

(* A kernel that starts to write the rows but stops early leaves cells of  *)
(* its region behind that are worth nothing.                               *)
Scribbled(array, at, size) ==
  [c \in Cells |-> IF (c - at) % capability < size THEN 0 ELSE array[c]]
=============================================================================
