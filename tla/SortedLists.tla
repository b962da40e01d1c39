----------------------------- MODULE SortedLists -----------------------------
(***************************************************************************)
(* Lists of numbers in ascending order, which the code makes by sorting    *)
(* and by inserting at a lower bound.                                      *)
(***************************************************************************)
EXTENDS Integers, Sequences, FiniteSetsExt, SequencesExt, Functions

AscendingSeq(S) == FoldSet(LAMBDA k, s : Append(s, Min(S \ Range(s))), <<>>, S)

(* std::lower_bound and insert: before the first entry that is not less. *)
Inserted(s, x) == InsertAt(s, 1 + Cardinality({i \in DOMAIN s : s[i] < x}), x)
=============================================================================
