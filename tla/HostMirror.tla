----------------------------- MODULE HostMirror -----------------------------
(***************************************************************************)
(* The host mirror of the index, src/index/cpu_index_mirror.cpp: how it    *)
(* stores lists.  The lists of one direction lie in one vector: a list     *)
(* that changes is appended anew and the old one left behind, until the    *)
(* vector is more than twice what is live and is compacted.  The update    *)
(* lists are made anew for each batch, with the vertices that have one.    *)
(*                                                                         *)
(* The directions are worked on in parallel and share nothing, so each     *)
(* operation is a function of the whole mirror.  Offsets count from 0.     *)
(***************************************************************************)
EXTENDS IndexRows

-----------------------------------------------------------------------------
(* main_ptr_, main_len_, main_data_ and main_live_ of a direction. *)
EmptyMain(dv_count) ==
  [ptr |-> [u \in 0..dv_count - 1 |-> 0], len |-> [u \in 0..dv_count - 1 |-> 0],
   data |-> <<>>, live |-> 0]

ResizeForDVCount(main, dv_count) ==
  [idx \in Indexes |->
     LET grown(f) == [u \in 0..dv_count - 1 |-> IF u \in DOMAIN f THEN f[u] ELSE 0]
         m == main[idx]
     IN  [ptr |-> grown(m.ptr), len |-> grown(m.len), data |-> m.data, live |-> m.live]]

MainList(m, u) ==
  [i \in 1..m.len[u] |->
     IF m.ptr[u] + i \in DOMAIN m.data THEN m.data[m.ptr[u] + i] ELSE Null]

(* A list is appended and becomes the list of u. *)
AppendList(m, u, tmp) ==
  [ptr |-> [m.ptr EXCEPT ![u] = Len(m.data)], len |-> [m.len EXCEPT ![u] = Len(tmp)],
   data |-> m.data \o tmp, live |-> m.live]

BuiltList(m, rows, idx, u) == AppendList(m, u, AscendingSeq(Delta(rows, idx, u)))

Built(m, rows, idx) ==
  FoldLeft(LAMBDA c, u : BuiltList(c, rows, idx, u), [m EXCEPT !.data = <<>>],
           AscendingSeq(Touched(rows, idx)))

InitFromSortedEdges(main, rows) ==
  [idx \in Indexes |->
     LET built == Built(main[idx], rows, idx) IN [built EXCEPT !.live = Len(built.data)]]

(* Seeded fault: the lists are moved, and their offsets are not. *)
CompactedInPlace(m) ==
  [m EXCEPT !.data = FoldLeft(LAMBDA data, u : data \o MainList(m, u), <<>>,
                              AscendingSeq(DOMAIN m.len))]

(* The lists that are live, one after the other. *)
MovedList(c, m, u) == IF m.len[u] > 0 THEN AppendList(c, u, MainList(m, u)) ELSE c

Compacted(m) ==
  FoldLeft(LAMBDA c, u : MovedList(c, m, u), [m EXCEPT !.data = <<>>], AscendingSeq(DOMAIN m.len))

(* std::set_union or std::set_difference of a list and what is new or gone *)
MergedList(m, rows, idx, is_insert, u) ==
  LET ex  == Range(MainList(m, u))
      tmp == AscendingSeq(IF is_insert THEN ex \cup Delta(rows, idx, u)
                          ELSE ex \ Delta(rows, idx, u))
  IN  [AppendList(m, u, tmp) EXCEPT !.live = @ + Len(tmp) - m.len[u]]

Merged(m, rows, idx, is_insert) ==
  FoldLeft(LAMBDA c, u : MergedList(c, rows, idx, is_insert, u), m,
           AscendingSeq(Touched(rows, idx)))

MergeIdxMain(m, rows, idx, is_insert) ==
  LET after == Merged(m, rows, idx, is_insert)
  IN  IF after.live > 0 /\ Len(after.data) > 2 * after.live THEN Compacted(after) ELSE after

Merge(main, rows, is_insert) ==
  [idx \in Indexes |->
     IF RowsOfIdx(rows, idx) = {} THEN main[idx] ELSE MergeIdxMain(main[idx], rows, idx, is_insert)]

MergeInsert(main, rows) == Merge(main, rows, TRUE)

MergeRemove(main, rows) == Merge(main, rows, FALSE)

-----------------------------------------------------------------------------
(* upd_keys_, upd_off_ and upd_data_: the last offset is a sentinel. *)
UpdateWith(x, rows, idx, u) ==
  LET list == AscendingSeq(Delta(rows, idx, u))
  IN  [keys |-> Append(x.keys, u), data |-> x.data \o list,
       off |-> Append(x.off, Len(x.data) + Len(list))]

UpdateOf(rows, idx) ==
  FoldLeft(LAMBDA x, u : UpdateWith(x, rows, idx, u),
           [keys |-> <<>>, off |-> <<0>>, data |-> <<>>], AscendingSeq(Touched(rows, idx)))

RebuildUpdate(rows) == [idx \in Indexes |-> UpdateOf(rows, idx)]

(* A binary search in the keys. *)
UpdateList(x, u) ==
  IF u \notin Range(x.keys) THEN <<>>
  ELSE LET p == CHOOSE p \in DOMAIN x.keys : x.keys[p] = u
       IN  SubSeq(x.data, x.off[p] + 1, x.off[p + 1])
=============================================================================
