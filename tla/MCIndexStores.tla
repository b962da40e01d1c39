--------------------------- MODULE MCIndexStores ----------------------------
(***************************************************************************)
(* Scripts for IndexStores: two query edges of four directions, two warps  *)
(* of two lanes, and the least capability that the code has, 8.            *)
(***************************************************************************)
EXTENDS IndexStores

MCDirections(e) == {2 * e, 2 * e + 1}

ListRows(idx, u, S) == {<<idx, u, v>> : v \in S}

Plenty == 1000

(* One list and what is merged into it: every order of at most eight       *)
(* elements, with a new place when half of them or more are new.           *)
OneList ==
  UNION {{[merged |-> TRUE, capability |-> Plenty, nv |-> 8, rows |-> ListRows(0, 0, 0..n \ S),
           batches |-> <<[nv |-> 8, ins |-> ListRows(0, 0, S), del |-> {}, upd |-> {<<1, 1, 0>>}]>>] :
            S \in SUBSET (0..n)} : n \in 0..7}

(* Two lists that both need a new place, and a pool that has room for      *)
(* both, for one, or for none: 288 cells are used at first.                *)
Short ==
  {[merged |-> m, capability |-> c, nv |-> 8,
    rows |-> ListRows(0, 0, 0..3) \cup ListRows(0, 1, 0..3) \cup ListRows(1, 2, {0}),
    batches |-> <<[nv |-> 8, ins |-> ListRows(0, 0, 4..7) \cup ListRows(0, 1, 4..7),
                   del |-> {}, upd |-> {<<2, 0, 5>>, <<3, 5, 0>>}]>>] :
     m \in BOOLEAN, c \in {305, 320, 321, 336, 337}}

(* Rows of two vertices deleted and inserted in every way, brought back    *)
(* and taken out again, as more vertices get an entry.                     *)
Known == {<<0, 0, 2>>, <<0, 0, 3>>, <<0, 1, 2>>, <<2, 0, 1>>}
Unknown == {<<0, 0, 4>>, <<0, 1, 4>>}

Histories ==
  {[merged |-> m, capability |-> Plenty, nv |-> 5, rows |-> Known,
    batches |-> <<[nv |-> 5, ins |-> I, del |-> D, upd |-> (Unknown \ I) \cup {<<1, 2, 0>>, <<1, 2, 1>>}],
                  [nv |-> 6, ins |-> D, del |-> I, upd |-> {<<2, 5, 0>>, <<3, 0, 5>>, <<2, 5, 1>>}],
                  [nv |-> 6, ins |-> I, del |-> {}, upd |-> {}],
                  [nv |-> 7, ins |-> {}, del |-> D, upd |-> {<<0, 6, 0>>, <<0, 6, 1>>, <<1, 0, 6>>}]>>] :
     m \in BOOLEAN, D \in SUBSET Known, I \in SUBSET Unknown}

MCScripts == OneList \cup Short \cup Histories
=============================================================================
