------------------------------ MODULE CaLiGDefs ------------------------------
(***************************************************************************)
(* The query graph, the data graph and the local candidate test of CaLiG   *)
(* (src/index/calig.cpp), as operators over explicit state.                *)
(*                                                                         *)
(* A pair <<v, u>> says "data vertex v may play query vertex u".  The      *)
(* candidate lists are a function lists[v][u][w]: the neighbours of v that *)
(* are kept as partners for the query neighbour w of u.                    *)
(***************************************************************************)
EXTENDS Integers, FiniteSets

CONSTANTS
  QV,          \* query vertices (indices of Q)
  QNei,        \* QNei[u]: the query neighbours of u (Q[u].nei)
  QLabel,      \* QLabel[u]: the label of u
  DV,          \* data vertices (indices of G)
  GLabel,      \* GLabel[v]: the label of v, NoLabel when no query vertex has it
  NoLabel      \* the label -1

ASSUME QueryAssumption ==
  /\ IsFiniteSet(QV)
  /\ QNei \in [QV -> SUBSET QV]
  /\ \A u \in QV : u \notin QNei[u]
  /\ \A u, w \in QV : w \in QNei[u] <=> u \in QNei[w]
  /\ \A u \in QV : QLabel[u] # NoLabel

ASSUME DataAssumption ==
  /\ IsFiniteSet(DV)
  /\ DOMAIN GLabel = DV

-----------------------------------------------------------------------------
(* inputQ: the partners of u with label lb, and the labels carried by more *)
(* than one of them (Q[u].rep_nei).                                        *)
Group(u, lb) == {w \in QNei[u] : QLabel[w] = lb}

RepLabels(u) == {QLabel[w] : w \in {w \in QNei[u] : Group(u, QLabel[w]) # {w}}}

(* labels[lb] and the label tests: the pairs that exist in G[v].cand, and  *)
(* the entries x that may stand for w in a list of v.                      *)
Compat == {p \in DV \X QV : GLabel[p[1]] = QLabel[p[2]]}

Lists == [DV -> [QV -> [QV -> SUBSET DV]]]

-----------------------------------------------------------------------------
(* tryNei: the backtracking search for distinct partners of one repeated   *)
(* label succeeds exactly when the lists of the group have a system of     *)
(* distinct representatives.                                               *)
TryNei(lists, p, group) ==
  \E pick \in [group -> UNION {lists[p[1]][p[2]][w] : w \in group}] :
    /\ \A w \in group : pick[w] \in lists[p[1]][p[2]][w]
    /\ \A w, y \in group : w # y => pick[w] # pick[y]

(* checkNei: every list is inhabited and every repeated label is matched.  *)
CheckNei(lists, p) ==
  /\ \A w \in QNei[p[2]] : lists[p[1]][p[2]][w] # {}
  /\ \A lb \in RepLabels(p[2]) : TryNei(lists, p, Group(p[2], lb))

-----------------------------------------------------------------------------
(* What the filter is for.  Justified gives the lists that the adjacency   *)
(* adj and a set S of pairs would justify, and Supported(adj, S, T) says   *)
(* that the pairs of T pass the local test against them.  The pairs of an  *)
(* embedding support one another, so they are in every set of pairs that   *)
(* is Complete: one that cannot be enlarged by pairs supporting            *)
(* themselves with its help.                                               *)
Justified(adj, S) ==
  [v \in DV |-> [u \in QV |-> [w \in QV |->
     {x \in DV : w \in QNei[u] /\ x \in adj[v] /\ <<v, u>> \in Compat /\ <<x, w>> \in S}]]]

Supported(adj, S, T) == \A p \in T : CheckNei(Justified(adj, S), p)

(* A pair that fails with every pair on cannot be in such an enlargement. *)
Complete(adj, S) ==
  \A T \in SUBSET {p \in Compat \ S : Supported(adj, Compat, {p})} :
     T # {} => ~Supported(adj, S \cup T, T)
=============================================================================
