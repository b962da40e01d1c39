------------------------------ MODULE IndexSpec ------------------------------
(***************************************************************************)
(* What the candidate index promises, without its queues, rounds and       *)
(* lists: after each batch of inserted edges the answer is the largest set *)
(* of pairs that support one another in the graph.  While a batch is being *)
(* worked on there is no answer.                                           *)
(***************************************************************************)
EXTENDS CaLiGDefs, Sequences

CONSTANTS InitNei, Batches

VARIABLES
  adj,         \* the data graph
  settled,     \* is there an answer?
  live         \* the answer, {} when there is none

svars == <<adj, settled, live>>

Largest(g, L) == L \subseteq Compat /\ Supported(g, L, L) /\ Complete(g, L)

(* A labelled edge of the batch joins both its ends. *)
Joined(b, v, x) ==
  /\ GLabel[v] # NoLabel /\ GLabel[x] # NoLabel
  /\ \E k \in DOMAIN b : b[k] \in {<<v, x>>, <<x, v>>}

SInit == adj = InitNei /\ settled = FALSE /\ live = {}

Ingest(b) ==
  /\ settled
  /\ adj' = [v \in DV |-> adj[v] \cup {x \in DV : Joined(b, v, x)}]
  /\ settled' = FALSE /\ live' = {}

Settle ==
  /\ ~settled
  /\ Largest(adj, live')
  /\ settled' = TRUE /\ UNCHANGED adj

SNext == Settle \/ \E b \in Batches : Ingest(b)

SSpec == SInit /\ [][SNext]_svars
=============================================================================
