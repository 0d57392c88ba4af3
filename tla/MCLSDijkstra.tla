---------------------------- MODULE MCLSDijkstra ----------------------------
(***************************************************************************)
(* Graphs for LSDijkstra: five nodes are the fewest on which a node is      *)
(* improved after it was visited and has somebody else to tell.            *)
(***************************************************************************)
EXTENDS LSDijkstra

CONSTANTS a, b, c, d, e

(* Up to renaming of the nodes, every neighbour table of up to three. *)
MCNeighborSets == {{}, {a}, {a, b}, {a, b, c}}

Pairs == {p \in SUBSET Node : Cardinality(p) = 2}

Reports(D, E) == [n \in D |-> {m \in D : {m, n} \in E}]

(* The databases whose nodes agree, in each of the subsets of Node, and those *)
(* in which one report of a link has not been heard yet.                     *)
Agreed == UNION {{Reports(D, E) : E \in SUBSET {p \in Pairs : p \subseteq D}} : D \in SUBSET Node}

Withdrawn(g) == UNION {{[g EXCEPT ![n] = @ \ {m}] : m \in g[n]} : n \in DOMAIN g}

MCDatabases == Agreed \cup UNION {Withdrawn(g) : g \in Agreed}
=============================================================================
