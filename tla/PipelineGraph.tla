--------------------------- MODULE PipelineGraph ---------------------------
(***************************************************************************)
(* The graph of a pipeline (class _Graph) and the checks on its shape.     *)
(*                                                                         *)
(* Nodes are their positions in the spec's node list, so "ties broken by   *)
(* declaration order" is <.  An edge is a pair <<from, to>>; ports do not  *)
(* matter to the order.  Iterators is the set of nodes that fan out.       *)
(***************************************************************************)
EXTENDS Integers, Sequences, FiniteSets, FiniteSetsExt

CONSTANT N    \* number of nodes

ASSUME NAssumption == N \in Nat \ {0}

Nodes == 1..N
NodeSet(seq) == {seq[i] : i \in 1..Len(seq)}

Predecessors(E, n) == {m \in Nodes : <<m, n>> \in E}
Successors(E, S) == {m \in Nodes : \E n \in S : <<n, m>> \in E}

\* descendants(): what a walk along the edges finds, the start excluded
\* unless it lies on a cycle.  The walk ends with the least set that holds
\* the successors of n and, with a node, its successors.
Closed(E, n, S) == Successors(E, {n} \cup S) \subseteq S
Descendants(E, n) == {m \in Nodes : \A S \in SUBSET Nodes : Closed(E, n, S) => m \in S}

\* What topo_order() must decide.
Acyclic(E) == \A n \in Nodes : n \notin Descendants(E, n)

\* validate_pipeline on the iterators: no iterator in the scope of another,
\* and no node in two scopes.
ScopesValid(E, iterators) ==
    \A i, j \in iterators : i # j =>
        /\ j \notin Descendants(E, i)
        /\ Descendants(E, i) \cap Descendants(E, j) = {}

\* validate_pipeline on the references: a node names ancestors of its own, that
\* is, nodes it descends from.
ReferencesValid(E, R) == \A r \in R : r[2] \in Descendants(E, r[1])
=============================================================================
