------------------------------ MODULE MCEngine ------------------------------
(* Model-checking instances of Engine.                                     *)
EXTENDS Engine

\* The graphs of at most two edges, and those of three that have a cycle or
\* whose nodes are declared in order.
Graphs ==
    {E \in SUBSET Pairs :
        \/ Cardinality(E) <= 2
        \/ Cardinality(E) = 3 /\ (~Acyclic(E) \/ \A e \in E : e[1] < e[2])}

\* At most one reference, from the node that is declared last.
FewReferences == {{}} \cup {{<<a, N>>} : a \in 1..(N - 1)}

\* The graphs without a cycle.
Dags == {E \in SUBSET Pairs : Acyclic(E)}
=============================================================================
