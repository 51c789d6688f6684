--------------------------- MODULE MCRunLifecycle ---------------------------
(* Model-checking instances of RunLifecycle.                               *)
EXTENDS RunLifecycle, TLC

\* Runs and workers are interchangeable: no action or property names one.
Perms == Permutations(Runs) \cup Permutations(Workers)
=============================================================================
