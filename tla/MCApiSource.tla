---------------------------- MODULE MCApiSource ----------------------------
(* Model-checking instances of ApiSource.                                  *)
EXTENDS ApiSource

\* Every mode; pages that are full, short, and shorter than the client
\* expects; a server whose cursors never end.
AllConfigs ==
    {c \in [mode : {"none", "cursor", "offset", "page"}, limit : 0..2, size : 1..2,
            looping : BOOLEAN, limited : BOOLEAN] :
        /\ c.mode \in {"none", "cursor"} => c.limit = 0
        /\ c.looping => c.mode = "cursor"}

\* A node with a rate limit and no pagination.
LimitedConfig ==
    {[mode |-> "none", limit |-> 0, size |-> 1, looping |-> FALSE, limited |-> TRUE]}
=============================================================================
