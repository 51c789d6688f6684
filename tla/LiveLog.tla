------------------------------ MODULE LiveLog ------------------------------
(***************************************************************************)
(* What the event stream of a run promises, without polls, cursors,        *)
(* buffers or transactions: a log that grows until it is sealed, and       *)
(* readers that follow it from its beginning.  A reader is told "done"     *)
(* only after the seal and only once it has everything, unless the log was *)
(* withdrawn (the run was deleted) under it.                               *)
(***************************************************************************)
EXTENDS Naturals

CONSTANTS Readers, MaxEvents

VARIABLES
    published,   \* entries of the log
    sealed,      \* no entry is added any more
    withdrawn,   \* the log is gone
    delivered,   \* entries a reader has received: a prefix of the log
    ended        \* "open", "done", or "cut" (told nothing more)

vars == <<published, sealed, withdrawn, delivered, ended>>

Init ==
    /\ published = 0
    /\ sealed = FALSE
    /\ withdrawn = FALSE
    /\ delivered = [c \in Readers |-> 0]
    /\ ended = [c \in Readers |-> "open"]

\* A batch of entries becomes visible at once.
Publish ==
    /\ ~sealed /\ ~withdrawn
    /\ published' \in (published + 1)..MaxEvents
    /\ UNCHANGED <<sealed, withdrawn, delivered, ended>>

Seal ==
    /\ ~sealed /\ ~withdrawn
    /\ sealed' = TRUE
    /\ UNCHANGED <<published, withdrawn, delivered, ended>>

Withdraw ==
    /\ ~withdrawn
    /\ withdrawn' = TRUE
    /\ UNCHANGED <<published, sealed, delivered, ended>>

Deliver(c) ==
    /\ ended[c] = "open"
    /\ delivered[c] < published
    /\ delivered' = [delivered EXCEPT ![c] = @ + 1]
    /\ UNCHANGED <<published, sealed, withdrawn, ended>>

Done(c) ==
    /\ ended[c] = "open"
    /\ sealed
    /\ delivered[c] = published \/ withdrawn
    /\ ended' = [ended EXCEPT ![c] = "done"]
    /\ UNCHANGED <<published, sealed, withdrawn, delivered>>

Cut(c) ==
    /\ ended[c] = "open"
    /\ ended' = [ended EXCEPT ![c] = "cut"]
    /\ UNCHANGED <<published, sealed, withdrawn, delivered>>

Next ==
    \/ Publish \/ Seal \/ Withdraw
    \/ \E c \in Readers : Deliver(c) \/ Done(c) \/ Cut(c)

Safety == Init /\ [][Next]_vars

\* Every reader is let go in the end.
Spec == Safety /\ \A c \in Readers : WF_vars(Done(c) \/ Cut(c))
=============================================================================
