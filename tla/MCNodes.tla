------------------------------ MODULE MCNodes ------------------------------
(***************************************************************************)
(* Model-checking instance of the node library: in each behaviour the      *)
(* nodes of one kind are executed and the others are at rest.              *)
(***************************************************************************)
EXTENDS FileSink, TableSink, Connectivity, Records

\* No address, one, or two: whatever the second is, but for an excused one.
SmallResolutions ==
    {<<>>} \cup {<<a>> : a \in Addresses}
           \cup {<<a, b>> : a \in Addresses, b \in {b \in Addresses : b.range # "listed"}}

\* Records with and without a key, a nested token, a nested plain value; and
\* the fields that two joins in a row can make and read.
SmallPool ==
    << [s |-> -1], [k |-> 1, v |-> 1, n |-> Ref(1)],
       [s |-> 1],  [k |-> 1, v |-> 2, n |-> Ref(3)],
       [k |-> 2, v |-> 1], [v |-> 2] >>
SmallLists == {<<2>>, <<2, 5>>, <<4, 2>>, <<5, 6>>, <<6>>}
SmallOrder == <<"k", "v", "n", "n.s", "k_right", "v_right", "n_right", "n.s_right">>

NoFileSinks ==
    /\ target = [fmt |-> "json", mode |-> "append", header |-> TRUE]
    /\ file = NoFile
    /\ sink = [i \in Writers |-> "off"]
    /\ thread = [i \in Writers |-> [pc |-> "none", combined |-> <<>>, alone |-> TRUE]]
    /\ written = <<>> /\ overlapped = FALSE /\ damaged = FALSE

NoTableSinks ==
    /\ sinkConfig = [mode |-> "append", create |-> FALSE, empty |-> {}]
    /\ table = [there |-> FALSE, rows |-> {}]
    /\ load = [i \in Transactions |-> "off"]
    /\ tx = [i \in Transactions |-> NoTransaction]
    /\ committed = <<>>

NoProbe ==
    /\ source = [type |-> "other", refs |-> FALSE, valid |-> FALSE, secret |-> "none", network |-> TRUE]
    /\ world = Calm
    /\ checks = <<Check("config", "failed")>> /\ rung = "end"

NoRecords == heap = <<>> /\ buffers = <<>> /\ made = <<>> /\ image = <<>>

\* Which executions have no records does not matter, only how many.
SomeEmpty == \E k \in 0..Loaders : sinkConfig.empty = 1..k

Init ==
    \/ FileInit /\ NoTableSinks /\ NoProbe /\ NoRecords
    \/ NoFileSinks /\ TableInit /\ SomeEmpty /\ NoProbe /\ NoRecords
    \/ NoFileSinks /\ NoTableSinks /\ ProbeInit /\ NoRecords
    \/ NoFileSinks /\ NoTableSinks /\ NoProbe /\ RecordsInit

vars == <<fileVars, tableVars, probeVars, recordVars>>

\* Everybody is done.  Nobody waits for ever: what is not done can step.
Rest == FileDone /\ TableDone /\ ProbeDone /\ UNCHANGED vars

Next ==
    \/ FileStep /\ UNCHANGED <<tableVars, probeVars, recordVars>>
    \/ TableStep /\ UNCHANGED <<fileVars, probeVars, recordVars>>
    \/ ProbeStep /\ UNCHANGED <<fileVars, tableVars, recordVars>>
    \/ RecordsStep /\ UNCHANGED <<fileVars, tableVars, probeVars>>
    \/ Rest

Spec == Init /\ [][Next]_vars

TypeOK == FileTypeOK /\ TableTypeOK /\ ProbeTypeOK /\ RecordsTypeOK
=============================================================================
