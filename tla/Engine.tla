------------------------------- MODULE Engine -------------------------------
(***************************************************************************)
(* execute_pipeline: one run of the engine over one pipeline.              *)
(*                                                                         *)
(* The main loop takes the nodes in topological order.  An iterator runs   *)
(* its scope (everything downstream of it) once per value, in concurrent   *)
(* tasks limited by a semaphore, and fans the results in.  What a node     *)
(* computes is abstracted to success or failure; what matters of its       *)
(* output is that it is buffered, and for a scope member which iterations  *)
(* it was combined from, in which order.                                   *)
(***************************************************************************)
EXTENDS PipelineGraph, SequencesExt

CONSTANTS
    Pipelines,      \* the edge sets to explore
    ReferenceSets,  \* the references between nodes to explore
    MaxIterators,   \* bound: iterators in a pipeline
    Modes,          \* values of options.continue_on_error to explore
    MaxValues,      \* bound: values an iterator yields
    Cap             \* max_concurrency

Pairs == {e \in Nodes \X Nodes : e[1] # e[2]}

ASSUME EngineAssumption ==
    /\ Pipelines \subseteq SUBSET Pairs /\ ReferenceSets \subseteq SUBSET Pairs
    /\ Modes \subseteq BOOLEAN /\ MaxIterators \in Nat
    /\ MaxValues \in Nat /\ Cap \in Nat \ {0}

VARIABLES
    edges, iterators,   \* the pipeline
    references,         \* <<a, n>>: the configuration of n names node a ($upstream)
    continueOnError,    \* options.continue_on_error
    topo,               \* topo_order(): the order of the main loop
    scopes,             \* iterator_scopes
    cursor,             \* its position
    abort,              \* the local of the same name
    results,            \* state.results: status per node, or "none"
    outputs,            \* the keys of state.outputs
    merged,             \* the iterations combined into state.outputs[n], in order
    iterations,         \* NodeResult.iterations
    errors,             \* state.errors, whose order nothing depends on:
                        \* [node, index, kind]; index 0 outside a scope
    active,             \* the iterator that is fanned out, or 0
    tasks,              \* its iterations: [st, local, why], local being the keys of
                        \* the dictionary of the same name, why the kind of a failure
    status              \* "sorting", "running", "succeeded", "failed"

state == <<results, outputs, merged, iterations, errors>>
pipeline == <<edges, iterators, references, continueOnError>>
plan == <<topo, scopes>>
fan == <<active, tasks>>
vars == <<pipeline, plan, cursor, abort, state, fan, status>>

Finished == status \in {"succeeded", "failed"}
Scope(n) == scopes[n]
InScope(n) == \E i \in iterators : n \in Scope(i)

Statuses == {"none", "succeeded", "failed", "skipped"}
Kinds == {"node", "unavailable", "reference"}
TaskType ==
    [st : {"waiting", "running", "done", "failed", "cancelled"}, local : SUBSET Nodes,
     why : Kinds \cup {"none"}]
ErrorType == [node : 0..N, index : 0..MaxValues, kind : Kinds \cup {"invalid"}]

\* A set of iterations, in iteration order.
InOrder(S) == SetToSortSeq(S, <)

TypeOK ==
    /\ edges \subseteq Pairs /\ iterators \subseteq Nodes /\ references \subseteq Pairs
    /\ continueOnError \in BOOLEAN
    /\ topo \in Seq(Nodes) /\ Len(topo) <= N
    /\ scopes \in [iterators -> SUBSET Nodes]
    /\ cursor \in 1..(N + 1)
    /\ abort \in BOOLEAN
    /\ results \in [Nodes -> Statuses]
    /\ outputs \subseteq Nodes
    /\ merged \in [Nodes -> {InOrder(S) : S \in SUBSET (1..MaxValues)}]
    /\ iterations \in [Nodes -> 0..MaxValues]
    /\ errors \subseteq ErrorType
    /\ active \in 0..N
    /\ \E k \in 0..MaxValues : tasks \in [1..k -> TaskType]
    /\ status \in {"sorting", "running", "succeeded", "failed"}

Init ==
    /\ edges \in Pipelines
    /\ iterators \in {I \in SUBSET Nodes : Cardinality(I) <= MaxIterators}
    /\ references \in ReferenceSets
    /\ continueOnError \in Modes
    /\ topo = <<>> /\ scopes = [i \in iterators |-> {}]
    /\ cursor = 1 /\ abort = FALSE
    /\ results = [n \in Nodes |-> "none"]
    /\ outputs = {}
    /\ merged = [n \in Nodes |-> InOrder({})]
    /\ iterations = [n \in Nodes |-> 0]
    /\ errors = {}
    /\ active = 0 /\ tasks = <<>>
    /\ status = "sorting"

-----------------------------------------------------------------------------
(* validate_pipeline comes first.                                          *)

\* Mutant: one predecessor is enough.
ReadyEarly ==
    {n \in Nodes \ NodeSet(topo) :
        Predecessors(edges, n) # {} => Predecessors(edges, n) \cap NodeSet(topo) # {}}

\* topo_order(), Kahn's algorithm: in_degree is zero for the nodes that have
\* no predecessor left, and ties are broken by declaration order.
Ready == {n \in Nodes \ NodeSet(topo) : Predecessors(edges, n) \subseteq NodeSet(topo)}

TakeReady ==
    /\ status = "sorting" /\ Ready # {}
    /\ topo' = Append(topo, Min(Ready))
    /\ UNCHANGED <<pipeline, scopes, cursor, abort, state, fan, status>>

\* What validate_pipeline asks of a graph that could be ordered.
Valid == ScopesValid(edges, iterators) /\ ReferencesValid(edges, references)

\* An invalid pipeline (a cycle, nested or overlapping scopes, a reference to
\* a node that is no ancestor) fails with nothing run.
Validate ==
    /\ status = "sorting" /\ Ready = {}
    /\ IF Len(topo) = N /\ Valid
       THEN /\ status' = "running"
            /\ scopes' = [i \in iterators |-> Descendants(edges, i)]
            /\ UNCHANGED errors
       ELSE /\ status' = "failed"
            /\ errors' = {[node |-> 0, index |-> 0, kind |-> "invalid"]}
            /\ UNCHANGED scopes
    /\ UNCHANGED <<pipeline, topo, cursor, abort, results, outputs, merged, iterations, fan>>

\* _skip: nodes without a result become skipped.
Skip(res, S) ==
    [n \in Nodes |-> IF n \in S /\ res[n] = "none" THEN "skipped" ELSE res[n]]

\* The loop stands at a node it has to deal with.
At(n) ==
    /\ status = "running" /\ active = 0
    /\ cursor <= N /\ topo[cursor] = n
    /\ results[n] = "none"

Advance == cursor' = cursor + 1

\* A node that already has a result (skipped, or a scope member) is passed
\* over; after a fail-fast failure the rest is skipped.
PassOver ==
    /\ status = "running" /\ active = 0 /\ cursor <= N
    /\ results[topo[cursor]] # "none"
    /\ Advance
    /\ UNCHANGED <<pipeline, plan, abort, state, fan, status>>

SkipAborted(n) ==
    /\ At(n) /\ abort
    /\ results' = Skip(results, {n})
    /\ Advance
    /\ UNCHANGED <<pipeline, plan, abort, outputs, merged, iterations, errors, fan, status>>

\* resolve_config looks up every node that the configuration of n names among
\* the outputs that the execution sees.
Named(n) == {a \in Nodes : <<a, n>> \in references}
Resolves(n, view) == Named(n) \subseteq view

Unavailable(n, view) == ~(Predecessors(edges, n) \subseteq view)

\* _prepare_node: how an execution of n that sees the outputs of "view" may
\* fail.  The references are resolved first; then the configuration they give
\* is validated; then the inputs are collected.  A node that is named or read
\* and is not there always fails the execution.  Kind "node" is a failure for
\* any other reason: the configuration, a value that a reference does not find
\* in the records it names, or the node itself.
Failures(n, view) ==
    IF Resolves(n, view)
    THEN {"node"} \cup {k \in {"unavailable"} : Unavailable(n, view)}
    ELSE {"reference"}

Prepared(n, view) == Resolves(n, view) /\ ~Unavailable(n, view)

RunNode(n) ==
    /\ At(n) /\ ~abort /\ n \notin iterators
    /\ Prepared(n, outputs)
    /\ results' = [results EXCEPT ![n] = "succeeded"]
    /\ outputs' = outputs \cup {n}
    /\ Advance
    /\ UNCHANGED <<pipeline, plan, abort, merged, iterations, errors, fan, status>>

Report(n, index, kind) == [node |-> n, index |-> index, kind |-> kind]

\* Mutant: a failed node leaves an output and its descendants run on it.
FailNodeBuffers(n) ==
    /\ At(n) /\ ~abort /\ n \notin iterators
    /\ \E why \in Failures(n, outputs) : errors' = errors \cup {Report(n, 0, why)}
    /\ results' = [results EXCEPT ![n] = "failed"]
    /\ outputs' = IF continueOnError THEN outputs \cup {n} ELSE outputs
    /\ abort' = ~continueOnError
    /\ Advance
    /\ UNCHANGED <<pipeline, plan, merged, iterations, fan, status>>

\* Mutant: continue_on_error does not skip the descendants.
FailNodeSkipsNothing(n) ==
    /\ At(n) /\ ~abort /\ n \notin iterators
    /\ \E why \in Failures(n, outputs) : errors' = errors \cup {Report(n, 0, why)}
    /\ results' = [results EXCEPT ![n] = "failed"]
    /\ abort' = ~continueOnError
    /\ Advance
    /\ UNCHANGED <<pipeline, plan, outputs, merged, iterations, fan, status>>

\* Mutant: every failure aborts, continue_on_error or not.
FailNodeAborts(n) ==
    /\ At(n) /\ ~abort /\ n \notin iterators
    /\ \E why \in Failures(n, outputs) : errors' = errors \cup {Report(n, 0, why)}
    /\ results' = [results EXCEPT ![n] = "failed"]
    /\ abort' = TRUE
    /\ Advance
    /\ UNCHANGED <<pipeline, plan, outputs, merged, iterations, fan, status>>

\* Mutant: every failure skips its descendants and goes on.
FailNodeGoesOn(n) ==
    /\ At(n) /\ ~abort /\ n \notin iterators
    /\ \E why \in Failures(n, outputs) : errors' = errors \cup {Report(n, 0, why)}
    /\ results' = Skip([results EXCEPT ![n] = "failed"], Descendants(edges, n))
    /\ Advance
    /\ UNCHANGED <<pipeline, plan, abort, outputs, merged, iterations, fan, status>>

\* A failure skips the node's descendants, or all that is left.
FailNode(n) ==
    /\ At(n) /\ ~abort /\ n \notin iterators
    /\ \E why \in Failures(n, outputs) : errors' = errors \cup {Report(n, 0, why)}
    /\ LET failed == [results EXCEPT ![n] = "failed"] IN
       IF continueOnError
       THEN results' = Skip(failed, Descendants(edges, n)) /\ UNCHANGED abort
       ELSE results' = failed /\ abort' = TRUE
    /\ Advance
    /\ UNCHANGED <<pipeline, plan, outputs, merged, iterations, fan, status>>

-----------------------------------------------------------------------------
(* _run_iterator.                                                          *)

\* Mutant: the failure of the iterator is not added to state.errors.
FailIteratorQuietly(n) ==
    /\ At(n) /\ ~abort /\ n \in iterators
    /\ results' = Skip([results EXCEPT ![n] = "failed"], Scope(n))
    /\ abort' = ~continueOnError
    /\ Advance
    /\ UNCHANGED <<pipeline, plan, outputs, merged, iterations, errors, fan, status>>

\* Its configuration, its input or its values are wrong.
FailIterator(n) ==
    /\ At(n) /\ ~abort /\ n \in iterators
    /\ \E why \in Failures(n, outputs) : errors' = errors \cup {Report(n, 0, why)}
    /\ results' = Skip([results EXCEPT ![n] = "failed"], Scope(n))
    /\ abort' = ~continueOnError
    /\ Advance
    /\ UNCHANGED <<pipeline, plan, outputs, merged, iterations, fan, status>>

\* One task per value, all waiting for the semaphore.
FanOut(n) ==
    /\ At(n) /\ ~abort /\ n \in iterators
    /\ Prepared(n, outputs)
    /\ \E k \in 0..MaxValues :
          tasks' = [i \in 1..k |-> [st |-> "waiting", local |-> {n}, why |-> "none"]]
    /\ active' = n
    /\ UNCHANGED <<pipeline, plan, cursor, abort, state, status>>

InState(st) == {i \in DOMAIN tasks : tasks[i].st = st}

\* The semaphore is fair and the tasks were created in index order.
Acquire(i) ==
    /\ active # 0
    /\ i \in InState("waiting")
    /\ \A j \in InState("waiting") : i <= j
    /\ Cardinality(InState("running")) < Cap
    /\ tasks' = [tasks EXCEPT ![i].st = IF Scope(active) = {} THEN "done" ELSE "running"]
    /\ UNCHANGED <<pipeline, plan, cursor, abort, state, active, status>>

\* ChainMap(local, state.outputs): the iterator's value, the members this
\* iteration has executed, and what was buffered before the fan-out.
View(i) == outputs \cup tasks[i].local

\* The member that an iteration executes next: scope_topo is the scope in
\* topological order.
IterationNode(i) == topo[Min({k \in 1..N : topo[k] \in Scope(active) \ tasks[i].local})]

RunIteration(i) ==
    /\ active # 0 /\ i \in InState("running")
    /\ Prepared(IterationNode(i), View(i))
    /\ LET local == tasks[i].local \cup {IterationNode(i)} IN
       tasks' = [tasks EXCEPT ![i].local = local,
                              ![i].st = IF Scope(active) \subseteq local THEN "done" ELSE "running"]
    /\ UNCHANGED <<pipeline, plan, cursor, abort, state, active, status>>

\* Mutant: a failed iteration starts again.
FailIterationRetries(i) ==
    /\ active # 0 /\ i \in InState("running")
    /\ tasks' = [tasks EXCEPT ![i].local = {active}]
    /\ UNCHANGED <<pipeline, plan, cursor, abort, state, active, status>>

FailIteration(i) ==
    /\ active # 0 /\ i \in InState("running")
    /\ \E why \in Failures(IterationNode(i), View(i)) :
          tasks' = [tasks EXCEPT ![i].st = "failed", ![i].why = why]
    /\ UNCHANGED <<pipeline, plan, cursor, abort, state, active, status>>

\* The TaskGroup of fail-fast notices a failure some time later and cancels
\* what still runs or waits.
CancelRest ==
    /\ active # 0 /\ ~continueOnError
    /\ InState("failed") # {}
    /\ InState("waiting") \cup InState("running") # {}
    /\ tasks' = [i \in DOMAIN tasks |->
                    IF tasks[i].st \in {"waiting", "running"}
                    THEN [tasks[i] EXCEPT !.st = "cancelled"] ELSE tasks[i]]
    /\ UNCHANGED <<pipeline, plan, cursor, abort, state, active, status>>

Settled == active # 0 /\ InState("waiting") \cup InState("running") = {}

\* The failures of the iterations.
IterationErrors ==
    {Report(IterationNode(i), i, tasks[i].why) : i \in InState("failed")}

\* Mutant: the cursor moves past the first member too.
EndFanOutTwice == active' = 0 /\ tasks' = <<>> /\ cursor' = cursor + 2

EndFanOut == active' = 0 /\ tasks' = <<>> /\ Advance

\* Fail-fast: the failure of the lowest index is the one that is reported.
AbortFanOut ==
    LET first == IterationNode(Min(InState("failed"))) IN
    /\ Settled /\ ~continueOnError /\ InState("failed") # {}
    /\ errors' = errors \cup IterationErrors
    /\ results' = Skip([results EXCEPT ![first] = "failed"], {active} \cup Scope(active))
    /\ abort' = TRUE
    /\ EndFanOut
    /\ UNCHANGED <<pipeline, plan, outputs, merged, iterations, status>>

\* Mutant: failed iterations are combined too.
CompletedWithFailed == InState("done") \cup InState("failed")

\* The iterations that completed.
Completed == InState("done")

\* Every member gets a result and the combined output, whatever it had before.
FanIn ==
    LET members == {active} \cup Scope(active)
        failed == {e.node : e \in IterationErrors}
    IN
    /\ Settled /\ (continueOnError \/ InState("failed") = {})
    /\ errors' = errors \cup IterationErrors
    /\ results' = [n \in Nodes |-> IF n \notin members THEN results[n]
                                   ELSE IF n \in failed THEN "failed" ELSE "succeeded"]
    /\ outputs' = outputs \cup members
    /\ merged' = [n \in Nodes |-> IF n \in members THEN InOrder(Completed) ELSE merged[n]]
    /\ iterations' = [n \in Nodes |->
                        IF n = active THEN Cardinality(DOMAIN tasks)
                        ELSE IF n \in members THEN Cardinality(Completed) ELSE iterations[n]]
    /\ EndFanOut
    /\ UNCHANGED <<pipeline, plan, abort, status>>

-----------------------------------------------------------------------------
Finish ==
    /\ status = "running" /\ active = 0 /\ cursor > N
    /\ status' = IF errors = {} THEN "succeeded" ELSE "failed"
    /\ UNCHANGED <<pipeline, plan, cursor, abort, state, fan>>

Iteration(i) == Acquire(i) \/ RunIteration(i) \/ FailIteration(i)

MainLoop ==
    \/ PassOver
    \/ \E n \in Nodes : SkipAborted(n) \/ RunNode(n) \/ FailNode(n)
                        \/ FailIterator(n) \/ FanOut(n)

Step ==
    \/ TakeReady \/ Validate \/ MainLoop
    \/ \E i \in DOMAIN tasks : Iteration(i)
    \/ CancelRest \/ AbortFanOut \/ FanIn \/ Finish

Done == Finished /\ UNCHANGED vars

Next == Step \/ Done

\* The event loop runs every task that can run.
Spec == Init /\ [][Next]_vars /\ WF_vars(Step)

-----------------------------------------------------------------------------
(* Properties.                                                             *)

Rejected == \E e \in errors : e.kind = "invalid"
Ran == Finished /\ ~Rejected

\* The nodes whose absence an error may be about.
Needed(e) == IF e.kind = "reference" THEN Named(e.node) ELSE Predecessors(edges, e.node)

\* topo_order() rejects exactly the graphs in which some node can reach
\* itself, and otherwise puts every node after all it reads from.
OrderIsRight ==
    [][status = "sorting" /\ status' # "sorting" =>
          /\ status' = "running" <=> Acyclic(edges) /\ Valid
          /\ Acyclic(edges) => /\ NodeSet(topo') = Nodes
                               /\ \A j, k \in 1..N : <<topo'[j], topo'[k]>> \in edges => j < k
      ]_vars

\* When a validated run ends every node has been accounted for, and the
\* status is that of the nodes: a success has only successes and an output
\* for every terminal node, a failure has a failed node and an error for it.
VerdictMatchesNodes ==
    Ran => /\ \A n \in Nodes : results[n] # "none"
           /\ status = "failed" <=> \E n \in Nodes : results[n] = "failed"
           /\ \A n \in Nodes : results[n] = "failed" => \E e \in errors : e.node = n
           /\ status = "succeeded" => outputs = Nodes

\* A node outside every scope succeeds only after everything it reads from
\* has: topological order, skipping and aborting together guarantee it.
InputsSucceeded ==
    \A n \in Nodes : results[n] = "succeeded" /\ ~InScope(n) =>
        \A p \in Predecessors(edges, n) : results[p] = "succeeded"

\* Fan-in is deterministic: the members of a scope hold exactly the
\* iterations that did not fail, in iteration order, although the tasks
\* finish in any order and share one state.
FanInInOrder ==
    \A i \in iterators \cap outputs : \A m \in {i} \cup Scope(i) :
        merged[m] = InOrder(
            (1..iterations[i]) \ {e.index : e \in {x \in errors : x.node \in Scope(i)}})

\* Fail-fast: once there is an error no node becomes successful and nothing
\* more is buffered.
NothingAfterFailure ==
    [][~continueOnError /\ errors # {} =>
          /\ outputs' = outputs
          /\ \A n \in Nodes : results'[n] = "succeeded" => results[n] = "succeeded"]_vars

\* An execution misses a node that it reads from ("unavailable") or that its
\* configuration names ("reference") only inside a scope, and only a node from
\* outside that scope which comes later in the order than the iterator, or
\* failed or was skipped.  The main loop never misses either: a reference that
\* validate_pipeline accepted resolves there.
UnavailableExplained ==
    \A e \in errors : e.kind \in {"unavailable", "reference"} =>
        \E i \in iterators : \E p \in Needed(e) \ Scope(i) :
            /\ e.node \in Scope(i)
            /\ \/ results[p] \in {"failed", "skipped"}
               \/ \E j, k \in 1..N : topo[j] = i /\ topo[k] = p /\ j < k

\* With continue_on_error only what lies downstream of a failure is skipped:
\* unaffected branches keep running.
SkippedIsDownstream ==
    continueOnError => \A n \in Nodes : results[n] = "skipped" =>
        \E f \in Nodes : results[f] = "failed" /\ n \in Descendants(edges, f)

\* Every execution ends: no task waits for the semaphore for ever.
Terminates == <>Finished

\* "Nodes in the subgraph may also take constant inputs from outside it":
\* then no input is missing as long as no node failed.
ConstantInputsAvailable ==
    ~continueOnError => \A e \in errors : e.kind # "unavailable"
=============================================================================
