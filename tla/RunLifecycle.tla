---------------------------- MODULE RunLifecycle ----------------------------
(***************************************************************************)
(* The life of a run, from POST /pipelines/{id}/runs to its terminal row.  *)
(*                                                                         *)
(* An API request (trigger_run) inserts a Run row and then enqueues a job. *)
(* A worker task (execute_run) loads the row, claims it, resolves secrets, *)
(* runs the engine while a flusher writes run_logs, and persists the       *)
(* outcome.  A pipeline may be deleted at any time, and the database       *)
(* cascades to its runs, their logs and their errors.                      *)
(*                                                                         *)
(* One action is one database transaction or statement, or one queue       *)
(* operation: the places where the code awaits.  Sessions run at READ      *)
(* COMMITTED, so every statement sees what was committed before it.        *)
(*                                                                         *)
(* The queue is arq on Redis.  A job stays there until execute_run returns *)
(* or raises, and is delivered again when its worker died.  Locked says    *)
(* that arq's in-progress key keeps two deliveries of a job apart.         *)
(***************************************************************************)
EXTENDS Integers, FiniteSets

CONSTANTS
    Runs,         \* run ids
    Pipelines,    \* pipeline ids
    Workers,      \* concurrent executions of run_pipeline_task
    NoJob,        \* what an idle worker works on
    Locked,       \* TRUE: a job is never delivered while it is in progress
    MaxEvents,    \* bound: log events the engine emits in one execution
    MaxErrors,    \* bound: node errors one engine execution returns
    FaultKinds,   \* which faults happen: "api", "crash", "raise", "cancel"
    MaxFaults     \* bound: how many faults happen

ASSUME ConstantsAssumption ==
    /\ NoJob \notin Runs
    /\ Locked \in BOOLEAN
    /\ MaxEvents \in Nat /\ MaxErrors \in Nat /\ MaxFaults \in Nat
    /\ MaxErrors >= 1
    /\ FaultKinds \subseteq {"api", "crash", "raise", "cancel"}

VARIABLES
    pipelines,    \* rows of the pipelines table
    status,       \* runs.status; "absent" before the insert, "deleted" after the cascade
    pipelineOf,   \* runs.pipeline_id
    errorCount,   \* runs.error_count
    errorRows,    \* number of run_errors rows of a run
    logRows,      \* logRows[r][n]: number of run_logs rows of r with seq = n
    emitted,      \* history: log events the engine emitted for a run
    api,          \* progress of the request that creates a run
    queue,        \* runs with a job in Redis
    pc, job,      \* a worker's position in execute_run and its run_id
    buffer,       \* len(buffer): events emitted in this execution
    written,      \* the flusher's cursor into buffer
    flusher,      \* is the flusher task alive?
    outcome,      \* len(result.errors) once the engine returned
    faults        \* faults so far

dbVars == <<pipelines, status, pipelineOf, errorCount, errorRows, logRows>>
workerVars == <<pc, job, buffer, written, flusher, outcome>>
vars == <<dbVars, emitted, api, queue, workerVars, faults>>

Seqs == 0..(MaxEvents - 1)
NoRows == [n \in Seqs |-> 0]
Terminal == {"succeeded", "failed"}
RowStates == {"queued", "running"} \cup Terminal
Row(r) == status[r] \in RowStates

PCs == {"idle", "load", "pipeline", "claim", "secrets", "failrun",
        "engine", "drain", "unwind", "persist", "ack"}

TablesOK ==
    /\ pipelines \subseteq Pipelines
    /\ status \in [Runs -> RowStates \cup {"absent", "deleted"}]
    /\ pipelineOf \in [Runs -> Pipelines]
    /\ errorCount \in [Runs -> Nat]
    /\ errorRows \in [Runs -> Nat]
    /\ logRows \in [Runs -> [Seqs -> Nat]]

JobsOK ==
    /\ queue \subseteq Runs
    /\ pc \in [Workers -> PCs]
    /\ job \in [Workers -> Runs \cup {NoJob}]
    /\ \A w \in Workers : pc[w] = "idle" <=> job[w] = NoJob

LocalsOK ==
    /\ emitted \in [Runs -> Nat]
    /\ api \in [Runs -> {"none", "checked", "committed", "done", "failed"}]
    /\ buffer \in [Workers -> 0..MaxEvents]
    /\ written \in [Workers -> 0..MaxEvents]
    /\ flusher \in [Workers -> BOOLEAN]
    /\ outcome \in [Workers -> 0..MaxErrors]
    /\ faults \in 0..MaxFaults

\* The type of every variable; a worker has a job exactly while it is busy.
TypeOK == TablesOK /\ JobsOK /\ LocalsOK

Init ==
    /\ pipelines = Pipelines
    /\ status = [r \in Runs |-> "absent"]
    /\ pipelineOf \in [Runs -> Pipelines]
    /\ errorCount = [r \in Runs |-> 0]
    /\ errorRows = [r \in Runs |-> 0]
    /\ logRows = [r \in Runs |-> NoRows]
    /\ emitted = [r \in Runs |-> 0]
    /\ api = [r \in Runs |-> "none"]
    /\ queue = {}
    /\ pc = [w \in Workers |-> "idle"]
    /\ job = [w \in Workers |-> NoJob]
    /\ buffer = [w \in Workers |-> 0]
    /\ written = [w \in Workers |-> 0]
    /\ flusher = [w \in Workers |-> TRUE]
    /\ outcome = [w \in Workers |-> 0]
    /\ faults = 0

-----------------------------------------------------------------------------
\* A fault of the given kind happens.
Strike(kind) ==
    /\ kind \in FaultKinds
    /\ faults < MaxFaults
    /\ faults' = faults + 1

(* The API: trigger_run and delete_pipeline.                               *)

\* get_owned_pipeline: 404 unless the pipeline exists.
TriggerCheck(r) ==
    /\ api[r] = "none"
    /\ api' = [api EXCEPT ![r] = IF pipelineOf[r] \in pipelines THEN "checked"
                                                                ELSE "failed"]
    /\ UNCHANGED <<dbVars, emitted, queue, workerVars, faults>>

\* INSERT INTO runs ... COMMIT.  A pipeline deleted since the check violates
\* the foreign key and the request fails.
TriggerCommit(r) ==
    /\ api[r] = "checked"
    /\ IF pipelineOf[r] \in pipelines
       THEN /\ status' = [status EXCEPT ![r] = "queued"]
            /\ api' = [api EXCEPT ![r] = "committed"]
       ELSE /\ api' = [api EXCEPT ![r] = "failed"]
            /\ UNCHANGED status
    /\ UNCHANGED <<pipelines, pipelineOf, errorCount, errorRows, logRows,
                   emitted, queue, workerVars, faults>>

\* Mutant: the job is enqueued before the row is committed.
EnqueueFirst(r) ==
    /\ api[r] = "checked"
    /\ r \notin queue
    /\ queue' = queue \cup {r}
    /\ UNCHANGED <<dbVars, emitted, api, workerVars, faults>>

\* enqueue_run: the job goes to Redis.  The refresh that follows only reads.
Enqueue(r) ==
    /\ api[r] = "committed"
    /\ queue' = queue \cup {r}
    /\ api' = [api EXCEPT ![r] = "done"]
    /\ UNCHANGED <<dbVars, emitted, workerVars, faults>>

\* The API process dies, or Redis refuses the job, after the commit.
ApiFault(r) ==
    /\ api[r] = "committed"
    /\ Strike("api")
    /\ api' = [api EXCEPT ![r] = "failed"]
    /\ UNCHANGED <<dbVars, emitted, queue, workerVars>>

\* Mutant: the database does not cascade (foreign keys are not enforced).
DeletePipelineOnly(p) ==
    /\ p \in pipelines
    /\ pipelines' = pipelines \ {p}
    /\ UNCHANGED <<status, pipelineOf, errorCount, errorRows, logRows, emitted, api,
                   queue, workerVars, faults>>

\* DELETE FROM pipelines: ON DELETE CASCADE removes runs, logs and errors.
DeletePipeline(p) ==
    LET gone == {r \in Runs : pipelineOf[r] = p /\ Row(r)} IN
    /\ p \in pipelines
    /\ pipelines' = pipelines \ {p}
    /\ status' = [r \in Runs |-> IF r \in gone THEN "deleted" ELSE status[r]]
    /\ logRows' = [r \in Runs |-> IF r \in gone THEN NoRows ELSE logRows[r]]
    /\ errorRows' = [r \in Runs |-> IF r \in gone THEN 0 ELSE errorRows[r]]
    /\ UNCHANGED <<pipelineOf, errorCount, emitted, api, queue, workerVars, faults>>

-----------------------------------------------------------------------------
(* The worker: execute_run.                                                *)

Goto(w, label) == pc' = [pc EXCEPT ![w] = label]

\* execute_run returns or raises: what is left is arq's bookkeeping.
Finish(w) == Goto(w, "ack") /\ UNCHANGED <<queue, job>>

\* arq removes the job, whatever became of it, and the slot is free.
Ack(w) ==
    /\ pc[w] = "ack"
    /\ Goto(w, "idle")
    /\ queue' = queue \ {job[w]}
    /\ job' = [job EXCEPT ![w] = NoJob]
    /\ UNCHANGED <<dbVars, emitted, api, buffer, written, flusher, outcome, faults>>

\* Mutant: a job leaves the queue when it is delivered, not when it is done.
DeliverOnce(w, r) ==
    /\ pc[w] = "idle"
    /\ r \in queue
    /\ Locked => \A v \in Workers : job[v] # r
    /\ Goto(w, "load")
    /\ job' = [job EXCEPT ![w] = r]
    /\ queue' = queue \ {r}
    /\ UNCHANGED <<dbVars, emitted, api, buffer, written, flusher, outcome, faults>>

\* arq hands a job to a free worker slot.
Deliver(w, r) ==
    /\ pc[w] = "idle"
    /\ r \in queue
    /\ Locked => \A v \in Workers : job[v] # r
    /\ Goto(w, "load")
    /\ job' = [job EXCEPT ![w] = r]
    /\ UNCHANGED <<dbVars, emitted, api, queue, buffer, written, flusher,
                   outcome, faults>>

\* Mutant: any run that has not ended may be executed.
ClaimableUnlessTerminal(s) == s \in RowStates \ Terminal

\* Mutant: any run may be executed.
ClaimableAlways(s) == s \in RowStates

\* The status an execution is allowed to start from.
Claimable(s) == s = "queued"

\* session.get(Run): only a queued run proceeds.
LoadRun(w) ==
    /\ pc[w] = "load"
    /\ IF Claimable(status[job[w]])
       THEN Goto(w, "pipeline") /\ UNCHANGED <<queue, job>>
       ELSE Finish(w)
    /\ UNCHANGED <<dbVars, emitted, api, buffer, written, flusher, outcome, faults>>

\* session.get(Pipeline): without one the run is marked failed.  An UPDATE of
\* a row that was deleted matches nothing and raises, changing nothing.
LoadPipeline(w) ==
    LET r == job[w] IN
    /\ pc[w] = "pipeline"
    /\ IF pipelineOf[r] \in pipelines
       THEN Goto(w, "claim") /\ UNCHANGED <<status, queue, job>>
       ELSE /\ status' = [status EXCEPT ![r] = IF Row(r) THEN "failed" ELSE @]
            /\ Finish(w)
    /\ UNCHANGED <<pipelines, pipelineOf, errorCount, errorRows, logRows,
                   emitted, api, buffer, written, flusher, outcome, faults>>

\* Mutant: the claim writes a state that RunState does not have.
CommitClaimUnknownState(w) ==
    LET r == job[w] IN
    /\ pc[w] = "claim"
    /\ IF Row(r)
       THEN /\ status' = [status EXCEPT ![r] = "started"]
            /\ Goto(w, "secrets")
            /\ UNCHANGED <<queue, job>>
       ELSE Finish(w) /\ UNCHANGED status
    /\ UNCHANGED <<pipelines, pipelineOf, errorCount, errorRows, logRows,
                   emitted, api, buffer, written, flusher, outcome, faults>>

\* UPDATE runs SET status = running ... COMMIT: by primary key alone.
CommitClaim(w) ==
    LET r == job[w] IN
    /\ pc[w] = "claim"
    /\ IF Row(r)
       THEN /\ status' = [status EXCEPT ![r] = "running"]
            /\ Goto(w, "secrets")
            /\ UNCHANGED <<queue, job>>
       ELSE Finish(w) /\ UNCHANGED status
    /\ UNCHANGED <<pipelines, pipelineOf, errorCount, errorRows, logRows,
                   emitted, api, buffer, written, flusher, outcome, faults>>

\* resolve_secrets: found, and the engine and its flusher start; or missing
\* (or undecryptable), and the run fails before the engine starts.
ResolveSecrets(w) ==
    /\ pc[w] = "secrets"
    /\ \/ /\ Goto(w, "engine")
          /\ buffer' = [buffer EXCEPT ![w] = 0]
          /\ written' = [written EXCEPT ![w] = 0]
          /\ flusher' = [flusher EXCEPT ![w] = TRUE]
       \/ /\ Goto(w, "failrun")
          /\ UNCHANGED <<buffer, written, flusher>>
    /\ UNCHANGED <<dbVars, emitted, api, queue, job, outcome, faults>>

\* Mutant: error_count is not set.
FailRunUncounted(w) ==
    LET r == job[w] IN
    /\ pc[w] = "failrun"
    /\ IF Row(r)
       THEN /\ status' = [status EXCEPT ![r] = "failed"]
            /\ errorRows' = [errorRows EXCEPT ![r] = @ + 1]
       ELSE UNCHANGED <<status, errorRows>>
    /\ Finish(w)
    /\ UNCHANGED <<pipelines, pipelineOf, errorCount, logRows, emitted, api, buffer,
                   written, flusher, outcome, faults>>

\* _fail_run: failed, one error, and the error's row, in one commit.
FailRun(w) ==
    LET r == job[w] IN
    /\ pc[w] = "failrun"
    /\ IF Row(r)
       THEN /\ status' = [status EXCEPT ![r] = "failed"]
            /\ errorCount' = [errorCount EXCEPT ![r] = 1]
            /\ errorRows' = [errorRows EXCEPT ![r] = @ + 1]
       ELSE UNCHANGED <<status, errorCount, errorRows>>
    /\ Finish(w)
    /\ UNCHANGED <<pipelines, pipelineOf, logRows, emitted, api, buffer,
                   written, flusher, outcome, faults>>

\* on_event: the engine appends an event to the buffer.
Emit(w) ==
    /\ pc[w] = "engine"
    /\ buffer[w] < MaxEvents
    /\ buffer' = [buffer EXCEPT ![w] = @ + 1]
    /\ emitted' = [emitted EXCEPT ![job[w]] = @ + 1]
    /\ UNCHANGED <<dbVars, api, queue, pc, job, written, flusher, outcome, faults>>

Pending(w) == written[w] < buffer[w]

\* The run_logs rows of a run once the events from..to-1 are inserted too.
Insert(rows, from, to) ==
    [n \in Seqs |-> IF from <= n /\ n < to THEN rows[n] + 1 ELSE rows[n]]

\* One commit of the flusher: every buffered event becomes a run_logs row.
InsertLogs(w) ==
    /\ logRows' = [logRows EXCEPT ![job[w]] = Insert(@, written[w], buffer[w])]
    /\ written' = [written EXCEPT ![w] = buffer[w]]

\* The flusher wakes up while the engine runs.  Inserting under a deleted run
\* violates the foreign key and ends the flusher task, not the engine.
Flush(w) ==
    /\ pc[w] = "engine"
    /\ flusher[w]
    /\ Pending(w)
    /\ IF Row(job[w])
       THEN InsertLogs(w) /\ UNCHANGED flusher
       ELSE flusher' = [flusher EXCEPT ![w] = FALSE] /\ UNCHANGED <<logRows, written>>
    /\ UNCHANGED <<pipelines, status, pipelineOf, errorCount, errorRows,
                   emitted, api, queue, pc, job, buffer, outcome, faults>>

\* execute_pipeline returns: stop.set(), then wait for the flusher.
EngineReturns(w) ==
    /\ pc[w] = "engine"
    /\ \E n \in 0..MaxErrors : outcome' = [outcome EXCEPT ![w] = n]
    /\ Goto(w, "drain")
    /\ UNCHANGED <<dbVars, emitted, api, queue, job, buffer, written, flusher, faults>>

\* Mutant: the flusher stops at stop.set() and drops what it has not written.
DrainDropsTail(w) ==
    LET blocked == ~flusher[w] \/ (Pending(w) /\ ~Row(job[w])) IN
    /\ pc[w] \in {"drain", "unwind"}
    /\ IF blocked \/ pc[w] = "unwind"
       THEN Finish(w)
       ELSE Goto(w, "persist") /\ UNCHANGED <<queue, job>>
    /\ UNCHANGED <<pipelines, status, pipelineOf, errorCount, errorRows, logRows,
                   emitted, api, buffer, written, flusher, outcome, faults>>

\* await flush_task: the flusher writes what is left and returns.  A flusher
\* that died, or dies now, raises; a cancelled execution ends here either way.
Drain(w) ==
    LET blocked == ~flusher[w] \/ (Pending(w) /\ ~Row(job[w])) IN
    /\ pc[w] \in {"drain", "unwind"}
    /\ IF Pending(w) /\ ~blocked THEN InsertLogs(w) ELSE UNCHANGED <<logRows, written>>
    /\ IF blocked \/ pc[w] = "unwind"
       THEN Finish(w)
       ELSE Goto(w, "persist") /\ UNCHANGED <<queue, job>>
    /\ UNCHANGED <<pipelines, status, pipelineOf, errorCount, errorRows,
                   emitted, api, buffer, flusher, outcome, faults>>

\* Errors, result and terminal status in one commit; a deleted run is ignored.
\* The engine's status is failed exactly when it returned errors.
Persist(w) ==
    LET r == job[w] IN
    /\ pc[w] = "persist"
    /\ IF Row(r)
       THEN /\ errorRows' = [errorRows EXCEPT ![r] = @ + outcome[w]]
            /\ errorCount' = [errorCount EXCEPT ![r] = outcome[w]]
            /\ status' = [status EXCEPT ![r] =
                            IF outcome[w] = 0 THEN "succeeded" ELSE "failed"]
       ELSE UNCHANGED <<errorRows, errorCount, status>>
    /\ Finish(w)
    /\ UNCHANGED <<pipelines, pipelineOf, logRows, emitted, api, buffer,
                   written, flusher, outcome, faults>>

-----------------------------------------------------------------------------
(* Faults of the worker process.                                           *)

\* The process dies: what was not committed is lost, the job stays in Redis.
Crash(w) ==
    /\ pc[w] # "idle"
    /\ Strike("crash")
    /\ Goto(w, "idle")
    /\ job' = [job EXCEPT ![w] = NoJob]
    /\ UNCHANGED <<dbVars, emitted, api, queue, buffer, written, flusher, outcome>>

\* An exception nobody catches (a cipher that cannot be built, a database
\* error): the task ends and arq does not run the job again.
Raise(w) ==
    /\ pc[w] \in PCs \ {"idle", "engine", "drain", "unwind", "ack"}
    /\ Strike("raise")
    /\ Finish(w)
    /\ UNCHANGED <<dbVars, emitted, api, buffer, written, flusher, outcome>>

\* arq cancels a job that exceeds its timeout: the finally block still drains.
CancelEngine(w) ==
    /\ pc[w] = "engine"
    /\ Strike("cancel")
    /\ Goto(w, "unwind")
    /\ UNCHANGED <<dbVars, emitted, api, queue, job, buffer, written, flusher, outcome>>

-----------------------------------------------------------------------------
ApiStep(r) == TriggerCheck(r) \/ TriggerCommit(r) \/ Enqueue(r)

ExecuteRun(w) ==
    \/ LoadRun(w) \/ LoadPipeline(w) \/ CommitClaim(w) \/ ResolveSecrets(w)
    \/ FailRun(w) \/ Emit(w) \/ Flush(w) \/ EngineReturns(w) \/ Drain(w)
    \/ Persist(w) \/ Ack(w)

Fault(w) == Crash(w) \/ Raise(w) \/ CancelEngine(w)

\* Every request is answered, no job is in flight and no pipeline is left.
Done ==
    /\ \A r \in Runs : api[r] \in {"done", "failed"}
    /\ queue = {} /\ pipelines = {}
    /\ \A w \in Workers : pc[w] = "idle"
    /\ UNCHANGED vars

Next ==
    \/ \E r \in Runs : ApiStep(r) \/ ApiFault(r)
    \/ \E p \in Pipelines : DeletePipeline(p)
    \/ \E w \in Workers, r \in Runs : Deliver(w, r)
    \/ \E w \in Workers : ExecuteRun(w) \/ Fault(w)
    \/ Done

Spec == Init /\ [][Next]_vars

\* A request that was accepted is carried out, a queued job reaches a free
\* slot, and a task that is not killed runs on (the engine's calls have
\* timeouts).  Nothing is assumed about faults or about deletions.
Fairness ==
    /\ \A r \in Runs : WF_vars(TriggerCommit(r)) /\ WF_vars(Enqueue(r))
    /\ \A r \in Runs : WF_vars(\E w \in Workers : Deliver(w, r))
    /\ \A w \in Workers :
          /\ WF_vars(LoadRun(w) \/ LoadPipeline(w) \/ CommitClaim(w)
                     \/ ResolveSecrets(w) \/ FailRun(w) \/ Drain(w) \/ Persist(w) \/ Ack(w))
          /\ WF_vars(EngineReturns(w))

FairSpec == Spec /\ Fairness

-----------------------------------------------------------------------------
(* Properties.                                                             *)

\* However often a job is delivered again, no log event of a run is written
\* twice: the claim of execute_run lets one delivery through.
LogsOnce == \A r \in Runs : \A n \in Seqs : logRows[r][n] <= 1

\* The flusher has written every event the engine emitted for the run.
EventsComplete ==
    \A r \in Runs : status[r] \in Terminal =>
        \A n \in Seqs : logRows[r][n] = (IF n < emitted[r] THEN 1 ELSE 0)

\* runs.error_count, the run_errors rows and the status agree.
ErrorsAgree ==
    \A r \in Runs : status[r] \in Terminal =>
        /\ errorCount[r] = errorRows[r]
        /\ status[r] = "failed" <=> errorRows[r] > 0

\* A terminal row is the last thing written: by then all events are there
\* (execute_run awaits flush_task before it persists), which is what lets a
\* reader stop at a terminal status, and there is no failure without an error
\* to show and no success with one.
TerminalIsComplete == EventsComplete /\ ErrorsAgree

\* A run that reached a terminal status keeps it, whatever is redelivered,
\* until its row is deleted.
TerminalIsFinal ==
    [][\A r \in Runs : status[r] \in Terminal =>
          status'[r] \in {status[r], "deleted"}]_vars

\* execute_run "persists ... the terminal status": every accepted run ends,
\* in a terminal status or deleted with its pipeline.
EveryRunSettles ==
    \A r \in Runs : Row(r) ~> status[r] \in Terminal \cup {"deleted"}

\* Nothing but a fault keeps a run from ending: no interleaving of requests,
\* deliveries, flushes and deletions leaves one queued or running for ever.
SettlesWithoutFaults ==
    \A r \in Runs : Row(r) ~> status[r] \in Terminal \cup {"deleted"} \/ faults > 0

\* A worker that dies before it claims a run loses nothing: the job is
\* delivered again and the run leaves the queued state.
QueuedIsPickedUp == \A r \in Runs : status[r] = "queued" ~> status[r] # "queued"

-----------------------------------------------------------------------------
(* The inductive invariant behind the safety properties.                   *)

Executing == {"engine", "drain", "unwind", "persist"}
Claimed == {"secrets", "failrun"} \cup Executing

\* Foreign keys: a run row has its pipeline row.
Referential == \A r \in Runs : Row(r) => pipelineOf[r] \in pipelines

\* The row of a run is inserted once, by its own request.
InsertedOnce == \A r \in Runs : api[r] \in {"none", "checked"} => status[r] = "absent"

\* No two workers execute the same run.
Exclusive == \A v, w \in Workers : v # w /\ job[v] # NoJob => job[v] # job[w]

Untouched(r) == logRows[r] = NoRows /\ errorRows[r] = 0 /\ emitted[r] = 0

\* What a worker has read about its run is still so: between its read and its
\* commit nobody else moved the row, except a cascade that removed it.
ReadStillHolds ==
    \A w \in Workers :
        /\ pc[w] \in {"pipeline", "claim"} => status[job[w]] \in {"queued", "deleted"}
        /\ pc[w] \in Claimed => status[job[w]] \in {"running", "deleted"}

\* What the tables hold for a run that is not terminal, and for the run a
\* worker executes: exactly the events its flusher has passed.
Progress ==
    /\ \A r \in Runs : status[r] \in {"absent", "queued"} => Untouched(r)
    /\ \A r \in Runs : status[r] = "running" => errorRows[r] = 0
    /\ \A w \in Workers : pc[w] \in Claimed /\ status[job[w]] = "running" =>
        IF pc[w] \in Executing
        THEN /\ emitted[job[w]] = buffer[w]
             /\ \A n \in Seqs : logRows[job[w]][n] = (IF n < written[w] THEN 1 ELSE 0)
        ELSE Untouched(job[w])
    /\ \A w \in Workers :
        /\ pc[w] \in Executing => written[w] <= buffer[w]
        /\ pc[w] = "persist" => written[w] = buffer[w]

\* Holds in every state when deliveries of one job never overlap: it carries
\* LogsOnce, EventsComplete and ErrorsAgree through every step of
\* execute_run, a crash and a redelivery included.
ExecutionInv ==
    /\ Referential
    /\ InsertedOnce
    /\ Exclusive
    /\ ReadStillHolds
    /\ Progress
    /\ LogsOnce
    /\ EventsComplete
    /\ ErrorsAgree
=============================================================================
