------------------------ MODULE RunLifecycle_proofs ------------------------
(* Proofs about RunLifecycle, for any number of runs, workers, pipelines,   *)
(* log events and faults.                                                   *)
EXTENDS RunLifecycle, TLAPS

-----------------------------------------------------------------------------
(* Type correctness.                                                       *)

\* A worker that is not idle works on a run.
LEMMA BusyHasJob ==
  ASSUME JobsOK, NEW w \in Workers, pc[w] # "idle"
  PROVE  job[w] \in Runs
BY DEF JobsOK

\* The end of execute_run keeps the worker's position and job consistent.
LEMMA FinishJobs ==
  ASSUME JobsOK, NEW w \in Workers, pc[w] # "idle", Finish(w)
  PROVE  JobsOK'
BY DEF JobsOK, Finish, Goto, PCs

\* So does a step inside execute_run.
LEMMA GotoJobs ==
  ASSUME JobsOK, NEW w \in Workers, pc[w] # "idle",
         NEW l \in PCs \ {"idle"}, Goto(w, l), UNCHANGED <<queue, job>>
  PROVE  JobsOK'
BY DEF JobsOK, Goto, PCs

\* Inserting log rows keeps the tables and the flusher's cursor typed.
LEMMA InsertType ==
  ASSUME NEW rows \in [Seqs -> Nat], NEW from, NEW to
  PROVE  Insert(rows, from, to) \in [Seqs -> Nat]
BY DEF Insert

\* One commit of the flusher, in the same terms.
LEMMA InsertLogsType ==
  ASSUME TypeOK, NEW w \in Workers, pc[w] # "idle", InsertLogs(w)
  PROVE  /\ logRows' \in [Runs -> [Seqs -> Nat]]
         /\ written' \in [Workers -> 0..MaxEvents]
<1>1. job[w] \in Runs
  BY BusyHasJob DEF TypeOK
<1>2. Insert(logRows[job[w]], written[w], buffer[w]) \in [Seqs -> Nat]
  BY <1>1, InsertType DEF TypeOK, TablesOK
<1>3. QED
  BY <1>1, <1>2 DEF InsertLogs, TypeOK, TablesOK, LocalsOK

\* Every variable of the run tables, the queue and the workers keeps its
\* type, whatever is delivered, deleted or killed, locked or not.
THEOREM TypeCorrect == Spec => []TypeOK
<1>1. Init => TypeOK
  BY ConstantsAssumption DEF Init, TypeOK, TablesOK, JobsOK, LocalsOK, Seqs, NoRows,
     RowStates, Terminal, PCs
<1>2. TypeOK /\ [Next]_vars => TypeOK'
  <2> SUFFICES ASSUME TypeOK, [Next]_vars PROVE TypeOK'
    OBVIOUS
  <2>a. TablesOK /\ JobsOK /\ LocalsOK
    BY DEF TypeOK
  <2>1. ASSUME NEW r \in Runs, ApiStep(r) PROVE TypeOK'
    <3>1. CASE TriggerCheck(r)
      BY <2>a, <3>1 DEF TriggerCheck, TypeOK, TablesOK, JobsOK, LocalsOK, dbVars, workerVars
    <3>2. CASE TriggerCommit(r)
      BY <2>a, <3>2 DEF TriggerCommit, TypeOK, TablesOK, JobsOK, LocalsOK, workerVars, RowStates
    <3>3. CASE Enqueue(r)
      BY <2>a, <3>3 DEF Enqueue, TypeOK, TablesOK, JobsOK, LocalsOK, dbVars, workerVars
    <3>4. QED
      BY <2>1, <3>1, <3>2, <3>3 DEF ApiStep
  <2>2. ASSUME NEW r \in Runs, ApiFault(r) PROVE TypeOK'
    BY <2>a, <2>2, ConstantsAssumption DEF ApiFault, Strike, TypeOK, TablesOK, JobsOK, LocalsOK, dbVars, workerVars
  <2>3. ASSUME NEW p \in Pipelines, DeletePipeline(p) PROVE TypeOK'
    <3>1. TablesOK'
      BY <2>a, <2>3 DEF DeletePipeline, TablesOK, NoRows, RowStates
    <3>2. QED
      BY <2>a, <2>3, <3>1 DEF DeletePipeline, TypeOK, JobsOK, LocalsOK, workerVars
  <2>4. ASSUME NEW w \in Workers, NEW r \in Runs, Deliver(w, r) PROVE TypeOK'
    <3>1. JobsOK'
      BY <2>a, <2>4, ConstantsAssumption DEF Deliver, Goto, JobsOK, PCs
    <3>2. QED
      BY <2>a, <2>4, <3>1 DEF Deliver, TypeOK, TablesOK, LocalsOK, dbVars
  <2>5. ASSUME NEW w \in Workers, LoadRun(w) PROVE TypeOK'
    <3>1. JobsOK'
      BY <2>a, <2>5, FinishJobs, GotoJobs DEF LoadRun, PCs
    <3>2. QED
      BY <2>a, <2>5, <3>1 DEF LoadRun, TypeOK, TablesOK, LocalsOK, dbVars
  <2>6. ASSUME NEW w \in Workers, LoadPipeline(w) PROVE TypeOK'
    <3>1. JobsOK'
      BY <2>a, <2>6, FinishJobs, GotoJobs DEF LoadPipeline, PCs
    <3>2. TablesOK'
      BY <2>a, <2>6 DEF LoadPipeline, TablesOK, RowStates, Terminal
    <3>3. QED
      BY <2>a, <2>6, <3>1, <3>2 DEF LoadPipeline, TypeOK, LocalsOK
  <2>7. ASSUME NEW w \in Workers, CommitClaim(w) PROVE TypeOK'
    <3>1. JobsOK'
      BY <2>a, <2>7, FinishJobs, GotoJobs DEF CommitClaim, PCs
    <3>2. TablesOK'
      BY <2>a, <2>7 DEF CommitClaim, TablesOK, RowStates
    <3>3. QED
      BY <2>a, <2>7, <3>1, <3>2 DEF CommitClaim, TypeOK, LocalsOK
  <2>8. ASSUME NEW w \in Workers, ResolveSecrets(w) PROVE TypeOK'
    <3>1. JobsOK'
      BY <2>a, <2>8, GotoJobs DEF ResolveSecrets, PCs
    <3>2. LocalsOK'
      <4>1. 0 \in 0..MaxEvents
        BY ConstantsAssumption
      <4>2. buffer' \in [Workers -> 0..MaxEvents] /\ written' \in [Workers -> 0..MaxEvents]
        BY <2>a, <2>8, <4>1 DEF ResolveSecrets, LocalsOK
      <4>3. flusher' \in [Workers -> BOOLEAN]
        BY <2>a, <2>8 DEF ResolveSecrets, LocalsOK
      <4>4. QED
        BY <2>a, <2>8, <4>2, <4>3 DEF ResolveSecrets, LocalsOK
    <3>3. QED
      BY <2>a, <2>8, <3>1, <3>2 DEF ResolveSecrets, TypeOK, TablesOK, dbVars
  <2>9. ASSUME NEW w \in Workers, FailRun(w) PROVE TypeOK'
    <3>1. JobsOK'
      BY <2>a, <2>9, FinishJobs DEF FailRun
    <3>2. TablesOK'
      <4>1. errorRows' \in [Runs -> Nat] /\ errorCount' \in [Runs -> Nat]
        BY <2>a, <2>9 DEF FailRun, TablesOK
      <4>2. status' \in [Runs -> RowStates \cup {"absent", "deleted"}]
        BY <2>a, <2>9 DEF FailRun, TablesOK, RowStates, Terminal
      <4>3. QED
        BY <2>a, <2>9, <4>1, <4>2 DEF FailRun, TablesOK
    <3>3. QED
      BY <2>a, <2>9, <3>1, <3>2 DEF FailRun, TypeOK, LocalsOK
  <2>10. ASSUME NEW w \in Workers, Emit(w) PROVE TypeOK'
    <3>1. LocalsOK'
      <4>1. buffer' \in [Workers -> 0..MaxEvents]
        BY <2>a, <2>10, ConstantsAssumption DEF Emit, LocalsOK
      <4>2. emitted' \in [Runs -> Nat]
        BY <2>a, <2>10, BusyHasJob DEF Emit, LocalsOK
      <4>3. QED
        BY <2>a, <2>10, <4>1, <4>2 DEF Emit, LocalsOK
    <3>2. QED
      BY <2>a, <2>10, <3>1 DEF Emit, TypeOK, TablesOK, JobsOK, dbVars
  <2>11. ASSUME NEW w \in Workers, Flush(w) PROVE TypeOK'
    <3>1. logRows' \in [Runs -> [Seqs -> Nat]] /\ written' \in [Workers -> 0..MaxEvents]
      BY <2>a, <2>11, InsertLogsType DEF Flush, TablesOK, LocalsOK
    <3>2. flusher' \in [Workers -> BOOLEAN]
      BY <2>a, <2>11 DEF Flush, LocalsOK
    <3>3. QED
      BY <2>a, <2>11, <3>1, <3>2 DEF Flush, TypeOK, TablesOK, JobsOK, LocalsOK
  <2>12. ASSUME NEW w \in Workers, EngineReturns(w) PROVE TypeOK'
    <3>1. JobsOK'
      BY <2>a, <2>12, GotoJobs DEF EngineReturns, PCs
    <3>2. QED
      BY <2>a, <2>12, <3>1 DEF EngineReturns, TypeOK, TablesOK, LocalsOK, dbVars
  <2>13. ASSUME NEW w \in Workers, Drain(w) PROVE TypeOK'
    <3>1. logRows' \in [Runs -> [Seqs -> Nat]] /\ written' \in [Workers -> 0..MaxEvents]
      BY <2>a, <2>13, InsertLogsType DEF Drain, TablesOK, LocalsOK
    <3>2. JobsOK'
      BY <2>a, <2>13, FinishJobs, GotoJobs DEF Drain, PCs
    <3>3. QED
      BY <2>a, <2>13, <3>1, <3>2 DEF Drain, TypeOK, TablesOK, LocalsOK
  <2>14. ASSUME NEW w \in Workers, Persist(w) PROVE TypeOK'
    <3>1. JobsOK'
      BY <2>a, <2>14, FinishJobs DEF Persist
    <3>2. TablesOK'
      <4>1. errorRows' \in [Runs -> Nat] /\ errorCount' \in [Runs -> Nat]
        <5>1. outcome[w] \in Nat /\ job[w] \in Runs
          BY <2>a, <2>14, BusyHasJob, ConstantsAssumption DEF Persist, LocalsOK
        <5>2. errorRows[job[w]] + outcome[w] \in Nat
          BY <2>a, <5>1 DEF TablesOK
        <5>3. CASE Row(job[w])
          BY <2>a, <2>14, <5>1, <5>2, <5>3 DEF Persist, TablesOK
        <5>4. CASE ~Row(job[w])
          BY <2>a, <2>14, <5>4 DEF Persist, TablesOK
        <5>5. QED
          BY <5>3, <5>4
      <4>2. status' \in [Runs -> RowStates \cup {"absent", "deleted"}]
        BY <2>a, <2>14 DEF Persist, TablesOK, RowStates, Terminal
      <4>3. QED
        BY <2>a, <2>14, <4>1, <4>2 DEF Persist, TablesOK
    <3>3. QED
      BY <2>a, <2>14, <3>1, <3>2 DEF Persist, TypeOK, LocalsOK
  <2>15. ASSUME NEW w \in Workers, Fault(w) PROVE TypeOK'
    <3>1. CASE Crash(w)
      <4>1. JobsOK'
        BY <2>a, <3>1 DEF Crash, Goto, JobsOK, PCs
      <4>2. QED
        BY <2>a, <3>1, <4>1, ConstantsAssumption DEF Crash, Strike, TypeOK, TablesOK, LocalsOK, dbVars
    <3>2. CASE Raise(w)
      <4>1. JobsOK'
        BY <2>a, <3>2, FinishJobs DEF Raise
      <4>2. QED
        BY <2>a, <3>2, <4>1, ConstantsAssumption DEF Raise, Strike, TypeOK, TablesOK, LocalsOK, dbVars
    <3>3. CASE CancelEngine(w)
      <4>1. JobsOK'
        BY <2>a, <3>3, GotoJobs DEF CancelEngine, PCs
      <4>2. QED
        BY <2>a, <3>3, <4>1, ConstantsAssumption DEF CancelEngine, Strike, TypeOK, TablesOK, LocalsOK, dbVars
    <3>4. QED
      BY <2>15, <3>1, <3>2, <3>3 DEF Fault
  <2>16. ASSUME NEW w \in Workers, Ack(w) PROVE TypeOK'
    <3>1. JobsOK'
      BY <2>a, <2>16 DEF Ack, Goto, JobsOK, PCs
    <3>2. QED
      BY <2>a, <2>16, <3>1 DEF Ack, TypeOK, TablesOK, LocalsOK, dbVars
  <2>17. CASE UNCHANGED vars
    BY <2>a, <2>17 DEF vars, TypeOK, TablesOK, JobsOK, LocalsOK, dbVars, workerVars
  <2>18. QED
    BY <2>1, <2>2, <2>3, <2>4, <2>5, <2>6, <2>7, <2>8, <2>9, <2>10, <2>11, <2>12,
       <2>13, <2>14, <2>15, <2>16, <2>17 DEF Next, ExecuteRun, Done
<1>3. QED
  BY <1>1, <1>2, PTL DEF Spec

-----------------------------------------------------------------------------
(* The execution invariant, when deliveries of one job never overlap.      *)

TablesInv == Referential /\ LogsOnce /\ EventsComplete /\ ErrorsAgree

\* Steps that change neither a table nor the emitted events keep what is said
\* about the tables alone.
LEMMA TablesFrame ==
  ASSUME TablesInv, UNCHANGED <<dbVars, emitted>>
  PROVE  TablesInv'
BY DEF TablesInv, Referential, LogsOnce, EventsComplete, ErrorsAgree, dbVars, Row

\* A worker that stops working on its run cannot break exclusion.
LEMMA StopExclusive ==
  ASSUME JobsOK, Exclusive, NEW w \in Workers, job' = [job EXCEPT ![w] = NoJob]
  PROVE  Exclusive'
BY DEF JobsOK, Exclusive

\* A worker that stops is not read by ReadStillHolds and Progress: with the
\* tables unchanged they hold for the others.
LEMMA StopInv ==
  ASSUME TypeOK, ExecutionInv, NEW w \in Workers,
         UNCHANGED <<dbVars, emitted, api, buffer, written>>,
         \/ pc' = [pc EXCEPT ![w] = "ack"] /\ job' = job
         \/ pc' = [pc EXCEPT ![w] = "idle"] /\ job' = [job EXCEPT ![w] = NoJob]
  PROVE  ExecutionInv'
<1>1. TablesInv'
  BY TablesFrame DEF ExecutionInv, TablesInv
<1>2. Exclusive'
  BY StopExclusive DEF ExecutionInv, TypeOK, Exclusive
<1>3. InsertedOnce'
  BY DEF ExecutionInv, InsertedOnce, dbVars
<1>4. ReadStillHolds'
  BY DEF ExecutionInv, ReadStillHolds, TypeOK, JobsOK, dbVars, Claimed, Executing
<1>5. Progress'
  BY DEF ExecutionInv, Progress, TypeOK, JobsOK, dbVars, Claimed, Executing, Untouched
<1>6. QED
  BY <1>1, <1>2, <1>3, <1>4, <1>5 DEF ExecutionInv, TablesInv

\* The request that creates a run.
LEMMA ApiInv ==
  ASSUME TypeOK, ExecutionInv, NEW r \in Runs, ApiStep(r) \/ ApiFault(r)
  PROVE  ExecutionInv'
<1>1. CASE TriggerCheck(r) \/ Enqueue(r) \/ ApiFault(r)
  <2>1. UNCHANGED <<dbVars, emitted, pc, job, buffer, written>>
    BY <1>1 DEF TriggerCheck, Enqueue, ApiFault, workerVars
  <2>2. TablesInv'
    BY <2>1, TablesFrame DEF ExecutionInv, TablesInv
  <2>3. InsertedOnce'
    BY <1>1, <2>1 DEF ExecutionInv, InsertedOnce, TypeOK, LocalsOK, dbVars,
       TriggerCheck, Enqueue, ApiFault
  <2>4. Exclusive' /\ ReadStillHolds' /\ Progress'
    BY <2>1 DEF ExecutionInv, Exclusive, ReadStillHolds, Progress, Untouched, dbVars
  <2>5. QED
    BY <2>2, <2>3, <2>4 DEF ExecutionInv, TablesInv
<1>2. CASE TriggerCommit(r)
  <2>1. status[r] = "absent" /\ Untouched(r)
    BY <1>2 DEF TriggerCommit, ExecutionInv, InsertedOnce, Progress
  <2>2. UNCHANGED <<pipelines, pipelineOf, errorCount, errorRows, logRows, emitted,
                    pc, job, buffer, written>>
    BY <1>2 DEF TriggerCommit, workerVars
  <2>3. /\ \A x \in Runs : x # r => status'[x] = status[x] /\ api'[x] = api[x]
        /\ status'[r] \in {"absent", "queued"}
        /\ status'[r] = "queued" => pipelineOf[r] \in pipelines
        /\ api'[r] \in {"committed", "failed"}
    BY <1>2, <2>1 DEF TriggerCommit, TypeOK, TablesOK, LocalsOK
  <2>4. TablesInv'
    BY <2>1, <2>2, <2>3 DEF ExecutionInv, TablesInv, Referential, LogsOnce,
       EventsComplete, ErrorsAgree, Row, RowStates, Terminal
  <2>5. InsertedOnce' /\ Exclusive'
    BY <2>2, <2>3 DEF ExecutionInv, InsertedOnce, Exclusive
  <2>6. ReadStillHolds'
    BY <2>1, <2>2, <2>3, BusyHasJob DEF ExecutionInv, ReadStillHolds, TypeOK,
       Claimed, Executing
  <2>7. Progress'
    BY <2>1, <2>2, <2>3, BusyHasJob DEF ExecutionInv, Progress, Untouched, TypeOK,
       Claimed, Executing
  <2>8. QED
    BY <2>4, <2>5, <2>6, <2>7 DEF ExecutionInv, TablesInv
<1>3. QED
  BY <1>1, <1>2 DEF ApiStep

\* The cascade of a deleted pipeline.
LEMMA DeleteInv ==
  ASSUME TypeOK, ExecutionInv, NEW p \in Pipelines, DeletePipeline(p)
  PROVE  ExecutionInv'
<1>1. UNCHANGED <<pipelineOf, errorCount, emitted, api, pc, job, buffer, written>>
  BY DEF DeletePipeline, workerVars
<1>2. \A r \in Runs :
        \/ /\ status'[r] = "deleted" /\ Row(r) /\ logRows'[r] = NoRows /\ errorRows'[r] = 0
        \/ /\ status'[r] = status[r] /\ logRows'[r] = logRows[r]
           /\ errorRows'[r] = errorRows[r]
           /\ Row(r) => pipelineOf[r] # p
  BY DEF DeletePipeline
<1>3. TablesInv'
  <2>1. Referential'
    BY <1>1, <1>2 DEF DeletePipeline, ExecutionInv, Referential, Row, RowStates, Terminal
  <2>2. LogsOnce'
    BY <1>1, <1>2 DEF ExecutionInv, LogsOnce, NoRows
  <2>3. EventsComplete' /\ ErrorsAgree'
    BY <1>1, <1>2 DEF ExecutionInv, EventsComplete, ErrorsAgree, Terminal
  <2>4. QED
    BY <2>1, <2>2, <2>3 DEF TablesInv
<1>4. InsertedOnce' /\ Exclusive'
  BY <1>1, <1>2 DEF ExecutionInv, InsertedOnce, Exclusive, Row, RowStates, Terminal
<1>5. ReadStillHolds'
  BY <1>1, <1>2, BusyHasJob DEF ExecutionInv, ReadStillHolds, TypeOK, Claimed, Executing
<1>6. Progress'
  BY <1>1, <1>2, BusyHasJob DEF ExecutionInv, Progress, Untouched, TypeOK, Claimed,
     Executing, Row, RowStates, Terminal
<1>7. QED
  BY <1>3, <1>4, <1>5, <1>6 DEF ExecutionInv, TablesInv

\* Delivery: the in-progress key keeps the job to one worker.
LEMMA DeliverInv ==
  ASSUME TypeOK, ExecutionInv, Locked, NEW w \in Workers, NEW r \in Runs, Deliver(w, r)
  PROVE  ExecutionInv'
<1>1. TablesInv'
  BY TablesFrame DEF ExecutionInv, TablesInv, Deliver
<1>2. InsertedOnce'
  BY DEF Deliver, ExecutionInv, InsertedOnce, dbVars
<1>3. Exclusive'
  BY DEF Deliver, ExecutionInv, Exclusive, TypeOK, JobsOK
<1>4. ReadStillHolds'
  BY DEF Deliver, Goto, ExecutionInv, ReadStillHolds, TypeOK, JobsOK, dbVars, Claimed,
     Executing
<1>5. Progress'
  BY DEF Deliver, Goto, ExecutionInv, Progress, Untouched, TypeOK, JobsOK, dbVars,
     Claimed, Executing
<1>6. QED
  BY <1>1, <1>2, <1>3, <1>4, <1>5 DEF ExecutionInv, TablesInv

\* The reads before the claim.
LEMMA LoadInv ==
  ASSUME TypeOK, ExecutionInv, NEW w \in Workers, LoadRun(w) \/ LoadPipeline(w)
  PROVE  ExecutionInv'
<1>1. UNCHANGED <<dbVars, emitted, api, buffer, written>>
  <2>1. CASE LoadRun(w)
    BY <2>1 DEF LoadRun
  <2>2. CASE LoadPipeline(w)
    <3>1. pipelineOf[job[w]] \notin pipelines => ~Row(job[w])
      BY <2>2, BusyHasJob DEF LoadPipeline, ExecutionInv, Referential, TypeOK
    <3>2. UNCHANGED status
      BY <2>2, <3>1 DEF LoadPipeline, TypeOK, TablesOK
    <3>3. QED
      BY <2>2, <3>2 DEF LoadPipeline, dbVars
  <2>3. QED
    BY <2>1, <2>2
<1>2. CASE Finish(w)
  BY <1>1, <1>2, StopInv DEF Finish, Goto
<1>3. CASE ~Finish(w)
  <2>1. /\ job' = job
        /\ \/ pc' = [pc EXCEPT ![w] = "pipeline"] /\ status[job[w]] = "queued"
           \/ pc' = [pc EXCEPT ![w] = "claim"] /\ pc[w] = "pipeline"
    BY <1>3 DEF LoadRun, LoadPipeline, Goto, Claimable
  <2>2. TablesInv'
    BY <1>1, TablesFrame DEF ExecutionInv, TablesInv
  <2>3. InsertedOnce' /\ Exclusive'
    BY <1>1, <2>1 DEF ExecutionInv, InsertedOnce, Exclusive, dbVars
  <2>4. ReadStillHolds'
    BY <1>1, <2>1 DEF ExecutionInv, ReadStillHolds, TypeOK, JobsOK, dbVars, Claimed, Executing
  <2>5. Progress'
    BY <1>1, <2>1 DEF ExecutionInv, Progress, Untouched, TypeOK, JobsOK, dbVars, Claimed,
       Executing
  <2>6. QED
    BY <2>2, <2>3, <2>4, <2>5 DEF ExecutionInv, TablesInv
<1>4. QED
  BY <1>2, <1>3

\* The claim itself: the row was queued when it was read and still is.
LEMMA ClaimInv ==
  ASSUME TypeOK, ExecutionInv, NEW w \in Workers, CommitClaim(w)
  PROVE  ExecutionInv'
<1>0. job[w] \in Runs
  BY BusyHasJob DEF CommitClaim, TypeOK
<1>1. CASE Row(job[w])
  <2>1. status[job[w]] = "queued" /\ Untouched(job[w])
    BY <1>0, <1>1 DEF CommitClaim, ExecutionInv, ReadStillHolds, Progress, Row, RowStates, Terminal
  <2>2. /\ UNCHANGED <<pipelines, pipelineOf, errorCount, errorRows, logRows, emitted,
                       api, job, buffer, written>>
        /\ pc' = [pc EXCEPT ![w] = "secrets"]
        /\ status' = [status EXCEPT ![job[w]] = "running"]
    BY <1>1 DEF CommitClaim, Goto
  <2>3. TablesInv'
    BY <1>0, <1>1, <2>2 DEF ExecutionInv, TablesInv, Referential, LogsOnce,
       EventsComplete, ErrorsAgree, Row, RowStates, Terminal, TypeOK, TablesOK
  <2>4. InsertedOnce' /\ Exclusive'
    BY <1>0, <2>1, <2>2 DEF ExecutionInv, InsertedOnce, Exclusive, TypeOK, TablesOK
  <2>5. ReadStillHolds'
    BY <1>0, <2>1, <2>2 DEF ExecutionInv, ReadStillHolds, Exclusive, TypeOK, TablesOK, JobsOK,
       Claimed, Executing
  <2>6. Progress'
    BY <1>0, <2>1, <2>2 DEF ExecutionInv, Progress, Exclusive, Untouched, TypeOK, TablesOK, JobsOK,
       Claimed, Executing
  <2>7. QED
    BY <2>3, <2>4, <2>5, <2>6 DEF ExecutionInv, TablesInv
<1>2. CASE ~Row(job[w])
  BY <1>2, StopInv DEF CommitClaim, Finish, Goto, dbVars
<1>3. QED
  BY <1>1, <1>2

\* From the claim to the engine, and from the engine to the drain.
LEMMA EngineInv ==
  ASSUME TypeOK, ExecutionInv, NEW w \in Workers,
         ResolveSecrets(w) \/ EngineReturns(w) \/ CancelEngine(w)
  PROVE  ExecutionInv'
<1>0. job[w] \in Runs
  BY BusyHasJob DEF ResolveSecrets, EngineReturns, CancelEngine, TypeOK
<1>1. UNCHANGED <<dbVars, emitted, api, job>>
  BY DEF ResolveSecrets, EngineReturns, CancelEngine
<1>2. TablesInv' /\ InsertedOnce' /\ Exclusive'
  BY <1>1, TablesFrame DEF ExecutionInv, TablesInv, InsertedOnce, Exclusive, dbVars
<1>3. ReadStillHolds'
  BY <1>0, <1>1 DEF ResolveSecrets, EngineReturns, CancelEngine, Goto, ExecutionInv,
     ReadStillHolds, TypeOK, JobsOK, dbVars, Claimed, Executing
<1>4. Progress'
  <2>1. CASE ResolveSecrets(w)
    <3>1. status[job[w]] = "running" => Untouched(job[w])
      BY <2>1 DEF ResolveSecrets, ExecutionInv, Progress, Claimed, Executing
    <3>2. \A v \in Workers : v # w =>
            pc'[v] = pc[v] /\ buffer'[v] = buffer[v] /\ written'[v] = written[v]
      BY <2>1 DEF ResolveSecrets, Goto, TypeOK, JobsOK, LocalsOK
    <3>3. \/ pc'[w] = "engine" /\ buffer'[w] = 0 /\ written'[w] = 0
          \/ pc'[w] = "failrun"
      BY <2>1 DEF ResolveSecrets, Goto, TypeOK, JobsOK, LocalsOK
    <3>4. Untouched(job[w]) =>
            /\ emitted[job[w]] = 0
            /\ \A n \in Seqs : logRows[job[w]][n] = (IF n < 0 THEN 1 ELSE 0)
      BY ConstantsAssumption DEF Untouched, NoRows, Seqs
    <3>5. Untouched(job[w])' = Untouched(job[w])
      BY <1>1 DEF Untouched, dbVars
    <3>6. QED
      BY <1>0, <1>1, <3>1, <3>2, <3>3, <3>4, <3>5 DEF ExecutionInv, Progress, Untouched, dbVars,
         Claimed, Executing
  <2>2. CASE EngineReturns(w) \/ CancelEngine(w)
    BY <1>0, <1>1, <2>2 DEF EngineReturns, CancelEngine, Goto, ExecutionInv, Progress,
       Untouched, TypeOK, JobsOK, dbVars, Claimed, Executing
  <2>3. QED
    BY <2>1, <2>2
<1>5. QED
  BY <1>2, <1>3, <1>4 DEF ExecutionInv, TablesInv

\* An event is emitted: only its own run counts it.
LEMMA EmitInv ==
  ASSUME TypeOK, ExecutionInv, NEW w \in Workers, Emit(w)
  PROVE  ExecutionInv'
<1>0. job[w] \in Runs /\ status[job[w]] \in {"running", "deleted"}
  BY BusyHasJob DEF Emit, TypeOK, ExecutionInv, ReadStillHolds, Claimed, Executing
<1>1. /\ UNCHANGED <<dbVars, api, pc, job, written>>
      /\ buffer' = [buffer EXCEPT ![w] = @ + 1]
      /\ emitted' = [emitted EXCEPT ![job[w]] = @ + 1]
  BY DEF Emit
<1>2. TablesInv'
  BY <1>0, <1>1 DEF ExecutionInv, TablesInv, Referential, LogsOnce, EventsComplete,
     ErrorsAgree, Row, Terminal, TypeOK, LocalsOK, dbVars
<1>3. InsertedOnce' /\ Exclusive' /\ ReadStillHolds'
  BY <1>1 DEF ExecutionInv, InsertedOnce, Exclusive, ReadStillHolds, dbVars
<1>4. Progress'
  BY <1>0, <1>1 DEF Emit, ExecutionInv, Progress, Exclusive, Untouched, TypeOK, LocalsOK, JobsOK,
     dbVars, Claimed, Executing
<1>5. QED
  BY <1>2, <1>3, <1>4 DEF ExecutionInv, TablesInv

\* The flusher's commit moves "the first `from' events, once each" to "the
\* first `to' events, once each".
LEMMA InsertAdvances ==
  ASSUME NEW rows \in [Seqs -> Nat], NEW from \in Nat, NEW to \in Nat, from <= to,
         \A n \in Seqs : rows[n] = (IF n < from THEN 1 ELSE 0)
  PROVE  \A n \in Seqs : Insert(rows, from, to)[n] = (IF n < to THEN 1 ELSE 0)
BY ConstantsAssumption DEF Insert, Seqs

\* What one commit of the flusher does to the tables of its run.
LEMMA InsertLogsInv ==
  ASSUME TypeOK, ExecutionInv, NEW w \in Workers, pc[w] \in Executing,
         Row(job[w]), InsertLogs(w)
  PROVE  /\ job[w] \in Runs /\ status[job[w]] = "running"
         /\ emitted[job[w]] = buffer[w]
         /\ \A r \in Runs : r # job[w] => logRows'[r] = logRows[r]
         /\ \A n \in Seqs : logRows'[job[w]][n] = (IF n < buffer[w] THEN 1 ELSE 0)
         /\ written' = [written EXCEPT ![w] = buffer[w]]
<1>1. job[w] \in Runs
  BY BusyHasJob DEF TypeOK, Executing
<1>2. status[job[w]] = "running"
  BY <1>1 DEF ExecutionInv, ReadStillHolds, Claimed, Row, RowStates, Terminal
<1>3. /\ emitted[job[w]] = buffer[w]
      /\ written[w] <= buffer[w]
      /\ \A n \in Seqs : logRows[job[w]][n] = (IF n < written[w] THEN 1 ELSE 0)
  BY <1>2 DEF ExecutionInv, Progress, Claimed
<1>4. written[w] \in Nat /\ buffer[w] \in Nat
  BY ConstantsAssumption DEF TypeOK, LocalsOK
<1>5. logRows[job[w]] \in [Seqs -> Nat]
  BY <1>1 DEF TypeOK, TablesOK
<1>6. \A n \in Seqs : Insert(logRows[job[w]], written[w], buffer[w])[n]
                         = (IF n < buffer[w] THEN 1 ELSE 0)
  BY <1>3, <1>4, <1>5, InsertAdvances
<1>7. /\ \A r \in Runs : r # job[w] => logRows'[r] = logRows[r]
      /\ logRows'[job[w]] = Insert(logRows[job[w]], written[w], buffer[w])
  BY <1>1 DEF InsertLogs, TypeOK, TablesOK
<1>8. QED
  BY <1>1, <1>2, <1>3, <1>6, <1>7 DEF InsertLogs

\* The flusher's commits while the engine runs, and the last one.
LEMMA FlushInv ==
  ASSUME TypeOK, ExecutionInv, NEW w \in Workers, Flush(w) \/ Drain(w)
  PROVE  ExecutionInv'
<1>0. pc[w] \in Executing \ {"persist"} /\ job[w] \in Runs
  BY BusyHasJob DEF Flush, Drain, TypeOK, Executing
<1>1. UNCHANGED <<pipelines, status, pipelineOf, errorCount, errorRows, emitted, api, buffer>>
  BY DEF Flush, Drain
<1>2. \/ InsertLogs(w) /\ Row(job[w])
      \/ UNCHANGED <<logRows, written>>
  BY DEF Flush, Drain
<1>3. \/ pc' = pc /\ job' = job
      \/ pc' = [pc EXCEPT ![w] = "ack"] /\ job' = job
      \/ /\ pc' = [pc EXCEPT ![w] = "persist"] /\ job' = job
         /\ written'[w] = buffer[w] \/ ~Pending(w)
  BY DEF Flush, Drain, Finish, Goto, InsertLogs, TypeOK, LocalsOK
<1>4. TablesInv'
  <2>1. CASE InsertLogs(w) /\ Row(job[w])
    <3>1. Referential' /\ ErrorsAgree'
      BY <1>1 DEF ExecutionInv, Referential, ErrorsAgree, Row
    <3>2. LogsOnce'
      BY <1>0, <2>1, InsertLogsInv DEF ExecutionInv, LogsOnce
    <3>3. EventsComplete'
      BY <1>0, <1>1, <2>1, InsertLogsInv DEF ExecutionInv, EventsComplete, Terminal
    <3>4. QED
      BY <3>1, <3>2, <3>3 DEF TablesInv
  <2>2. CASE UNCHANGED <<logRows, written>>
    BY <1>1, <2>2, TablesFrame DEF ExecutionInv, TablesInv, dbVars
  <2>3. QED
    BY <1>2, <2>1, <2>2
<1>5. InsertedOnce' /\ Exclusive'
  BY <1>1, <1>3, StopExclusive DEF ExecutionInv, InsertedOnce, Exclusive, TypeOK
<1>6. ReadStillHolds'
  BY <1>0, <1>1, <1>3 DEF ExecutionInv, ReadStillHolds, TypeOK, JobsOK, Claimed, Executing
<1>7. Progress'
  <2>1. \A r \in Runs :
          /\ status[r] # "running" \/ r # job[w] => logRows'[r] = logRows[r]
    BY <1>0, <1>2, InsertLogsInv
  <2>2. /\ \A r \in Runs : status'[r] \in {"absent", "queued"} => Untouched(r)'
        /\ \A r \in Runs : status'[r] = "running" => errorRows'[r] = 0
    BY <1>1, <2>1 DEF ExecutionInv, Progress, Untouched
  <2>3. \A v \in Workers : v # w => /\ pc'[v] = pc[v] /\ job'[v] = job[v]
                                   /\ written'[v] = written[v]
    BY <1>2, <1>3 DEF InsertLogs, TypeOK, JobsOK, LocalsOK
  <2>4. \A v \in Workers : v # w /\ pc[v] # "idle" => job[v] \in Runs /\ job[v] # job[w]
    BY <1>0, BusyHasJob, ConstantsAssumption DEF ExecutionInv, Exclusive, TypeOK
  <2>5. status[job[w]] = "running" =>
          /\ emitted[job[w]] = buffer[w]
          /\ \A n \in Seqs : logRows'[job[w]][n] = (IF n < written'[w] THEN 1 ELSE 0)
    <3>1. CASE InsertLogs(w) /\ Row(job[w])
      <4>1. written'[w] = buffer[w] /\ buffer[w] \in Nat
        BY <3>1, ConstantsAssumption DEF InsertLogs, TypeOK, LocalsOK
      <4>2. QED
        BY <1>0, <3>1, <4>1, InsertLogsInv
    <3>2. CASE UNCHANGED <<logRows, written>>
      BY <1>0, <3>2 DEF ExecutionInv, Progress, Claimed
    <3>3. QED
      BY <1>2, <3>1, <3>2
  <2>6. ASSUME NEW v \in Workers, pc'[v] \in Claimed, status'[job'[v]] = "running"
        PROVE  IF pc'[v] \in Executing
               THEN /\ emitted'[job'[v]] = buffer'[v]
                    /\ \A n \in Seqs : logRows'[job'[v]][n]
                                          = (IF n < written'[v] THEN 1 ELSE 0)
               ELSE Untouched(job[v])'
    <3>1. CASE v = w
      BY <1>0, <1>1, <1>3, <2>5, <2>6, <3>1 DEF TypeOK, JobsOK, Claimed, Executing
    <3>2. CASE v # w
      <4>1. job[v] \in Runs /\ job[v] # job[w] /\ logRows'[job[v]] = logRows[job[v]]
        BY <2>1, <2>3, <2>4, <2>6, <3>2 DEF Claimed, Executing
      <4>2. QED
        BY <1>1, <2>3, <2>6, <3>2, <4>1 DEF ExecutionInv, Progress, Untouched
    <3>3. QED
      BY <3>1, <3>2
  <2>7. ASSUME NEW v \in Workers
        PROVE  /\ pc'[v] \in Executing => written'[v] <= buffer'[v]
               /\ pc'[v] = "persist" => written'[v] = buffer'[v]
    <3>1. CASE v # w
      BY <1>1, <2>3, <3>1 DEF ExecutionInv, Progress
    <3>2. CASE v = w
      <4>1. written[w] \in Nat /\ buffer[w] \in Nat /\ written[w] <= buffer[w]
        BY <1>0, ConstantsAssumption DEF ExecutionInv, Progress, TypeOK, LocalsOK
      <4>2. written'[w] = buffer[w] \/ (~Pending(w) /\ written'[w] = written[w]) \/ pc'[w] # "persist"
        BY <1>0, <1>2, <1>3 DEF TypeOK, JobsOK, LocalsOK, InsertLogs
      <4>3. written'[w] = buffer[w] \/ written'[w] = written[w]
        BY <1>2 DEF InsertLogs, TypeOK, LocalsOK
      <4>4. QED
        BY <1>1, <3>2, <4>1, <4>2, <4>3 DEF Pending
    <3>3. QED
      BY <3>1, <3>2
  <2>8. QED
    BY <2>2, <2>3, <2>6, <2>7 DEF Progress, Untouched
<1>8. QED
  BY <1>4, <1>5, <1>6, <1>7 DEF ExecutionInv, TablesInv

\* The terminal write of a run, by _fail_run or at the end of execute_run.
LEMMA TerminalInv ==
  ASSUME TypeOK, ExecutionInv, NEW w \in Workers, FailRun(w) \/ Persist(w)
  PROVE  ExecutionInv'
<1>0. pc[w] \in {"failrun", "persist"} /\ job[w] \in Runs
  BY BusyHasJob DEF FailRun, Persist, TypeOK
<1>1. /\ UNCHANGED <<pipelines, pipelineOf, logRows, emitted, api, buffer, written>>
      /\ pc' = [pc EXCEPT ![w] = "ack"] /\ job' = job
  BY DEF FailRun, Persist, Finish, Goto
<1>2. CASE Row(job[w])
  <2>1. status[job[w]] = "running" /\ errorRows[job[w]] = 0
    BY <1>0, <1>2 DEF ExecutionInv, ReadStillHolds, Progress, Claimed, Executing, Row,
       RowStates, Terminal
  <2>2. \A n \in Seqs : logRows[job[w]][n] = (IF n < emitted[job[w]] THEN 1 ELSE 0)
    <3>1. CASE pc[w] = "failrun"
      <4>1. Untouched(job[w])
        BY <2>1, <3>1 DEF ExecutionInv, Progress, Claimed, Executing
      <4>2. QED
        BY <4>1, ConstantsAssumption DEF Untouched, NoRows, Seqs
    <3>2. CASE pc[w] = "persist"
      BY <2>1, <3>2 DEF ExecutionInv, Progress, Claimed, Executing
    <3>3. QED
      BY <1>0, <3>1, <3>2
  <2>3. outcome[w] \in Nat
    BY ConstantsAssumption DEF TypeOK, LocalsOK
  <2>4. /\ \A r \in Runs : r # job[w] => /\ status'[r] = status[r]
                                         /\ errorRows'[r] = errorRows[r]
                                         /\ errorCount'[r] = errorCount[r]
        /\ status'[job[w]] \in Terminal
        /\ errorCount'[job[w]] = errorRows'[job[w]]
        /\ status'[job[w]] = "failed" <=> errorRows'[job[w]] > 0
    <3>1. CASE FailRun(w)
      BY <1>0, <1>2, <2>1, <3>1 DEF FailRun, TypeOK, TablesOK, Terminal
    <3>2. CASE Persist(w)
      BY <1>0, <1>2, <2>1, <2>3, <3>2 DEF Persist, TypeOK, TablesOK, Terminal
    <3>3. QED
      BY <3>1, <3>2
  <2>5. Referential' /\ InsertedOnce'
    BY <1>0, <1>1, <1>2, <2>1, <2>4 DEF ExecutionInv, Referential, InsertedOnce, Row, RowStates, Terminal
  <2>6. LogsOnce' /\ EventsComplete' /\ ErrorsAgree'
    BY <1>1, <2>2, <2>4 DEF ExecutionInv, LogsOnce, EventsComplete, ErrorsAgree
  <2>7. Exclusive'
    BY <1>1 DEF ExecutionInv, Exclusive
  <2>8. \A v \in Workers : v # w /\ pc[v] # "idle" => job[v] \in Runs /\ job[v] # job[w]
    BY <1>0, BusyHasJob, ConstantsAssumption DEF ExecutionInv, Exclusive, TypeOK
  <2>9. ReadStillHolds'
    BY <1>1, <2>4, <2>8 DEF ExecutionInv, ReadStillHolds, TypeOK, JobsOK, Claimed, Executing
  <2>10. Progress'
    BY <1>1, <2>4, <2>8 DEF ExecutionInv, Progress, Untouched, TypeOK, JobsOK, Claimed, Executing,
       Terminal
  <2>11. QED
    BY <2>5, <2>6, <2>7, <2>9, <2>10 DEF ExecutionInv
<1>3. CASE ~Row(job[w])
  <2>1. UNCHANGED <<status, errorRows, errorCount>>
    BY <1>3 DEF FailRun, Persist
  <2>2. QED
    BY <1>1, <2>1, StopInv DEF dbVars
<1>4. QED
  BY <1>2, <1>3

\* No run exists yet.
LEMMA ExecutionInit == Init => ExecutionInv
BY ConstantsAssumption DEF Init, ExecutionInv, Referential, InsertedOnce, Exclusive,
   ReadStillHolds, Progress, Untouched, LogsOnce, EventsComplete, ErrorsAgree, Row,
   RowStates, Terminal, Claimed, Executing, NoRows, Seqs

\* One step of the system keeps the execution invariant.
LEMMA ExecutionStep ==
  ASSUME Locked, TypeOK, ExecutionInv, [Next]_vars
  PROVE  ExecutionInv'
<1>1. ASSUME NEW w \in Workers, Crash(w) \/ Raise(w) \/ Ack(w) PROVE ExecutionInv'
  BY <1>1, StopInv DEF Crash, Raise, Ack, Finish, Goto
<1>2. CASE UNCHANGED vars
  <2>1. TablesInv'
    BY <1>2, TablesFrame DEF ExecutionInv, TablesInv, vars
  <2>2. InsertedOnce' /\ Exclusive' /\ ReadStillHolds' /\ Progress'
    BY <1>2 DEF ExecutionInv, InsertedOnce, Exclusive, ReadStillHolds, Progress, Untouched,
       vars, dbVars, workerVars
  <2>3. QED
    BY <2>1, <2>2 DEF ExecutionInv, TablesInv
<1>3. QED
  BY <1>1, <1>2, ApiInv, DeleteInv, DeliverInv, LoadInv, ClaimInv, EngineInv, EmitInv,
     FlushInv, TerminalInv DEF Next, ExecuteRun, Fault, Done

\* While deliveries of one job never overlap, every position of every worker
\* agrees with the tables: what execute_run read before an await still holds
\* after it, and exactly its own events are there.
THEOREM LockedInvariance ==
  ASSUME Locked
  PROVE  Spec => []ExecutionInv
<1>1. TypeOK /\ ExecutionInv /\ [Next]_vars => ExecutionInv'
  BY ExecutionStep
<1>2. QED
  BY <1>1, ExecutionInit, TypeCorrect, PTL DEF Spec

\* Then execute_run logs exactly once: however many workers crash, jobs are
\* redelivered and pipelines are deleted, no event is logged twice.
THEOREM LockedExecutionCorrect ==
  ASSUME Locked
  PROVE  Spec => []LogsOnce
<1>1. ExecutionInv => LogsOnce
  BY DEF ExecutionInv
<1>2. QED
  BY <1>1, LockedInvariance, PTL

\* And a terminal row comes last: a run that has one has all its events and as
\* many errors as it says.
THEOREM SettledRunIsComplete ==
  ASSUME Locked
  PROVE  Spec => []TerminalIsComplete
<1>1. ExecutionInv => TerminalIsComplete
  BY DEF ExecutionInv, TerminalIsComplete
<1>2. QED
  BY <1>1, LockedInvariance, PTL

\* A step of a claimed worker is the only one that can reach a terminal row,
\* and it finds its row running: so no terminal status is ever overwritten.
THEOREM TerminalStatusIsFinal ==
  ASSUME Locked
  PROVE  Spec => TerminalIsFinal
<1>1. ASSUME TypeOK, ExecutionInv, [Next]_vars, NEW r \in Runs, status[r] \in Terminal
      PROVE  status'[r] \in {status[r], "deleted"}
  <2>1. ASSUME NEW x \in Runs, ApiStep(x) \/ ApiFault(x) PROVE status'[r] = status[r]
    <3>1. api[x] = "checked" => status[x] = "absent"
      BY <1>1 DEF ExecutionInv, InsertedOnce
    <3>2. QED
      BY <1>1, <2>1, <3>1 DEF ApiStep, ApiFault, TriggerCheck, TriggerCommit, Enqueue, dbVars,
         TypeOK, TablesOK, Terminal
  <2>2. ASSUME NEW p \in Pipelines, DeletePipeline(p)
        PROVE  status'[r] \in {status[r], "deleted"}
    BY <2>2 DEF DeletePipeline
  <2>3. ASSUME NEW w \in Workers, ExecuteRun(w) PROVE status'[r] = status[r]
    <3>1. pc[w] \in {"pipeline", "claim", "failrun", "persist"} => r # job[w]
      BY <1>1 DEF ExecutionInv, ReadStillHolds, Claimed, Executing, Terminal
    <3>2. CASE LoadPipeline(w) \/ CommitClaim(w) \/ FailRun(w) \/ Persist(w)
      <4>1. r # job[w]
        BY <3>1, <3>2 DEF LoadPipeline, CommitClaim, FailRun, Persist
      <4>2. QED
        BY <1>1, <3>2, <4>1 DEF LoadPipeline, CommitClaim, FailRun, Persist, TypeOK, TablesOK
    <3>3. CASE LoadRun(w) \/ ResolveSecrets(w) \/ Emit(w) \/ Flush(w) \/ EngineReturns(w) \/ Drain(w)
             \/ Ack(w)
      BY <3>3 DEF LoadRun, ResolveSecrets, Emit, Flush, EngineReturns, Drain, Ack, dbVars
    <3>4. QED
      BY <2>3, <3>2, <3>3 DEF ExecuteRun
  <2>4. ASSUME NEW w \in Workers, Fault(w) PROVE status'[r] = status[r]
    BY <2>4 DEF Fault, Crash, Raise, CancelEngine, dbVars
  <2>5. ASSUME NEW w \in Workers, NEW x \in Runs, Deliver(w, x) PROVE status'[r] = status[r]
    BY <2>5 DEF Deliver, dbVars
  <2>6. CASE UNCHANGED vars
    BY <2>6 DEF vars, dbVars
  <2>7. QED
    BY <1>1, <2>1, <2>2, <2>3, <2>4, <2>5, <2>6 DEF Next, Done
<1>2. TypeOK /\ ExecutionInv /\ [Next]_vars =>
        [\A r \in Runs : status[r] \in Terminal => status'[r] \in {status[r], "deleted"}]_vars
  BY <1>1
<1>3. QED
  BY <1>2, LockedInvariance, TypeCorrect, PTL DEF Spec, TerminalIsFinal
=============================================================================
