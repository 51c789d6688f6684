----------------------------- MODULE RunStream -----------------------------
(***************************************************************************)
(* How the log of one run reaches its readers.                             *)
(*                                                                         *)
(* In the worker, the engine appends events to a buffer and the flusher    *)
(* task copies them to run_logs; when the engine returns, the worker stops *)
(* the flusher, waits for it and persists errors and terminal status.      *)
(*                                                                         *)
(* In the API process, stream_run_events polls the database for each       *)
(* subscribed client and turns what it reads into SSE events, and get_run  *)
(* answers with one snapshot.  Both read the run row, the logs and the     *)
(* errors in separate statements at READ COMMITTED, so a commit of the     *)
(* worker, or a deletion of the run, may fall between any two of them.     *)
(***************************************************************************)
EXTENDS Integers, Sequences

CONSTANTS
    Clients,      \* clients subscribed to the event stream
    Requests,     \* requests for the run's detail
    MaxEvents,    \* bound: log events of the run
    MaxErrors,    \* bound: errors the engine returns
    MaxForeign,   \* bound: log rows other runs insert meanwhile
    MaxPolls      \* _SSE_MAX_POLLS

ASSUME StreamAssumption ==
    /\ MaxEvents \in Nat /\ MaxErrors \in Nat /\ MaxForeign \in Nat
    /\ MaxPolls \in Nat \ {0}

VARIABLES
    status,     \* runs.status
    deleted,    \* the run's rows were removed by a cascade
    logs,       \* committed run_logs rows of this run, ordered by id: [id, seq]
    nextId,     \* the autoincrement of run_logs, shared with other runs
    errors,     \* committed run_errors rows
    wpc,        \* the worker: "queued" "engine" "drain" "persist" "end"
    buffer,     \* len(buffer)
    result,     \* len(result.errors) when the engine has returned
    fpc,        \* the flusher: "add" "commit" "wait" "returned" "dead"
    written,    \* its cursor into buffer
    spc,        \* stream_run_events of a client
    snap,       \* what the current poll has read: [status, logs, errors]
    lastId, lastStatus, polls,
    got,        \* what the client has received: seq numbers of log events
    ended,      \* how the stream ended for the client
    doneWith,   \* the payload of the done event
    rpc, detail \* get_run of a request and the snapshot it builds

dbVars == <<status, deleted, logs, nextId, errors>>
workerVars == <<wpc, buffer, result, fpc, written>>
streamVars == <<spc, snap, lastId, lastStatus, polls, got, ended, doneWith>>
restVars == <<rpc, detail>>
vars == <<dbVars, workerVars, streamVars, restVars>>

Terminal == {"succeeded", "failed"}
Stopped == wpc # "engine"       \* stop.is_set(), from the flusher's side
Seqs(n) == [i \in 1..n |-> i - 1]
Nothing == [status |-> "none", logs |-> <<>>, errors |-> 0]

States == {"queued", "running"} \cup Terminal
RowType == [id : 1..(MaxEvents + MaxForeign), seq : 0..(MaxEvents - 1)]
SnapType == [status : States \cup {"none"}, logs : Seq(RowType), errors : 0..MaxErrors]

DbOK ==
    /\ status \in States
    /\ deleted \in BOOLEAN
    /\ logs \in Seq(RowType)
    /\ nextId \in 1..(MaxEvents + MaxForeign + 1)
    /\ errors \in 0..MaxErrors

WorkerOK ==
    /\ wpc \in {"queued", "engine", "drain", "persist", "end"}
    /\ buffer \in 0..MaxEvents /\ written \in 0..MaxEvents
    /\ result \in 0..MaxErrors
    /\ fpc \in {"add", "commit", "wait", "returned", "dead"}

ClientsOK ==
    /\ spc \in [Clients -> {"status", "logs", "errors", "send", "tail", "sleep", "closed"}]
    /\ snap \in [Clients -> SnapType]
    /\ lastId \in [Clients -> 0..(MaxEvents + MaxForeign)]
    /\ lastStatus \in [Clients -> States \cup {"none"}]
    /\ polls \in [Clients -> 0..MaxPolls]
    /\ got \in [Clients -> Seq(0..(MaxEvents - 1))]
    /\ ended \in [Clients -> {"open", "done", "timeout", "eof", "gone"}]
    /\ doneWith \in [Clients -> SnapType]
    /\ \A c \in Clients : /\ spc[c] = "closed" <=> ended[c] # "open"
                          /\ spc[c] # "closed" => polls[c] < MaxPolls

RequestsOK ==
    /\ rpc \in [Requests -> {"run", "logs", "errors", "done", "error"}]
    /\ detail \in [Requests -> SnapType]

TypeOK == DbOK /\ WorkerOK /\ ClientsOK /\ RequestsOK

Init ==
    /\ status = "queued" /\ deleted = FALSE
    /\ logs = <<>> /\ nextId = 1 /\ errors = 0
    /\ wpc = "queued" /\ buffer = 0 /\ result = 0
    /\ fpc = "add" /\ written = 0
    /\ spc = [c \in Clients |-> "status"]
    /\ snap = [c \in Clients |-> Nothing]
    /\ lastId = [c \in Clients |-> 0]
    /\ lastStatus = [c \in Clients |-> "none"]
    /\ polls = [c \in Clients |-> 0]
    /\ got = [c \in Clients |-> <<>>]
    /\ ended = [c \in Clients |-> "open"]
    /\ doneWith = [c \in Clients |-> Nothing]
    /\ rpc = [q \in Requests |-> "run"]
    /\ detail = [q \in Requests |-> Nothing]

-----------------------------------------------------------------------------
(* The worker and its flusher.                                             *)

Claim ==
    /\ wpc = "queued"
    /\ IF deleted THEN wpc' = "end" /\ UNCHANGED status
                  ELSE wpc' = "engine" /\ status' = "running"
    /\ UNCHANGED <<deleted, logs, nextId, errors, buffer, result, fpc, written,
                   streamVars, restVars>>

Emit ==
    /\ wpc = "engine" /\ buffer < MaxEvents
    /\ buffer' = buffer + 1
    /\ UNCHANGED <<dbVars, wpc, result, fpc, written, streamVars, restVars>>

\* The inner loop of the flusher does not yield: it stages all of buffer.
FlushAdd ==
    /\ wpc \in {"engine", "drain"} /\ fpc = "add"
    /\ written' = buffer
    /\ fpc' = "commit"
    /\ UNCHANGED <<dbVars, wpc, buffer, result, streamVars, restVars>>

\* session.commit: the staged rows get their ids and become visible.  Under a
\* deleted run they violate the foreign key.  Then: return, or wait.
FlushCommit ==
    LET new == written - Len(logs) IN
    /\ wpc \in {"engine", "drain"} /\ fpc = "commit"
    /\ IF deleted /\ new > 0
       THEN fpc' = "dead" /\ UNCHANGED <<logs, nextId>>
       ELSE /\ logs' = logs \o [i \in 1..new |-> [id |-> nextId + i - 1,
                                                  seq |-> Len(logs) + i - 1]]
            /\ nextId' = nextId + new
            /\ fpc' = IF Stopped /\ written >= buffer THEN "returned" ELSE "wait"
    /\ UNCHANGED <<status, deleted, errors, wpc, buffer, result, written,
                   streamVars, restVars>>

\* wait_for(stop.wait(), 0.2 s): the interval passes or the engine is done.
FlushWake ==
    /\ wpc \in {"engine", "drain"} /\ fpc = "wait"
    /\ fpc' = "add"
    /\ UNCHANGED <<dbVars, wpc, buffer, result, written, streamVars, restVars>>

\* Mutant: the terminal status is written before the flusher has finished.
EngineReturnsTerminal ==
    /\ wpc = "engine"
    /\ wpc' = "drain"
    /\ result' \in 0..MaxErrors
    /\ status' = IF result' = 0 THEN "succeeded" ELSE "failed"
    /\ UNCHANGED <<deleted, logs, nextId, errors, buffer, fpc, written, streamVars, restVars>>

\* execute_pipeline returns; stop.set().
EngineReturns ==
    /\ wpc = "engine"
    /\ wpc' = "drain"
    /\ result' \in 0..MaxErrors
    /\ UNCHANGED <<dbVars, buffer, fpc, written, streamVars, restVars>>

\* await flush_task: a flusher that died raises here and ends execute_run.
AwaitFlusher ==
    /\ wpc = "drain" /\ fpc \in {"returned", "dead"}
    /\ wpc' = IF fpc = "returned" THEN "persist" ELSE "end"
    /\ UNCHANGED <<dbVars, buffer, result, fpc, written, streamVars, restVars>>

\* Error rows and terminal status, in one commit.
Persist ==
    /\ wpc = "persist"
    /\ wpc' = "end"
    /\ IF deleted THEN UNCHANGED <<status, errors>>
       ELSE /\ errors' = result
            /\ status' = IF result = 0 THEN "succeeded" ELSE "failed"
    /\ UNCHANGED <<deleted, logs, nextId, buffer, result, fpc, written,
                   streamVars, restVars>>

\* The worker process dies: the run stays as it is.
WorkerDies ==
    /\ wpc \in {"engine", "drain", "persist"}
    /\ wpc' = "end"
    /\ UNCHANGED <<dbVars, buffer, result, fpc, written, streamVars, restVars>>

\* Another run's flusher takes an id.
ForeignLog ==
    /\ nextId - Len(logs) <= MaxForeign
    /\ nextId' = nextId + 1
    /\ UNCHANGED <<status, deleted, logs, errors, workerVars, streamVars, restVars>>

\* The pipeline is deleted and the database cascades to the run.
DeleteRun ==
    /\ ~deleted
    /\ deleted' = TRUE
    /\ UNCHANGED <<status, logs, nextId, errors, workerVars, streamVars, restVars>>

-----------------------------------------------------------------------------
(* The tables as a statement sees them.                                    *)

VisibleLogs == IF deleted THEN <<>> ELSE logs
VisibleErrors == IF deleted THEN 0 ELSE errors

(* stream_run_events: one poll is three statements and then the yields.    *)

Close(c, how) ==
    /\ spc' = [spc EXCEPT ![c] = "closed"]
    /\ ended' = [ended EXCEPT ![c] = how]

\* session.get(Run): a run that is gone ends the stream without a word.
PollStatus(c) ==
    /\ spc[c] = "status"
    /\ IF deleted
       THEN Close(c, "eof") /\ UNCHANGED snap
       ELSE /\ spc' = [spc EXCEPT ![c] = "logs"]
            /\ snap' = [snap EXCEPT ![c].status = status]
            /\ UNCHANGED ended
    /\ UNCHANGED <<dbVars, workerVars, lastId, lastStatus, polls, got, doneWith, restVars>>

\* Mutant: the row at the cursor is read again.
AfterInclusive(rows, id) ==
    LET passed == CHOOSE k \in 0..Len(rows) :
                      \A i \in 1..Len(rows) : rows[i].id >= id <=> i > k
    IN  SubSeq(rows, passed + 1, Len(rows))

\* The rows a cursor has not passed: in the order of their ids, a suffix.
After(rows, id) ==
    LET passed == CHOOSE k \in 0..Len(rows) :
                      \A i \in 1..Len(rows) : rows[i].id > id <=> i > k
    IN  SubSeq(rows, passed + 1, Len(rows))

\* SELECT ... WHERE id > last_log_id ORDER BY id.
PollLogs(c) ==
    /\ spc[c] = "logs"
    /\ snap' = [snap EXCEPT ![c].logs = After(VisibleLogs, lastId[c])]
    /\ spc' = [spc EXCEPT ![c] = IF snap[c].status \in Terminal THEN "errors" ELSE "send"]
    /\ UNCHANGED <<dbVars, workerVars, lastId, lastStatus, polls, got, ended, doneWith,
                   restVars>>

\* Only for a terminal status: the errors.
PollErrors(c) ==
    /\ spc[c] = "errors"
    /\ snap' = [snap EXCEPT ![c].errors = VisibleErrors]
    /\ spc' = [spc EXCEPT ![c] = "send"]
    /\ UNCHANGED <<dbVars, workerVars, lastId, lastStatus, polls, got, ended, doneWith,
                   restVars>>

\* Mutant: the status is read again once the logs are sent.
SendLogThenStatus(c) ==
    LET row == Head(snap[c].logs) IN
    /\ spc[c] = "send"
    /\ IF snap[c].logs = <<>>
       THEN /\ spc' = [spc EXCEPT ![c] = "tail"]
            /\ snap' = [snap EXCEPT ![c].status = status, ![c].errors = VisibleErrors]
            /\ UNCHANGED <<lastId, got>>
       ELSE /\ lastId' = [lastId EXCEPT ![c] = row.id]
            /\ got' = [got EXCEPT ![c] = Append(@, row.seq)]
            /\ snap' = [snap EXCEPT ![c].logs = Tail(@)]
            /\ UNCHANGED spc
    /\ UNCHANGED <<dbVars, workerVars, lastStatus, polls, ended, doneWith, restVars>>

\* yield one log event, and move the cursor.
SendLog(c) ==
    LET row == Head(snap[c].logs) IN
    /\ spc[c] = "send"
    /\ IF snap[c].logs = <<>>
       THEN /\ spc' = [spc EXCEPT ![c] = "tail"]
            /\ UNCHANGED <<snap, lastId, got>>
       ELSE /\ lastId' = [lastId EXCEPT ![c] = row.id]
            /\ got' = [got EXCEPT ![c] = Append(@, row.seq)]
            /\ snap' = [snap EXCEPT ![c].logs = Tail(@)]
            /\ UNCHANGED spc
    /\ UNCHANGED <<dbVars, workerVars, lastStatus, polls, ended, doneWith, restVars>>

\* Mutant: the limit is compared with > and lets one poll more through.
SendTailOneMore(c) ==
    /\ spc[c] = "tail"
    /\ lastStatus' = [lastStatus EXCEPT ![c] = snap[c].status]
    /\ IF snap[c].status \in Terminal
       THEN /\ Close(c, "done")
            /\ doneWith' = [doneWith EXCEPT ![c] = snap[c]]
            /\ UNCHANGED polls
       ELSE /\ polls' = [polls EXCEPT ![c] = @ + 1]
            /\ IF polls[c] + 1 > MaxPolls
               THEN Close(c, "timeout")
               ELSE spc' = [spc EXCEPT ![c] = "sleep"] /\ UNCHANGED ended
            /\ UNCHANGED doneWith
    /\ UNCHANGED <<dbVars, workerVars, snap, lastId, got, restVars>>

\* yield status if it changed; then done, or timeout, or sleep.
SendTail(c) ==
    /\ spc[c] = "tail"
    /\ lastStatus' = [lastStatus EXCEPT ![c] = snap[c].status]
    /\ IF snap[c].status \in Terminal
       THEN /\ Close(c, "done")
            /\ doneWith' = [doneWith EXCEPT ![c] = snap[c]]
            /\ UNCHANGED polls
       ELSE /\ polls' = [polls EXCEPT ![c] = @ + 1]
            /\ IF polls[c] + 1 >= MaxPolls
               THEN Close(c, "timeout")
               ELSE spc' = [spc EXCEPT ![c] = "sleep"] /\ UNCHANGED ended
            /\ UNCHANGED doneWith
    /\ UNCHANGED <<dbVars, workerVars, snap, lastId, got, restVars>>

\* asyncio.sleep(0.25) is over.
Wake(c) ==
    /\ spc[c] = "sleep"
    /\ spc' = [spc EXCEPT ![c] = "status"]
    /\ UNCHANGED <<dbVars, workerVars, snap, lastId, lastStatus, polls, got, ended,
                   doneWith, restVars>>

\* The client goes away: seen at the next poll or at the next yield.
Disconnect(c) ==
    /\ spc[c] \in {"status", "send", "tail", "sleep"}
    /\ Close(c, "gone")
    /\ UNCHANGED <<dbVars, workerVars, snap, lastId, lastStatus, polls, got, doneWith,
                   restVars>>

-----------------------------------------------------------------------------
(* get_run: the same three reads, once; 404 when the run is gone.          *)

GetRun(q) ==
    /\ rpc[q] = "run"
    /\ IF deleted
       THEN rpc' = [rpc EXCEPT ![q] = "error"] /\ UNCHANGED detail
       ELSE /\ rpc' = [rpc EXCEPT ![q] = "logs"]
            /\ detail' = [detail EXCEPT ![q].status = status]
    /\ UNCHANGED <<dbVars, workerVars, streamVars>>

GetLogs(q) ==
    /\ rpc[q] = "logs"
    /\ rpc' = [rpc EXCEPT ![q] = "errors"]
    /\ detail' = [detail EXCEPT ![q].logs = VisibleLogs]
    /\ UNCHANGED <<dbVars, workerVars, streamVars>>

\* Mutant: the run row is read last.
GetErrorsThenRun(q) ==
    /\ rpc[q] = "errors"
    /\ rpc' = [rpc EXCEPT ![q] = "done"]
    /\ detail' = [detail EXCEPT ![q].errors = VisibleErrors, ![q].status = status]
    /\ UNCHANGED <<dbVars, workerVars, streamVars>>

GetErrors(q) ==
    /\ rpc[q] = "errors"
    /\ rpc' = [rpc EXCEPT ![q] = "done"]
    /\ detail' = [detail EXCEPT ![q].errors = VisibleErrors]
    /\ UNCHANGED <<dbVars, workerVars, streamVars>>

-----------------------------------------------------------------------------
Worker ==
    \/ Claim \/ Emit \/ FlushAdd \/ FlushCommit \/ FlushWake \/ EngineReturns
    \/ AwaitFlusher \/ Persist

Stream(c) ==
    \/ PollStatus(c) \/ PollLogs(c) \/ PollErrors(c) \/ SendLog(c) \/ SendTail(c)
    \/ Wake(c)

Environment == WorkerDies \/ ForeignLog \/ DeleteRun \/ \E c \in Clients : Disconnect(c)

Next ==
    \/ Worker \/ Environment
    \/ \E c \in Clients : Stream(c)
    \/ \E q \in Requests : GetRun(q) \/ GetLogs(q) \/ GetErrors(q)

\* The API's event loop keeps polling; nothing is assumed of the worker.
Spec == Init /\ [][Next]_vars /\ \A c \in Clients : WF_vars(Stream(c))

-----------------------------------------------------------------------------
(* Properties.                                                             *)

\* A client receives the events in the order they were logged, from the first
\* on, without gaps or repetitions, although its cursor is the id of a table
\* shared with every other run.
GotIsPrefix ==
    \A c \in Clients : got[c] = Seqs(Len(got[c])) /\ Len(got[c]) <= Len(logs)

\* Whoever is told "done" has every event the engine emitted, the terminal
\* status and all errors: the poll reads the status before the logs, and the
\* worker writes them in the opposite order.  Only a deletion breaks this.
DoneIsComplete ==
    \A c \in Clients : ended[c] = "done" /\ ~deleted =>
        /\ got[c] = Seqs(buffer)
        /\ doneWith[c].status = status
        /\ doneWith[c].errors = errors
        /\ status = "failed" <=> doneWith[c].errors > 0

\* The same of the snapshot of get_run, which the UI loads after "done".
DetailIsComplete ==
    \A q \in Requests : rpc[q] = "done" /\ detail[q].status \in Terminal /\ ~deleted =>
        /\ Len(detail[q].logs) = buffer
        /\ detail[q].errors = errors

\* The stream implements the abstract log.
Abstract == INSTANCE LiveLog WITH
    Readers <- Clients,
    published <- Len(logs),
    sealed <- status \in Terminal,
    withdrawn <- deleted,
    delivered <- [c \in Clients |-> Len(got[c])],
    ended <- [c \in Clients |-> IF ended[c] \in {"open", "done"} THEN ended[c] ELSE "cut"]

\* Polls, cursors, batches and late commits look to every reader like a log
\* that grows, is sealed, and is delivered from its beginning (LiveLog).
ImplementsLiveLog == Abstract!Spec
=============================================================================
