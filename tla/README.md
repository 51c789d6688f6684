# A TLA+ model of the ETL tool

The repository is an ETL engine (`src/src/etl_core`), a multi-user server that
runs pipelines on it (`src/src/etl_server`) and a web editor
(`src/frontend/src`). This project models the parts in which several actors,
failures or orders of events meet, checks them with TLC and proves the central
results with TLAPS. Paths below are those of `PROJECT.json`.

## 1. The system

| Part | State it keeps | Operations | Talks to |
|---|---|---|---|
| Trigger and queue (`routers/runs.py`, `queue.py`) | `runs` rows, jobs in Redis | `trigger_run`, `enqueue_run` | worker, through arq |
| Worker (`worker.py`) | run row, `run_logs`, `run_errors`, event buffer, flusher task | `execute_run`, `_fail_run` | engine (callback `on_event`), database |
| Stream and detail (`routers/runs.py`) | log cursor, poll count | `stream_run_events`, `get_run` | database (polls), browser |
| Engine (`engine.py`, `nodes/iterator.py`) | results, outputs, errors per node; iteration tasks | `execute_pipeline`, `_run_iterator`, `topo_order` | nodes |
| HTTP source (`http_client.py`, `nodes/api_source.py`) | rate slots, semaphore, page, attempts | `request_with_retry`, `_fetch_all` | remote APIs |
| Scheduler (`scheduler.py`, `routers/schedules.py`) | `schedules` rows | tick, create, update, delete | queue, database |
| File and table sinks (`fileio.py`, `db.py`, `nodes/*_sink.py`) | files, tables | `write_records` (in a thread), `write_table` (one transaction) | file system, databases |
| Record nodes (`nodes/merge.py`, `transform.py`, `decrypt.py`, `paths.py`) | dicts, shared by the buffers of the engine | select, rename, filter, compute, decrypt, concat, union, join | engine |
| Diagnostics and network policy (`diagnostics.py`, `ssrf.py`) | list of checks | `test_connection`, `ensure_url_allowed` | remote hosts |
| Secrets, auth | rows, tokens | CRUD, resolve | API, worker |
| UI (`useRunController.ts`, `sse.ts`, pages) | view of one run | trigger, show, stream | API |

What is hard, and what makes each part correct:

* **Runs.** API, worker, flusher, deletion and a dying worker share rows
  without locks. A run must be executed once although jobs are delivered at
  least once; a terminal row must come last, because readers stop there.
* **Streams.** Status, logs and errors are read by separate statements while
  the worker writes; `done` must mean that nothing is missing.
* **Engine.** Iterations run concurrently, fail in any pattern and are
  cancelled; the status of every node, what is buffered and the order of
  fan-in must not depend on timing.
* **HTTP source.** Retries, pages, a rate limiter and a semaphore interact; no
  record may be lost or repeated silently and nobody may wait for ever.
* **Scheduler.** A tick works on rows that the API may change before the tick
  commits; an instant fires once, and nothing enabled is forgotten.
* **Sinks.** Iterations of one node, and runs of one pipeline, write the same
  file or table at the same time, are cancelled half-way, or die with their
  process; what was reported as written must be there, once.
* **Record nodes.** The dicts of a buffer are handed to every node downstream
  without a copy; no node may change what another one reads.
* **Diagnostics.** The tester promises to do what a run does, in separate
  steps and with lookups and connections of its own.
* **UI.** Every handler awaits a response and then sets the view, whatever was
  clicked meanwhile; the view must end up as that of one run.

`PROJECT.json` lists every component and every hazard with its line.

## 2. Modules

`PipelineGraph` is used by `Engine`; `LiveLog` is the abstract specification
that `RunStream` implements; every `MC*` module extends the module it checks,
`MCNodes` the four modules of the node library (`FileSink`, `TableSink`,
`Connectivity`, `Records`), of which one is at work in each behaviour; each
`*_proofs` module extends the modules it proves about. Definitions keep the names
of the code where possible, and `PROJECT.json` maps each to its lines. A
definition whose comment starts with *Mutant* is a wrong version of the one that
follows it, used to show that a property depends on that piece of code; no
specification refers to it.

**RunLifecycle.** A run from the POST to its terminal row. One action is one
statement, commit or queue operation, i.e. one stretch between two awaits of
`trigger_run` (`TriggerCheck`, `TriggerCommit`, `Enqueue`), `delete_pipeline`,
and `execute_run` (`LoadRun`, `LoadPipeline`, `CommitClaim`, `ResolveSecrets`,
`Emit`, `Flush`, `EngineReturns`, `Drain`, `Persist`, `FailRun`, `Ack`). A
deleted row makes later writes of the worker fail the way SQLAlchemy does.
Faults are actions: the request dies (`ApiFault`), the process dies (`Crash`),
an exception escapes (`Raise`), arq cancels the job (`CancelEngine`). arq is
modelled from its use: a job stays queued until its task has ended, and is
delivered again otherwise. `Locked` is arq's in-progress key: no delivery of a
job while it is in progress. A log event is its sequence number; an error is
counted.

**LiveLog / RunStream.** `LiveLog` is what a stream promises: a client receives
events in order and is told `done` only when it has all of them and the run
has settled. `RunStream` is one run written by the worker and read by the SSE
generator (`PollStatus`, `PollLogs`, `PollErrors`, `SendLog`, `SendTail`,
`Wake`) and by `get_run` (`GetRun`, `GetLogs`, `GetErrors`), one action per
statement. Ids of `run_logs` are handed out across runs (`MaxForeign` rows of
others), the worker may die, the run may be deleted, a client may disconnect.
`RunStream` implements `LiveLog` with the mapping at its end.

**PipelineGraph / Engine.** Nodes are positions in the spec, so declaration
order is `<`. `Descendants` is the least set closed under edges, which is what
the walk computes. `Engine` first sorts (`TakeReady`, one step per node of
Kahn's algorithm), validates, and then runs the main loop; `FanOut` starts one
task per value, `Acquire`, `RunIteration`, `FailIteration` are the tasks,
`CancelRest` the TaskGroup of fail-fast, `AbortFanOut` and `FanIn` the two
ends. `references` are the nodes that `$upstream` references name; validation
wants them to be ancestors (`ReferencesValid`). `Failures` follows
`_prepare_node`: references are resolved first, against the outputs in view,
then the configuration is validated, then the inputs are collected; an error
keeps which of these it was from (`kind`, in a task `why`). What a node computes
is abstracted to success or failure; of an output only its presence and, for a scope member,
the iterations it was combined from are kept. `state.errors` is a set of
reports, since nothing in the engine depends on its order; an iteration keeps
the keys of its `local` dictionary, and the member it executes next is the first
of the scope's topological order that is not among them.

**ApiSource.** Concurrent iterations of one node. Each request takes a slot of
the rate limiter, then a permit of the HTTP semaphore, and ends in a response,
a retry after a backoff, or a failure; a response yields a page of a collection
of `Total` records. Time is relative (what a sleep has left), so no clock bound
is needed, and passes only when nobody can run: the event loop is prompt. The
server is external: it fills pages of a size of its own, and may hand out
cursors for ever.

**RunController.** The run monitor of the editor: `useRunController`, the
stream client of `sse.ts` and the buttons of `RunPanel`. A handler is split at
its await: `Trigger` and `ShowRun` end in a request, `Triggered`, `Shown`,
`Finalized` and their failing counterparts are the continuations, `OnLog`,
`OnStatus`, `OnDone`, `OnBroken` and `OnEof` what a stream does. `abortRef` is
the one stream `stop()` can abort; `Attach` overwrites it. The server is what
`RunStream` shows it to be: logs from the beginning, `done` after everything,
a terminal detail complete; a detail is therefore one atomic read here. Any
run may be clicked in the history, more than the list that was last loaded.

**Scheduler.** Ticks (`SelectDue`, `CommitTick`, `EnqueueOne`, `EndTick`) and
the API (`CreateSchedule`, `ReadForUpdate`, `CommitUpdate`, `DeleteSchedule`)
on one table. A commit writes the columns that differ from what was loaded
(`Flush`), which is how SQLAlchemy writes and why two writers can interleave by
column. A cron expression in its timezone is a period; a timing may stop being
valid (`TimingBreaks`), in which case a tick disables the schedule.

**FileSink.** Executions of `file_sink` on one path. The task hands
`write_records` to a thread (`ToThread`), which looks at the target
(`CheckTarget`), reads it in mode append (`ReadExisting`), opens and thereby
truncates it (`OpenTruncates`) and writes (`WriteText`); `FailBeforeOpen` and
`FailMidway` are its exceptions. `CancelSink` cancels the task and leaves a
thread that has started; `ProcessDies` ends all threads. The records of an
execution are one token. Of a text under way a reader sees something that does
not parse, or, for jsonl, a prefix. An execution with no records is left out.

**TableSink.** Executions of `db_sink` on one table: `write_table` statement by
statement in one transaction of PostgreSQL at READ COMMITTED, which is external
and modelled by visibility at the start of a statement, locks on deleted rows
and on the name of a created table, and rollback. Until COMMIT is sent a failure
or a cancellation rolls back. After that the answer may stay away, because the
connection is lost (`CommitFails`) or because fail-fast cancels the task while
it awaits the end of `engine.begin()` (`CancelCommit`): the node has failed or
is cancelled and the server applied the transaction or not. SQLite, which locks the whole database,
is not modelled.

**Connectivity.** `test_connection` check by check for both kinds of sources,
in surroundings (`world`) chosen at the start: addresses of the host and
whether they answer and are private (`Resolutions` are what a name may resolve
to), the policy, TLS, a redirect, answers with and without credentials, login.
`Outage` may change them between any two checks. `ApiRun` and `DbRun` are what
the node's `run` does in the same surroundings. The tester always sends a GET; a source with another method is
taken to be answered as a GET is. A database error while the tester closes its
connection is left out.

**Records.** `transform`, `decrypt` and `merge` on dicts in a heap, so that a
copy of a record shares what it holds; every output is buffered and may be read
by every later node. `Pool` and `Lists` are the dicts that sources have read and
the lists they return. `FieldOrder` is the order in which the fields of a dict
are gone through, one for all dicts; it is also a bound: a join is modelled when
the right records have no other fields (`FieldsListed`). Lists inside records,
the expression language and ciphers are abstracted; `_key_of` puts a dict that
is the value of a join key in canonical form, `KeyOf` compares references, and
the records of the run have no such key: a computed field is `3 - v`,
a token is a negative number.

## 3. What is checked

| Run | Result | Shows |
|---|---|---|
| `RunLifecycle_safety` | pass | two runs, workers and pipelines, two faults of any kind: events are logged once, a terminal row is complete, its error count agrees, and final statuses stay (`LogsOnce`, `TerminalIsComplete`, `TerminalIsFinal`); `ExecutionInv` is the invariant of the proof |
| `RunLifecycle_live` | pass | only a fault keeps a run from ending; an unclaimed run survives its worker |
| `RunLifecycle_crash` | violated | a worker that dies after its claim leaves the run `running` for ever: the redelivered job returns because the run is not `queued` |
| `RunStream` | pass | `done` and a terminal detail are complete, order is kept, `LiveLog` is implemented, by which streams end |
| `Engine` | pass | topological order and cycle detection, verdict, skips, aborts, fan-in order, termination; a node misses an input or a node it names only in a scope, from outside it (`UnavailableExplained`) |
| `Engine_constant` | violated | a constant input declared after the iterator is not there when the scope runs |
| `ApiSource` | pass | complete or warned, in order, every fetch ends |
| `ApiSource_rate` | violated | slots are an interval apart but requests are not: the semaphore comes after the limiter |
| `RunController` | pass | once nothing is under way the view is that of one run, complete and true; who waits for responses never sees another run's events; the button comes back unless `showRun` is rejected or a stream ends silently |
| `Scheduler` | pass | enabled schedules keep a `next_run`, fires move it past now, whatever is due is dealt with, one run per instant while nobody updates |
| `Nodes` | pass | files hold what non-overlapping calls wrote although tasks are cancelled and calls fail (`WritesAreKept`); tables hold the committed batches, nothing of what ended before its COMMIT was sent, and all or nothing of what ended after, in any interleaving (`TableIsTrue`); a report of the tester has its shape and agrees with what a run meets (`ReportAgreesWithRun`); no node changes what another one buffered (`BuffersNeverChange`); joins, unions and decryptions are what they are called (`OutputsAreRight`) |
| `Scheduler_lost_update` | violated | a tick overwrites a recomputed `next_run` with one of the old timing |

Some more disagreements have no run of their own. Without arq's lock
(`Locked = FALSE`) `LogsOnce` fails, since the claim reads the status and
writes it later. An update that computes `next_run` before a tick and
commits after it puts a fired instant back, which is why `OneRunPerFiring` is
stated for histories without updates. With `continue_on_error` the fan-in
overwrites the result of a member that was already skipped for a failed
constant input; `InputsSucceeded` therefore speaks of nodes outside scopes.
In `RunController`, `finalize` keeps the logs on view when its run has none,
which after overlapping clicks are another run's; a run under way that is
opened from the history shows its log twice until it ends; and a `showRun` that
fails, or a stream that ends without `done`, leaves a running view running.
`SettledViewIsTrue` and `ButtonComesBack` except exactly these.

The properties of `Nodes` state their exceptions too. Appends that overlap lose
records, and a process that dies, or a write that fails, after the file was
truncated loses what was there. Appending to a csv reads the file with the default options: without a header a
record is lost on every append, and with a delimiter of its own (which the model
has not) the columns of the earlier records are merged into one. Two replacements of a table that overlap may leave both
batches. The tester tries the first address only, a run all of them; it fails a
source whose request without credentials breaks although the one with them
would succeed; a report is `ok` when the server answers with an error, or with
401 to a source without credentials; and an `api_source` whose lookup fails has
no entry for the policy, unlike a `db_source`. Where one of the records of a
join has a field with the suffixed name already, as the rows of an earlier join
do, a field with a suffixed name may be overwritten (`RowOf`).

**Bounds.** Two of each actor and two faults in `RunLifecycle_safety`: every
race in it is between two executions of one job, or one execution and one
deletion, and a second run shows independence; two events make a flush between
them possible. `RunStream` has two events, one error and one foreign row, so a
poll can fall before, between and after them, and a poll limit of two. `Engine`
takes all graphs of four nodes with at most two edges, the cyclic ones with
three, and those with three in declaration order: enough for two disjoint,
nested or overlapping scopes, chains and constant inputs; at most one reference,
from the node declared last to any other (`FewReferences`), so that it may name
an input, an ancestor further up, a node that is late or failed, or none at all
of its ancestors; three values and two
permits let iterations wait, overtake and be cancelled. `ApiSource` has three
records on pages of one or two and at most three pages, so that full, short,
empty and capped last pages all happen. `RunController` has one run that exists
and one to be created, and three clicks, or two and a fault: two clicks make
every overlap of two handlers, a third comes after streams have been replaced.
`Scheduler` runs to time 3 with periods 1 and 2, so a tick can be late by a
whole period. `Nodes` has three executions of each sink: two that overlap and a
third that meets what they left; any number of the executions of `db_sink` have
no records, the first `k` of them, since which ones does not matter
(`SomeEmpty`). Every combination of source, policy, up to two addresses and
answers is an initial state of the ladder. Records are chains of two operations
on two lists of one or two out of four records (with and without the key, with a
nested token, with a nested plain value): enough for a dict to be shared by
three buffers and for a join of a join. `FieldOrder` has the names that two
joins can make and read, so `FieldsListed` excludes nothing within `MaxOps = 2`.

**Symmetry** is used for runs and workers in `RunLifecycle_safety` only, a run
without liveness whose properties name no element.

**Fairness.** A request that was accepted goes on, a queued job is delivered
while a worker is free, and a task that is not killed proceeds: asyncio runs
ready tasks, and every external call has a timeout (`timeout_s`, arq's job
timeout). arq starts the tick every minute. Nothing is assumed about faults,
deletions, updates, disconnections, cancellations or clicks; `Nodes` states
safety only, and checks that nobody gets stuck as the absence of deadlock
before every execution has ended (`Rest`). In `RunController`
fairness covers requests, continuations, streams and workers as one action: all
of them end, so it is enough that the system does not stop while one is left. In
`RunStream`, `RunController` and `Scheduler` deadlock is not checked, because a
settled run or view, or the end of the bounded clock, is the end of the model.

## 4. What is proved

Every theorem holds for all values of the constants that satisfy the named
assumption of its module, and so for any number of actors, events and faults;
the runs of section 3 check the same formulas, and the inductive invariants were
checked with TLC before they were proved. Each proof has one case per action.
What a property needs beyond itself is said below.

**`RunLifecycle_proofs`** (`ConstantsAssumption`; hypothesis `Locked`, except
for `TypeCorrect`).

* `TypeCorrect`: `TypeOK`. `LockedInvariance`: `ExecutionInv`.
* `LockedExecutionCorrect`, `SettledRunIsComplete`: `LogsOnce` and
  `TerminalIsComplete`. `TerminalStatusIsFinal`: `TerminalIsFinal`.

`ExecutionInv` adds what these rest on: foreign keys (`Referential`), a row is
inserted once (`InsertedOnce`), no two workers have the same job (`Exclusive`,
from `Locked`), what a worker read before an await still holds after it unless
the row is gone (`ReadStillHolds`), and what the tables hold while a worker is
at each position (`Progress`): exactly the events its flusher has passed,
nothing before the claim. `Locked` is necessary, see section 3.

**`RunStream_proofs`** (`StreamAssumption`).

* `StreamTypeCorrect`: `TypeOK`. `StreamDeliversPrefix`: `GotIsPrefix`.
* `DoneMeansComplete`: `DoneIsComplete`. `TerminalDetailIsComplete`:
  `DetailIsComplete`.
* `StreamRefinesLiveLog`: the safety part of `ImplementsLiveLog`.

`StreamInv` says that `run_logs` holds the first `n` events with increasing ids
(`LogInv`), that a terminal status comes after the last of them and that the
error count belongs to it (`WorkerInv`), that a client's cursor stands at the
last row it was sent and that the rows it has read and not sent follow without a
gap (`ClientInv`), and that a status which was read as terminal still is, with
everything read after it complete (`RequestInv`). The cursor argument needs that
ids grow with `seq`, not that they are consecutive.

**`Engine_proofs`** (`EngineAssumption`, `N` a positive number: every edge set,
every set of iterators, any number of values, any semaphore, both modes).

* `EngineTypeCorrect`: `TypeOK`. `KahnIsRight`: `OrderIsRight`.
* `VerdictIsTrue`: `VerdictMatchesNodes`. `InputsSucceedFirst`:
  `InputsSucceeded`. `MissingInputsExplained`: `UnavailableExplained`.
  `SkipsAreDownstream`: `SkippedIsDownstream`. `FanInIsDeterministic`:
  `FanInInOrder`. `FailFastStops`: `NothingAfterFailure`.

For Kahn's algorithm: what has been placed is closed under predecessors and in
order (`TopoInv`); if nothing is ready although nodes are left, every one of
these has a predecessor among them, and on a finite set this gives a cycle. The
proof of that takes a node with the fewest ancestors among them, so it uses
finiteness and a least element, not an induction over paths. For the main loop
`RunInv` says that everything before the cursor, and a scope whose iterator has
been passed, has a result (`LoopInv`), that what is buffered has succeeded or is
a scope member (`OutputInv`), which statuses there can be without or with an
error in each mode (`FailureInv`), what an iteration
has executed is part of its scope, and one that failed did so for a reason that
still holds (`TaskInv`), and where an error can be from
(`ErrorInv`). `UnavailableExplained` follows from these: what the main loop
reads or names precedes the node in the order (an ancestor does, `AncestorPrecedes`)
and has succeeded, or the node would have been skipped; what an iteration misses
is not in its scope, whose earlier members it has all executed, so it was not
buffered when the iterator ran. That a validated reference resolves is therefore
true of the main loop only. Descendants are the least closed set, from which
the proof takes that a scope contains all successors of its members and nothing
whose inputs are all outside.

**`Scheduler_proofs`** (`SchedulerAssumption`).

* `SchedulerTypeCorrect`: `TypeOK`. `EnabledKeepsNextRun`:
  `EnabledHasNextRun`. Both with any number of overlapping ticks and updates.
* `FiresOnce`: `OneRunPerFiring`. `MisfiresAreNotBackfilled`: `NoBackfill`.
  Hypothesis `OneTick`: at most one tick at a time. arq starts one a minute and
  a tick is short, but nothing in the code enforces it, and with two ticks on
  the same rows both are false (TLC: two ticks select the same due row).

`SchedInv` relates the row in the table to the copies that ticks and updates
hold: what a tick selected was due at its own time (`TicksInv`), an update never
clears `next_run` and computes one when it enables, while the row it read can
only have gained one since (`EditsInv`), and `last_run` is never in the future
(`RowsInv`). `SerialInv` adds what `OneTick` gives: nobody else writes `last_run`
while a tick is under way (`LastInv`), and before the first update a selected
row still is the row, and what has been fired lies before its `next_run`
(`FiringInv`).

**`Sinks_proofs`** (`LoadersAssumption`, `FileAssumption`: any number of
executions).

* `TableTypeCorrect`: `TableTypeOK`. `TableWritesAreTransactions`:
  `TableIsTrue`.
* `FileTypeCorrect`: `FileTypeOK`. `FileWritesAreKept`: `WritesAreKept`.

`TableInv` ties the history of commits to what open transactions have seen,
deleted and created: an execution commits at most once and only while it is
running, and one that has ended without having sent COMMIT never does
(`OnceInv`, for which `tx` keeps `sent`); the rows are those of committed executions, the last one's
among them, and in mode append those of all of them (`RowsInv`); in mode replace
what was committed before a transaction began is gone, or in its snapshot, or
among the rows it deletes (`ReplaceInv`).

`FileInv` relates an execution, its thread and the history: a thread outlives
only a cancelled task, and what has not ended has not written (`SinkInv`); calls
of `write_records` overlap only when the history says so (`AloneInv`); and while
they do not, and nothing was damaged, the file holds what was written whenever
no call is between its truncation and its write, at which point that call holds
it in memory (`ContentInv`).

**`Nodes_proofs`** (`ResolutionsAssumption`: any lists of addresses;
`RecordsAssumption`: any dicts whose references lead somewhere, any lists of
them, any finite order of fields whose suffixed names differ, any number of
nodes; and the assumptions of `Sinks_proofs`).

* `ProbeTypeCorrect`: `ProbeTypeOK`. `ReportsAgreeWithRuns`:
  `ReportAgreesWithRun`.
* `RecordsTypeCorrect`: `RecordsTypeOK`. `RecordsAreNeverMutated`:
  `BuffersNeverChange`. `MergeAndDecryptAreRight`: `OutputsAreRight`.
* `NodesTypeCorrect`: `TypeOK` of `MCNodes`, for the library as one
  specification. A step is a step of one kind of node and leaves the others
  alone, and a kind at rest satisfies its own invariant, so the conjunction of
  the four invariants (`LibraryInv`) is inductive.

`ProbeInv`: while the ladder is climbed, what is listed is what lies below the
rung and none of it failed (`ClimbInv`), and what the passed checks say of the
surroundings still holds unless there was an outage (`MetInv`); `WorldInv` is
what the configuration fixes. A report then agrees with a run because each rung
tests what the run would meet at that point.

`RecInv`: every address and every reference leads to a dict of the heap, and
what was buffered reads as it did. It is kept because the heap only grows
(`Extends`): a path from a dict that was there leads to dicts that were there,
so no later node can change what it reads (`SamePath`, `SameContents`); `decrypt`
is the one that would, and it copies what it changes. `OutInv` adds that a node
read what was buffered before it and that its output is what its operation says,
which again is kept while the heap grows. What remains are facts about the
operators: an element of a flattened list is found at the lengths of the lists
before it (`FlatFacts`), an element that is kept by `Those` at the number of
kept positions up to its own (`ThoseFacts`), and so row `(i, j)` of a join at
the number of pairs that come before it (`JoinRows`); the fields of a row are
followed through `Combine` one at a time (`RowStep`); the records an outer join
adds are the unmatched ones, grouped by key (`OthersRight`). Where these need
an induction over a list, the proof takes a least counterexample, for which the
well-foundedness of `<` on the naturals is enough. The exception in `RowOf` is
as wide as the proof needs it for joins of any depth; two joins in a row, all
that the run reaches, would do with a narrower one.

**`ApiSource_proofs`** (`ApiSourceAssumption`, `ConfigsAssumption`: any
collection, page sizes, cap on pages, number of retries and fetchers).

* `ApiSourceTypeCorrect`: `TypeOK`, the bounds of the clock included.
* `FetchKeepsOrder`: `RecordsInOrder`. `FetchIsCompleteOrWarned`:
  `CompleteOrWarned`.

`PageInv` says that a fetcher has exactly the records before the position its
next request asks for, in every pagination mode and however often a request is
sent again. That a short page ends the collection is then arithmetic on the
page the server filled. For the clock, `QueueInv` counts: the slots of the rate
limiter that lie more than `t` ahead belong to different fetchers, those that
wait for them and those that were cancelled and left theirs, so the next slot is
never further away than a queue of all fetchers makes it. The backoff is bounded
by that of the last retry, since `Delay` grows with the attempt.

**`RunController_proofs`** (`ControllerAssumption`: any runs, log lengths,
clicks and faults).

* `ControllerTypeCorrect`: `TypeOK`. `SettledViewTrue`: `SettledViewIsTrue`.
  `WaitingUserSeesOwnLogs`: `OwnLogs`.

`ControllerInv` says that every request or stream under way belongs to a click
of its own, so that a slot is free when one is needed (`SlotInv`, a count); that
a status read as terminal is final and what was read with it is what the server
has, and that without faults a run is finalized only after its end
(`ServerInv`); that an empty view has no stream (`IdleInv`); and that, while the
user waits for responses, there is one request or one stream at a time, and it
belongs to the run on view (`TurnInv`). `SettledViewIsTrue` needs no more than
`ServerInv`: whichever continuation runs last has set the view from a terminal
detail.

**Only model-checked.** Liveness (`SettlesWithoutFaults`, `QueuedIsPickedUp`,
the ends of streams in `ImplementsLiveLog`, `Terminates`, `EveryFetchEnds`,
`DueIsDealtWith`, `ButtonComesBack`) and the absence of deadlock, which are out
of the prover's reach; every other property of a passing run is a theorem. That
`SetToSortSeq` sorts is the library's: the proofs of `Engine` use `InOrder` as a
function of a set.

## 5. Plan

1. `RunLifecycle`, `RunStream` over `LiveLog`, `Engine` over `PipelineGraph`,
   `Scheduler`, `ApiSource`, `RunController`, and the node library (`FileSink`,
   `TableSink`, `Connectivity`, `Records`): done as described.
2. Proofs: every safety property of the passing runs, and the safety part of
   the refinement of `LiveLog`: done.
3. Left to model: the port and required-input checks of `validate_pipeline`.

## 6. What is not modelled

Data that is only computed or formatted (the interpreter of transform
expressions, value coercion and column types, ciphers, redaction, URL building,
the parsing of references, list indexes in paths), declarations (models,
schemas, migrations), the command line, which prints what `execute_pipeline`
returns, and the rendering of the UI. Users and secrets are rows behind unique
constraints: two requests that race for one key leave the right row in any
order, and the loser is answered with an error, so there is no state to model
beyond the constraint. `PROJECT.json` gives the reason for each component.
