--------------------------- MODULE RunController ---------------------------
(***************************************************************************)
(* The run monitor of the editor page: useRunController and the stream     *)
(* client it attaches to a run.                                            *)
(*                                                                         *)
(* JavaScript runs one continuation at a time, but every handler awaits a  *)
(* response and then sets the view, whatever has happened meanwhile: a run *)
(* may be triggered while a past one is loading, and a finished stream     *)
(* loads its run's detail while the user has moved on.  A call is a slot   *)
(* of "calls" from its request to its continuation; an open event stream   *)
(* is a slot of "streams".                                                 *)
(*                                                                         *)
(* The server is what RunStream shows it to be: a stream delivers the log  *)
(* from its beginning and says done when the run is over and everything    *)
(* was sent; a detail with a terminal status is complete.  Errors and node *)
(* states of the view are set together with the status and are left out.   *)
(***************************************************************************)
EXTENDS Integers, Sequences, FiniteSets

CONSTANTS
    Runs,         \* runs of the pipeline, some of which do not exist yet
    MaxLogs,      \* bound: log rows of a run
    Past,         \* the runs that exist when the page is opened
    MaxActs,      \* bound: what the user does
    MaxFaults,    \* bound: kinds of faults that happen
    MaxTrouble    \* bound: what the user does and what fails, together

None == "none"

ASSUME ControllerAssumption ==
    /\ MaxLogs \in Nat /\ MaxActs \in Nat /\ MaxFaults \in Nat
    /\ MaxTrouble \in Nat
    /\ Past \subseteq Runs /\ None \notin Runs

VARIABLES
    db,         \* the server's runs: [status, logs]
    view,       \* the RunView: [runId, status, running, logs]
    streams,    \* open streams: [run, sent, told]
    abortRef,   \* the stream stop() aborts, 0 for null
    calls,      \* requests under way: [kind, run, reply]
    acts, faults,
    overlap     \* the user has acted while a request was under way

vars == <<db, view, streams, abortRef, calls, acts, faults, overlap>>

\* Every act of the user leads to one request, then perhaps one stream and one
\* request more: with a slot for every act there is always a free one.
Slots == 1..MaxActs
Terminal == {"succeeded", "failed"}
Empty == [runId |-> None, status |-> "idle", running |-> FALSE, logs |-> <<>>]
Absent == [status |-> "absent", logs |-> 0]
NoStream == [run |-> None, sent |-> 0, told |-> None]
Waiting == [status |-> "waiting", logs |-> 0]   \* no response yet
Lost == [status |-> "lost", logs |-> 0]         \* the request was rejected
NoCall == [kind |-> None, run |-> None, reply |-> Waiting]

Statuses == {"queued", "running"} \cup Terminal
FaultKinds == {"trigger", "show", "finalize", "error", "timeout", "eof"}

Existing == {r \in Runs : db[r] # Absent}
Open == {s \in Slots : streams[s] # NoStream}
Pending == {c \in Slots : calls[c] # NoCall}
LogsOf(r, n) == [i \in 1..n |-> <<r, i>>]
FreeIn(f, empty) == CHOOSE s \in Slots : f[s] = empty /\ \A t \in 1..(s - 1) : f[t] # empty

RunType == [status : Statuses, logs : 0..MaxLogs]
ViewType == [runId : Runs \cup {None}, status : Statuses \cup {"idle"}, running : BOOLEAN,
             logs : Seq(Runs \X (1..MaxLogs))]
StreamType == [run : Runs, sent : 0..MaxLogs, told : Statuses \cup {None}]
CallType == [kind : {"trigger", "show", "finalize"}, run : Runs \cup {None},
             reply : RunType \cup {Waiting, Lost}]

TypeOK ==
    /\ db \in [Runs -> RunType \cup {Absent}]
    /\ view \in ViewType
    /\ view.runId \in Existing \cup {None}
    /\ view.status = "idle" => view = Empty
    /\ streams \in [Slots -> StreamType \cup {NoStream}]
    /\ \A s \in Open : streams[s].run \in Existing /\ streams[s].sent <= db[streams[s].run].logs
    /\ abortRef \in Slots \cup {0}
    /\ calls \in [Slots -> CallType \cup {NoCall}]
    /\ \A c \in Pending : calls[c].run \in Existing \cup {None}
    /\ overlap \in BOOLEAN
    /\ acts \in 0..MaxActs
    /\ faults \subseteq FaultKinds /\ Cardinality(faults) <= MaxFaults

\* The page is opened: runs of the past, over or under way.
Init ==
    /\ \E past \in [Past -> {[status |-> "running", logs |-> 0],
                            [status |-> "succeeded", logs |-> MaxLogs]}] :
           db = [r \in Runs |-> IF r \in Past THEN past[r] ELSE Absent]
    /\ view = Empty
    /\ streams = [s \in Slots |-> NoStream] /\ abortRef = 0
    /\ calls = [c \in Slots |-> NoCall]
    /\ acts = 0 /\ faults = {} /\ overlap = FALSE

-----------------------------------------------------------------------------
(* The server.                                                             *)

\* A worker takes a run from queued to a terminal status; a failed run is
\* handled like one that succeeded.
Progress(r) ==
    /\ \/ db[r].status = "queued" /\ db' = [db EXCEPT ![r].status = "running"]
       \/ /\ db[r].status = "running"
          /\ \/ db[r].logs < MaxLogs /\ db' = [db EXCEPT ![r].logs = @ + 1]
             \/ db' = [db EXCEPT ![r].status = "succeeded"]
    /\ UNCHANGED <<view, streams, abortRef, calls, acts, faults, overlap>>

\* trigger_run commits a queued run ...
Create(c) ==
    /\ calls[c].kind = "trigger" /\ calls[c].run = None /\ calls[c].reply = Waiting
    /\ \E r \in Runs \ Existing :
           /\ db' = [db EXCEPT ![r] = [status |-> "queued", logs |-> 0]]
           /\ calls' = [calls EXCEPT ![c].run = r]
    /\ UNCHANGED <<view, streams, abortRef, acts, faults, overlap>>

\* ... and answers with the run as it is by then; so does get_run.
Answer(c) ==
    /\ calls[c].run # None /\ calls[c].reply = Waiting
    /\ calls' = [calls EXCEPT ![c].reply = db[calls[c].run]]
    /\ UNCHANGED <<db, view, streams, abortRef, acts, faults, overlap>>

WithinBound == acts + Cardinality(faults) < MaxTrouble
MayFail == WithinBound /\ Cardinality(faults) < MaxFaults

\* The request fails, with the run created or not: an HTTP error, or no
\* connection.
Refuse(c) ==
    /\ calls[c].kind # None /\ calls[c].reply = Waiting
    /\ MayFail
    /\ faults' = faults \cup {calls[c].kind}
    /\ calls' = [calls EXCEPT ![c].reply = Lost]
    /\ UNCHANGED <<db, view, streams, abortRef, acts, overlap>>

-----------------------------------------------------------------------------
(* What the handlers are made of.                                          *)

\* stop(): the stream abortRef holds, if it is still open, is aborted; it
\* delivers nothing more and reports no error.
Stopped == IF abortRef = 0 THEN streams ELSE [streams EXCEPT ![abortRef] = NoStream]

Ask(kind, r) ==
    calls' = [calls EXCEPT ![FreeIn(calls, NoCall)] = [kind |-> kind, run |-> r, reply |-> Waiting]]

\* attach(): opens a stream and forgets, without aborting it, the one before.
Attach(r) ==
    LET s == FreeIn(streams, NoStream) IN
    /\ streams' = [streams EXCEPT ![s] = [NoStream EXCEPT !.run = r]]
    /\ abortRef' = s

Return(c) == calls' = [calls EXCEPT ![c] = NoCall]

\* Bound: a run is left for every trigger_run that has not been answered.
RunLeft == Cardinality({c \in Slots : calls[c].kind = "trigger" /\ calls[c].run = None})
                < Cardinality(Runs \ Existing)

UserActs ==
    /\ WithinBound /\ acts < MaxActs
    /\ acts' = acts + 1
    /\ overlap' = (overlap \/ Pending # {})

-----------------------------------------------------------------------------
(* What the user does.                                                     *)

\* Mutant: the view is marked running and its status forgotten.
TriggerIdle ==
    /\ UserActs /\ RunLeft /\ ~view.running
    /\ view' = [Empty EXCEPT !.running = TRUE]
    /\ streams' = Stopped /\ abortRef' = 0
    /\ Ask("trigger", None)
    /\ UNCHANGED <<db, faults>>

\* trigger(), up to its request; the button is disabled while running.
Trigger ==
    /\ UserActs /\ RunLeft /\ ~view.running
    /\ view' = [Empty EXCEPT !.status = "queued", !.running = TRUE]
    /\ streams' = Stopped /\ abortRef' = 0
    /\ Ask("trigger", None)
    /\ UNCHANGED <<db, faults>>

\* Mutant: the stream of the run on view stays open while another is loaded.
ShowRunStreaming(r) ==
    /\ UserActs /\ r \in Existing
    /\ Ask("show", r)
    /\ UNCHANGED <<db, view, streams, abortRef, faults>>

\* showRun(), up to its request: a click in the history, where any run of the
\* pipeline may be listed.
ShowRun(r) ==
    /\ UserActs /\ r \in Existing
    /\ streams' = Stopped /\ abortRef' = 0
    /\ Ask("show", r)
    /\ UNCHANGED <<db, view, faults>>

-----------------------------------------------------------------------------
(* Continuations.                                                          *)

Answered(c, kind) == calls[c].kind = kind /\ calls[c].reply \notin {Waiting, Lost}
Rejected(c, kind) == calls[c].kind = kind /\ calls[c].reply = Lost

\* The run was created: whatever is on view now gets its id and status.
Triggered(c) ==
    /\ Answered(c, "trigger")
    /\ view' = [view EXCEPT !.runId = calls[c].run, !.status = calls[c].reply.status]
    /\ Attach(calls[c].run)
    /\ Return(c)
    /\ UNCHANGED <<db, acts, faults, overlap>>

TriggerFailed(c) ==
    /\ Rejected(c, "trigger")
    /\ view' = [Empty EXCEPT !.status = "failed"]
    /\ Return(c)
    /\ UNCHANGED <<db, streams, abortRef, acts, faults, overlap>>

\* Mutant: a run under way is shown but not followed.
ShownDetached(c) ==
    LET r == calls[c].run  detail == calls[c].reply IN
    /\ Answered(c, "show")
    /\ view' = [runId |-> r, status |-> detail.status,
                running |-> detail.status \notin Terminal, logs |-> LogsOf(r, detail.logs)]
    /\ Return(c)
    /\ UNCHANGED <<db, streams, abortRef, acts, faults, overlap>>

\* The detail replaces the view; a run under way is followed from its first
\* event, although the detail already has the events so far.
Shown(c) ==
    LET r == calls[c].run  detail == calls[c].reply IN
    /\ Answered(c, "show")
    /\ view' = [runId |-> r, status |-> detail.status,
                running |-> detail.status \notin Terminal, logs |-> LogsOf(r, detail.logs)]
    /\ IF detail.status \in Terminal THEN UNCHANGED <<streams, abortRef>> ELSE Attach(r)
    /\ Return(c)
    /\ UNCHANGED <<db, acts, faults, overlap>>

\* showRun catches nothing: the view stays, but its stream has been stopped.
ShowFailed(c) ==
    /\ Rejected(c, "show")
    /\ Return(c)
    /\ UNCHANGED <<db, view, streams, abortRef, acts, faults, overlap>>

\* finalize(): the detail of a run whose stream ended replaces the view, but
\* for the logs when it has none.
Finalized(c) ==
    LET r == calls[c].run  detail == calls[c].reply IN
    /\ Answered(c, "finalize")
    /\ view' = [runId |-> r, status |-> detail.status, running |-> FALSE,
                logs |-> IF detail.logs > 0 THEN LogsOf(r, detail.logs) ELSE view.logs]
    /\ Return(c)
    /\ UNCHANGED <<db, streams, abortRef, acts, faults, overlap>>

FinalizeFailed(c) ==
    /\ Rejected(c, "finalize")
    /\ view' = [view EXCEPT !.running = FALSE]
    /\ Return(c)
    /\ UNCHANGED <<db, streams, abortRef, acts, faults, overlap>>

-----------------------------------------------------------------------------
(* Events of an open stream: they change the view whatever run it shows.   *)

OnLog(s) ==
    LET r == streams[s].run IN
    /\ s \in Open /\ streams[s].sent < db[r].logs
    /\ streams' = [streams EXCEPT ![s].sent = @ + 1]
    /\ view' = [view EXCEPT !.logs = Append(@, <<r, streams[s].sent + 1>>)]
    /\ UNCHANGED <<db, abortRef, calls, acts, faults, overlap>>

\* A status event: the status has changed since the last one.
OnStatus(s) ==
    LET status == db[streams[s].run].status IN
    /\ s \in Open /\ streams[s].told # status
    /\ streams' = [streams EXCEPT ![s].told = status]
    /\ view' = [view EXCEPT !.status = status]
    /\ UNCHANGED <<db, abortRef, calls, acts, faults, overlap>>

\* Mutant: the stream is stopped and the run's detail not loaded.
EndedQuietly(s) ==
    /\ streams' = [Stopped EXCEPT ![s] = NoStream]
    /\ abortRef' = 0
    /\ UNCHANGED <<db, view, calls, acts, overlap>>

\* The end of a stream: stop() aborts whichever stream was attached last, and
\* this one's run is finalized.
Ended(s) ==
    /\ streams' = [Stopped EXCEPT ![s] = NoStream]
    /\ abortRef' = 0
    /\ Ask("finalize", streams[s].run)
    /\ UNCHANGED <<db, view, acts, overlap>>

OnDone(s) ==
    LET r == streams[s].run IN
    /\ s \in Open
    /\ streams[s].told \in Terminal /\ streams[s].sent = db[r].logs
    /\ Ended(s)
    /\ UNCHANGED faults

\* The server gives up polling (timeout), or the connection breaks (error).
OnBroken(s, kind) ==
    /\ s \in Open /\ MayFail
    /\ kind = "timeout" => db[streams[s].run].status \notin Terminal
    /\ faults' = faults \cup {kind}
    /\ Ended(s)

\* The body ends without done or timeout: the read loop is left and neither
\* callback is called.
OnEof(s) ==
    /\ s \in Open /\ MayFail
    /\ faults' = faults \cup {"eof"}
    /\ streams' = [streams EXCEPT ![s] = NoStream]
    /\ UNCHANGED <<db, view, abortRef, calls, acts, overlap>>

-----------------------------------------------------------------------------
Continue(c) ==
    \/ Triggered(c) \/ TriggerFailed(c) \/ Shown(c) \/ ShowFailed(c)
    \/ Finalized(c) \/ FinalizeFailed(c)

Deliver(s) == OnLog(s) \/ OnDone(s) \/ OnStatus(s)

\* What goes on without the user and without faults.
System ==
    \/ \E r \in Runs : Progress(r)
    \/ \E c \in Slots : Create(c) \/ Answer(c) \/ Continue(c)
    \/ \E s \in Slots : Deliver(s)

Next ==
    \/ System
    \/ Trigger \/ \E r \in Runs : ShowRun(r)
    \/ \E c \in Slots : Refuse(c)
    \/ \E s \in Slots : OnEof(s) \/ \E kind \in {"timeout", "error"} : OnBroken(s, kind)

\* Requests are answered or fail, continuations run, open streams deliver, and
\* workers finish what they have taken, in any order: none of these can go on
\* for ever, so it is enough that the system does not stop while one is left.
Spec == Init /\ [][Next]_vars /\ WF_vars(System)

-----------------------------------------------------------------------------
(* Properties.                                                             *)

Quiet == Open = {} /\ Pending = {}

\* However requests, streams and clicks overlap, once nothing is under way and
\* nothing has failed, the view is that of one run: its terminal status, the
\* button enabled, and its whole log once and in order (a run without logs
\* keeps those that were on view).
SettledViewIsTrue ==
    Quiet /\ faults = {} /\ view.runId # None =>
        LET run == db[view.runId] IN
        /\ run.status \in Terminal /\ view.status = run.status
        /\ ~view.running
        /\ run.logs > 0 => view.logs = LogsOf(view.runId, run.logs)

\* As long as the user waits for every response before the next click, no
\* event of another run gets into the log on view, whatever fails.
OwnLogs ==
    ~overlap => \A i \in 1..Len(view.logs) : view.logs[i][1] = view.runId

\* The button comes back: whatever else fails, only a showRun that was rejected
\* or a stream that ended without an event can leave the view running.
ButtonComesBack ==
    view.running ~> (~view.running \/ faults \cap {"show", "eof"} # {})
=============================================================================
