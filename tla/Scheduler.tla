----------------------------- MODULE Scheduler -----------------------------
(***************************************************************************)
(* The per-minute tick (enqueue_due_schedules) and the schedule CRUD of    *)
(* the API, which share the schedules table without locks.                 *)
(*                                                                         *)
(* A tick reads the due rows, creates a run for each and moves next_run    *)
(* on, commits everything at once, and then enqueues the runs one by one.  *)
(* An update reads a row, computes and commits.  Each commit writes only   *)
(* the columns it changed, whatever else happened to the row since.        *)
(*                                                                         *)
(* Time is counted in ticks.  A cron expression in its timezone is         *)
(* abstracted to the instants it names: the multiples of a period.         *)
(***************************************************************************)
EXTENDS Integers, FiniteSets

CONSTANTS
    Schedules,    \* schedule ids
    Ticks,        \* executions of scheduler_cron that may overlap
    Editors,      \* concurrent update_schedule requests
    Timings,      \* cron and timezone of a schedule, as a period
    Idle,         \* what an editor edits when it edits nothing
    MaxTime,      \* bound: the clock stops here
    MaxEdits,     \* bound: updates
    MaxFaults     \* bound: ticks that die

ASSUME SchedulerAssumption ==
    /\ Timings \subseteq Nat \ {0} /\ Timings # {}
    /\ MaxTime \in Nat \ {0} /\ MaxEdits \in Nat /\ MaxFaults \in Nat
    /\ Idle \notin Schedules

VARIABLES
    now,          \* utcnow()
    known,        \* timings that validate; a timezone can drop out of tzdata
    phase,        \* a schedule is "new", "live" or "gone"
    row,          \* schedules: [cron, enabled, last, next]; 0 is NULL
    tpc, at, due, \* a tick: position, its now, the rows it selected
    runs,         \* runs[s][v]: runs created for s being due since v
    unsent,       \* a tick's runs that are committed and not yet enqueued
    queue,        \* runs handed to arq
    editing, old, new,   \* an update: its schedule, the row read, the row to write
    edits, faults \* updates and deaths of ticks so far

tickVars == <<tpc, at, due, unsent>>
editVars == <<editing, old, new>>
vars == <<now, known, phase, row, tickVars, runs, queue, editVars, edits, faults>>

NULL == 0

\* compute_next_run: the first instant strictly after t.
ComputeNextRun(cron, t) == (t \div cron + 1) * cron

Live == {s \in Schedules : phase[s] = "live"}
Rows == [cron : Timings, enabled : BOOLEAN, last : Nat, next : Nat]
Blank == [cron |-> CHOOSE c \in Timings : TRUE, enabled |-> FALSE,
          last |-> NULL, next |-> NULL]

RunIds == Schedules \X (1..MaxTime)

TypeOK ==
    /\ now \in 1..MaxTime
    /\ known \subseteq Timings
    /\ phase \in [Schedules -> {"new", "live", "gone"}]
    /\ row \in [Schedules -> Rows]
    /\ tpc \in [Ticks -> {"idle", "commit", "enqueue"}]
    /\ at \in [Ticks -> 0..MaxTime]
    /\ due = [t \in Ticks |-> due[t]]
    /\ \A t \in Ticks : \A s \in DOMAIN due[t] : s \in Schedules /\ due[t][s] \in Rows
    /\ unsent \in [Ticks -> SUBSET RunIds]
    /\ runs \in [Schedules -> [1..MaxTime -> 0..2]]
    /\ queue \subseteq RunIds
    /\ editing \in [Editors -> Schedules \cup {Idle}]
    /\ old \in [Editors -> Rows] /\ new \in [Editors -> Rows]
    /\ edits \in 0..MaxEdits /\ faults \in 0..MaxFaults

Init ==
    /\ now = 1
    /\ known = Timings
    /\ phase = [s \in Schedules |-> "new"]
    /\ row = [s \in Schedules |-> Blank]
    /\ tpc = [t \in Ticks |-> "idle"]
    /\ at = [t \in Ticks |-> 0]
    /\ due = [t \in Ticks |-> <<>>]
    /\ unsent = [t \in Ticks |-> {}]
    /\ runs = [s \in Schedules |-> [v \in 1..MaxTime |-> 0]]
    /\ queue = {}
    /\ editing = [e \in Editors |-> Idle]
    /\ old = [e \in Editors |-> Blank]
    /\ new = [e \in Editors |-> Blank]
    /\ edits = 0 /\ faults = 0

-----------------------------------------------------------------------------
\* A flush updates the columns that differ from what was loaded.
Written(current, loaded, changed) == IF changed # loaded THEN changed ELSE current
Flush(current, loaded, changed) ==
    [cron |-> Written(current.cron, loaded.cron, changed.cron),
     enabled |-> Written(current.enabled, loaded.enabled, changed.enabled),
     last |-> Written(current.last, loaded.last, changed.last),
     next |-> Written(current.next, loaded.next, changed.next)]

\* The clock moves on, with or without a tick in progress.
TimePasses ==
    /\ now < MaxTime
    /\ now' = now + 1
    /\ UNCHANGED <<known, phase, row, tickVars, runs, queue, editVars, edits, faults>>

\* A cron or timezone that was accepted stops being valid.
TimingBreaks(c) ==
    /\ c \in known
    /\ known' = known \ {c}
    /\ UNCHANGED <<now, phase, row, tickVars, runs, queue, editVars, edits, faults>>

-----------------------------------------------------------------------------
(* The API.                                                                *)

\* create_schedule; an invalid timing is refused (422).
CreateSchedule(s, c, enabled) ==
    /\ phase[s] = "new" /\ c \in known
    /\ phase' = [phase EXCEPT ![s] = "live"]
    /\ row' = [row EXCEPT ![s] =
                 [cron |-> c, enabled |-> enabled, last |-> NULL,
                  next |-> IF enabled THEN ComputeNextRun(c, now) ELSE NULL]]
    /\ UNCHANGED <<now, known, tickVars, runs, queue, editVars, edits, faults>>

\* Mutant: re-enabling does not recompute next_run.
UpdatedOnTimingOnly(r, timingChanged, c, enabled) ==
    LET changed == [r EXCEPT !.cron = c, !.enabled = enabled] IN
    IF enabled /\ timingChanged
    THEN [changed EXCEPT !.next = ComputeNextRun(c, now)]
    ELSE changed

\* The row as update_schedule leaves it: c and enabled are the payload's, or
\* the row's own where the payload is silent.
Updated(r, timingChanged, c, enabled) ==
    LET changed == [r EXCEPT !.cron = c, !.enabled = enabled] IN
    IF enabled /\ (timingChanged \/ ~r.enabled \/ r.next = NULL)
    THEN [changed EXCEPT !.next = ComputeNextRun(c, now)]
    ELSE changed

\* update_schedule reads the row and computes the new one.  An invalid timing
\* is refused, a disabled schedule with one cannot be enabled (the refresh
\* raises).
ReadForUpdate(e, s, timingChanged, c, enabled) ==
    /\ editing[e] = Idle /\ s \in Live /\ edits < MaxEdits
    /\ ~timingChanged => c = row[s].cron
    /\ (timingChanged \/ (enabled /\ ~row[s].enabled)) => c \in known
    /\ editing' = [editing EXCEPT ![e] = s]
    /\ old' = [old EXCEPT ![e] = row[s]]
    /\ new' = [new EXCEPT ![e] = Updated(row[s], timingChanged, c, enabled)]
    /\ edits' = edits + 1
    /\ UNCHANGED <<now, known, phase, row, tickVars, runs, queue, faults>>

\* ... and commits it.  A row deleted meanwhile makes the request fail.
CommitUpdate(e) ==
    LET s == editing[e] IN
    /\ s # Idle
    /\ row' = IF s \in Live THEN [row EXCEPT ![s] = Flush(@, old[e], new[e])] ELSE row
    /\ editing' = [editing EXCEPT ![e] = Idle]
    /\ old' = [old EXCEPT ![e] = Blank]
    /\ new' = [new EXCEPT ![e] = Blank]
    /\ UNCHANGED <<now, known, phase, tickVars, runs, queue, edits, faults>>

\* delete_schedule, or the cascade from the pipeline.
DeleteSchedule(s) ==
    /\ s \in Live
    /\ phase' = [phase EXCEPT ![s] = "gone"]
    /\ row' = [row EXCEPT ![s] = Blank]
    /\ UNCHANGED <<now, known, tickVars, runs, queue, editVars, edits, faults>>

-----------------------------------------------------------------------------
(* enqueue_due_schedules.                                                  *)

\* Mutant: neither enabled nor NULL is checked.
IsDueAnyway(s) == s \in Live /\ row[s].next <= now

IsDue(s) == s \in Live /\ row[s].enabled /\ row[s].next # NULL /\ row[s].next <= now

\* SELECT the due schedules at this tick's now.
SelectDue(t) ==
    LET selected == {s \in Schedules : IsDue(s)} IN
    /\ tpc[t] = "idle" /\ selected # {}
    /\ tpc' = [tpc EXCEPT ![t] = "commit"]
    /\ at' = [at EXCEPT ![t] = now]
    /\ due' = [due EXCEPT ![t] = [s \in selected |-> row[s]]]
    /\ UNCHANGED <<now, known, phase, row, unsent, runs, queue, editVars, edits, faults>>

\* Mutant: next_run advances from the missed instant, not from now.
FiredFromDue(r, t) ==
    IF r.cron \in known
    THEN [r EXCEPT !.last = t, !.next = ComputeNextRun(r.cron, r.next)]
    ELSE [r EXCEPT !.last = t, !.enabled = FALSE]

\* Mutant: next_run is left alone.
FiredInPlace(r, t) ==
    IF r.cron \in known THEN [r EXCEPT !.last = t]
    ELSE [r EXCEPT !.last = t, !.enabled = FALSE]

\* Mutant: a schedule that became invalid is retried rather than disabled.
FiredInvalidStays(r, t) ==
    IF r.cron \in known
    THEN [r EXCEPT !.last = t, !.next = ComputeNextRun(r.cron, t)]
    ELSE [r EXCEPT !.last = t]

\* What the tick makes of a row: fired at t; moved on from t, or disabled
\* when its timing is no longer valid.
Fired(r, t) ==
    IF r.cron \in known
    THEN [r EXCEPT !.last = t, !.next = ComputeNextRun(r.cron, t)]
    ELSE [r EXCEPT !.last = t, !.enabled = FALSE]

\* The runs that a tick creates.
Firings(t) == {<<s, due[t][s].next>> : s \in DOMAIN due[t]}

\* Runs and schedules in one transaction.  A selected row that was deleted
\* raises: nothing is written, and the tick is over.
CommitTick(t) ==
    /\ tpc[t] = "commit"
    /\ IF DOMAIN due[t] \subseteq Live
       THEN /\ row' = [s \in Schedules |->
                         IF s \in DOMAIN due[t]
                         THEN Flush(row[s], due[t][s], Fired(due[t][s], at[t]))
                         ELSE row[s]]
            /\ runs' = [s \in Schedules |-> [v \in 1..MaxTime |->
                          IF <<s, v>> \in Firings(t) /\ runs[s][v] < 2
                          THEN runs[s][v] + 1 ELSE runs[s][v]]]
            /\ unsent' = [unsent EXCEPT ![t] = Firings(t)]
            /\ tpc' = [tpc EXCEPT ![t] = "enqueue"]
       ELSE /\ tpc' = [tpc EXCEPT ![t] = "idle"]
            /\ UNCHANGED <<row, runs, unsent>>
    /\ due' = [due EXCEPT ![t] = <<>>]
    /\ UNCHANGED <<now, known, phase, at, queue, editVars, edits, faults>>

\* One enqueue after the other, in any order.
EnqueueOne(t) ==
    /\ tpc[t] = "enqueue"
    /\ \E r \in unsent[t] : /\ queue' = queue \cup {r}
                            /\ unsent' = [unsent EXCEPT ![t] = @ \ {r}]
    /\ UNCHANGED <<now, known, phase, row, tpc, at, due, runs, editVars, edits, faults>>

\* Every run of the tick is enqueued.
EndTick(t) ==
    /\ tpc[t] = "enqueue" /\ unsent[t] = {}
    /\ tpc' = [tpc EXCEPT ![t] = "idle"]
    /\ UNCHANGED <<now, known, phase, row, at, due, unsent, runs, queue, editVars, edits, faults>>

\* The worker dies, or Redis does: runs that were not enqueued stay behind.
TickDies(t) ==
    /\ tpc[t] # "idle" /\ faults < MaxFaults
    /\ faults' = faults + 1
    /\ tpc' = [tpc EXCEPT ![t] = "idle"]
    /\ due' = [due EXCEPT ![t] = <<>>]
    /\ unsent' = [unsent EXCEPT ![t] = {}]
    /\ UNCHANGED <<now, known, phase, row, at, runs, queue, editVars, edits>>

-----------------------------------------------------------------------------
Tick(t) == SelectDue(t) \/ CommitTick(t) \/ EnqueueOne(t) \/ EndTick(t)

Api ==
    \/ \E s \in Schedules, c \in Timings, b \in BOOLEAN : CreateSchedule(s, c, b)
    \/ \E e \in Editors, s \in Schedules, tc, b \in BOOLEAN, c \in Timings :
          ReadForUpdate(e, s, tc, c, b)
    \/ \E e \in Editors : CommitUpdate(e)
    \/ \E s \in Schedules : DeleteSchedule(s)

Next ==
    \/ TimePasses
    \/ \E c \in Timings : TimingBreaks(c)
    \/ Api
    \/ \E t \in Ticks : Tick(t) \/ TickDies(t)

Spec == Init /\ [][Next]_vars

\* arq starts a tick every minute and runs it to its end.
FairSpec == Spec /\ \A t \in Ticks : WF_vars(Tick(t))

-----------------------------------------------------------------------------
(* Properties.                                                             *)

\* "A due schedule fires once": one run for each instant a schedule was due,
\* however late the tick runs, and however many ticks die before they commit.
\* (An update in progress can put an instant back that a tick has fired.)
OneRunPerFiring ==
    edits = 0 => \A s \in Schedules : \A v \in 1..MaxTime : runs[s][v] <= 1

\* Misfire policy: a fire, however late, moves last_run forward and next_run
\* past the tick's own time, also over an update that came between the read
\* and the commit, so an outage causes no backfill.
NoBackfill ==
    [][\A s \in Schedules : runs'[s] # runs[s] /\ row'[s].enabled =>
          /\ row'[s].last >= row[s].last
          /\ row'[s].next > row'[s].last]_vars

\* An enabled schedule always has a next_run: no interleaving of updates and
\* ticks leaves one that silently never fires again.
EnabledHasNextRun == \A s \in Live : row[s].enabled => row[s].next # NULL

\* Whatever is due is dealt with: fired, disabled or deleted, also when a
\* concurrent deletion makes a whole tick fail.
DueIsDealtWith == \A s \in Schedules : IsDue(s) ~> ~IsDue(s)

\* "next_run is (re)computed ... whenever its cron/timezone changes": the
\* stored next_run belongs to the stored timing.
NextRunMatchesTiming ==
    \A s \in Live : row[s].enabled => row[s].next % row[s].cron = 0
=============================================================================
