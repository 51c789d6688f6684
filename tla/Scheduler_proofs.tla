------------------------- MODULE Scheduler_proofs -------------------------
(* Proofs about Scheduler, for any schedules, timings, editors and times.  *)
EXTENDS Scheduler, TLAPS

-----------------------------------------------------------------------------
(* The inductive invariants.                                               *)

\* What a tick holds between its SELECT and its commit was due at its time.
TicksInv ==
    \A t \in Ticks :
        /\ at[t] <= now
        /\ tpc[t] # "commit" => DOMAIN due[t] = {}
        /\ \A s \in DOMAIN due[t] :
              /\ phase[s] # "new"
              /\ due[t][s].enabled
              /\ due[t][s].next \in 1..at[t]
              /\ due[t][s].last <= at[t]

\* An update leaves last_run alone, never clears next_run, and computes it
\* when it enables; the row it read can only have gained a next_run since.
EditsInv ==
    \A e \in Editors : editing[e] # Idle =>
        /\ phase[editing[e]] # "new"
        /\ new[e].last = old[e].last
        /\ new[e].next = old[e].next \/ new[e].next # NULL
        /\ new[e].enabled /\ ~old[e].enabled => new[e].next # NULL
        /\ editing[e] \in Live /\ old[e].next # NULL => row[editing[e]].next # NULL

RowsInv == \A s \in Schedules : row[s].last <= now

SchedInv == TicksInv /\ EditsInv /\ RowsInv /\ EnabledHasNextRun

\* Ticks do not overlap: arq starts one a minute, and each ends within it.
OneTick == \A t, u \in Ticks : t = u

\* Then nobody else writes last_run while a tick is under way, ...
LastInv ==
    \A t \in Ticks : \A s \in DOMAIN due[t] \cap Live : row[s].last = due[t][s].last

\* ... and before the first update a selected row is the row, and what has
\* been fired lies before next_run.
FiringInv ==
    edits = 0 =>
        /\ \A e \in Editors : editing[e] = Idle
        /\ \A t \in Ticks : \A s \in DOMAIN due[t] \cap Live : row[s] = due[t][s]
        /\ \A s \in Schedules : \A v \in 1..MaxTime :
              /\ runs[s][v] <= 1
              /\ runs[s][v] = 1 => /\ phase[s] # "new"
                                   /\ s \in Live /\ row[s].enabled => v < row[s].next

SerialInv == LastInv /\ FiringInv

-----------------------------------------------------------------------------
(* Lemmas about the operators.                                             *)

\* compute_next_run is strictly after the instant it starts from.
LEMMA NextRunIsLater ==
  ASSUME NEW c \in Timings, NEW t \in Nat
  PROVE  ComputeNextRun(c, t) \in Nat /\ ComputeNextRun(c, t) > t
<1>1. c \in Nat \ {0}
  BY SchedulerAssumption
<1> DEFINE q == t \div c
           m == t % c
<1>2. q \in Nat /\ m \in 0..(c - 1) /\ t = c * q + m
  BY <1>1
<1>3. ComputeNextRun(c, t) = (q + 1) * c
  BY DEF ComputeNextRun
<1> HIDE DEF q, m
<1>4. (q + 1) * c = c * q + c
  BY <1>1, <1>2
<1>5. c * q \in Nat
  BY <1>1, <1>2
<1>6. QED
  BY <1>1, <1>2, <1>3, <1>4, <1>5

\* The fields of a row.
LEMMA RowFields ==
  ASSUME NEW r \in Rows
  PROVE  r.cron \in Timings /\ r.enabled \in BOOLEAN /\ r.last \in Nat /\ r.next \in Nat
BY DEF Rows

\* The row of a schedule that is not there.
LEMMA BlankRow == Blank \in Rows /\ Blank.last = 0 /\ ~Blank.enabled
<1>1. (CHOOSE c \in Timings : TRUE) \in Timings
  BY SchedulerAssumption
<1>2. QED
  BY <1>1 DEF Blank, Rows, NULL

\* A flush writes what was changed, column by column.
LEMMA FlushFields ==
  ASSUME NEW r \in Rows, NEW l \in Rows, NEW c \in Rows
  PROVE  LET f == Flush(r, l, c) IN
         /\ f \in Rows
         /\ f.cron = Written(r.cron, l.cron, c.cron)
         /\ f.enabled = Written(r.enabled, l.enabled, c.enabled)
         /\ f.last = Written(r.last, l.last, c.last)
         /\ f.next = Written(r.next, l.next, c.next)
<1>1. /\ Written(r.cron, l.cron, c.cron) \in Timings
      /\ Written(r.enabled, l.enabled, c.enabled) \in BOOLEAN
      /\ Written(r.last, l.last, c.last) \in Nat
      /\ Written(r.next, l.next, c.next) \in Nat
  BY RowFields DEF Written
<1>2. QED
  BY <1>1 DEF Flush, Rows

\* What a tick makes of a due row.
LEMMA FiredFields ==
  ASSUME NEW r \in Rows, NEW t \in Nat
  PROVE  LET f == Fired(r, t) IN
         /\ f \in Rows /\ f.last = t
         /\ r.cron \in known => f.enabled = r.enabled /\ f.next > t
         /\ r.cron \notin known => ~f.enabled /\ f.next = r.next
<1>1. ComputeNextRun(r.cron, t) \in Nat /\ ComputeNextRun(r.cron, t) > t
  BY RowFields, NextRunIsLater
<1>2. CASE r.cron \in known
  <2>1. Fired(r, t) = [r EXCEPT !.last = t, !.next = ComputeNextRun(r.cron, t)]
    BY <1>2 DEF Fired
  <2>2. QED
    BY <1>1, <1>2, <2>1 DEF Rows
<1>3. CASE r.cron \notin known
  <2>1. Fired(r, t) = [r EXCEPT !.last = t, !.enabled = FALSE]
    BY <1>3 DEF Fired
  <2>2. QED
    BY <1>3, <2>1 DEF Rows
<1>4. QED
  BY <1>2, <1>3

\* What an update makes of a row.
LEMMA UpdatedFields ==
  ASSUME NEW r \in Rows, NEW tc \in BOOLEAN, NEW c \in Timings, NEW b \in BOOLEAN, now \in Nat
  PROVE  LET u == Updated(r, tc, c, b) IN
         /\ u \in Rows /\ u.last = r.last /\ u.enabled = b
         /\ u.next = r.next \/ u.next # NULL
         /\ b /\ ~r.enabled => u.next # NULL
<1>1. ComputeNextRun(c, now) \in Nat /\ ComputeNextRun(c, now) # NULL
  BY NextRunIsLater DEF NULL
<1>2. CASE b /\ (tc \/ ~r.enabled \/ r.next = NULL)
  <2>1. Updated(r, tc, c, b) =
          [[r EXCEPT !.cron = c, !.enabled = b] EXCEPT !.next = ComputeNextRun(c, now)]
    BY <1>2 DEF Updated
  <2>2. QED
    BY <1>1, <2>1 DEF Rows
<1>3. CASE ~(b /\ (tc \/ ~r.enabled \/ r.next = NULL))
  <2>1. Updated(r, tc, c, b) = [r EXCEPT !.cron = c, !.enabled = b]
    BY <1>3 DEF Updated
  <2>2. QED
    BY <1>3, <2>1 DEF Rows
<1>4. QED
  BY <1>2, <1>3

-----------------------------------------------------------------------------
(* The invariants hold at the start and are kept by every step.            *)

LEMMA InitInv == Init => TypeOK /\ SchedInv /\ SerialInv
<1> SUFFICES ASSUME Init PROVE TypeOK /\ SchedInv /\ SerialInv
  OBVIOUS
<1> USE SchedulerAssumption, BlankRow
<1>1. TypeOK
  BY DEF Init, TypeOK, RunIds
<1>2. TicksInv
  BY DEF Init, TicksInv
<1>3. EditsInv /\ EnabledHasNextRun
  BY DEF Init, EditsInv, EnabledHasNextRun, Live
<1>4. RowsInv
  BY DEF Init, RowsInv
<1>5. LastInv /\ FiringInv
  BY DEF Init, LastInv, FiringInv, Live
<1>6. QED
  BY <1>1, <1>2, <1>3, <1>4, <1>5 DEF SchedInv, SerialInv

\* A step that touches neither the rows nor what ticks and updates hold of them.
LEMMA QuietStep ==
  ASSUME TypeOK, SchedInv, TypeOK', now' >= now,
         UNCHANGED <<phase, row, due, tpc, at, editing, old, new>>
  PROVE  SchedInv'
<1>1. now \in Nat /\ now' \in Nat /\ at \in [Ticks -> Nat] /\ \A s \in Schedules : row[s].last \in Nat
  BY RowFields DEF TypeOK
<1>2. TicksInv'
  <2>1. \A t \in Ticks : at[t] <= now'
    BY <1>1 DEF SchedInv, TicksInv
  <2>2. QED
    BY <2>1 DEF SchedInv, TicksInv
<1>3. RowsInv'
  <2>1. \A s \in Schedules : row[s].last <= now'
    BY <1>1 DEF SchedInv, RowsInv
  <2>2. QED
    BY <2>1 DEF RowsInv
<1>4. (EditsInv /\ EnabledHasNextRun)'
  BY DEF SchedInv, EditsInv, EnabledHasNextRun, Live
<1>5. QED
  BY <1>2, <1>3, <1>4 DEF SchedInv

LEMMA TimeKeeps ==
  ASSUME TypeOK, SchedInv, TimePasses \/ \E c \in Timings : TimingBreaks(c)
  PROVE  TypeOK' /\ SchedInv'
<1>1. UNCHANGED <<phase, row, tickVars, runs, queue, editVars, edits, faults>>
  BY DEF TimePasses, TimingBreaks
<1>2. now' \in 1..MaxTime /\ now' >= now /\ known' \subseteq Timings
  BY SchedulerAssumption DEF TimePasses, TimingBreaks, TypeOK
<1>3. TypeOK'
  BY <1>1, <1>2 DEF TypeOK, tickVars, editVars
<1>4. QED
  BY <1>1, <1>2, <1>3, QuietStep DEF tickVars, editVars

LEMMA CreateKeeps ==
  ASSUME TypeOK, SchedInv, NEW s \in Schedules, NEW c \in Timings, NEW b \in BOOLEAN,
         CreateSchedule(s, c, b)
  PROVE  TypeOK' /\ SchedInv'
<1> DEFINE r == row'[s]
<1>1. now \in Nat
  BY DEF TypeOK
<1>2. ComputeNextRun(c, now) \in Nat /\ ComputeNextRun(c, now) # NULL
  BY <1>1, NextRunIsLater DEF NULL
<1>3. r = [cron |-> c, enabled |-> b, last |-> NULL,
           next |-> IF b THEN ComputeNextRun(c, now) ELSE NULL]
  BY DEF CreateSchedule, TypeOK
<1>4. r \in Rows /\ r.last = 0 /\ (r.enabled => r.next # NULL)
  BY <1>2, <1>3 DEF Rows, NULL
<1>5. /\ phase[s] = "new" /\ phase' = [phase EXCEPT ![s] = "live"]
      /\ \A x \in Schedules : x # s => row'[x] = row[x]
      /\ row' = [row EXCEPT ![s] = r]
      /\ UNCHANGED <<now, known, tpc, at, due, unsent, runs, queue, editing, old, new, edits, faults>>
  BY <1>3 DEF CreateSchedule, tickVars, editVars, TypeOK
<1> HIDE DEF r
<1>6. TypeOK'
  BY <1>4, <1>5 DEF TypeOK
<1>7. TicksInv'
  BY <1>5 DEF SchedInv, TicksInv, TypeOK
<1>8. EditsInv'
  <2>1. \A e \in Editors : editing[e] # Idle => editing[e] \in Schedules /\ editing[e] # s
    BY <1>5 DEF SchedInv, EditsInv, TypeOK
  <2>2. QED
    BY <1>5, <2>1 DEF SchedInv, EditsInv, TypeOK, Live
<1>9. RowsInv'
  <2>1. \A x \in Schedules : x # s => row'[x].last <= now
    BY <1>5 DEF SchedInv, RowsInv
  <2>2. row'[s].last <= now
    BY <1>1, <1>4 DEF r
  <2>3. QED
    BY <1>5, <2>1, <2>2 DEF RowsInv
<1>10. EnabledHasNextRun'
  BY <1>4, <1>5 DEF SchedInv, EnabledHasNextRun, TypeOK, Live, r
<1>11. QED
  BY <1>6, <1>7, <1>8, <1>9, <1>10 DEF SchedInv

LEMMA ReadKeeps ==
  ASSUME TypeOK, SchedInv, NEW e \in Editors, NEW s \in Schedules, NEW tc \in BOOLEAN,
         NEW c \in Timings, NEW b \in BOOLEAN, ReadForUpdate(e, s, tc, c, b)
  PROVE  TypeOK' /\ SchedInv'
<1> DEFINE u == Updated(row[s], tc, c, b)
<1>1. row[s] \in Rows /\ now \in Nat
  BY DEF TypeOK
<1>2. /\ u \in Rows /\ u.last = row[s].last /\ u.enabled = b
      /\ u.next = row[s].next \/ u.next # NULL
      /\ b /\ ~row[s].enabled => u.next # NULL
  BY <1>1, UpdatedFields
<1>3. /\ s \in Live
      /\ editing' = [editing EXCEPT ![e] = s]
      /\ old' = [old EXCEPT ![e] = row[s]]
      /\ new' = [new EXCEPT ![e] = u]
      /\ edits < MaxEdits /\ edits' = edits + 1
      /\ UNCHANGED <<now, known, phase, row, tpc, at, due, unsent, runs, queue, faults>>
  BY DEF ReadForUpdate, tickVars
<1> HIDE DEF u
<1>4. edits' \in 0..MaxEdits
  BY <1>3, SchedulerAssumption DEF TypeOK
<1>5. TypeOK'
  BY <1>1, <1>2, <1>3, <1>4 DEF TypeOK
<1>6. TicksInv' /\ RowsInv' /\ EnabledHasNextRun'
  BY <1>3 DEF SchedInv, TicksInv, RowsInv, EnabledHasNextRun, Live
<1>7. EditsInv'
  <2> SUFFICES ASSUME NEW d \in Editors, editing'[d] # Idle
               PROVE  /\ phase[editing'[d]] # "new"
                      /\ new'[d].last = old'[d].last
                      /\ new'[d].next = old'[d].next \/ new'[d].next # NULL
                      /\ new'[d].enabled /\ ~old'[d].enabled => new'[d].next # NULL
                      /\ editing'[d] \in Live /\ old'[d].next # NULL => row[editing'[d]].next # NULL
    BY <1>3 DEF EditsInv, Live
  <2>1. CASE d = e
    BY <1>2, <1>3, <2>1 DEF TypeOK, Live
  <2>2. CASE d # e
    BY <1>3, <2>2 DEF TypeOK, SchedInv, EditsInv
  <2>3. QED
    BY <2>1, <2>2
<1>8. QED
  BY <1>5, <1>6, <1>7 DEF SchedInv

\* A commit of an update keeps last_run, and next_run never becomes NULL.
LEMMA CommitWrites ==
  ASSUME TypeOK, SchedInv, NEW e \in Editors, editing[e] \in Live
  PROVE  LET f == Flush(row[editing[e]], old[e], new[e])
             r == row[editing[e]] IN
         /\ f \in Rows /\ f.last = r.last
         /\ r.next # NULL => f.next # NULL
         /\ f.enabled => f.next # NULL
<1> DEFINE r == row[editing[e]]
           f == Flush(r, old[e], new[e])
<1>1. editing[e] # Idle /\ editing[e] \in Schedules
  BY SchedulerAssumption DEF Live
<1>2. r \in Rows /\ old[e] \in Rows /\ new[e] \in Rows
  BY <1>1 DEF TypeOK
<1>3. /\ f \in Rows
      /\ f.enabled = Written(r.enabled, old[e].enabled, new[e].enabled)
      /\ f.last = Written(r.last, old[e].last, new[e].last)
      /\ f.next = Written(r.next, old[e].next, new[e].next)
  BY <1>2, FlushFields
<1>4. /\ new[e].last = old[e].last
      /\ new[e].next = old[e].next \/ new[e].next # NULL
      /\ new[e].enabled /\ ~old[e].enabled => new[e].next # NULL
      /\ old[e].next # NULL => r.next # NULL
      /\ r.enabled => r.next # NULL
  BY <1>1 DEF SchedInv, EditsInv, EnabledHasNextRun
<1>5. r.enabled \in BOOLEAN /\ old[e].enabled \in BOOLEAN /\ new[e].enabled \in BOOLEAN
  BY <1>2, RowFields
<1> HIDE DEF r, f
<1>6. f.last = r.last /\ (r.next # NULL => f.next # NULL)
  BY <1>3, <1>4 DEF Written
<1>7. f.enabled => f.next # NULL
  BY <1>3, <1>4, <1>5 DEF Written
<1>8. QED
  BY <1>3, <1>6, <1>7 DEF f, r

LEMMA CommitKeeps ==
  ASSUME TypeOK, SchedInv, NEW e \in Editors, CommitUpdate(e)
  PROVE  TypeOK' /\ SchedInv'
<1> DEFINE s == editing[e]
           f == Flush(row[s], old[e], new[e])
<1>1. /\ s # Idle /\ s \in Schedules
      /\ row' = IF s \in Live THEN [row EXCEPT ![s] = f] ELSE row
      /\ editing' = [editing EXCEPT ![e] = Idle]
      /\ old' = [old EXCEPT ![e] = Blank]
      /\ new' = [new EXCEPT ![e] = Blank]
      /\ UNCHANGED <<now, known, phase, tpc, at, due, unsent, runs, queue, edits, faults>>
  BY DEF CommitUpdate, tickVars, TypeOK
<1>2. s \in Live => /\ f \in Rows /\ f.last = row[s].last
                    /\ row[s].next # NULL => f.next # NULL
                    /\ f.enabled => f.next # NULL
  BY CommitWrites
<1> HIDE DEF f
<1>3. /\ row' \in [Schedules -> Rows]
      /\ \A x \in Schedules : /\ row'[x].last = row[x].last
                              /\ x \in Live /\ row[x].next # NULL => row'[x].next # NULL
                              /\ x # s => row'[x] = row[x]
  BY <1>1, <1>2 DEF TypeOK
<1>4. TypeOK'
  <2>1. old' \in [Editors -> Rows] /\ new' \in [Editors -> Rows]
    BY <1>1, BlankRow DEF TypeOK
  <2>2. editing' \in [Editors -> Schedules \cup {Idle}]
    BY <1>1 DEF TypeOK
  <2>3. QED
    BY <1>1, <1>3, <2>1, <2>2 DEF TypeOK
<1>5. TicksInv'
  BY <1>1 DEF SchedInv, TicksInv
<1>6. RowsInv'
  BY <1>1, <1>3 DEF SchedInv, RowsInv
<1>7. EnabledHasNextRun'
  <2> SUFFICES ASSUME NEW x \in Live, row'[x].enabled PROVE row'[x].next # NULL
    BY <1>1 DEF EnabledHasNextRun, Live
  <2>1. CASE x = s
    BY <1>1, <1>2, <2>1 DEF TypeOK
  <2>2. CASE x # s
    BY <1>3, <2>2 DEF SchedInv, EnabledHasNextRun, Live
  <2>3. QED
    BY <2>1, <2>2
<1>8. EditsInv'
  <2> SUFFICES ASSUME NEW d \in Editors, editing'[d] # Idle
               PROVE  /\ phase[editing'[d]] # "new"
                      /\ new'[d].last = old'[d].last
                      /\ new'[d].next = old'[d].next \/ new'[d].next # NULL
                      /\ new'[d].enabled /\ ~old'[d].enabled => new'[d].next # NULL
                      /\ editing'[d] \in Live /\ old'[d].next # NULL => row'[editing'[d]].next # NULL
    BY <1>1 DEF EditsInv, Live
  <2>1. d # e /\ editing'[d] = editing[d] /\ old'[d] = old[d] /\ new'[d] = new[d]
    BY <1>1 DEF TypeOK
  <2>2. editing[d] \in Schedules
    BY <2>1 DEF TypeOK
  <2>3. QED
    BY <1>3, <2>1, <2>2 DEF SchedInv, EditsInv
<1>9. QED
  BY <1>4, <1>5, <1>6, <1>7, <1>8 DEF SchedInv

LEMMA DeleteKeeps ==
  ASSUME TypeOK, SchedInv, NEW s \in Schedules, DeleteSchedule(s)
  PROVE  TypeOK' /\ SchedInv'
<1>1. /\ s \in Live /\ phase' = [phase EXCEPT ![s] = "gone"]
      /\ row' = [row EXCEPT ![s] = Blank]
      /\ UNCHANGED <<now, known, tpc, at, due, unsent, runs, queue, editing, old, new, edits, faults>>
  BY DEF DeleteSchedule, tickVars, editVars
<1>2. TypeOK'
  BY <1>1, BlankRow DEF TypeOK
<1>3. TicksInv'
  BY <1>1 DEF SchedInv, TicksInv, TypeOK
<1>4. EditsInv'
  <2>1. \A e \in Editors : editing[e] # Idle => editing[e] \in Schedules
    BY DEF TypeOK
  <2>2. QED
    BY <1>1, <2>1 DEF SchedInv, EditsInv, TypeOK, Live
<1>5. RowsInv'
  BY <1>1, BlankRow DEF SchedInv, RowsInv, TypeOK
<1>6. EnabledHasNextRun'
  BY <1>1 DEF SchedInv, EnabledHasNextRun, TypeOK, Live
<1>7. QED
  BY <1>2, <1>3, <1>4, <1>5, <1>6 DEF SchedInv

LEMMA SelectKeeps ==
  ASSUME TypeOK, SchedInv, NEW t \in Ticks, SelectDue(t)
  PROVE  TypeOK' /\ SchedInv'
<1> DEFINE sel == {s \in Schedules : IsDue(s)}
           d == [s \in sel |-> row[s]]
<1>1. /\ tpc' = [tpc EXCEPT ![t] = "commit"]
      /\ at' = [at EXCEPT ![t] = now]
      /\ due' = [due EXCEPT ![t] = d]
      /\ UNCHANGED <<now, known, phase, row, unsent, runs, queue, editing, old, new, edits, faults>>
  BY DEF SelectDue, editVars
<1>2. /\ DOMAIN d = sel
      /\ \A s \in sel : /\ s \in Schedules /\ d[s] \in Rows /\ phase[s] # "new"
                        /\ d[s].enabled /\ d[s].next \in 1..now /\ d[s].last <= now
  <2>1. DOMAIN d = sel /\ \A s \in sel : s \in Schedules /\ d[s] = row[s] /\ row[s] \in Rows
    BY DEF TypeOK
  <2>2. \A s \in sel : phase[s] # "new" /\ row[s].enabled /\ row[s].next # 0 /\ row[s].next <= now
    BY DEF IsDue, Live, NULL
  <2>3. \A s \in sel : row[s].next \in 1..now
    BY <2>1, <2>2, RowFields DEF TypeOK
  <2>4. QED
    BY <2>1, <2>2, <2>3 DEF SchedInv, RowsInv
<1> HIDE DEF d, sel
<1>3. \A u \in Ticks : u # t => due'[u] = due[u] /\ at'[u] = at[u] /\ tpc'[u] = tpc[u]
  BY <1>1 DEF TypeOK
<1>4. due'[t] = d /\ at'[t] = now /\ tpc'[t] = "commit"
  BY <1>1 DEF TypeOK
<1>5. TypeOK'
  <2>1. due' = [u \in Ticks |-> due'[u]]
    BY <1>1 DEF TypeOK
  <2>2. \A u \in Ticks : \A s \in DOMAIN due'[u] : s \in Schedules /\ due'[u][s] \in Rows
    BY <1>2, <1>3, <1>4 DEF TypeOK
  <2>3. at' \in [Ticks -> 0..MaxTime]
    BY <1>1 DEF TypeOK
  <2>4. QED
    BY <1>1, <2>1, <2>2, <2>3 DEF TypeOK
<1>6. TicksInv'
  <2> SUFFICES ASSUME NEW u \in Ticks
               PROVE  /\ at'[u] <= now
                      /\ tpc'[u] # "commit" => DOMAIN due'[u] = {}
                      /\ \A s \in DOMAIN due'[u] : /\ phase[s] # "new"
                                                   /\ due'[u][s].enabled
                                                   /\ due'[u][s].next \in 1..at'[u]
                                                   /\ due'[u][s].last <= at'[u]
    BY <1>1 DEF TicksInv
  <2>1. CASE u = t
    BY <1>2, <1>4, <2>1 DEF TypeOK
  <2>2. CASE u # t
    BY <1>3, <2>2 DEF SchedInv, TicksInv
  <2>3. QED
    BY <2>1, <2>2
<1>7. EditsInv' /\ RowsInv' /\ EnabledHasNextRun'
  BY <1>1 DEF SchedInv, EditsInv, RowsInv, EnabledHasNextRun, Live
<1>8. QED
  BY <1>5, <1>6, <1>7 DEF SchedInv

\* What a tick's commit leaves in a row that it had selected.
LEMMA TickWrites ==
  ASSUME TypeOK, SchedInv, NEW t \in Ticks, NEW s \in DOMAIN due[t], s \in Live
  PROVE  LET r == row[s]
             d == due[t][s]
             f == Flush(r, d, Fired(d, at[t])) IN
         /\ f \in Rows /\ f.last <= now
         /\ r.next # NULL => f.next # NULL
         /\ f.enabled => d.cron \in known /\ r.enabled /\ f.next > at[t] /\ f.next # NULL
         /\ r.last = d.last => f.last = at[t] /\ r.last <= at[t]
<1> DEFINE r == row[s]
           d == due[t][s]
           g == Fired(d, at[t])
           f == Flush(r, d, g)
<1>1. s \in Schedules /\ r \in Rows /\ d \in Rows /\ at[t] \in Nat /\ now \in Nat
  BY DEF TypeOK, Live
<1>2. d.enabled /\ d.next \in 1..at[t] /\ d.last <= at[t] /\ at[t] <= now /\ r.last <= now
  BY <1>1 DEF SchedInv, TicksInv, RowsInv
<1>3. /\ g \in Rows /\ g.last = at[t]
      /\ d.cron \in known => g.enabled = d.enabled /\ g.next > at[t]
      /\ d.cron \notin known => ~g.enabled /\ g.next = d.next
  BY <1>1, FiredFields
<1>4. /\ f \in Rows
      /\ f.enabled = Written(r.enabled, d.enabled, g.enabled)
      /\ f.last = Written(r.last, d.last, g.last)
      /\ f.next = Written(r.next, d.next, g.next)
  BY <1>1, <1>3, FlushFields
<1>5. /\ r.last \in Nat /\ d.last \in Nat /\ r.next \in Nat /\ d.next \in Nat /\ g.next \in Nat
      /\ r.enabled \in BOOLEAN /\ d.enabled \in BOOLEAN /\ g.enabled \in BOOLEAN
  BY <1>1, <1>3, RowFields
<1>6. d.cron \in Timings /\ (d.cron \in known \/ d.cron \notin known)
  BY <1>1, RowFields
<1> HIDE DEF r, d, g, f
<1>7. f.last <= now /\ (r.last = d.last => f.last = at[t] /\ r.last <= at[t])
  BY <1>1, <1>2, <1>3, <1>4, <1>5 DEF Written
<1>8. r.next # NULL => f.next # NULL
  <2>1. CASE d.cron \in known
    <3>1. g.next > at[t]
      BY <1>3, <2>1
    <3>2. g.next # 0
      BY <1>1, <1>5, <3>1
    <3>3. QED
      BY <1>4, <3>2 DEF Written, NULL
  <2>2. CASE d.cron \notin known
    BY <1>3, <1>4, <2>2 DEF Written
  <2>3. QED
    BY <2>1, <2>2
<1>9. ASSUME f.enabled
      PROVE  d.cron \in known /\ r.enabled /\ f.next > at[t] /\ f.next # NULL
  <2>1. d.cron \in known
    BY <1>2, <1>3, <1>4, <1>5, <1>9 DEF Written
  <2>2. g.enabled = d.enabled /\ g.next > at[t]
    BY <1>3, <2>1
  <2>3. r.enabled
    BY <1>4, <1>9, <2>2 DEF Written
  <2>4. g.next # d.next
    BY <1>1, <1>2, <1>5, <2>2
  <2>5. f.next = g.next
    BY <1>4, <2>4 DEF Written
  <2>6. QED
    BY <1>1, <1>5, <2>1, <2>2, <2>3, <2>5 DEF NULL
<1>10. QED
  BY <1>4, <1>7, <1>8, <1>9 DEF f, g, d, r

\* The end of a tick, however it comes.
LEMMA TickLetsGo ==
  ASSUME TypeOK, TicksInv, NEW t \in Ticks, UNCHANGED <<now, phase, at>>,
         due' = [due EXCEPT ![t] = <<>>],
         NEW p, tpc' = [tpc EXCEPT ![t] = p]
  PROVE  /\ due' = [u \in Ticks |-> due'[u]]
         /\ \A u \in Ticks : \A s \in DOMAIN due'[u] :
               u # t /\ s \in DOMAIN due[u] /\ due'[u] = due[u]
         /\ \A u \in Ticks : \A s \in DOMAIN due'[u] : s \in Schedules /\ due'[u][s] \in Rows
         /\ TicksInv'
<1>1. DOMAIN due'[t] = {} /\ \A u \in Ticks : u # t => due'[u] = due[u] /\ tpc'[u] = tpc[u]
  BY DEF TypeOK
<1>2. due' = [u \in Ticks |-> due'[u]]
  BY DEF TypeOK
<1>3. \A u \in Ticks : \A s \in DOMAIN due'[u] :
         u # t /\ s \in DOMAIN due[u] /\ due'[u] = due[u]
  BY <1>1
<1>4. \A u \in Ticks : \A s \in DOMAIN due'[u] : s \in Schedules /\ due'[u][s] \in Rows
  BY <1>3 DEF TypeOK
<1>5. TicksInv'
  BY <1>1, <1>3 DEF TicksInv
<1>6. QED
  BY <1>2, <1>3, <1>4, <1>5

LEMMA CommitTickKeeps ==
  ASSUME TypeOK, SchedInv, NEW t \in Ticks, CommitTick(t)
  PROVE  TypeOK' /\ SchedInv'
<1> DEFINE D == DOMAIN due[t]
<1>1. /\ UNCHANGED <<now, known, phase, at, queue, editing, old, new, edits, faults>>
      /\ due' = [due EXCEPT ![t] = <<>>]
      /\ \E p \in {"enqueue", "idle"} : tpc' = [tpc EXCEPT ![t] = p]
  BY DEF CommitTick, editVars
<1>2. D \subseteq Schedules /\ TicksInv
  BY DEF TypeOK, SchedInv
<1>3. /\ due' = [u \in Ticks |-> due'[u]]
      /\ \A u \in Ticks : \A s \in DOMAIN due'[u] : s \in Schedules /\ due'[u][s] \in Rows
      /\ TicksInv'
  BY <1>1, <1>2, TickLetsGo
<1>4. tpc' \in [Ticks -> {"idle", "commit", "enqueue"}]
  BY <1>1 DEF TypeOK
<1>5. CASE ~(D \subseteq Live)
  <2>1. UNCHANGED <<row, runs, unsent>>
    BY <1>5 DEF CommitTick
  <2>2. TypeOK'
    BY <1>1, <1>3, <1>4, <2>1 DEF TypeOK
  <2>3. EditsInv' /\ RowsInv' /\ EnabledHasNextRun'
    BY <1>1, <2>1 DEF SchedInv, EditsInv, RowsInv, EnabledHasNextRun, Live
  <2>4. QED
    BY <1>3, <2>2, <2>3 DEF SchedInv
<1>6. CASE D \subseteq Live
  <2> DEFINE f(s) == Flush(row[s], due[t][s], Fired(due[t][s], at[t]))
  <2>1. /\ row' = [s \in Schedules |-> IF s \in D THEN f(s) ELSE row[s]]
        /\ runs' = [s \in Schedules |-> [v \in 1..MaxTime |->
                      IF <<s, v>> \in Firings(t) /\ runs[s][v] < 2
                      THEN runs[s][v] + 1 ELSE runs[s][v]]]
        /\ unsent' = [unsent EXCEPT ![t] = Firings(t)]
    BY <1>6 DEF CommitTick
  <2>2. \A s \in D : /\ f(s) \in Rows /\ f(s).last <= now
                     /\ row[s].next # NULL => f(s).next # NULL
                     /\ f(s).enabled => f(s).next # NULL
    BY <1>6, TickWrites
  <2> HIDE DEF f
  <2>3. /\ row' \in [Schedules -> Rows]
        /\ \A s \in Schedules : /\ row'[s].last <= now
                                /\ row[s].next # NULL => row'[s].next # NULL
                                /\ s \in Live /\ row'[s].enabled => row'[s].next # NULL
    BY <2>1, <2>2 DEF TypeOK, SchedInv, RowsInv, EnabledHasNextRun
  <2>4. runs' \in [Schedules -> [1..MaxTime -> 0..2]]
    <3>1. \A s \in Schedules : \A v \in 1..MaxTime :
             (IF <<s, v>> \in Firings(t) /\ runs[s][v] < 2
              THEN runs[s][v] + 1 ELSE runs[s][v]) \in 0..2
      <4>1. \A k \in 0..2 : k < 2 => k + 1 \in 0..2
        OBVIOUS
      <4>2. \A s \in Schedules : \A v \in 1..MaxTime : runs[s][v] \in 0..2
        BY DEF TypeOK
      <4>3. QED
        BY <4>1, <4>2
    <3>2. QED
      BY <2>1, <3>1
  <2>5. Firings(t) \subseteq RunIds
    <3>1. \A s \in D : due[t][s].next \in 1..MaxTime
      <4>1. \A s \in D : due[t][s].next \in 1..at[t]
        BY <1>2 DEF TicksInv
      <4>2. at[t] \in 0..MaxTime /\ MaxTime \in Nat
        BY SchedulerAssumption DEF TypeOK
      <4>3. QED
        BY <4>1, <4>2
    <3>2. QED
      BY <1>2, <3>1 DEF Firings, RunIds
  <2>6. unsent' \in [Ticks -> SUBSET RunIds]
    BY <2>1, <2>5 DEF TypeOK
  <2>7. TypeOK'
    BY <1>1, <1>3, <1>4, <2>3, <2>4, <2>6 DEF TypeOK
  <2>8. RowsInv' /\ EnabledHasNextRun'
    BY <1>1, <2>3 DEF RowsInv, EnabledHasNextRun, Live
  <2>9. EditsInv'
    BY <1>1, <2>3 DEF SchedInv, EditsInv, Live
  <2>10. QED
    BY <1>3, <2>7, <2>8, <2>9 DEF SchedInv
<1>7. QED
  BY <1>5, <1>6

LEMMA EnqueueKeeps ==
  ASSUME TypeOK, SchedInv, NEW t \in Ticks, EnqueueOne(t)
  PROVE  TypeOK' /\ SchedInv'
<1>1. PICK r \in unsent[t] : /\ queue' = queue \cup {r}
                             /\ unsent' = [unsent EXCEPT ![t] = @ \ {r}]
  BY DEF EnqueueOne
<1>2. UNCHANGED <<now, known, phase, row, tpc, at, due, runs, editing, old, new, edits, faults>>
  BY DEF EnqueueOne, editVars
<1>3. queue' \subseteq RunIds /\ unsent' \in [Ticks -> SUBSET RunIds]
  BY <1>1 DEF TypeOK
<1>4. TypeOK'
  BY <1>2, <1>3 DEF TypeOK
<1>5. now \in Nat
  BY DEF TypeOK
<1>6. QED
  BY <1>2, <1>4, <1>5, QuietStep

LEMMA EndKeeps ==
  ASSUME TypeOK, SchedInv, NEW t \in Ticks, EndTick(t) \/ TickDies(t)
  PROVE  TypeOK' /\ SchedInv'
<1>1. /\ UNCHANGED <<now, known, phase, row, at, runs, queue, editing, old, new, edits>>
      /\ tpc' = [tpc EXCEPT ![t] = "idle"]
  BY DEF EndTick, TickDies, editVars
<1>2. /\ faults' \in 0..MaxFaults
      /\ unsent' \in [Ticks -> SUBSET RunIds]
  <2>1. faults' = faults \/ (faults < MaxFaults /\ faults' = faults + 1)
    BY DEF EndTick, TickDies
  <2>2. faults \in 0..MaxFaults /\ MaxFaults \in Nat
    BY SchedulerAssumption DEF TypeOK
  <2>3. unsent' = unsent \/ unsent' = [unsent EXCEPT ![t] = {}]
    BY DEF EndTick, TickDies
  <2>4. faults' \in 0..MaxFaults
    BY <2>1, <2>2
  <2>5. QED
    BY <2>3, <2>4 DEF TypeOK
<1>3. due' = [due EXCEPT ![t] = <<>>] \/ (due' = due /\ tpc[t] = "enqueue")
  BY DEF EndTick, TickDies
<1>4. /\ due' = [u \in Ticks |-> due'[u]]
      /\ \A u \in Ticks : \A s \in DOMAIN due'[u] : s \in Schedules /\ due'[u][s] \in Rows
      /\ TicksInv'
  <2>1. TicksInv
    BY DEF SchedInv
  <2>2. CASE due' = [due EXCEPT ![t] = <<>>]
    BY <1>1, <2>1, <2>2, TickLetsGo
  <2>3. CASE due' = due /\ tpc[t] = "enqueue"
    <3>1. DOMAIN due[t] = {}
      BY <2>1, <2>3 DEF TicksInv
    <3>2. TicksInv'
      BY <1>1, <2>1, <2>3, <3>1 DEF TicksInv, TypeOK
    <3>3. QED
      BY <2>3, <3>2 DEF TypeOK
  <2>4. QED
    BY <1>3, <2>2, <2>3
<1>5. tpc' \in [Ticks -> {"idle", "commit", "enqueue"}]
  BY <1>1 DEF TypeOK
<1>6. TypeOK'
  BY <1>1, <1>2, <1>4, <1>5 DEF TypeOK
<1>7. EditsInv' /\ RowsInv' /\ EnabledHasNextRun'
  BY <1>1 DEF SchedInv, EditsInv, RowsInv, EnabledHasNextRun, Live
<1>8. QED
  BY <1>4, <1>6, <1>7 DEF SchedInv

\* The invariant is inductive, whatever the number of ticks.
LEMMA SchedStep == TypeOK /\ SchedInv /\ [Next]_vars => TypeOK' /\ SchedInv'
<1> SUFFICES ASSUME TypeOK, SchedInv, [Next]_vars PROVE TypeOK' /\ SchedInv'
  OBVIOUS
<1>1. CASE TimePasses \/ \E c \in Timings : TimingBreaks(c)
  BY <1>1, TimeKeeps
<1>2. CASE Api
  <2>1. CASE \E s \in Schedules, c \in Timings, b \in BOOLEAN : CreateSchedule(s, c, b)
    BY <2>1, CreateKeeps
  <2>2. CASE \E e \in Editors, s \in Schedules, tc, b \in BOOLEAN, c \in Timings :
                ReadForUpdate(e, s, tc, c, b)
    BY <2>2, ReadKeeps
  <2>3. CASE \E e \in Editors : CommitUpdate(e)
    BY <2>3, CommitKeeps
  <2>4. CASE \E s \in Schedules : DeleteSchedule(s)
    BY <2>4, DeleteKeeps
  <2>5. QED
    BY <1>2, <2>1, <2>2, <2>3, <2>4 DEF Api
<1>3. CASE \E t \in Ticks : Tick(t) \/ TickDies(t)
  BY <1>3, SelectKeeps, CommitTickKeeps, EnqueueKeeps, EndKeeps DEF Tick
<1>4. CASE UNCHANGED vars
  <2>1. TypeOK'
    BY <1>4 DEF TypeOK, vars, tickVars, editVars
  <2>2. now' >= now /\ UNCHANGED <<phase, row, due, tpc, at, editing, old, new>>
    BY <1>4 DEF TypeOK, vars, tickVars, editVars
  <2>3. QED
    BY <2>1, <2>2, QuietStep
<1>5. QED
  BY <1>1, <1>2, <1>3, <1>4 DEF Next

\* The scheduler's state stays well formed.
THEOREM SchedulerTypeCorrect == Spec => []TypeOK
<1>1. Init => TypeOK /\ SchedInv
  BY InitInv
<1>2. QED
  BY <1>1, SchedStep, PTL DEF Spec

\* No interleaving of overlapping ticks, updates, creations and deletions
\* leaves an enabled schedule without a next_run.
THEOREM EnabledKeepsNextRun == Spec => []EnabledHasNextRun
<1>1. Init => TypeOK /\ SchedInv
  BY InitInv
<1>2. SchedInv => EnabledHasNextRun
  BY DEF SchedInv
<1>3. QED
  BY <1>1, <1>2, SchedStep, PTL DEF Spec

-----------------------------------------------------------------------------
(* One tick at a time.                                                     *)

\* A step that no tick takes leaves last_run of what a tick has selected.
LEMMA LastKept ==
  ASSUME TypeOK, SchedInv, LastInv, OneTick, Next
  PROVE  LastInv'
<1>0. \A t \in Ticks : \A s \in DOMAIN due[t] : s \in Schedules /\ phase[s] # "new"
  BY DEF TypeOK, SchedInv, TicksInv
<1>1. CASE TimePasses \/ \E c \in Timings : TimingBreaks(c)
  <2>1. UNCHANGED <<phase, row, due>>
    BY <1>1 DEF TimePasses, TimingBreaks, tickVars
  <2>2. QED
    BY <2>1 DEF LastInv, Live
<1>2. CASE \E s \in Schedules, c \in Timings, b \in BOOLEAN : CreateSchedule(s, c, b)
  <2>1. PICK s \in Schedules : /\ phase[s] = "new" /\ phase' = [phase EXCEPT ![s] = "live"]
                               /\ due' = due /\ \A x \in Schedules : x # s => row'[x] = row[x]
    BY <1>2 DEF CreateSchedule, tickVars, TypeOK
  <2>2. QED
    BY <1>0, <2>1 DEF LastInv, Live, TypeOK
<1>3. CASE \E e \in Editors, s \in Schedules, tc, b \in BOOLEAN, c \in Timings :
              ReadForUpdate(e, s, tc, c, b)
  <2>1. UNCHANGED <<phase, row, due>>
    BY <1>3 DEF ReadForUpdate, tickVars
  <2>2. QED
    BY <2>1 DEF LastInv, Live
<1>4. CASE \E e \in Editors : CommitUpdate(e)
  <2>1. PICK e \in Editors : CommitUpdate(e)
    BY <1>4
  <2>2. UNCHANGED <<phase, due>>
    BY <2>1 DEF CommitUpdate, tickVars
  <2>3. \A x \in Live : row'[x].last = row[x].last
    <3>1. CASE editing[e] \in Live
      <4>1. Flush(row[editing[e]], old[e], new[e]).last = row[editing[e]].last
        BY <3>1, CommitWrites
      <4>2. row' = [row EXCEPT ![editing[e]] = Flush(row[editing[e]], old[e], new[e])]
        BY <2>1, <3>1 DEF CommitUpdate
      <4>3. QED
        BY <4>1, <4>2 DEF TypeOK, Live
    <3>2. CASE editing[e] \notin Live
      BY <2>1, <3>2 DEF CommitUpdate
    <3>3. QED
      BY <3>1, <3>2
  <2>4. QED
    BY <2>2, <2>3 DEF LastInv, Live
<1>5. CASE \E s \in Schedules : DeleteSchedule(s)
  BY <1>0, <1>5 DEF DeleteSchedule, tickVars, LastInv, Live, TypeOK
<1>6. CASE \E t \in Ticks : SelectDue(t)
  <2>1. PICK t \in Ticks : /\ due' = [due EXCEPT ![t] = [s \in {s \in Schedules : IsDue(s)} |-> row[s]]]
                           /\ UNCHANGED <<phase, row>>
    BY <1>6 DEF SelectDue
  <2>2. \A u \in Ticks : \A s \in DOMAIN due'[u] : due'[u][s] = row[s]
    BY <2>1 DEF TypeOK, OneTick
  <2>3. QED
    BY <2>1, <2>2 DEF LastInv, Live
<1>7. CASE \E t \in Ticks : CommitTick(t) \/ TickDies(t)
  <2>1. PICK t \in Ticks : due' = [due EXCEPT ![t] = <<>>]
    BY <1>7 DEF CommitTick, TickDies
  <2>2. \A u \in Ticks : DOMAIN due'[u] = {}
    BY <2>1 DEF TypeOK, OneTick
  <2>3. QED
    BY <2>2 DEF LastInv
<1>8. CASE \E t \in Ticks : EnqueueOne(t) \/ EndTick(t)
  <2>1. UNCHANGED <<phase, row, due>>
    BY <1>8 DEF EnqueueOne, EndTick
  <2>2. QED
    BY <2>1 DEF LastInv, Live
<1>9. QED
  BY <1>1, <1>2, <1>3, <1>4, <1>5, <1>6, <1>7, <1>8 DEF Next, Api, Tick

\* A step that creates no run, before the first update.
LEMMA FiringQuiet ==
  ASSUME TypeOK, FiringInv, edits = 0,
         UNCHANGED <<editing, runs>>,
         \A s \in Schedules : phase[s] # "new" => phase'[s] # "new",
         \A s \in Schedules : phase[s] # "new" /\ phase'[s] = "live" =>
            phase[s] = "live" /\ row'[s] = row[s],
         \A t \in Ticks : \A s \in DOMAIN due'[t] :
            s \in Schedules /\ (phase'[s] = "live" => row'[s] = due'[t][s])
  PROVE  FiringInv'
<1>1. \A e \in Editors : editing'[e] = Idle
  BY DEF FiringInv
<1>2. \A s \in Schedules : \A v \in 1..MaxTime :
              /\ runs'[s][v] <= 1
              /\ runs'[s][v] = 1 => /\ phase'[s] # "new"
                                    /\ phase'[s] = "live" /\ row'[s].enabled => v < row'[s].next
  BY DEF FiringInv, Live
<1>3. QED
  BY <1>1, <1>2 DEF FiringInv, Live

LEMMA FiringKept ==
  ASSUME TypeOK, SchedInv, FiringInv, OneTick, Next
  PROVE  FiringInv'
<1>0. /\ \A t \in Ticks : \A s \in DOMAIN due[t] : s \in Schedules /\ phase[s] # "new"
      /\ edits \in Nat
  BY DEF TypeOK, SchedInv, TicksInv
<1> SUFFICES ASSUME edits' = 0 PROVE FiringInv'
  BY DEF FiringInv
<1>a. edits = 0 /\ ~\E e \in Editors, s \in Schedules, tc, b \in BOOLEAN, c \in Timings :
                       ReadForUpdate(e, s, tc, c, b)
  <2>1. CASE \E e \in Editors, s \in Schedules, tc, b \in BOOLEAN, c \in Timings :
                ReadForUpdate(e, s, tc, c, b)
    <3>1. edits' = edits + 1
      BY <2>1 DEF ReadForUpdate
    <3>2. QED
      BY <1>0, <3>1
  <2>2. CASE ~\E e \in Editors, s \in Schedules, tc, b \in BOOLEAN, c \in Timings :
                 ReadForUpdate(e, s, tc, c, b)
    <3>1. edits' = edits
      BY <2>2 DEF Next, Api, Tick, TimePasses, TimingBreaks, CreateSchedule, CommitUpdate,
         DeleteSchedule, SelectDue, CommitTick, EnqueueOne, EndTick, TickDies
    <3>2. QED
      BY <2>2, <3>1
  <2>3. QED
    BY <2>1, <2>2
<1>b. ~\E e \in Editors : CommitUpdate(e)
  BY <1>a DEF FiringInv, CommitUpdate
<1>c. \A t \in Ticks : \A s \in DOMAIN due[t] : phase[s] = "live" => row[s] = due[t][s]
  BY <1>0, <1>a DEF FiringInv, Live
<1>1. CASE \/ TimePasses \/ \E c \in Timings : TimingBreaks(c)
           \/ \E t \in Ticks : EnqueueOne(t) \/ EndTick(t)
  <2>1. UNCHANGED <<phase, row, due, editing, runs>>
    BY <1>1 DEF TimePasses, TimingBreaks, tickVars, editVars, EnqueueOne, EndTick
  <2>2. QED
    BY <1>0, <1>a, <1>c, <2>1, FiringQuiet
<1>2. CASE \E s \in Schedules, c \in Timings, b \in BOOLEAN : CreateSchedule(s, c, b)
  <2>1. PICK s \in Schedules : /\ phase[s] = "new" /\ phase' = [phase EXCEPT ![s] = "live"]
                               /\ due' = due /\ \A x \in Schedules : x # s => row'[x] = row[x]
                               /\ UNCHANGED <<editing, runs>>
    BY <1>2 DEF CreateSchedule, tickVars, editVars, TypeOK
  <2>2. \A x \in Schedules : x # s => phase'[x] = phase[x]
    BY <2>1 DEF TypeOK
  <2>3. \A x \in Schedules : phase[x] # "new" => phase'[x] # "new"
    BY <2>1, <2>2
  <2>4. \A x \in Schedules : phase[x] # "new" /\ phase'[x] = "live" =>
           phase[x] = "live" /\ row'[x] = row[x]
    BY <2>1, <2>2
  <2>5. \A t \in Ticks : \A x \in DOMAIN due'[t] :
           x \in Schedules /\ (phase'[x] = "live" => row'[x] = due'[t][x])
    BY <1>0, <1>c, <2>1, <2>2
  <2>6. QED
    BY <1>a, <2>1, <2>3, <2>4, <2>5, FiringQuiet
<1>3. CASE \E s \in Schedules : DeleteSchedule(s)
  <2>1. PICK s \in Schedules : /\ phase' = [phase EXCEPT ![s] = "gone"]
                               /\ row' = [row EXCEPT ![s] = Blank]
                               /\ UNCHANGED <<due, editing, runs>>
    BY <1>3 DEF DeleteSchedule, tickVars, editVars
  <2>2. phase'[s] = "gone" /\ \A x \in Schedules : x # s => phase'[x] = phase[x] /\ row'[x] = row[x]
    BY <2>1 DEF TypeOK
  <2>3. QED
    BY <1>0, <1>a, <1>c, <2>1, <2>2, FiringQuiet
<1>4. CASE \E t \in Ticks : SelectDue(t)
  <2>1. PICK t \in Ticks : /\ due' = [due EXCEPT ![t] = [s \in {s \in Schedules : IsDue(s)} |-> row[s]]]
                           /\ UNCHANGED <<phase, row, editing, runs>>
    BY <1>4 DEF SelectDue, editVars
  <2>2. \A u \in Ticks : \A s \in DOMAIN due'[u] : s \in Schedules /\ due'[u][s] = row[s]
    BY <2>1 DEF TypeOK, OneTick
  <2>3. QED
    BY <1>a, <2>1, <2>2, FiringQuiet
<1>5. CASE \E t \in Ticks : TickDies(t) \/ (CommitTick(t) /\ ~(DOMAIN due[t] \subseteq Live))
  <2>1. PICK t \in Ticks : /\ due' = [due EXCEPT ![t] = <<>>]
                           /\ UNCHANGED <<phase, row, editing, runs>>
    BY <1>5 DEF CommitTick, TickDies, editVars
  <2>2. \A u \in Ticks : DOMAIN due'[u] = {}
    BY <2>1 DEF TypeOK, OneTick
  <2>3. QED
    BY <1>a, <2>1, <2>2, FiringQuiet
<1>6. CASE \E t \in Ticks : CommitTick(t) /\ DOMAIN due[t] \subseteq Live
  <2>1. PICK t \in Ticks : CommitTick(t) /\ DOMAIN due[t] \subseteq Live
    BY <1>6
  <2> DEFINE D == DOMAIN due[t]
             f(s) == Flush(row[s], due[t][s], Fired(due[t][s], at[t]))
  <2>2. /\ row' = [s \in Schedules |-> IF s \in D THEN f(s) ELSE row[s]]
        /\ runs' = [s \in Schedules |-> [v \in 1..MaxTime |->
                      IF <<s, v>> \in Firings(t) /\ runs[s][v] < 2
                      THEN runs[s][v] + 1 ELSE runs[s][v]]]
        /\ due' = [due EXCEPT ![t] = <<>>]
        /\ UNCHANGED <<phase, editing>>
    BY <2>1 DEF CommitTick, editVars
  <2>3. \A u \in Ticks : DOMAIN due'[u] = {}
    BY <2>2 DEF TypeOK, OneTick
  <2>4. \A s \in D : /\ s \in Schedules /\ phase[s] = "live" /\ row[s] = due[t][s]
                     /\ row[s].enabled /\ row[s].next \in 1..at[t]
    BY <1>0, <1>c, <2>1 DEF Live, SchedInv, TicksInv
  <2>5. \A s \in D : f(s).enabled => f(s).next > at[t]
    BY <2>1, TickWrites
  <2>6. \A s \in D : f(s) \in Rows
    BY <2>1, TickWrites
  <2> HIDE DEF f
  <2>7. ASSUME NEW s \in Schedules, NEW v \in 1..MaxTime
        PROVE  /\ runs'[s][v] <= 1
               /\ runs'[s][v] = 1 => /\ phase[s] # "new"
                                     /\ phase[s] = "live" /\ row'[s].enabled => v < row'[s].next
    <3>1. /\ runs[s][v] \in 0..2 /\ runs[s][v] <= 1
          /\ runs[s][v] = 1 => /\ phase[s] # "new"
                               /\ phase[s] = "live" /\ row[s].enabled => v < row[s].next
      BY <1>a DEF FiringInv, Live, TypeOK
    <3>2. runs'[s][v] = IF <<s, v>> \in Firings(t) /\ runs[s][v] < 2
                        THEN runs[s][v] + 1 ELSE runs[s][v]
      BY <2>2
    <3>3. <<s, v>> \in Firings(t) => s \in D /\ v = due[t][s].next
      BY DEF Firings
    <3>4. CASE s \notin D
      BY <2>2, <3>1, <3>2, <3>3, <3>4
    <3>5. CASE s \in D
      <4>1. row[s].next \in 1..at[t] /\ at[t] \in Nat /\ row'[s] = f(s) /\ f(s).next \in Nat
        BY <2>2, <2>4, <2>6, <3>5, RowFields DEF TypeOK
      <4>2. v <= row[s].next /\ row'[s].enabled => v < row'[s].next
        BY <2>5, <3>5, <4>1
      <4>3. runs[s][v] = 1 => v < row[s].next
        BY <2>4, <3>1, <3>5
      <4>4. CASE <<s, v>> \in Firings(t)
        <5>1. v = row[s].next
          BY <2>4, <3>3, <3>5, <4>4
        <5>2. runs[s][v] = 0
          BY <3>1, <4>1, <4>3, <5>1
        <5>3. runs'[s][v] = 1
          BY <3>2, <4>4, <5>2
        <5>4. QED
          BY <2>4, <3>5, <4>1, <4>2, <5>1, <5>3
      <4>5. CASE <<s, v>> \notin Firings(t)
        <5>1. runs'[s][v] = runs[s][v]
          BY <3>2, <4>5
        <5>2. QED
          BY <2>4, <3>1, <3>5, <4>1, <4>2, <4>3, <5>1
      <4>6. QED
        BY <4>4, <4>5
    <3>6. QED
      BY <3>4, <3>5
  <2>8. \A e \in Editors : editing'[e] = Idle
    BY <1>a, <2>2 DEF FiringInv
  <2>9. QED
    BY <2>2, <2>3, <2>7, <2>8 DEF FiringInv, Live
<1>7. QED
  BY <1>a, <1>b, <1>1, <1>2, <1>3, <1>4, <1>5, <1>6 DEF Next, Api, Tick

LEMMA SerialStep ==
  ASSUME OneTick
  PROVE  TypeOK /\ SchedInv /\ SerialInv /\ [Next]_vars => SerialInv'
<1> SUFFICES ASSUME TypeOK, SchedInv, SerialInv, [Next]_vars PROVE SerialInv'
  OBVIOUS
<1>1. CASE Next
  BY <1>1, LastKept, FiringKept DEF SerialInv
<1>2. CASE UNCHANGED vars
  BY <1>2 DEF SerialInv, LastInv, FiringInv, Live, vars, tickVars, editVars
<1>3. QED
  BY <1>1, <1>2

\* As long as ticks do not overlap, a schedule that nobody edits gets at most
\* one run for each instant it was due, however late the tick comes and
\* however many ticks die before their commit.
THEOREM FiresOnce ==
  ASSUME OneTick
  PROVE  Spec => []OneRunPerFiring
<1>1. SerialInv => OneRunPerFiring
  BY DEF SerialInv, FiringInv, OneRunPerFiring
<1>2. QED
  BY <1>1, InitInv, SchedStep, SerialStep, PTL DEF Spec

\* As long as ticks do not overlap, a fire moves last_run forward and
\* next_run past it, also over an update committed meanwhile.
THEOREM MisfiresAreNotBackfilled ==
  ASSUME OneTick
  PROVE  Spec => NoBackfill
<1> DEFINE Fire == \A s \in Schedules : runs'[s] # runs[s] /\ row'[s].enabled =>
                      /\ row'[s].last >= row[s].last
                      /\ row'[s].next > row'[s].last
<1>1. TypeOK /\ SchedInv /\ SerialInv /\ [Next]_vars => [Fire]_vars
  <2> SUFFICES ASSUME TypeOK, SchedInv, SerialInv, Next,
                      NEW s \in Schedules, runs'[s] # runs[s], row'[s].enabled
               PROVE  row'[s].last >= row[s].last /\ row'[s].next > row'[s].last
    OBVIOUS
  <2>1. PICK t \in Ticks : CommitTick(t)
    BY DEF Next, Api, Tick, TimePasses, TimingBreaks, CreateSchedule, ReadForUpdate,
       CommitUpdate, DeleteSchedule, SelectDue, EnqueueOne, EndTick, TickDies
  <2>2. DOMAIN due[t] \subseteq Live
    BY <2>1 DEF CommitTick
  <2>3. s \in DOMAIN due[t]
    <3>1. /\ runs'[s] = [v \in 1..MaxTime |->
                          IF <<s, v>> \in Firings(t) /\ runs[s][v] < 2
                          THEN runs[s][v] + 1 ELSE runs[s][v]]
          /\ runs[s] = [v \in 1..MaxTime |-> runs[s][v]]
      <4>1. runs[s] \in [1..MaxTime -> 0..2]
        BY DEF TypeOK
      <4>2. runs' = [x \in Schedules |-> [v \in 1..MaxTime |->
                       IF <<x, v>> \in Firings(t) /\ runs[x][v] < 2
                       THEN runs[x][v] + 1 ELSE runs[x][v]]]
        BY <2>1, <2>2 DEF CommitTick
      <4>3. runs'[s] = [v \in 1..MaxTime |->
                          IF <<s, v>> \in Firings(t) /\ runs[s][v] < 2
                          THEN runs[s][v] + 1 ELSE runs[s][v]]
        BY <4>2
      <4>4. QED
        BY <4>1, <4>3
    <3>2. \E v \in 1..MaxTime : <<s, v>> \in Firings(t)
      BY <3>1
    <3>3. QED
      BY <3>2 DEF Firings
  <2>4. row'[s] = Flush(row[s], due[t][s], Fired(due[t][s], at[t]))
    BY <2>1, <2>2, <2>3 DEF CommitTick
  <2>5. row[s].last = due[t][s].last
    BY <2>2, <2>3 DEF SerialInv, LastInv
  <2>6. row'[s].last = at[t] /\ row[s].last <= at[t] /\ row'[s].next > at[t]
    BY <2>2, <2>3, <2>4, <2>5, TickWrites
  <2>7. row[s] \in Rows /\ at[t] \in Nat
    BY DEF TypeOK
  <2>8. row[s].last \in Nat
    BY <2>7, RowFields
  <2>9. QED
    BY <2>6, <2>7, <2>8
<1>2. QED
  BY <1>1, InitInv, SchedStep, SerialStep, PTL DEF Spec, NoBackfill
=============================================================================
