------------------------ MODULE RunController_proofs ------------------------
(* Proofs about RunController, for any runs, logs and clicks.              *)
EXTENDS RunController, FiniteSetTheorems, WellFoundedInduction, TLAPS

-----------------------------------------------------------------------------
(* The inductive invariant.                                                *)

\* Every request or stream under way goes back to an act of the user of its
\* own, so a slot is free when one is needed.
SlotInv == Cardinality(Open) + Cardinality(Pending) <= acts

\* A status once terminal is final, and what was read with it is complete.
\* Without faults a run is finalized after its end only.
ServerInv ==
    /\ \A s \in Open : streams[s].told \in Terminal => db[streams[s].run].status \in Terminal
    /\ \A c \in Pending :
          /\ calls[c].kind # "trigger" => calls[c].run # None
          /\ calls[c].reply \notin {Waiting, Lost} => calls[c].run # None
          /\ calls[c].reply.status \in Terminal => calls[c].reply = db[calls[c].run]
          /\ faults = {} => calls[c].reply # Lost
          /\ faults = {} /\ calls[c].kind = "finalize" =>
                /\ db[calls[c].run].status \in Terminal
                /\ calls[c].reply # Waiting => calls[c].reply = db[calls[c].run]

\* A stream is attached to a view that shows something.
IdleInv == view.status = "idle" => Open = {}

\* As long as the user waits, there is one request or one stream at a time, and
\* it belongs to the run on view, which a new run has not reached yet.
TurnInv ==
    ~overlap =>
        /\ Open \subseteq {abortRef}
        /\ \A c, d \in Pending : c = d
        /\ Pending # {} => Open = {}
        /\ \A s \in Open : streams[s].run = view.runId
        /\ \A c \in Pending : /\ calls[c].kind = "trigger" => view.logs = <<>>
                              /\ calls[c].kind = "finalize" => calls[c].run = view.runId

ControllerInv ==
    /\ SlotInv /\ ServerInv /\ IdleInv /\ TurnInv
    /\ SettledViewIsTrue /\ OwnLogs

-----------------------------------------------------------------------------
(* Lemmas about slots.                                                     *)

LEMMA SlotCount ==
  ASSUME NEW S \in SUBSET Slots
  PROVE  /\ IsFiniteSet(S) /\ Cardinality(S) \in Nat
         /\ \A x \in S : Cardinality(S \ {x}) = Cardinality(S) - 1
         /\ \A x \in Slots \ S : Cardinality(S \cup {x}) = Cardinality(S) + 1
         /\ \A T \in SUBSET S : Cardinality(T) <= Cardinality(S)
<1>1. IsFiniteSet(Slots)
  BY FS_Interval, ControllerAssumption DEF Slots
<1>2. IsFiniteSet(S) /\ Cardinality(S) \in Nat
  BY <1>1, FS_Subset, FS_CardinalityType
<1>3. \A x \in S : Cardinality(S \ {x}) = Cardinality(S) - 1
  BY <1>2, FS_RemoveElement
<1>4. \A x \in Slots \ S : Cardinality(S \cup {x}) = Cardinality(S) + 1
  BY <1>2, FS_AddElement
<1>5. \A T \in SUBSET S : Cardinality(T) <= Cardinality(S)
  BY <1>2, FS_Subset
<1>6. QED
  BY <1>2, <1>3, <1>4, <1>5

LEMMA FreeSlot ==
  ASSUME NEW f, NEW e, Cardinality({s \in Slots : f[s] # e}) < MaxActs
  PROVE  FreeIn(f, e) \in Slots /\ f[FreeIn(f, e)] = e
<1> DEFINE T == {s \in Slots : f[s] = e}
           R == OpToRel(<, Nat)
<1>1. T # {} /\ T \subseteq Nat
  <2>1. Cardinality(Slots) = MaxActs /\ MaxActs \in Nat
    BY FS_Interval, ControllerAssumption DEF Slots
  <2>2. {s \in Slots : f[s] # e} # Slots
    BY <2>1
  <2>3. QED
    BY <2>2 DEF Slots
<1>2. IsWellFoundedOn(R, Nat)
  BY NatLessThanWellFounded
<1>3. \A x, y \in Nat : x < y => <<x, y>> \in R
  BY DEF OpToRel
<1> HIDE DEF R
<1>4. PICK x \in T : \A y \in T : ~(<<y, x>> \in R)
  BY <1>1, <1>2, WFMin
<1>5. x \in Slots /\ f[x] = e /\ \A t \in 1..(x - 1) : f[t] # e
  <2> SUFFICES ASSUME NEW t \in 1..(x - 1), f[t] = e PROVE FALSE
    OBVIOUS
  <2>1. x \in Nat /\ x \in 1..MaxActs /\ MaxActs \in Nat
    BY <1>1, ControllerAssumption DEF Slots
  <2>2. t \in Slots /\ t \in Nat /\ t < x
    BY <2>1 DEF Slots
  <2>3. QED
    BY <1>3, <1>4, <2>1, <2>2
<1>6. QED
  BY <1>5 DEF FreeIn

LEMMA FaultsFinite ==
  ASSUME faults \subseteq FaultKinds
  PROVE  IsFiniteSet(faults) /\ Cardinality(faults) \in Nat
         /\ \A k : Cardinality(faults \cup {k}) <= Cardinality(faults) + 1
<1>1. IsFiniteSet(FaultKinds)
  <2> DEFINE A == {"trigger", "show", "finalize"}
             B == A \cup {"error"} \cup {"timeout"}
  <2>1. IsFiniteSet({} \cup {"trigger"} \cup {"show"} \cup {"finalize"})
    BY FS_EmptySet, FS_AddElement
  <2>2. A = {} \cup {"trigger"} \cup {"show"} \cup {"finalize"}
    OBVIOUS
  <2>3. IsFiniteSet(A)
    BY <2>1, <2>2
  <2> HIDE DEF A
  <2>4. IsFiniteSet(B)
    BY <2>3, FS_AddElement
  <2> HIDE DEF B
  <2>5. IsFiniteSet(B \cup {"eof"})
    BY <2>4, FS_AddElement
  <2>6. FaultKinds = B \cup {"eof"}
    BY DEF FaultKinds, A, B
  <2>7. QED
    BY <2>5, <2>6
<1>2. IsFiniteSet(faults) /\ Cardinality(faults) \in Nat
  BY <1>1, FS_Subset, FS_CardinalityType
<1>3. QED
  BY <1>2, FS_AddElement

LEMMA FaultAdded ==
  ASSUME TypeOK, MayFail, NEW k \in FaultKinds, faults' = faults \cup {k}
  PROVE  faults' \subseteq FaultKinds /\ Cardinality(faults') <= MaxFaults /\ faults' # {}
<1> DEFINE n == Cardinality(faults)  m == Cardinality(faults')
<1>1. n \in Nat /\ m <= n + 1 /\ n < MaxFaults
  BY FaultsFinite DEF TypeOK, MayFail
<1>2. m \in Nat
  <2>1. IsFiniteSet(faults \cup {k})
    BY FaultsFinite, FS_AddElement DEF TypeOK
  <2>2. QED
    BY <2>1, FS_CardinalityType
<1> HIDE DEF n, m
<1>3. m <= MaxFaults
  BY <1>1, <1>2, ControllerAssumption
<1>4. QED
  BY <1>3 DEF m, TypeOK

-----------------------------------------------------------------------------
(* What the building blocks of the handlers do.                            *)

LEMMA TypesOfSlots ==
  ASSUME TypeOK
  PROVE  /\ \A s \in Open : streams[s] \in StreamType /\ s \in Slots
         /\ \A c \in Pending : calls[c] \in CallType /\ c \in Slots
         /\ DOMAIN streams = Slots /\ DOMAIN calls = Slots
BY DEF TypeOK, Open, Pending

LEMMA Asking ==
  ASSUME TypeOK, Cardinality(Pending) < MaxActs, NEW k \in {"trigger", "show", "finalize"},
         NEW r \in Runs \cup {None}, Ask(k, r)
  PROVE  \E c \in Slots \ Pending :
            /\ calls' \in [Slots -> CallType \cup {NoCall}]
            /\ Pending' = Pending \cup {c}
            /\ Cardinality(Pending') = Cardinality(Pending) + 1
            /\ calls'[c] = [kind |-> k, run |-> r, reply |-> Waiting]
            /\ \A d \in Pending : calls'[d] = calls[d]
<1> DEFINE c == FreeIn(calls, NoCall)
           x == [kind |-> k, run |-> r, reply |-> Waiting]
<1>1. c \in Slots /\ calls[c] = NoCall
  BY FreeSlot DEF Pending
<1>2. x # NoCall /\ x \in CallType
  BY DEF NoCall, None, CallType
<1>3. calls' = [calls EXCEPT ![c] = x]
  BY DEF Ask
<1> HIDE DEF c, x
<1>4. Pending' = Pending \cup {c} /\ Cardinality(Pending') = Cardinality(Pending) + 1
  <2>1. c \in Slots \ Pending /\ Pending \subseteq Slots
    BY <1>1 DEF Pending
  <2>2. Pending' = Pending \cup {c}
    BY <1>1, <1>2, <1>3, TypesOfSlots DEF Pending
  <2>3. QED
    BY <2>1, <2>2, SlotCount
<1>5. c \in Slots \ Pending
  BY <1>1 DEF Pending
<1>6. calls' \in [Slots -> CallType \cup {NoCall}] /\ calls'[c] = x
  BY <1>1, <1>2, <1>3 DEF TypeOK
<1>7. \A d \in Pending : calls'[d] = calls[d]
  BY <1>3, <1>5, TypesOfSlots DEF Pending
<1>8. QED
  BY <1>4, <1>5, <1>6, <1>7 DEF x

LEMMA Attaching ==
  ASSUME TypeOK, Cardinality(Open) < MaxActs, NEW r \in Runs, Attach(r)
  PROVE  /\ abortRef' \in Slots \ Open
         /\ streams' \in [Slots -> StreamType \cup {NoStream}]
         /\ Open' = Open \cup {abortRef'}
         /\ Cardinality(Open') = Cardinality(Open) + 1
         /\ streams'[abortRef'] = [run |-> r, sent |-> 0, told |-> None]
         /\ \A s \in Open : streams'[s] = streams[s]
<1> DEFINE c == FreeIn(streams, NoStream)
           x == [run |-> r, sent |-> 0, told |-> None]
<1>1. c \in Slots /\ streams[c] = NoStream
  BY FreeSlot DEF Open
<1>2. x # NoStream /\ x \in StreamType /\ x = [NoStream EXCEPT !.run = r]
  BY ControllerAssumption DEF NoStream, None, StreamType
<1>3. streams' = [streams EXCEPT ![c] = x] /\ abortRef' = c
  BY <1>2 DEF Attach
<1> HIDE DEF c, x
<1>4. Open' = Open \cup {c} /\ Cardinality(Open') = Cardinality(Open) + 1
  <2>1. c \in Slots \ Open /\ Open \subseteq Slots
    BY <1>1 DEF Open
  <2>2. Open' = Open \cup {c}
    BY <1>1, <1>2, <1>3, TypesOfSlots DEF Open
  <2>3. QED
    BY <2>1, <2>2, SlotCount
<1>5. c \in Slots \ Open
  BY <1>1 DEF Open
<1>6. streams' \in [Slots -> StreamType \cup {NoStream}] /\ streams'[c] = x
  BY <1>1, <1>2, <1>3 DEF TypeOK
<1>7. \A d \in Open : streams'[d] = streams[d]
  BY <1>3, <1>5, TypesOfSlots DEF Open
<1>8. QED
  BY <1>3, <1>4, <1>5, <1>6, <1>7 DEF x

LEMMA Returning ==
  ASSUME TypeOK, NEW c \in Pending, Return(c)
  PROVE  /\ calls' \in [Slots -> CallType \cup {NoCall}]
         /\ Pending' = Pending \ {c}
         /\ Cardinality(Pending') = Cardinality(Pending) - 1
         /\ \A d \in Pending \ {c} : calls'[d] = calls[d]
<1>1. c \in Slots /\ calls[c] # NoCall
  BY DEF Pending
<1>2. Pending' = Pending \ {c} /\ Cardinality(Pending') = Cardinality(Pending) - 1
  <2>1. Pending' = Pending \ {c} /\ Pending \subseteq Slots
    BY <1>1, TypesOfSlots DEF Return, Pending
  <2>2. QED
    BY <2>1, SlotCount
<1>3. QED
  BY <1>1, <1>2, TypesOfSlots DEF Return, TypeOK, Pending

LEMMA Stopping ==
  ASSUME TypeOK
  PROVE  /\ Stopped \in [Slots -> StreamType \cup {NoStream}]
         /\ {s \in Slots : Stopped[s] # NoStream} = Open \ {abortRef}
         /\ \A s \in Open \ {abortRef} : Stopped[s] = streams[s]
<1>1. CASE abortRef = 0
  BY <1>1 DEF Stopped, TypeOK, Open, Slots
<1>2. CASE abortRef \in Slots
  <2>1. abortRef # 0
    BY <1>2 DEF Slots
  <2>2. Stopped = [streams EXCEPT ![abortRef] = NoStream]
    BY <2>1 DEF Stopped
  <2>3. QED
    BY <1>2, <2>2, TypesOfSlots DEF TypeOK, Open
<1>3. QED
  BY <1>1, <1>2 DEF TypeOK

LEMMA RunFacts ==
  ASSUME TypeOK, NEW r \in Existing
  PROVE  /\ r \in Runs /\ r # None
         /\ db[r] \in RunType /\ db[r] \notin {Waiting, Lost}
         /\ db[r].status \in Statuses /\ db[r].logs \in 0..MaxLogs
<1>1. r \in Runs /\ db[r] \in RunType
  BY DEF TypeOK, Existing
<1>2. Waiting \notin RunType /\ Lost \notin RunType
  BY DEF Waiting, Lost, RunType, Statuses, Terminal
<1>3. QED
  BY <1>1, <1>2, ControllerAssumption DEF RunType

LEMMA LogsType ==
  ASSUME NEW r \in Runs, NEW n \in 0..MaxLogs
  PROVE  /\ LogsOf(r, n) \in Seq(Runs \X (1..MaxLogs))
         /\ Len(LogsOf(r, n)) = n
         /\ \A i \in 1..n : LogsOf(r, n)[i][1] = r
<1>1. n \in Nat /\ \A i \in 1..n : i \in 1..MaxLogs
  BY ControllerAssumption
<1>2. QED
  BY <1>1 DEF LogsOf

\* An answered request names a run, and its reply is a run's.
LEMMA AnswerFacts ==
  ASSUME TypeOK, ServerInv, NEW c \in Slots, NEW k \in {"trigger", "show", "finalize"},
         Answered(c, k)
  PROVE  /\ c \in Pending /\ calls[c].run \in Existing
         /\ calls[c].reply \in RunType
         /\ calls[c].reply.status \in Statuses /\ calls[c].reply.logs \in 0..MaxLogs
<1>1. c \in Pending
  BY DEF Answered, Pending, NoCall, None
<1>2. calls[c] \in CallType
  BY <1>1, TypesOfSlots
<1>3. calls[c].run \in Existing
  BY <1>1 DEF Answered, ServerInv, TypeOK
<1>4. calls[c].reply \in RunType
  BY <1>2 DEF Answered, CallType
<1>5. QED
  BY <1>1, <1>3, <1>4 DEF RunType

LEMMA RejectFacts ==
  ASSUME TypeOK, ServerInv, NEW c \in Slots, NEW k \in {"trigger", "show", "finalize"},
         Rejected(c, k)
  PROVE  c \in Pending /\ faults # {}
<1>1. c \in Pending
  BY DEF Rejected, Pending, NoCall, None
<1>2. QED
  BY <1>1 DEF Rejected, ServerInv

-----------------------------------------------------------------------------
(* The server.                                                             *)

LEMMA ProgressInv ==
  ASSUME TypeOK, ControllerInv, NEW r \in Runs, Progress(r)
  PROVE  TypeOK' /\ ControllerInv'
<1>1. db[r].status \in {"queued", "running"} /\ db[r] \in RunType
  <2>1. db[r].status \in {"queued", "running"}
    BY DEF Progress
  <2>2. QED
    BY <2>1 DEF TypeOK, Absent
<1>2. db'[r] \in RunType /\ db'[r].logs >= db[r].logs /\ \A x \in Runs \ {r} : db'[x] = db[x]
  BY <1>1, ControllerAssumption DEF Progress, TypeOK, RunType, Statuses, Terminal
<1>3. db' \in [Runs -> RunType \cup {Absent}]
  BY <1>2 DEF Progress, TypeOK
<1>4. UNCHANGED <<view, streams, abortRef, calls, acts, faults, overlap>>
  BY DEF Progress
<1>5. Existing' = Existing /\ r \in Existing
  BY <1>1, <1>2 DEF Existing, Absent, RunType, Statuses, Terminal
<1>6. Open' = Open /\ Pending' = Pending
  BY <1>4 DEF Open, Pending
<1>7. \A x \in Existing : db[x].status \in Terminal => db'[x] = db[x]
  BY <1>1, <1>2 DEF Existing, Terminal
<1>8. \A x \in Existing : db'[x].logs >= db[x].logs /\ db'[x].logs \in Nat /\ db[x].logs \in Nat
  BY <1>1, <1>2, RunFacts, ControllerAssumption DEF Existing, RunType
<1>9. TypeOK'
  <2>1. \A s \in Open : streams[s].run \in Existing /\ streams[s].sent <= db'[streams[s].run].logs
    BY <1>8, TypesOfSlots DEF TypeOK, StreamType
  <2>2. QED
    BY <1>3, <1>4, <1>5, <1>6, <2>1 DEF TypeOK
<1>10. SlotInv' /\ IdleInv' /\ TurnInv' /\ OwnLogs'
  BY <1>4, <1>6 DEF ControllerInv, SlotInv, IdleInv, TurnInv, OwnLogs
<1>11. ServerInv'
  <2>1. \A s \in Open : streams[s].told \in Terminal => db'[streams[s].run].status \in Terminal
    BY <1>7 DEF ControllerInv, ServerInv, TypeOK
  <2>2. ASSUME NEW c \in Pending
        PROVE  /\ calls[c].reply.status \in Terminal => calls[c].reply = db'[calls[c].run]
               /\ faults = {} /\ calls[c].kind = "finalize" =>
                     /\ db'[calls[c].run].status \in Terminal
                     /\ calls[c].reply # Waiting => calls[c].reply = db'[calls[c].run]
    <3>1. calls[c].run \in Existing \cup {None}
      BY DEF TypeOK
    <3>2. calls[c].reply.status \in Terminal => calls[c].run \in Existing
      BY <3>1 DEF ControllerInv, ServerInv, Waiting, Lost, Terminal
    <3>3. calls[c].kind = "finalize" => calls[c].run \in Existing
      BY <3>1 DEF ControllerInv, ServerInv
    <3>4. QED
      BY <1>7, <3>2, <3>3 DEF ControllerInv, ServerInv
  <2>3. QED
    BY <1>4, <1>6, <2>1, <2>2 DEF ControllerInv, ServerInv
<1>12. SettledViewIsTrue'
  <2>1. Quiet' <=> Quiet
    BY <1>6 DEF Quiet
  <2>2. view.runId # None => view.runId \in Existing
    BY DEF TypeOK
  <2>3. QED
    BY <1>4, <1>7, <2>1, <2>2 DEF ControllerInv, SettledViewIsTrue
<1>13. QED
  BY <1>9, <1>10, <1>11, <1>12 DEF ControllerInv

LEMMA CreateInv ==
  ASSUME TypeOK, ControllerInv, NEW c \in Slots, Create(c)
  PROVE  TypeOK' /\ ControllerInv'
<1>1. PICK r \in Runs \ Existing :
        /\ db' = [db EXCEPT ![r] = [status |-> "queued", logs |-> 0]]
        /\ calls' = [calls EXCEPT ![c].run = r]
  BY DEF Create
<1>2. c \in Pending /\ calls[c] \in CallType
  BY TypesOfSlots DEF Create, Pending, NoCall, None
<1>3. calls[c].kind = "trigger" /\ calls[c].reply = Waiting
  BY DEF Create
<1>4. UNCHANGED <<view, streams, abortRef, acts, faults, overlap>>
  BY DEF Create
<1>5. db'[r] = [status |-> "queued", logs |-> 0] /\ \A x \in Existing : db'[x] = db[x]
  BY <1>1 DEF TypeOK, Existing
<1>6. db' \in [Runs -> RunType \cup {Absent}]
  BY <1>1, ControllerAssumption DEF TypeOK, RunType, Statuses
<1>7. Existing \subseteq Existing' /\ r \in Existing'
  BY <1>1, <1>5 DEF Existing, Absent
<1>8. /\ calls'[c] = [calls[c] EXCEPT !.run = r]
      /\ \A d \in Slots \ {c} : calls'[d] = calls[d]
  BY <1>1, TypesOfSlots
<1>9. /\ calls'[c].kind = "trigger" /\ calls'[c].reply = Waiting /\ calls'[c].run = r
      /\ calls'[c] \in CallType
  BY <1>2, <1>3, <1>8 DEF CallType
<1>10. calls' \in [Slots -> CallType \cup {NoCall}]
  BY <1>1, <1>9, TypesOfSlots DEF TypeOK
<1>11. Open' = Open /\ Pending' = Pending
  BY <1>2, <1>4, <1>8, <1>9 DEF Open, Pending, NoCall, None
<1>12. TypeOK'
  <2>1. \A s \in Open : /\ streams[s].run \in Existing'
                        /\ streams[s].sent <= db'[streams[s].run].logs
    BY <1>5, <1>7 DEF TypeOK
  <2>2. \A d \in Pending : calls'[d].run \in Existing' \cup {None}
    BY <1>7, <1>8, <1>9 DEF TypeOK, Pending
  <2>3. QED
    BY <1>4, <1>6, <1>7, <1>10, <1>11, <2>1, <2>2 DEF TypeOK
<1>13. SlotInv' /\ IdleInv' /\ OwnLogs'
  BY <1>4, <1>11 DEF ControllerInv, SlotInv, IdleInv, OwnLogs
<1>14. TurnInv'
  BY <1>3, <1>4, <1>8, <1>9, <1>11 DEF ControllerInv, TurnInv, Pending
<1>15. ServerInv'
  <2>1. \A s \in Open : streams[s].told \in Terminal => db'[streams[s].run].status \in Terminal
    BY <1>5 DEF ControllerInv, ServerInv, TypeOK
  <2>2. ASSUME NEW d \in Pending
        PROVE  /\ calls'[d].kind # "trigger" => calls'[d].run # None
               /\ calls'[d].reply \notin {Waiting, Lost} => calls'[d].run # None
               /\ calls'[d].reply.status \in Terminal => calls'[d].reply = db'[calls'[d].run]
               /\ faults = {} => calls'[d].reply # Lost
               /\ faults = {} /\ calls'[d].kind = "finalize" =>
                     /\ db'[calls'[d].run].status \in Terminal
                     /\ calls'[d].reply # Waiting => calls'[d].reply = db'[calls'[d].run]
    <3>1. CASE d = c
      BY <1>9, <3>1 DEF Waiting, Lost, Terminal
    <3>2. CASE d # c
      <4>1. calls'[d] = calls[d] /\ calls[d].run \in Existing \cup {None}
        BY <1>8, <3>2 DEF Pending, TypeOK
      <4>2. calls[d].reply.status \in Terminal => calls[d].run \in Existing
        BY <4>1 DEF ControllerInv, ServerInv, Waiting, Lost, Terminal
      <4>3. calls[d].kind = "finalize" => calls[d].run \in Existing
        BY <4>1 DEF ControllerInv, ServerInv
      <4>4. QED
        BY <1>5, <4>1, <4>2, <4>3 DEF ControllerInv, ServerInv
    <3>3. QED
      BY <3>1, <3>2
  <2>3. QED
    BY <1>4, <1>11, <2>1, <2>2 DEF ServerInv
<1>16. SettledViewIsTrue'
  BY <1>2, <1>11 DEF SettledViewIsTrue, Quiet
<1>17. QED
  BY <1>12, <1>13, <1>14, <1>15, <1>16 DEF ControllerInv

LEMMA AnswerInv ==
  ASSUME TypeOK, ControllerInv, NEW c \in Slots, Answer(c)
  PROVE  TypeOK' /\ ControllerInv'
<1>1. c \in Pending /\ calls[c] \in CallType /\ calls[c].run \in Existing
  <2>1. c \in Pending
    BY DEF Answer, Pending, NoCall
  <2>2. QED
    BY <2>1, TypesOfSlots DEF Answer, TypeOK
<1> DEFINE r == calls[c].run
<1>2. db[r] \in RunType /\ db[r] \notin {Waiting, Lost} /\ r # None
  BY <1>1, RunFacts
<1>3. UNCHANGED <<db, view, streams, abortRef, acts, faults, overlap>>
  BY DEF Answer
<1>4. /\ calls'[c] = [calls[c] EXCEPT !.reply = db[r]]
      /\ \A d \in Slots \ {c} : calls'[d] = calls[d]
  BY TypesOfSlots DEF Answer
<1>5. /\ calls'[c].kind = calls[c].kind /\ calls'[c].run = r /\ calls'[c].reply = db[r]
      /\ calls'[c] \in CallType
  BY <1>1, <1>2, <1>4 DEF CallType
<1>6. calls' \in [Slots -> CallType \cup {NoCall}]
  BY <1>4, <1>5, TypesOfSlots DEF TypeOK, Answer
<1>7. Open' = Open /\ Existing' = Existing
  BY <1>3 DEF Open, Existing
<1>8. Pending' = Pending
  BY <1>1, <1>2, <1>4, <1>5 DEF Pending, NoCall
<1>9. TypeOK'
  <2>1. \A d \in Pending : calls'[d].run \in Existing \cup {None}
    BY <1>1, <1>4, <1>5 DEF TypeOK, Pending
  <2>2. QED
    BY <1>3, <1>6, <1>7, <1>8, <2>1 DEF TypeOK
<1>10. SlotInv' /\ IdleInv' /\ OwnLogs'
  BY <1>3, <1>7, <1>8 DEF ControllerInv, SlotInv, IdleInv, OwnLogs
<1>11. TurnInv'
  <2>1. \A d \in Pending : calls'[d].kind = calls[d].kind /\ calls'[d].run = calls[d].run
    BY <1>4, <1>5 DEF Pending
  <2>2. QED
    BY <1>3, <1>7, <1>8, <2>1 DEF ControllerInv, TurnInv
<1>12. ServerInv'
  <2> HIDE DEF r
  <2>1. ASSUME NEW d \in Pending
        PROVE  /\ calls'[d].kind # "trigger" => calls'[d].run # None
               /\ calls'[d].reply \notin {Waiting, Lost} => calls'[d].run # None
               /\ calls'[d].reply.status \in Terminal => calls'[d].reply = db[calls'[d].run]
               /\ faults = {} => calls'[d].reply # Lost
               /\ faults = {} /\ calls'[d].kind = "finalize" =>
                     /\ db[calls'[d].run].status \in Terminal
                     /\ calls'[d].reply # Waiting => calls'[d].reply = db[calls'[d].run]
    <3>1. CASE d = c
      <4>1. faults = {} /\ calls[c].kind = "finalize" => db[r].status \in Terminal
        BY <1>1 DEF ControllerInv, ServerInv, r
      <4>2. QED
        BY <1>2, <1>5, <3>1, <4>1
    <3>2. CASE d # c
      <4>1. calls'[d] = calls[d]
        BY <1>4, <3>2 DEF Pending
      <4>2. QED
        BY <4>1 DEF ControllerInv, ServerInv
    <3>3. QED
      BY <3>1, <3>2
  <2>2. QED
    BY <1>3, <1>7, <1>8, <2>1 DEF ControllerInv, ServerInv
<1>13. SettledViewIsTrue'
  BY <1>1, <1>8 DEF SettledViewIsTrue, Quiet
<1>14. QED
  BY <1>9, <1>10, <1>11, <1>12, <1>13 DEF ControllerInv

LEMMA RefuseInv ==
  ASSUME TypeOK, ControllerInv, NEW c \in Slots, Refuse(c)
  PROVE  TypeOK' /\ ControllerInv'
<1>1. c \in Pending /\ calls[c] \in CallType /\ calls[c].reply = Waiting
  BY TypesOfSlots DEF Refuse, Pending, NoCall
<1>2. UNCHANGED <<db, view, streams, abortRef, acts, overlap>>
  BY DEF Refuse
<1>3. /\ calls'[c] = [calls[c] EXCEPT !.reply = Lost]
      /\ \A d \in Slots \ {c} : calls'[d] = calls[d]
  BY TypesOfSlots DEF Refuse
<1>4. /\ calls'[c].kind = calls[c].kind /\ calls'[c].run = calls[c].run
      /\ calls'[c].reply = Lost /\ calls'[c] \in CallType
  BY <1>1, <1>3 DEF CallType
<1>5. calls' \in [Slots -> CallType \cup {NoCall}]
  BY <1>3, <1>4, TypesOfSlots DEF TypeOK, Refuse
<1>6. Open' = Open /\ Existing' = Existing
  BY <1>2 DEF Open, Existing
<1>7. Pending' = Pending
  <2>1. Lost # Waiting
    BY DEF Lost, Waiting
  <2>2. QED
    BY <1>1, <1>3, <1>4, <2>1 DEF Pending, NoCall
<1>8. faults' \subseteq FaultKinds /\ Cardinality(faults') <= MaxFaults /\ faults' # {}
  <2>1. calls[c].kind \in FaultKinds
    BY <1>1 DEF CallType, FaultKinds
  <2>2. QED
    BY <2>1, FaultAdded DEF Refuse
<1>9. TypeOK'
  <2>1. \A d \in Pending : calls'[d].run \in Existing \cup {None}
    BY <1>1, <1>3, <1>4 DEF TypeOK, Pending
  <2>2. QED
    BY <1>2, <1>5, <1>6, <1>7, <1>8, <2>1 DEF TypeOK
<1>10. SlotInv' /\ IdleInv' /\ OwnLogs'
  BY <1>2, <1>6, <1>7 DEF ControllerInv, SlotInv, IdleInv, OwnLogs
<1>11. TurnInv'
  <2>1. \A d \in Pending : calls'[d].kind = calls[d].kind /\ calls'[d].run = calls[d].run
    BY <1>3, <1>4 DEF Pending
  <2>2. QED
    BY <1>2, <1>6, <1>7, <2>1 DEF ControllerInv, TurnInv
<1>12. ServerInv'
  <2>1. ASSUME NEW d \in Pending
        PROVE  /\ calls'[d].kind # "trigger" => calls'[d].run # None
               /\ calls'[d].reply \notin {Waiting, Lost} => calls'[d].run # None
               /\ calls'[d].reply.status \in Terminal => calls'[d].reply = db[calls'[d].run]
    <3>1. CASE d = c
      BY <1>1, <1>4, <3>1 DEF ControllerInv, ServerInv, Lost, Terminal
    <3>2. CASE d # c
      <4>1. calls'[d] = calls[d]
        BY <1>3, <3>2 DEF Pending
      <4>2. QED
        BY <4>1 DEF ControllerInv, ServerInv
    <3>3. QED
      BY <3>1, <3>2
  <2>2. QED
    BY <1>2, <1>6, <1>7, <1>8, <2>1 DEF ControllerInv, ServerInv
<1>13. SettledViewIsTrue'
  BY <1>1, <1>7 DEF SettledViewIsTrue, Quiet
<1>14. QED
  BY <1>9, <1>10, <1>11, <1>12, <1>13 DEF ControllerInv

-----------------------------------------------------------------------------
(* What the user does.                                                     *)

\* A step that leaves the server alone keeps ServerInv, if the streams and the
\* requests it leaves open are those before or such as ServerInv allows.
LEMMA ServerKept ==
  ASSUME TypeOK, ServerInv, db' = db, faults' = faults \/ faults' # {},
         \A s \in Open' :
            \/ s \in Open /\ streams'[s] = streams[s]
            \/ streams'[s].told \in Terminal => db[streams'[s].run].status \in Terminal,
         \A c \in Pending' :
            \/ c \in Pending /\ calls'[c] = calls[c]
            \/ /\ calls'[c].reply = Waiting
               /\ calls'[c].kind # "trigger" => calls'[c].run # None
               /\ faults' = {} /\ calls'[c].kind = "finalize" =>
                     db[calls'[c].run].status \in Terminal
  PROVE  ServerInv'
<1>1. \A s \in Open' : streams'[s].told \in Terminal => db[streams'[s].run].status \in Terminal
  BY DEF ServerInv
<1>2. ASSUME NEW c \in Pending'
      PROVE  /\ calls'[c].kind # "trigger" => calls'[c].run # None
             /\ calls'[c].reply \notin {Waiting, Lost} => calls'[c].run # None
             /\ calls'[c].reply.status \in Terminal => calls'[c].reply = db[calls'[c].run]
             /\ faults' = {} => calls'[c].reply # Lost
             /\ faults' = {} /\ calls'[c].kind = "finalize" =>
                   /\ db[calls'[c].run].status \in Terminal
                   /\ calls'[c].reply # Waiting => calls'[c].reply = db[calls'[c].run]
  <2>1. CASE c \in Pending /\ calls'[c] = calls[c]
    BY <2>1 DEF ServerInv
  <2>2. CASE ~(c \in Pending /\ calls'[c] = calls[c])
    BY <2>2 DEF Waiting, Lost, Terminal
  <2>3. QED
    BY <2>1, <2>2
<1>3. QED
  BY <1>1, <1>2 DEF ServerInv

LEMMA Halting ==
  ASSUME TypeOK, streams' = Stopped
  PROVE  /\ streams' \in [Slots -> StreamType \cup {NoStream}]
         /\ Open' = Open \ {abortRef}
         /\ Cardinality(Open') <= Cardinality(Open)
         /\ Cardinality(Open') \in Nat /\ Cardinality(Open) \in Nat
         /\ \A s \in Open' : streams'[s] = streams[s]
<1>1. Open' = Open \ {abortRef}
  BY Stopping DEF Open
<1>2. Open \in SUBSET Slots /\ Open' \in SUBSET Open
  BY <1>1 DEF Open
<1>3. QED
  BY <1>1, <1>2, Stopping, SlotCount

\* What trigger() and showRun() have in common.
LEMMA ActInv ==
  ASSUME TypeOK, ControllerInv, UserActs, UNCHANGED <<db, faults>>,
         streams' = Stopped, abortRef' = 0,
         NEW k \in {"trigger", "show"}, NEW r \in Existing \cup {None}, Ask(k, r),
         k = "show" => r # None, k = "trigger" => view'.logs = <<>>,
         view' \in ViewType, view'.runId \in Existing \cup {None},
         view'.status = "idle" => view' = Empty /\ view.status = "idle",
         OwnLogs'
  PROVE  TypeOK' /\ ControllerInv'
<1> DEFINE o == Cardinality(Open)  p == Cardinality(Pending)
<1>1. o \in Nat /\ p \in Nat /\ o + p <= acts /\ acts < MaxActs /\ acts \in Nat /\ acts' = acts + 1
  <2>1. o \in Nat /\ p \in Nat
    BY SlotCount DEF Open, Pending
  <2>2. acts \in Nat
    BY ControllerAssumption DEF TypeOK
  <2>3. QED
    BY <2>1, <2>2 DEF ControllerInv, SlotInv, UserActs
<1>2. p < MaxActs
  <2> HIDE DEF o, p
  <2>1. QED
    BY <1>1, ControllerAssumption
<1>3. PICK c \in Slots \ Pending :
         /\ calls' \in [Slots -> CallType \cup {NoCall}]
         /\ Pending' = Pending \cup {c}
         /\ Cardinality(Pending') = p + 1
         /\ calls'[c] = [kind |-> k, run |-> r, reply |-> Waiting]
         /\ \A d \in Pending : calls'[d] = calls[d]
  <2>1. r \in Runs \cup {None}
    BY DEF Existing
  <2>2. QED
    BY <1>2, <2>1, Asking
<1>4. calls'[c].kind = k /\ calls'[c].run = r /\ calls'[c].reply = Waiting
  BY <1>3
<1>5. Existing' = Existing
  BY DEF Existing
<1>6. overlap' \in BOOLEAN /\ (~overlap' => ~overlap /\ Pending = {})
  BY DEF UserActs, TypeOK
<1>7. TypeOK'
  <2>1. \A s \in Open' : /\ streams'[s].run \in Existing
                         /\ streams'[s].sent <= db[streams'[s].run].logs
    BY Halting DEF TypeOK
  <2>2. \A d \in Pending' : calls'[d].run \in Existing \cup {None}
    BY <1>3, <1>4 DEF TypeOK
  <2>3. acts' \in 0..MaxActs
    BY <1>1, ControllerAssumption
  <2>4. QED
    BY <1>3, <1>5, <1>6, <2>1, <2>2, <2>3, Halting DEF TypeOK
<1>8. SlotInv'
  <2> DEFINE o1 == Cardinality(Open')  p1 == Cardinality(Pending')
  <2>1. o1 \in Nat /\ o1 <= o /\ p1 = p + 1
    BY <1>3, Halting
  <2> HIDE DEF o, p, o1, p1
  <2>2. o1 + p1 <= acts'
    BY <1>1, <2>1
  <2>3. QED
    BY <2>2 DEF SlotInv, o1, p1
<1>9. ServerInv'
  <2>1. \A d \in Pending' :
            \/ d \in Pending /\ calls'[d] = calls[d]
            \/ /\ calls'[d].reply = Waiting
               /\ calls'[d].kind # "trigger" => calls'[d].run # None
               /\ faults' = {} /\ calls'[d].kind = "finalize" =>
                     db[calls'[d].run].status \in Terminal
    BY <1>3, <1>4
  <2>2. \A s \in Open' : s \in Open /\ streams'[s] = streams[s]
    BY Halting
  <2>3. QED
    BY <2>1, <2>2, ServerKept DEF ControllerInv
<1>10. IdleInv'
  BY Halting DEF ControllerInv, IdleInv
<1>11. TurnInv'
  <2> SUFFICES ASSUME ~overlap' PROVE TurnInv'
    BY DEF TurnInv
  <2>1. Open' = {}
    BY <1>6, Halting DEF ControllerInv, TurnInv
  <2>2. Pending' = {c}
    BY <1>3, <1>6
  <2>3. QED
    BY <1>4, <2>1, <2>2 DEF TurnInv
<1>12. SettledViewIsTrue'
  BY <1>3 DEF SettledViewIsTrue, Quiet
<1>13. QED
  BY <1>7, <1>8, <1>9, <1>10, <1>11, <1>12 DEF ControllerInv

LEMMA TriggerInv ==
  ASSUME TypeOK, ControllerInv, Trigger
  PROVE  TypeOK' /\ ControllerInv'
<1>1. view' = [runId |-> None, status |-> "queued", running |-> TRUE, logs |-> <<>>]
  BY DEF Trigger, Empty
<1>2. /\ view' \in ViewType /\ view'.runId = None
      /\ view'.status = "queued" /\ view'.logs = <<>>
  BY <1>1 DEF ViewType, Statuses
<1>3. OwnLogs'
  BY <1>2 DEF OwnLogs
<1>4. /\ UserActs /\ UNCHANGED <<db, faults>> /\ streams' = Stopped /\ abortRef' = 0
      /\ Ask("trigger", None)
  BY DEF Trigger
<1>5. QED
  BY <1>2, <1>3, <1>4, ActInv

LEMMA ShowRunInv ==
  ASSUME TypeOK, ControllerInv, NEW r \in Runs, ShowRun(r)
  PROVE  TypeOK' /\ ControllerInv'
<1>1. /\ UserActs /\ UNCHANGED <<db, view, faults>> /\ streams' = Stopped /\ abortRef' = 0
      /\ Ask("show", r) /\ r \in Existing
  BY DEF ShowRun
<1>2. r # None
  BY ControllerAssumption
<1>3. OwnLogs'
  <2>1. ~overlap' => ~overlap
    BY <1>1 DEF UserActs, TypeOK
  <2>2. QED
    BY <1>1, <2>1 DEF ControllerInv, OwnLogs
<1>4. /\ view' \in ViewType /\ view'.runId \in Existing \cup {None}
      /\ (view'.status = "idle" => view' = Empty /\ view.status = "idle")
  BY <1>1 DEF TypeOK
<1>5. QED
  BY <1>1, <1>2, <1>3, <1>4, ActInv

-----------------------------------------------------------------------------
(* Continuations.                                                          *)

\* What the continuations that attach no stream have in common.
LEMMA ReturnInv ==
  ASSUME TypeOK, ControllerInv, NEW c \in Pending, Return(c),
         UNCHANGED <<db, streams, abortRef, acts, faults, overlap>>,
         view' \in ViewType, view'.runId \in Existing \cup {None},
         view'.status = "idle" => view' = Empty /\ view.status = "idle",
         OwnLogs', SettledViewIsTrue'
  PROVE  TypeOK' /\ ControllerInv'
<1>1. /\ calls' \in [Slots -> CallType \cup {NoCall}]
      /\ Pending' = Pending \ {c}
      /\ Cardinality(Pending') = Cardinality(Pending) - 1
      /\ \A d \in Pending \ {c} : calls'[d] = calls[d]
  BY Returning
<1>2. Existing' = Existing /\ Open' = Open
  BY DEF Existing, Open
<1>3. TypeOK'
  <2>1. \A d \in Pending' : calls'[d].run \in Existing \cup {None}
    BY <1>1 DEF TypeOK
  <2>2. QED
    BY <1>1, <1>2, <2>1 DEF TypeOK
<1>4. SlotInv'
  <2> DEFINE o == Cardinality(Open)  p == Cardinality(Pending)  p1 == Cardinality(Pending')
  <2>1. o \in Nat /\ p \in Nat /\ p1 = p - 1 /\ o + p <= acts /\ acts \in Nat
    BY <1>1, SlotCount, ControllerAssumption DEF ControllerInv, SlotInv, TypeOK, Open, Pending
  <2> HIDE DEF o, p, p1
  <2>2. o + p1 <= acts
    BY <2>1
  <2>3. QED
    BY <1>2, <2>2 DEF SlotInv, o, p1
<1>5. ServerInv'
  <2>1. \A d \in Pending' : d \in Pending /\ calls'[d] = calls[d]
    BY <1>1
  <2>2. \A s \in Open' : s \in Open /\ streams'[s] = streams[s]
    BY <1>2
  <2>3. QED
    BY <2>1, <2>2, ServerKept DEF ControllerInv
<1>6. IdleInv'
  BY <1>2 DEF ControllerInv, IdleInv
<1>7. TurnInv'
  <2> SUFFICES ASSUME ~overlap' PROVE TurnInv'
    BY DEF TurnInv
  <2>1. Open' = {} /\ Pending' = {}
    BY <1>1, <1>2 DEF ControllerInv, TurnInv
  <2>2. QED
    BY <2>1 DEF TurnInv
<1>8. QED
  BY <1>3, <1>4, <1>5, <1>6, <1>7 DEF ControllerInv

\* What the continuations that attach the stream of a run have in common.
LEMMA AttachInv ==
  ASSUME TypeOK, ControllerInv, NEW c \in Pending, Return(c), NEW r \in Existing, Attach(r),
         UNCHANGED <<db, acts, faults, overlap>>,
         view' \in ViewType, view'.runId = r, view'.status # "idle", OwnLogs'
  PROVE  TypeOK' /\ ControllerInv'
<1> DEFINE o == Cardinality(Open)  p == Cardinality(Pending)
<1>1. /\ calls' \in [Slots -> CallType \cup {NoCall}]
      /\ Pending' = Pending \ {c}
      /\ Cardinality(Pending') = p - 1
      /\ \A d \in Pending \ {c} : calls'[d] = calls[d]
  BY Returning
<1>2. o \in Nat /\ p \in Nat /\ o + p <= acts /\ acts \in Nat /\ acts <= MaxActs
  BY SlotCount, ControllerAssumption DEF ControllerInv, SlotInv, TypeOK, Open, Pending
<1>3. p - 1 \in Nat
  BY <1>1, SlotCount DEF Pending
<1>4. o < MaxActs
  <2> HIDE DEF o, p
  <2>1. QED
    BY <1>2, <1>3, ControllerAssumption
<1>5. r \in Runs /\ db[r].logs \in 0..MaxLogs
  BY RunFacts
<1>6. /\ abortRef' \in Slots \ Open
      /\ streams' \in [Slots -> StreamType \cup {NoStream}]
      /\ Open' = Open \cup {abortRef'}
      /\ Cardinality(Open') = o + 1
      /\ streams'[abortRef'] = [run |-> r, sent |-> 0, told |-> None]
      /\ \A s \in Open : streams'[s] = streams[s]
  BY <1>4, <1>5, Attaching
<1>7. streams'[abortRef'].run = r /\ streams'[abortRef'].sent = 0 /\ streams'[abortRef'].told = None
  BY <1>6
<1>8. Existing' = Existing
  BY DEF Existing
<1>9. TypeOK'
  <2>1. \A d \in Pending' : calls'[d].run \in Existing \cup {None}
    BY <1>1 DEF TypeOK
  <2>2. \A s \in Open' : /\ streams'[s].run \in Existing
                         /\ streams'[s].sent <= db[streams'[s].run].logs
    BY <1>5, <1>6, <1>7 DEF TypeOK
  <2>3. QED
    BY <1>1, <1>6, <1>8, <2>1, <2>2 DEF TypeOK
<1>10. SlotInv'
  <2> DEFINE o1 == Cardinality(Open')  p1 == Cardinality(Pending')
  <2>1. o1 = o + 1 /\ p1 = p - 1
    BY <1>1, <1>6
  <2> HIDE DEF o, p, o1, p1
  <2>2. o1 + p1 <= acts
    BY <1>2, <2>1
  <2>3. QED
    BY <2>2 DEF SlotInv, o1, p1
<1>11. ServerInv'
  <2>1. \A d \in Pending' : d \in Pending /\ calls'[d] = calls[d]
    BY <1>1
  <2>2. \A s \in Open' :
            \/ s \in Open /\ streams'[s] = streams[s]
            \/ streams'[s].told \in Terminal => db[streams'[s].run].status \in Terminal
    BY <1>6, <1>7 DEF None, Terminal
  <2>3. QED
    BY <2>1, <2>2, ServerKept DEF ControllerInv
<1>12. IdleInv'
  BY DEF IdleInv
<1>13. TurnInv'
  <2> SUFFICES ASSUME ~overlap' PROVE TurnInv'
    BY DEF TurnInv
  <2>1. Open = {} /\ Pending' = {}
    BY <1>1 DEF ControllerInv, TurnInv
  <2>2. Open' = {abortRef'}
    BY <1>6, <2>1
  <2>3. QED
    BY <1>7, <2>1, <2>2 DEF TurnInv
<1>14. SettledViewIsTrue'
  BY <1>6 DEF SettledViewIsTrue, Quiet
<1>15. QED
  BY <1>9, <1>10, <1>11, <1>12, <1>13, <1>14 DEF ControllerInv

LEMMA TriggeredInv ==
  ASSUME TypeOK, ControllerInv, NEW c \in Slots, Triggered(c)
  PROVE  TypeOK' /\ ControllerInv'
<1> DEFINE r == calls[c].run
<1>1. /\ c \in Pending /\ r \in Existing /\ calls[c].kind = "trigger"
      /\ calls[c].reply.status \in Statuses
  BY AnswerFacts DEF Triggered, Answered, ControllerInv
<1>2. /\ view' = [view EXCEPT !.runId = r, !.status = calls[c].reply.status]
      /\ Attach(r) /\ Return(c) /\ UNCHANGED <<db, acts, faults, overlap>>
  BY DEF Triggered
<1> HIDE DEF r
<1>3. /\ view' \in ViewType /\ view'.runId = r /\ view'.logs = view.logs
      /\ view'.status \in Statuses
  BY <1>1, <1>2 DEF TypeOK, ViewType, Existing
<1>4. view'.status # "idle"
  BY <1>3 DEF Statuses, Terminal
<1>5. OwnLogs'
  <2>1. ~overlap => view.logs = <<>>
    BY <1>1 DEF ControllerInv, TurnInv
  <2>2. QED
    BY <1>2, <1>3, <2>1 DEF OwnLogs
<1>6. QED
  BY <1>1, <1>2, <1>3, <1>4, <1>5, AttachInv

LEMMA TriggerFailedInv ==
  ASSUME TypeOK, ControllerInv, NEW c \in Slots, TriggerFailed(c)
  PROVE  TypeOK' /\ ControllerInv'
<1>1. c \in Pending
  BY RejectFacts DEF TriggerFailed, ControllerInv
<1>2. /\ view' = [runId |-> None, status |-> "failed", running |-> FALSE, logs |-> <<>>]
      /\ Return(c) /\ UNCHANGED <<db, streams, abortRef, acts, faults, overlap>>
  BY DEF TriggerFailed, Empty
<1>3. view' \in ViewType /\ view'.runId = None /\ view'.status = "failed" /\ view'.logs = <<>>
  BY <1>2 DEF ViewType, Statuses, Terminal
<1>4. OwnLogs' /\ SettledViewIsTrue'
  BY <1>3 DEF OwnLogs, SettledViewIsTrue
<1>5. QED
  BY <1>1, <1>2, <1>3, <1>4, ReturnInv

LEMMA ShownInv ==
  ASSUME TypeOK, ControllerInv, NEW c \in Slots, Shown(c)
  PROVE  TypeOK' /\ ControllerInv'
<1> DEFINE r == calls[c].run  detail == calls[c].reply
<1>1. /\ c \in Pending /\ r \in Existing
      /\ detail.status \in Statuses /\ detail.logs \in 0..MaxLogs
  BY AnswerFacts DEF Shown, ControllerInv
<1>2. r \in Runs
  BY <1>1 DEF Existing
<1>3. /\ view' = [runId |-> r, status |-> detail.status,
                  running |-> detail.status \notin Terminal, logs |-> LogsOf(r, detail.logs)]
      /\ IF detail.status \in Terminal THEN UNCHANGED <<streams, abortRef>> ELSE Attach(r)
      /\ Return(c) /\ UNCHANGED <<db, acts, faults, overlap>>
  BY DEF Shown
<1>4. detail.status \in Terminal => detail = db[r]
  BY <1>1 DEF ControllerInv, ServerInv
<1> HIDE DEF r, detail
<1>5. /\ view'.runId = r /\ view'.status = detail.status
      /\ view'.running = (detail.status \notin Terminal)
      /\ view'.logs = LogsOf(r, detail.logs)
  BY <1>3
<1>6. view' \in ViewType /\ view'.status # "idle"
  <2>1. LogsOf(r, detail.logs) \in Seq(Runs \X (1..MaxLogs))
    BY <1>1, <1>2, LogsType
  <2>2. detail.status # "idle"
    BY <1>1 DEF Statuses, Terminal
  <2>3. QED
    BY <1>1, <1>2, <1>3, <1>5, <2>1, <2>2 DEF ViewType
<1>7. OwnLogs'
  <2>1. Len(view'.logs) = detail.logs /\ \A i \in 1..detail.logs : view'.logs[i][1] = r
    BY <1>1, <1>2, <1>5, LogsType
  <2>2. QED
    BY <1>5, <2>1 DEF OwnLogs
<1>8. CASE detail.status \in Terminal
  <2>1. SettledViewIsTrue'
    BY <1>3, <1>4, <1>5, <1>8 DEF SettledViewIsTrue
  <2>2. QED
    BY <1>1, <1>3, <1>5, <1>6, <1>7, <1>8, <2>1, ReturnInv
<1>9. CASE detail.status \notin Terminal
  BY <1>1, <1>3, <1>5, <1>6, <1>7, <1>9, AttachInv
<1>10. QED
  BY <1>8, <1>9

LEMMA ShowFailedInv ==
  ASSUME TypeOK, ControllerInv, NEW c \in Slots, ShowFailed(c)
  PROVE  TypeOK' /\ ControllerInv'
<1>1. c \in Pending /\ faults # {}
  BY RejectFacts DEF ShowFailed, ControllerInv
<1>2. Return(c) /\ UNCHANGED <<db, view, streams, abortRef, acts, faults, overlap>>
  BY DEF ShowFailed
<1>3. OwnLogs' /\ SettledViewIsTrue'
  BY <1>1, <1>2 DEF ControllerInv, OwnLogs, SettledViewIsTrue
<1>4. /\ view' \in ViewType /\ view'.runId \in Existing \cup {None}
      /\ (view'.status = "idle" => view' = Empty /\ view.status = "idle")
  BY <1>2 DEF TypeOK
<1>5. QED
  BY <1>1, <1>2, <1>3, <1>4, ReturnInv

LEMMA FinalizedInv ==
  ASSUME TypeOK, ControllerInv, NEW c \in Slots, Finalized(c)
  PROVE  TypeOK' /\ ControllerInv'
<1> DEFINE r == calls[c].run  detail == calls[c].reply
           logs == IF detail.logs > 0 THEN LogsOf(r, detail.logs) ELSE view.logs
<1>1. /\ c \in Pending /\ r \in Existing /\ calls[c].kind = "finalize" /\ detail # Waiting
      /\ detail.status \in Statuses /\ detail.logs \in 0..MaxLogs
  BY AnswerFacts DEF Finalized, Answered, ControllerInv
<1>2. r \in Runs
  BY <1>1 DEF Existing
<1>3. /\ view' = [runId |-> r, status |-> detail.status, running |-> FALSE, logs |-> logs]
      /\ Return(c) /\ UNCHANGED <<db, streams, abortRef, acts, faults, overlap>>
  BY DEF Finalized
<1>4. faults = {} => db[r].status \in Terminal /\ detail = db[r]
  BY <1>1 DEF ControllerInv, ServerInv
<1>5. ~overlap => r = view.runId
  BY <1>1 DEF ControllerInv, TurnInv
<1> HIDE DEF r, detail
<1>6. logs \in Seq(Runs \X (1..MaxLogs))
  BY <1>1, <1>2, LogsType DEF TypeOK, ViewType
<1>7. OwnLogs'
  <2> SUFFICES ASSUME ~overlap, NEW i \in 1..Len(logs) PROVE logs[i][1] = r
    BY <1>3 DEF OwnLogs
  <2>1. CASE detail.logs > 0
    BY <1>1, <1>2, <2>1, LogsType
  <2>2. CASE ~(detail.logs > 0)
    BY <1>5, <2>2 DEF ControllerInv, OwnLogs
  <2>3. QED
    BY <2>1, <2>2
<1>8. SettledViewIsTrue'
  <2> SUFFICES ASSUME faults = {}
               PROVE  /\ db[r].status \in Terminal /\ detail.status = db[r].status
                      /\ db[r].logs > 0 => logs = LogsOf(r, db[r].logs)
    BY <1>3 DEF SettledViewIsTrue
  <2>1. QED
    BY <1>4
<1> HIDE DEF logs
<1>9. view' \in ViewType /\ view'.runId = r /\ view'.status = detail.status
  BY <1>1, <1>2, <1>3, <1>6 DEF ViewType
<1>10. view'.status # "idle"
  BY <1>1, <1>9 DEF Statuses, Terminal
<1>11. QED
  BY <1>1, <1>3, <1>7, <1>8, <1>9, <1>10, ReturnInv

LEMMA FinalizeFailedInv ==
  ASSUME TypeOK, ControllerInv, NEW c \in Slots, FinalizeFailed(c)
  PROVE  TypeOK' /\ ControllerInv'
<1>1. c \in Pending /\ faults # {}
  BY RejectFacts DEF FinalizeFailed, ControllerInv
<1>2. /\ view' = [view EXCEPT !.running = FALSE]
      /\ Return(c) /\ UNCHANGED <<db, streams, abortRef, acts, faults, overlap>>
  BY DEF FinalizeFailed
<1>3. /\ view' \in ViewType /\ view'.runId = view.runId /\ view'.status = view.status
      /\ view'.logs = view.logs
  BY <1>2 DEF TypeOK, ViewType
<1>4. view.status = "idle" => view' = Empty
  <2>1. \A b : [Empty EXCEPT !.running = b]
                 = [runId |-> None, status |-> "idle", running |-> b, logs |-> <<>>]
    BY DEF Empty
  <2>2. QED
    BY <1>2, <2>1, Zenon DEF TypeOK, Empty
<1>5. OwnLogs' /\ SettledViewIsTrue'
  BY <1>1, <1>2, <1>3 DEF ControllerInv, OwnLogs, SettledViewIsTrue
<1>6. view'.runId \in Existing \cup {None}
  BY <1>3 DEF TypeOK
<1>7. QED
  BY <1>1, <1>2, <1>3, <1>4, <1>5, <1>6, ReturnInv

-----------------------------------------------------------------------------
(* Events of an open stream.                                               *)

\* What the events that leave the stream open have in common.
LEMMA EventInv ==
  ASSUME TypeOK, ControllerInv, NEW s \in Open,
         UNCHANGED <<db, abortRef, calls, acts, faults, overlap>>,
         NEW x \in StreamType, streams' = [streams EXCEPT ![s] = x],
         x.run = streams[s].run, x.sent <= db[x.run].logs,
         x.told \in Terminal => db[x.run].status \in Terminal,
         view' \in ViewType, view'.runId = view.runId, view'.status # "idle", OwnLogs'
  PROVE  TypeOK' /\ ControllerInv'
<1>1. /\ streams'[s] = x /\ \A u \in Open \ {s} : streams'[u] = streams[u]
      /\ streams' \in [Slots -> StreamType \cup {NoStream}]
  BY DEF TypeOK, Open
<1>2. Existing' = Existing /\ Pending' = Pending
  BY DEF Existing, Pending
<1>3. Open' = Open
  <2>1. x # NoStream
    BY ControllerAssumption DEF StreamType, NoStream
  <2>2. QED
    BY <1>1, <2>1 DEF Open, TypeOK
<1>4. TypeOK'
  <2>1. \A u \in Open : /\ streams'[u].run \in Existing
                        /\ streams'[u].sent <= db[streams'[u].run].logs
    BY <1>1 DEF TypeOK
  <2>2. view'.runId \in Existing \cup {None}
    BY DEF TypeOK
  <2>3. QED
    BY <1>1, <1>2, <1>3, <2>1, <2>2 DEF TypeOK
<1>5. SlotInv' /\ IdleInv'
  BY <1>2, <1>3 DEF ControllerInv, SlotInv, IdleInv
<1>6. ServerInv'
  <2>1. \A c \in Pending' : c \in Pending /\ calls'[c] = calls[c]
    BY <1>2
  <2>2. \A u \in Open' :
            \/ u \in Open /\ streams'[u] = streams[u]
            \/ streams'[u].told \in Terminal => db[streams'[u].run].status \in Terminal
    BY <1>1, <1>3
  <2>3. QED
    BY <2>1, <2>2, ServerKept DEF ControllerInv
<1>7. TurnInv'
  <2> SUFFICES ASSUME ~overlap' PROVE TurnInv'
    BY DEF TurnInv
  <2>1. Pending = {}
    BY DEF ControllerInv, TurnInv
  <2>2. \A u \in Open : streams'[u].run = view'.runId
    BY <1>1 DEF ControllerInv, TurnInv
  <2>3. QED
    BY <1>2, <1>3, <2>1, <2>2 DEF ControllerInv, TurnInv
<1>8. SettledViewIsTrue'
  BY <1>3 DEF SettledViewIsTrue, Quiet
<1>9. QED
  BY <1>4, <1>5, <1>6, <1>7, <1>8 DEF ControllerInv

LEMMA OnLogInv ==
  ASSUME TypeOK, ControllerInv, NEW s \in Slots, OnLog(s)
  PROVE  TypeOK' /\ ControllerInv'
<1> DEFINE r == streams[s].run  n == streams[s].sent + 1
           x == [streams[s] EXCEPT !.sent = n]
           e == <<r, n>>
<1>1. s \in Open /\ streams[s].sent < db[r].logs
  BY DEF OnLog
<1>2. streams[s] \in StreamType /\ r \in Existing
  BY <1>1, TypesOfSlots DEF TypeOK
<1>3. r \in Runs /\ db[r].logs \in 0..MaxLogs
  BY <1>2, RunFacts
<1>4. streams[s].sent \in Nat /\ db[r].logs \in Nat /\ n \in 1..MaxLogs /\ n <= db[r].logs
  BY <1>1, <1>2, <1>3, ControllerAssumption DEF StreamType
<1>5. /\ streams' = [streams EXCEPT ![s] = x]
      /\ view' = [view EXCEPT !.logs = Append(@, e)]
      /\ UNCHANGED <<db, abortRef, calls, acts, faults, overlap>>
  BY DEF OnLog
<1>6. x \in StreamType /\ x.run = r /\ x.sent = n /\ x.told = streams[s].told
  BY <1>2, <1>4 DEF StreamType
<1>7. x.told \in Terminal => db[x.run].status \in Terminal
  BY <1>1, <1>6 DEF ControllerInv, ServerInv
<1> HIDE DEF x
<1>8. e \in Runs \X (1..MaxLogs) /\ e[1] = r
  BY <1>3, <1>4
<1> HIDE DEF e
<1>9. view.logs \in Seq(Runs \X (1..MaxLogs)) /\ view.status # "idle"
  <2>1. view.status # "idle"
    BY <1>1 DEF ControllerInv, IdleInv
  <2>2. QED
    BY <2>1 DEF TypeOK, ViewType
<1>10. Append(view.logs, e) \in Seq(Runs \X (1..MaxLogs))
  BY <1>8, <1>9
<1>11. /\ view' \in ViewType /\ view'.runId = view.runId /\ view'.status = view.status
       /\ view'.logs = Append(view.logs, e)
  BY <1>5, <1>10 DEF TypeOK, ViewType
<1>12. OwnLogs'
  <2> SUFFICES ASSUME ~overlap, NEW i \in 1..Len(Append(view.logs, e))
               PROVE  Append(view.logs, e)[i][1] = view.runId
    BY <1>5, <1>11 DEF OwnLogs
  <2>1. r = view.runId
    BY <1>1 DEF ControllerInv, TurnInv
  <2>2. CASE i \in 1..Len(view.logs)
    <3>1. Append(view.logs, e)[i] = view.logs[i]
      BY <1>9, <2>2
    <3>2. QED
      BY <2>2, <3>1 DEF ControllerInv, OwnLogs
  <2>3. CASE i = Len(view.logs) + 1
    BY <1>8, <1>9, <2>1, <2>3
  <2>4. QED
    BY <1>9, <2>2, <2>3
<1>13. x.sent <= db[x.run].logs
  BY <1>4, <1>6
<1>14. QED
  BY <1>1, <1>5, <1>6, <1>7, <1>9, <1>11, <1>12, <1>13, EventInv

LEMMA OnStatusInv ==
  ASSUME TypeOK, ControllerInv, NEW s \in Slots, OnStatus(s)
  PROVE  TypeOK' /\ ControllerInv'
<1> DEFINE r == streams[s].run  status == db[r].status
           x == [streams[s] EXCEPT !.told = status]
<1>1. /\ s \in Open /\ streams' = [streams EXCEPT ![s] = x]
      /\ view' = [view EXCEPT !.status = status]
      /\ UNCHANGED <<db, abortRef, calls, acts, faults, overlap>>
  BY DEF OnStatus
<1>2. streams[s] \in StreamType /\ r \in Existing /\ streams[s].sent <= db[r].logs
  BY <1>1, TypesOfSlots DEF TypeOK
<1>3. status \in Statuses
  BY <1>2, RunFacts
<1>4. x \in StreamType /\ x.run = r /\ x.sent = streams[s].sent /\ x.told = status
  BY <1>2, <1>3 DEF StreamType
<1> HIDE DEF x
<1>5. /\ view' \in ViewType /\ view'.runId = view.runId /\ view'.status = status
      /\ view'.logs = view.logs
  BY <1>1, <1>3 DEF TypeOK, ViewType
<1>6. view'.status # "idle"
  BY <1>3, <1>5 DEF Statuses, Terminal
<1>7. OwnLogs'
  BY <1>1, <1>5 DEF ControllerInv, OwnLogs
<1>8. QED
  BY <1>1, <1>2, <1>4, <1>5, <1>6, <1>7, EventInv

\* What done, timeout and a broken connection have in common.
LEMMA EndedInv ==
  ASSUME TypeOK, ControllerInv, NEW s \in Open, Ended(s),
         faults' \subseteq FaultKinds, Cardinality(faults') <= MaxFaults,
         faults' = faults \/ faults' # {},
         faults' = {} => db[streams[s].run].status \in Terminal
  PROVE  TypeOK' /\ ControllerInv'
<1> DEFINE o == Cardinality(Open)  p == Cardinality(Pending)
           r == streams[s].run
<1>1. s \in Slots /\ r \in Existing /\ r \in Runs /\ r # None
  <2>1. s \in Slots /\ r \in Existing
    BY TypesOfSlots DEF TypeOK
  <2>2. QED
    BY <2>1, RunFacts
<1>2. /\ streams' = [Stopped EXCEPT ![s] = NoStream] /\ abortRef' = 0 /\ Ask("finalize", r)
      /\ UNCHANGED <<db, view, acts, overlap>>
  BY DEF Ended
<1>3. /\ Open' = (Open \ {abortRef}) \ {s}
      /\ streams' \in [Slots -> StreamType \cup {NoStream}]
      /\ \A u \in Open' : u \in Open /\ streams'[u] = streams[u]
  BY <1>1, <1>2, Stopping DEF Open
<1>4. o \in Nat /\ p \in Nat /\ o + p <= acts /\ acts \in Nat /\ acts <= MaxActs
  BY SlotCount, ControllerAssumption DEF ControllerInv, SlotInv, TypeOK, Open, Pending
<1>5. o - 1 \in Nat /\ Cardinality(Open') \in Nat /\ Cardinality(Open') <= o - 1
  <2>1. Open \in SUBSET Slots /\ Open \ {s} \in SUBSET Slots /\ Open' \in SUBSET (Open \ {s})
    BY <1>3 DEF Open
  <2>2. QED
    BY <2>1, SlotCount
<1>6. p < MaxActs
  <2> HIDE DEF o, p
  <2>1. QED
    BY <1>4, <1>5, ControllerAssumption
<1>7. PICK c \in Slots \ Pending :
         /\ calls' \in [Slots -> CallType \cup {NoCall}]
         /\ Pending' = Pending \cup {c}
         /\ Cardinality(Pending') = p + 1
         /\ calls'[c] = [kind |-> "finalize", run |-> r, reply |-> Waiting]
         /\ \A d \in Pending : calls'[d] = calls[d]
  BY <1>1, <1>2, <1>6, Asking
<1> HIDE DEF r
<1>8. calls'[c].kind = "finalize" /\ calls'[c].run = r /\ calls'[c].reply = Waiting
  BY <1>7
<1>9. Existing' = Existing
  BY <1>2 DEF Existing
<1>10. TypeOK'
  <2>1. \A u \in Open' : /\ streams'[u].run \in Existing
                         /\ streams'[u].sent <= db[streams'[u].run].logs
    BY <1>3 DEF TypeOK
  <2>2. \A d \in Pending' : calls'[d].run \in Existing \cup {None}
    BY <1>1, <1>7, <1>8 DEF TypeOK
  <2>3. QED
    BY <1>2, <1>3, <1>7, <1>9, <2>1, <2>2 DEF TypeOK
<1>11. SlotInv'
  <2> DEFINE o1 == Cardinality(Open')  p1 == Cardinality(Pending')
  <2>1. o1 \in Nat /\ o1 <= o - 1 /\ p1 = p + 1
    BY <1>5, <1>7
  <2> HIDE DEF o, p, o1, p1
  <2>2. o1 + p1 <= acts
    BY <1>4, <2>1
  <2>3. QED
    BY <1>2, <2>2 DEF SlotInv, o1, p1
<1>12. ServerInv'
  <2>1. \A d \in Pending' :
            \/ d \in Pending /\ calls'[d] = calls[d]
            \/ /\ calls'[d].reply = Waiting
               /\ calls'[d].kind # "trigger" => calls'[d].run # None
               /\ faults' = {} /\ calls'[d].kind = "finalize" =>
                     db[calls'[d].run].status \in Terminal
    BY <1>1, <1>7, <1>8 DEF r
  <2>2. QED
    BY <1>2, <1>3, <2>1, ServerKept DEF ControllerInv
<1>13. IdleInv'
  BY <1>2 DEF ControllerInv, IdleInv
<1>14. TurnInv'
  <2> SUFFICES ASSUME ~overlap' PROVE TurnInv'
    BY DEF TurnInv
  <2>1. Open' = {} /\ Pending = {} /\ r = view.runId
    BY <1>2, <1>3 DEF ControllerInv, TurnInv, r
  <2>2. Pending' = {c}
    BY <1>7, <2>1
  <2>3. QED
    BY <1>2, <1>8, <2>1, <2>2 DEF TurnInv
<1>15. OwnLogs' /\ SettledViewIsTrue'
  BY <1>2, <1>7 DEF ControllerInv, OwnLogs, SettledViewIsTrue, Quiet
<1>16. QED
  BY <1>10, <1>11, <1>12, <1>13, <1>14, <1>15 DEF ControllerInv

LEMMA OnDoneInv ==
  ASSUME TypeOK, ControllerInv, NEW s \in Slots, OnDone(s)
  PROVE  TypeOK' /\ ControllerInv'
<1>1. s \in Open /\ Ended(s) /\ faults' = faults /\ streams[s].told \in Terminal
  BY DEF OnDone
<1>2. db[streams[s].run].status \in Terminal
  BY <1>1 DEF ControllerInv, ServerInv
<1>3. faults \subseteq FaultKinds /\ Cardinality(faults) <= MaxFaults
  BY DEF TypeOK
<1>4. QED
  BY <1>1, <1>2, <1>3, EndedInv

LEMMA OnBrokenInv ==
  ASSUME TypeOK, ControllerInv, NEW s \in Slots, NEW kind \in {"timeout", "error"},
         OnBroken(s, kind)
  PROVE  TypeOK' /\ ControllerInv'
<1>1. s \in Open /\ Ended(s) /\ MayFail /\ faults' = faults \cup {kind} /\ kind \in FaultKinds
  BY DEF OnBroken, FaultKinds
<1>2. faults' \subseteq FaultKinds /\ Cardinality(faults') <= MaxFaults /\ faults' # {}
  BY <1>1, FaultAdded
<1>3. QED
  BY <1>1, <1>2, EndedInv

LEMMA OnEofInv ==
  ASSUME TypeOK, ControllerInv, NEW s \in Slots, OnEof(s)
  PROVE  TypeOK' /\ ControllerInv'
<1>1. /\ s \in Open /\ MayFail /\ faults' = faults \cup {"eof"}
      /\ streams' = [streams EXCEPT ![s] = NoStream]
      /\ UNCHANGED <<db, view, abortRef, calls, acts, overlap>>
  BY DEF OnEof
<1>2. faults' \subseteq FaultKinds /\ Cardinality(faults') <= MaxFaults /\ faults' # {}
  <2>1. "eof" \in FaultKinds
    BY DEF FaultKinds
  <2>2. QED
    BY <1>1, <2>1, FaultAdded
<1>3. Existing' = Existing /\ Pending' = Pending
  BY <1>1 DEF Existing, Pending
<1>4. /\ Open' = Open \ {s} /\ \A u \in Open' : u \in Open /\ streams'[u] = streams[u]
      /\ streams' \in [Slots -> StreamType \cup {NoStream}]
  BY <1>1 DEF Open, TypeOK
<1>5. TypeOK'
  BY <1>1, <1>2, <1>3, <1>4 DEF TypeOK
<1>6. SlotInv'
  <2> DEFINE o == Cardinality(Open)  p == Cardinality(Pending)  o1 == Cardinality(Open')
  <2>1. o \in Nat /\ p \in Nat /\ o1 = o - 1 /\ o + p <= acts /\ acts \in Nat
    <3>1. Open \in SUBSET Slots /\ Pending \in SUBSET Slots
      BY DEF Open, Pending
    <3>2. QED
      BY <1>1, <1>4, <3>1, SlotCount, ControllerAssumption DEF ControllerInv, SlotInv, TypeOK
  <2> HIDE DEF o, p, o1
  <2>2. o1 + p <= acts
    BY <2>1
  <2>3. QED
    BY <1>1, <1>3, <2>2 DEF SlotInv, o1, p
<1>7. ServerInv'
  <2>1. \A c \in Pending' : c \in Pending /\ calls'[c] = calls[c]
    BY <1>1, <1>3
  <2>2. QED
    BY <1>1, <1>2, <1>4, <2>1, ServerKept DEF ControllerInv
<1>8. IdleInv' /\ OwnLogs' /\ SettledViewIsTrue'
  BY <1>1, <1>2, <1>4 DEF ControllerInv, IdleInv, OwnLogs, SettledViewIsTrue
<1>9. TurnInv'
  BY <1>1, <1>3, <1>4 DEF ControllerInv, TurnInv
<1>10. QED
  BY <1>5, <1>6, <1>7, <1>8, <1>9 DEF ControllerInv

-----------------------------------------------------------------------------
(* The theorems.                                                           *)

LEMMA ControllerInitial ==
  ASSUME Init
  PROVE  TypeOK /\ ControllerInv
<1>1. /\ view = Empty /\ streams = [s \in Slots |-> NoStream] /\ abortRef = 0
      /\ calls = [c \in Slots |-> NoCall] /\ acts = 0 /\ faults = {} /\ overlap = FALSE
  BY DEF Init
<1>2. Open = {} /\ Pending = {}
  BY <1>1 DEF Open, Pending
<1>3. db \in [Runs -> RunType \cup {Absent}]
  BY ControllerAssumption DEF Init, RunType, Statuses, Terminal
<1>4. Cardinality({}) = 0
  BY FS_EmptySet
<1>5. view \in ViewType /\ view.runId = None /\ view.logs = <<>> /\ view.status = "idle"
  BY <1>1 DEF Empty, ViewType
<1>6. TypeOK
  <2>1. streams \in [Slots -> StreamType \cup {NoStream}] /\ abortRef \in Slots \cup {0}
    BY <1>1
  <2>2. calls \in [Slots -> CallType \cup {NoCall}]
    BY <1>1
  <2>3. acts \in 0..MaxActs
    BY <1>1, ControllerAssumption
  <2>4. faults \subseteq FaultKinds /\ Cardinality(faults) <= MaxFaults
    BY <1>1, <1>4, ControllerAssumption
  <2>5. overlap \in BOOLEAN
    BY <1>1
  <2>6. QED
    BY <1>1, <1>2, <1>3, <1>5, <2>1, <2>2, <2>3, <2>4, <2>5 DEF TypeOK
<1>7. SlotInv
  BY <1>1, <1>2, <1>4 DEF SlotInv
<1>8. ServerInv /\ IdleInv /\ TurnInv /\ SettledViewIsTrue /\ OwnLogs
  BY <1>1, <1>2, <1>5 DEF ServerInv, IdleInv, TurnInv, SettledViewIsTrue, OwnLogs
<1>9. QED
  BY <1>6, <1>7, <1>8 DEF ControllerInv

LEMMA ControllerStutters ==
  ASSUME TypeOK, ControllerInv, UNCHANGED vars
  PROVE  TypeOK' /\ ControllerInv'
<1>1. Existing' = Existing /\ Open' = Open /\ Pending' = Pending
  BY DEF vars, Existing, Open, Pending
<1>2. TypeOK'
  BY <1>1 DEF vars, TypeOK
<1>3. SlotInv' /\ IdleInv' /\ OwnLogs'
  BY <1>1 DEF vars, ControllerInv, SlotInv, IdleInv, OwnLogs
<1>4. ServerInv' /\ TurnInv'
  BY <1>1 DEF vars, ControllerInv, ServerInv, TurnInv
<1>5. SettledViewIsTrue'
  BY <1>1 DEF vars, ControllerInv, SettledViewIsTrue, Quiet
<1>6. QED
  BY <1>2, <1>3, <1>4, <1>5 DEF ControllerInv

LEMMA ControllerInvariance == Spec => [](TypeOK /\ ControllerInv)
<1>1. Init => TypeOK /\ ControllerInv
  BY ControllerInitial
<1>2. TypeOK /\ ControllerInv /\ [Next]_vars => (TypeOK /\ ControllerInv)'
  <2> SUFFICES ASSUME TypeOK, ControllerInv, [Next]_vars
               PROVE  TypeOK' /\ ControllerInv'
    OBVIOUS
  <2>1. CASE \E r \in Runs : Progress(r)
    BY <2>1, ProgressInv
  <2>2. CASE \E c \in Slots : Create(c) \/ Answer(c) \/ Refuse(c)
    BY <2>2, CreateInv, AnswerInv, RefuseInv
  <2>3. CASE \E c \in Slots : Continue(c)
    BY <2>3, TriggeredInv, TriggerFailedInv, ShownInv, ShowFailedInv, FinalizedInv,
       FinalizeFailedInv DEF Continue
  <2>4. CASE \E s \in Slots : Deliver(s)
    BY <2>4, OnLogInv, OnDoneInv, OnStatusInv DEF Deliver
  <2>5. CASE Trigger \/ \E r \in Runs : ShowRun(r)
    BY <2>5, TriggerInv, ShowRunInv
  <2>6. CASE \E s \in Slots : OnEof(s) \/ \E kind \in {"timeout", "error"} : OnBroken(s, kind)
    BY <2>6, OnEofInv, OnBrokenInv
  <2>7. CASE UNCHANGED vars
    BY <2>7, ControllerStutters
  <2>8. QED
    BY <2>1, <2>2, <2>3, <2>4, <2>5, <2>6, <2>7 DEF Next, System
<1>3. QED
  BY <1>1, <1>2, PTL DEF Spec

\* The variables keep their types, and what refers to a run refers to one that
\* exists: the view, the open streams, which have sent no more than the run's
\* log holds, and the requests under way, for any number of runs and clicks.
THEOREM ControllerTypeCorrect == Spec => []TypeOK
BY ControllerInvariance, PTL

\* However requests, streams and clicks overlap, once nothing is under way and
\* nothing has failed the view of useRunController is that of one run that is
\* over, with its whole log.
THEOREM SettledViewTrue == Spec => []SettledViewIsTrue
<1>1. ControllerInv => SettledViewIsTrue
  BY DEF ControllerInv
<1>2. QED
  BY <1>1, ControllerInvariance, PTL

\* A user who waits for every response before the next click never sees a log
\* entry of another run than the one on view, whatever fails.
THEOREM WaitingUserSeesOwnLogs == Spec => []OwnLogs
<1>1. ControllerInv => OwnLogs
  BY DEF ControllerInv
<1>2. QED
  BY <1>1, ControllerInvariance, PTL
=============================================================================
