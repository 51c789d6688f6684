------------------------- MODULE RunStream_proofs -------------------------
(* Proofs about RunStream, for any number of clients, requests, log events, *)
(* errors, foreign rows and polls.                                          *)
EXTENDS RunStream, SequenceTheorems, TLAPS

-----------------------------------------------------------------------------
(* The inductive invariant.                                                *)

\* The committed rows are the first events of the buffer, in order, under
\* increasing ids below the autoincrement.
LogInv ==
    /\ Len(logs) <= written /\ written <= buffer
    /\ \A i \in 1..Len(logs) : logs[i].seq = i - 1 /\ logs[i].id < nextId
    /\ \A i, j \in 1..Len(logs) : i < j => logs[i].id < logs[j].id
    /\ nextId - Len(logs) \in 1..(MaxForeign + 1)

\* The worker persists the end of a run only once the flusher has returned,
\* and the flusher returns only with the whole buffer committed.
WorkerInv ==
    /\ fpc = "returned" => wpc \notin {"queued", "engine"} /\ Len(logs) = buffer
    /\ wpc = "persist" => fpc = "returned"
    /\ status \in Terminal =>
        /\ wpc = "end" /\ Len(logs) = buffer
        /\ status = "failed" <=> errors > 0

\* A client has a prefix of the log and its cursor at the end of that prefix;
\* what its poll still has to send continues the prefix.  Once the poll has
\* seen a terminal status, what it reads next is all there is.
ClientInv(c) ==
    LET n == Len(got[c])
        pending == Len(snap[c].logs)
    IN  /\ got[c] = Seqs(n) /\ n <= Len(logs)
        /\ lastId[c] = IF n = 0 THEN 0 ELSE logs[n].id
        /\ spc[c] \in {"errors", "send"} =>
            /\ n + pending <= Len(logs)
            /\ \A i \in 1..pending : snap[c].logs[i] = logs[n + i]
        /\ spc[c] = "tail" => pending = 0
        /\ snap[c].status \in Terminal => snap[c].status = status
        /\ snap[c].status \in Terminal /\ ~deleted =>
            /\ spc[c] \in {"errors", "send", "tail"} => n + pending = Len(logs)
            /\ spc[c] \in {"send", "tail"} => snap[c].errors = errors
        /\ ended[c] = "done" => status \in Terminal
        /\ ended[c] = "done" /\ ~deleted =>
            /\ n = Len(logs)
            /\ doneWith[c].status = status /\ doneWith[c].errors = errors

\* The same of a request for the detail.
RequestInv(q) ==
    detail[q].status \in Terminal =>
        /\ detail[q].status = status
        /\ ~deleted /\ rpc[q] \in {"errors", "done"} => detail[q].logs = logs
        /\ ~deleted /\ rpc[q] = "done" => detail[q].errors = errors

StreamInv ==
    /\ LogInv
    /\ WorkerInv
    /\ \A c \in Clients : ClientInv(c)
    /\ \A q \in Requests : RequestInv(q)

-----------------------------------------------------------------------------
(* Lemmas about the operators.                                             *)

\* Length and elements of a sequence of consecutive numbers.
LEMMA SeqsProperties ==
  ASSUME NEW n \in Nat
  PROVE  /\ Seqs(n) \in Seq(Nat)
         /\ Len(Seqs(n)) = n
         /\ \A i \in 1..n : Seqs(n)[i] = i - 1
BY DEF Seqs

\* Sending the next event extends the consecutive numbers.
LEMMA SeqsAppend ==
  ASSUME NEW n \in Nat
  PROVE  Append(Seqs(n), n) = Seqs(n + 1)
<1>1. Append(Seqs(n), n) \in Seq(Nat) /\ Seqs(n + 1) \in Seq(Nat)
  BY SeqsProperties
<1>2. Len(Append(Seqs(n), n)) = n + 1 /\ Len(Seqs(n + 1)) = n + 1
  BY SeqsProperties
<1>3. ASSUME NEW i \in 1..(n + 1) PROVE Append(Seqs(n), n)[i] = Seqs(n + 1)[i]
  <2>1. Seqs(n + 1)[i] = i - 1
    BY SeqsProperties
  <2>2. CASE i = n + 1
    BY <2>1, <2>2, SeqsProperties, AppendProperties
  <2>3. CASE i # n + 1
    BY <2>1, <2>3, SeqsProperties, AppendProperties
  <2>4. QED
    BY <2>2, <2>3
<1>4. QED
  BY <1>1, <1>2, <1>3, SeqEqual

\* The query of a poll, on rows ordered by id and a cursor that is the id of
\* the n-th row (or 0 before the first): exactly the rows after the n-th.
LEMMA AfterIsSuffix ==
  ASSUME NEW rows \in Seq(RowType), NEW n \in 0..Len(rows), NEW id \in Nat,
         \A i, j \in 1..Len(rows) : i < j => rows[i].id < rows[j].id,
         id = IF n = 0 THEN 0 ELSE rows[n].id
  PROVE  /\ After(rows, id) \in Seq(RowType)
         /\ Len(After(rows, id)) = Len(rows) - n
         /\ \A i \in 1..(Len(rows) - n) : After(rows, id)[i] = rows[n + i]
<1> DEFINE Passed(k) == \A i \in 1..Len(rows) : rows[i].id > id <=> i > k
<1>0. ASSUME NEW i \in 1..Len(rows) PROVE rows[i] \in RowType /\ rows[i].id \in Nat \ {0}
  <2>1. rows[i] \in RowType
    BY ElementOfSeq
  <2>2. QED
    BY <2>1, StreamAssumption DEF RowType
<1>1. Passed(n)
  <2>1. ASSUME NEW i \in 1..Len(rows) PROVE rows[i].id > id <=> i > n
    <3>1. CASE n = 0
      BY <1>0, <3>1
    <3>2. CASE n # 0
      <4>1. n \in 1..Len(rows)
        BY <3>2
      <4>2. CASE i < n
        BY <1>0, <3>2, <4>1, <4>2
      <4>3. CASE i = n
        BY <1>0, <3>2, <4>1, <4>3
      <4>4. CASE i > n
        BY <1>0, <3>2, <4>1, <4>4
      <4>5. QED
        BY <4>2, <4>3, <4>4
    <3>3. QED
      BY <3>1, <3>2
  <2>2. QED
    BY <2>1
<1>2. ASSUME NEW k \in 0..Len(rows), Passed(k) PROVE k = n
  <2>1. CASE k < n
    <3>1. n \in 1..Len(rows) /\ n > k /\ ~(n > n)
      BY <2>1
    <3>2. QED
      BY <1>1, <1>2, <3>1
  <2>2. CASE k > n
    <3>1. k \in 1..Len(rows) /\ k > n /\ ~(k > k)
      BY <2>2
    <3>2. QED
      BY <1>1, <1>2, <3>1
  <2>3. QED
    BY <2>1, <2>2
<1>3. (CHOOSE k \in 0..Len(rows) : Passed(k)) = n
  BY <1>1, <1>2
<1>4. After(rows, id) = SubSeq(rows, n + 1, Len(rows))
  BY <1>3 DEF After
<1>5. \A i \in (n + 1)..Len(rows) : rows[i] \in RowType
  BY <1>0
<1>6. Len(rows) \in Nat
  OBVIOUS
<1> HIDE DEF Passed
<1>7. /\ SubSeq(rows, n + 1, Len(rows)) \in Seq(RowType)
      /\ Len(SubSeq(rows, n + 1, Len(rows))) = Len(rows) - n
      /\ \A i \in 1..(Len(rows) - n) : SubSeq(rows, n + 1, Len(rows))[i] = rows[n + i]
  BY <1>5, <1>6, SubSeqProperties
<1>8. QED
  BY <1>4, <1>7

\* A poll of a deleted run reads nothing.
LEMMA AfterOfNothing ==
  ASSUME NEW id
  PROVE  After(<<>>, id) = <<>>
<1>1. \A k : SubSeq(<<>>, k + 1, 0) = SubSeq(<<>>, k + 1, Len(<<>>))
  OBVIOUS
<1>2. (CHOOSE k \in 0..Len(<<>>) : \A i \in 1..Len(<<>>) : <<>>[i].id > id <=> i > k) = 0
  OBVIOUS
<1>3. QED
  BY <1>2, SubSeqEmpty DEF After

-----------------------------------------------------------------------------
(* Steps of the worker, of other runs and of the cascade.                  *)

\* What one commit of the flusher adds: the staged events, numbered on.
LEMMA FlushedRows ==
  ASSUME DbOK, WorkerOK, LogInv, FlushCommit, ~(deleted /\ written > Len(logs))
  PROVE  /\ logs' \in Seq(RowType) /\ Len(logs') = written
         /\ nextId' = nextId + (written - Len(logs))
         /\ \A i \in 1..Len(logs) : logs'[i] = logs[i]
         /\ \A i \in (Len(logs) + 1)..written :
                logs'[i] = [id |-> nextId + (i - Len(logs)) - 1, seq |-> i - 1]
<1> DEFINE n == Len(logs)
           new == written - n
           rows == [i \in 1..new |-> [id |-> nextId + i - 1, seq |-> n + i - 1]]
<1>1. n \in Nat /\ new \in Nat /\ written \in Nat /\ nextId \in Nat
  BY DEF DbOK, WorkerOK, LogInv
<1>2. ASSUME NEW i \in 1..new PROVE rows[i] \in RowType
  <2>1. nextId + i - 1 \in 1..(MaxEvents + MaxForeign)
    BY <1>1, StreamAssumption DEF DbOK, WorkerOK, LogInv
  <2>2. n + i - 1 \in 0..(MaxEvents - 1)
    BY <1>1, StreamAssumption DEF DbOK, WorkerOK, LogInv
  <2>3. QED
    BY <2>1, <2>2 DEF RowType
<1>3. rows \in Seq(RowType) /\ Len(rows) = new
  <2>1. rows \in [1..new -> RowType]
    BY <1>2
  <2> HIDE DEF rows, new
  <2>2. QED
    BY <1>1, <2>1, SeqDef
<1>4. logs' = logs \o rows /\ nextId' = nextId + new
  <2>1. ~(deleted /\ new > 0)
    BY <1>1
  <2>2. QED
    BY <2>1 DEF FlushCommit
<1>5. logs \in Seq(RowType)
  BY DEF DbOK
<1>6. rows = [i \in 1..new |-> [id |-> nextId + i - 1, seq |-> n + i - 1]]
  OBVIOUS
<1> HIDE DEF rows
<1>7. /\ logs' \in Seq(RowType) /\ Len(logs') = n + new
      /\ \A i \in 1..(n + new) : logs'[i] = IF i <= n THEN logs[i] ELSE rows[i - n]
  <2>1. /\ logs \o rows \in Seq(RowType) /\ Len(logs \o rows) = Len(logs) + Len(rows)
        /\ \A i \in 1..(Len(logs) + Len(rows)) :
              (logs \o rows)[i] = IF i <= Len(logs) THEN logs[i] ELSE rows[i - Len(logs)]
    BY <1>3, <1>5, ConcatProperties
  <2>2. QED
    BY <1>3, <1>4, <2>1
<1>8. ASSUME NEW i \in (n + 1)..written
      PROVE  logs'[i] = [id |-> nextId + (i - n) - 1, seq |-> i - 1]
  <2>1. logs'[i] = rows[i - n] /\ i - n \in 1..new
    BY <1>1, <1>7
  <2>2. n + (i - n) - 1 = i - 1
    BY <1>1
  <2>3. QED
    BY <1>6, <2>1, <2>2
<1>9. ASSUME NEW i \in 1..n PROVE logs'[i] = logs[i]
  <2>1. i \in 1..(n + new) /\ i <= n
    BY <1>1
  <2>2. QED
    BY <1>7, <2>1
<1>10. QED
  BY <1>1, <1>4, <1>7, <1>8, <1>9

\* A committed batch keeps the rows numbered and their ids increasing.
LEMMA FlushedLog ==
  ASSUME DbOK, WorkerOK, LogInv, FlushCommit, ~(deleted /\ written > Len(logs))
  PROVE  LogInv'
<1>1. /\ Len(logs) \in Nat /\ written \in Nat /\ nextId \in Nat /\ Len(logs) <= written
      /\ Len(logs') = written /\ nextId' = nextId + (written - Len(logs))
  BY FlushedRows DEF DbOK, WorkerOK, LogInv
<1>2. \A i \in 1..Len(logs) : logs'[i] = logs[i] /\ logs[i].id < nextId /\ logs[i].seq = i - 1
  BY FlushedRows DEF LogInv
<1>2a. \A i \in 1..Len(logs) : logs[i].id \in Nat
  <2>1. \A i \in 1..Len(logs) : logs[i] \in RowType
    BY DEF DbOK
  <2>2. QED
    BY <2>1, StreamAssumption DEF RowType
<1>3. ASSUME NEW i \in (Len(logs) + 1)..written
      PROVE  logs'[i].id = nextId + (i - Len(logs)) - 1 /\ logs'[i].seq = i - 1
  <2>1. logs'[i] = [id |-> nextId + (i - Len(logs)) - 1, seq |-> i - 1]
    BY FlushedRows
  <2>2. QED
    BY <2>1
<1>4. ASSUME NEW i \in 1..written
      PROVE  logs'[i].seq = i - 1 /\ logs'[i].id < nextId'
  <2>1. CASE i <= Len(logs)
    BY <1>1, <1>2, <1>2a, <2>1
  <2>2. CASE i > Len(logs)
    BY <1>1, <1>3, <2>2
  <2>3. QED
    BY <1>1, <2>1, <2>2
<1>5. ASSUME NEW i \in 1..written, NEW j \in 1..written, i < j
      PROVE  logs'[i].id < logs'[j].id
  <2>1. CASE j <= Len(logs)
    <3>1. i \in 1..Len(logs) /\ j \in 1..Len(logs)
      BY <1>1, <1>5, <2>1
    <3>2. QED
      BY <1>2, <1>5, <3>1 DEF LogInv
  <2>2. CASE i <= Len(logs) /\ j > Len(logs)
    <3>1. i \in 1..Len(logs) /\ j \in (Len(logs) + 1)..written
      BY <1>1, <2>2
    <3>2. logs'[i].id < nextId /\ logs'[i].id \in Nat
      BY <1>2, <1>2a, <3>1
    <3>3. logs'[j].id >= nextId
      BY <1>1, <1>3, <3>1
    <3>4. QED
      BY <1>1, <1>3, <3>1, <3>2, <3>3
  <2>3. CASE i > Len(logs)
    BY <1>1, <1>3, <1>5, <2>3
  <2>4. QED
    BY <1>1, <2>1, <2>2, <2>3
<1>6. nextId' - written \in 1..(MaxForeign + 1)
  BY <1>1, StreamAssumption DEF LogInv, DbOK
<1>7. written' = written /\ buffer' = buffer /\ written <= buffer
  BY DEF FlushCommit, LogInv
<1>8. QED
  BY <1>1, <1>4, <1>5, <1>6, <1>7 DEF LogInv

\* What no step of the worker takes back: committed rows stay, a terminal
\* run and a deletion are final.
Extends ==
    /\ Len(logs) <= Len(logs')
    /\ \A i \in 1..Len(logs) : logs'[i] = logs[i]
    /\ status \in Terminal => UNCHANGED <<status, errors, logs>>
    /\ deleted => deleted'

\* Then what the readers have read stays true.
LEMMA ReadersFrame ==
  ASSUME TypeOK, StreamInv, DbOK', Extends, UNCHANGED <<streamVars, restVars>>
  PROVE  /\ ClientsOK' /\ RequestsOK'
         /\ \A c \in Clients : ClientInv(c)'
         /\ \A q \in Requests : RequestInv(q)'
<1>1. ClientsOK' /\ RequestsOK'
  BY DEF TypeOK, ClientsOK, RequestsOK, streamVars, restVars
<1>2. ASSUME NEW c \in Clients PROVE ClientInv(c)'
  <2> DEFINE n == Len(got[c])
             pending == Len(snap[c].logs)
             len == Len(logs)
  <2>1. ClientInv(c) /\ Len(got[c]) \in Nat /\ Len(snap[c].logs) \in Nat
    BY DEF StreamInv, TypeOK, ClientsOK, SnapType
  <2>2. Len(logs) \in Nat /\ Len(logs') \in Nat
    BY DEF TypeOK, DbOK
  <2>3. UNCHANGED <<got, snap, lastId, spc, ended, doneWith>>
    BY DEF streamVars
  <2>4. \A i \in 1..Len(logs) : logs'[i] = logs[i]
    BY DEF Extends
  <2>5. /\ got[c] = Seqs(Len(got[c])) /\ Len(got[c]) <= Len(logs')
        /\ lastId[c] = IF Len(got[c]) = 0 THEN 0 ELSE logs'[Len(got[c])].id
    BY <2>1, <2>2, <2>4 DEF ClientInv, Extends
  <2>6. spc[c] \in {"errors", "send"} =>
            /\ Len(got[c]) + Len(snap[c].logs) <= Len(logs')
            /\ \A i \in 1..Len(snap[c].logs) : snap[c].logs[i] = logs'[Len(got[c]) + i]
    <3> SUFFICES ASSUME spc[c] \in {"errors", "send"}
                 PROVE  /\ Len(got[c]) + Len(snap[c].logs) <= Len(logs')
                        /\ \A i \in 1..Len(snap[c].logs) :
                              snap[c].logs[i] = logs'[Len(got[c]) + i]
      OBVIOUS
    <3>1. /\ Len(got[c]) + Len(snap[c].logs) <= Len(logs)
          /\ \A i \in 1..Len(snap[c].logs) : snap[c].logs[i] = logs[Len(got[c]) + i]
      BY <2>1 DEF ClientInv
    <3>2. Len(logs) <= Len(logs')
      BY DEF Extends
    <3>3. ASSUME NEW i \in 1..Len(snap[c].logs)
          PROVE  Len(got[c]) + i \in 1..Len(logs) /\ snap[c].logs[i] = logs'[Len(got[c]) + i]
      <4>1. Len(got[c]) + i \in 1..Len(logs)
        <5>1. n \in Nat /\ pending \in Nat /\ len \in Nat /\ n + pending <= len /\ i \in 1..pending
          BY <2>1, <2>2, <3>1
        <5> HIDE DEF n, pending, len
        <5>2. n + i \in 1..len
          BY <5>1
        <5>3. QED
          BY <5>2 DEF n, len
      <4>2. QED
        BY <2>4, <3>1, <4>1
    <3>4. Len(got[c]) + Len(snap[c].logs) <= Len(logs')
      <4>1. n \in Nat /\ pending \in Nat /\ len \in Nat /\ n + pending <= len
        BY <2>1, <2>2, <3>1
      <4> HIDE DEF n, pending, len
      <4>2. \A k \in Nat : len <= k => n + pending <= k
        BY <4>1
      <4>3. QED
        BY <2>2, <3>2, <4>2 DEF n, pending, len
    <3>5. QED
      BY <3>3, <3>4
  <2>7. QED
    BY <2>1, <2>2, <2>3, <2>5, <2>6 DEF ClientInv, Extends
<1>3. ASSUME NEW q \in Requests PROVE RequestInv(q)'
  BY DEF StreamInv, RequestInv, Extends, restVars
<1>4. QED
  BY <1>1, <1>2, <1>3

WriterInv == DbOK /\ WorkerOK /\ LogInv /\ WorkerInv

\* A step that leaves the tables alone keeps what is said of them.
LEMMA TablesFrame ==
  ASSUME DbOK, UNCHANGED dbVars
  PROVE  DbOK' /\ Extends
BY DEF DbOK, dbVars, Extends

\* The worker and the flusher.
LEMMA WorkerStep ==
  ASSUME WriterInv, Worker
  PROVE  WriterInv' /\ Extends
<1> USE DEF WriterInv
<1>0. Len(logs) \in Nat /\ written \in Nat /\ buffer \in Nat
  BY DEF DbOK, WorkerOK
<1>1. CASE Claim
  <2>1. status \notin Terminal /\ UNCHANGED <<deleted, logs, nextId, errors, buffer, result, fpc, written>>
    BY <1>1 DEF Claim, WorkerInv
  <2>2. status' \in States /\ status' \notin Terminal
    BY <1>1, <2>1 DEF Claim, DbOK, States, Terminal
  <2>3. fpc # "returned" /\ wpc' \in {"engine", "end"}
    BY <1>1 DEF Claim, WorkerInv
  <2>4. QED
    BY <2>1, <2>2, <2>3 DEF DbOK, WorkerOK, LogInv, WorkerInv, Extends
<1>2. CASE Emit
  <2>1. UNCHANGED <<dbVars, wpc, result, fpc, written>> /\ buffer' = buffer + 1 /\ buffer' \in 0..MaxEvents
    BY <1>2, StreamAssumption DEF Emit, WorkerOK
  <2>2. fpc # "returned" /\ status \notin Terminal /\ wpc = "engine"
    BY <1>2 DEF Emit, WorkerInv
  <2>3. WorkerOK'
    BY <2>1 DEF WorkerOK
  <2>4. LogInv' /\ WorkerInv'
    BY <1>0, <2>1, <2>2 DEF LogInv, WorkerInv, dbVars
  <2>5. QED
    BY <2>1, <2>3, <2>4, TablesFrame
<1>3. CASE FlushAdd
  <2>1. UNCHANGED <<dbVars, wpc, buffer, result>> /\ written' = buffer /\ fpc' = "commit"
    BY <1>3 DEF FlushAdd
  <2>2. WorkerOK'
    BY <2>1 DEF WorkerOK
  <2>3. LogInv' /\ WorkerInv'
    BY <1>0, <1>3, <2>1 DEF FlushAdd, LogInv, WorkerInv, dbVars
  <2>4. QED
    BY <2>1, <2>2, <2>3, TablesFrame
<1>4. CASE FlushCommit
  <2>1. UNCHANGED <<status, deleted, errors, wpc, buffer, result, written>>
        /\ status \notin Terminal /\ wpc \in {"engine", "drain"}
    BY <1>4 DEF FlushCommit, WorkerInv
  <2>2. CASE deleted /\ written > Len(logs)
    <3>1. fpc' = "dead" /\ UNCHANGED <<logs, nextId>>
      BY <1>0, <1>4, <2>2 DEF FlushCommit
    <3>2. QED
      BY <2>1, <3>1 DEF DbOK, WorkerOK, LogInv, WorkerInv, Extends
  <2>3. CASE ~(deleted /\ written > Len(logs))
    <3>1. LogInv'
      BY <1>4, <2>3, FlushedLog
    <3>2. /\ logs' \in Seq(RowType) /\ Len(logs') = written
          /\ nextId' = nextId + (written - Len(logs))
          /\ \A i \in 1..Len(logs) : logs'[i] = logs[i]
      BY <1>4, <2>3, FlushedRows
    <3>3. nextId' \in 1..(MaxEvents + MaxForeign + 1)
      BY <1>0, <3>2, StreamAssumption DEF DbOK, WorkerOK, LogInv
    <3>4. fpc' = IF Stopped /\ written >= buffer THEN "returned" ELSE "wait"
      BY <1>0, <1>4, <2>3 DEF FlushCommit
    <3>5. DbOK' /\ WorkerOK'
      BY <2>1, <3>2, <3>3, <3>4 DEF DbOK, WorkerOK
    <3>6. WorkerInv'
      BY <1>0, <2>1, <3>2, <3>4 DEF WorkerInv, LogInv, Stopped
    <3>7. Extends
      BY <1>0, <2>1, <3>2 DEF Extends, LogInv
    <3>8. QED
      BY <3>1, <3>5, <3>6, <3>7
  <2>4. QED
    BY <2>2, <2>3
<1>5. CASE FlushWake
  <2>1. UNCHANGED <<dbVars, wpc, buffer, result, written>> /\ fpc' = "add" /\ wpc \in {"engine", "drain"}
    BY <1>5 DEF FlushWake
  <2>2. WorkerOK' /\ LogInv' /\ WorkerInv'
    BY <2>1 DEF WorkerOK, LogInv, WorkerInv, dbVars
  <2>3. QED
    BY <2>1, <2>2, TablesFrame
<1>6. CASE EngineReturns
  <2>1. UNCHANGED <<dbVars, buffer, fpc, written>> /\ wpc = "engine" /\ wpc' = "drain"
        /\ result' \in 0..MaxErrors
    BY <1>6 DEF EngineReturns
  <2>2. WorkerOK' /\ LogInv' /\ WorkerInv'
    BY <2>1 DEF WorkerOK, LogInv, WorkerInv, dbVars
  <2>3. QED
    BY <2>1, <2>2, TablesFrame
<1>7. CASE AwaitFlusher
  <2>1. UNCHANGED <<dbVars, buffer, result, fpc, written>> /\ wpc = "drain"
        /\ wpc' = IF fpc = "returned" THEN "persist" ELSE "end"
    BY <1>7 DEF AwaitFlusher
  <2>2. WorkerOK' /\ LogInv' /\ WorkerInv'
    BY <2>1 DEF WorkerOK, LogInv, WorkerInv, dbVars
  <2>3. QED
    BY <2>1, <2>2, TablesFrame
<1>8. CASE Persist
  <2>1. UNCHANGED <<deleted, logs, nextId, buffer, result, fpc, written>> /\ wpc = "persist" /\ wpc' = "end"
    BY <1>8 DEF Persist
  <2>2. status \notin Terminal /\ Len(logs) = buffer
    BY <2>1 DEF WorkerInv
  <2>3. CASE deleted
    <3>1. UNCHANGED <<status, errors>>
      BY <1>8, <2>3 DEF Persist
    <3>2. QED
      BY <2>1, <2>2, <3>1 DEF DbOK, WorkerOK, LogInv, WorkerInv, Extends
  <2>4. CASE ~deleted
    <3>1. errors' = result /\ status' = IF result = 0 THEN "succeeded" ELSE "failed"
      BY <1>8, <2>4 DEF Persist
    <3>2. result \in 0..MaxErrors /\ result \in Nat
      BY StreamAssumption DEF WorkerOK
    <3>3. DbOK' /\ WorkerOK'
      BY <2>1, <3>1, <3>2 DEF DbOK, WorkerOK, States, Terminal
    <3>4. LogInv' /\ WorkerInv' /\ Extends
      BY <2>1, <2>2, <3>1, <3>2 DEF LogInv, WorkerInv, Extends, Terminal, DbOK
    <3>5. QED
      BY <3>3, <3>4
  <2>5. QED
    BY <2>3, <2>4
<1>9. QED
  BY <1>1, <1>2, <1>3, <1>4, <1>5, <1>6, <1>7, <1>8 DEF Worker

\* The worker's death, other runs' rows and the cascade.
LEMMA SurroundingsStep ==
  ASSUME WriterInv, WorkerDies \/ ForeignLog \/ DeleteRun
  PROVE  WriterInv' /\ Extends
<1> USE DEF WriterInv
<1>1. CASE WorkerDies
  <2>1. UNCHANGED <<dbVars, buffer, result, fpc, written>> /\ wpc' = "end" /\ status \notin Terminal
    BY <1>1 DEF WorkerDies, WorkerInv
  <2>2. WorkerOK' /\ LogInv' /\ WorkerInv'
    BY <2>1 DEF WorkerOK, LogInv, WorkerInv, dbVars
  <2>3. QED
    BY <2>1, <2>2, TablesFrame
<1>2. CASE ForeignLog
  <2>1. UNCHANGED <<status, deleted, logs, errors, workerVars>> /\ nextId' = nextId + 1
        /\ nextId - Len(logs) <= MaxForeign
    BY <1>2 DEF ForeignLog
  <2>2. Len(logs) \in Nat /\ nextId \in Nat /\ Len(logs) <= MaxEvents
    BY StreamAssumption DEF DbOK, LogInv, WorkerOK
  <2>3. /\ nextId' \in 1..(MaxEvents + MaxForeign + 1)
        /\ nextId' - Len(logs) \in 1..(MaxForeign + 1)
    BY <2>1, <2>2, StreamAssumption DEF LogInv
  <2>4. \A i \in 1..Len(logs) : logs[i].id < nextId'
    <3>1. \A i \in 1..Len(logs) : logs[i] \in RowType
      BY DEF DbOK
    <3>2. \A i \in 1..Len(logs) : logs[i].id \in Nat
      BY <3>1, StreamAssumption DEF RowType
    <3>3. QED
      BY <2>1, <2>2, <3>2 DEF LogInv
  <2>5. DbOK' /\ WorkerOK' /\ WorkerInv' /\ Extends
    BY <2>1, <2>2, <2>3 DEF DbOK, WorkerOK, WorkerInv, Extends, workerVars
  <2>6. LogInv'
    BY <2>1, <2>3, <2>4 DEF LogInv, workerVars
  <2>7. QED
    BY <2>5, <2>6
<1>3. CASE DeleteRun
  <2>1. UNCHANGED <<status, logs, nextId, errors, workerVars>> /\ deleted' = TRUE
    BY <1>3 DEF DeleteRun
  <2>2. QED
    BY <2>1 DEF DbOK, WorkerOK, LogInv, WorkerInv, Extends, workerVars
<1>4. QED
  BY <1>1, <1>2, <1>3

-----------------------------------------------------------------------------
(* Steps of the readers.                                                   *)

\* A client that a step leaves alone keeps its invariant.
LEMMA ClientFrame ==
  ASSUME NEW d \in Clients, ClientInv(d), UNCHANGED dbVars,
         spc'[d] = spc[d], snap'[d] = snap[d], lastId'[d] = lastId[d], got'[d] = got[d],
         ended'[d] = ended[d], doneWith'[d] = doneWith[d]
  PROVE  ClientInv(d)'
BY DEF ClientInv, dbVars

\* A step of one client is no step of another.
LEMMA OneClient ==
  ASSUME TypeOK, StreamInv, NEW c \in Clients, Stream(c) \/ Disconnect(c),
         NEW d \in Clients, d # c
  PROVE  ClientInv(d)'
<1>1. ClientInv(d) /\ UNCHANGED dbVars
  BY DEF StreamInv, Stream, PollStatus, PollLogs, PollErrors, SendLog, SendTail, Wake, Disconnect
<1>2. /\ spc'[d] = spc[d] /\ snap'[d] = snap[d] /\ lastId'[d] = lastId[d] /\ got'[d] = got[d]
      /\ ended'[d] = ended[d] /\ doneWith'[d] = doneWith[d]
  BY DEF TypeOK, ClientsOK, Stream, PollStatus, PollLogs, PollErrors, SendLog, SendTail, Wake,
     Disconnect, Close
<1>3. QED
  BY <1>1, <1>2, ClientFrame

\* The end of a stream, other than by done.
LEMMA CloseStep ==
  ASSUME TypeOK, StreamInv, NEW c \in Clients, NEW how \in {"timeout", "eof", "gone"},
         Close(c, how), UNCHANGED <<dbVars, snap, lastId, got, doneWith>>
  PROVE  /\ ClientInv(c)'
         /\ spc' \in [Clients -> {"status", "logs", "errors", "send", "tail", "sleep", "closed"}]
         /\ ended' \in [Clients -> {"open", "done", "timeout", "eof", "gone"}]
         /\ spc'[c] = "closed" /\ ended'[c] # "open"
         /\ \A d \in Clients \ {c} : spc'[d] = spc[d] /\ ended'[d] = ended[d]
<1>1. ClientInv(c)
  BY DEF StreamInv
<1>2. spc'[c] = "closed" /\ ended'[c] = how
  BY DEF Close, TypeOK, ClientsOK
<1>3. ClientInv(c)'
  BY <1>1, <1>2 DEF ClientInv, dbVars
<1>4. QED
  BY <1>2, <1>3 DEF Close, TypeOK, ClientsOK

\* A snapshot of which one field is replaced.
LEMMA SnapFields ==
  ASSUME NEW s \in SnapType
  PROVE  /\ \A x \in States : [s EXCEPT !.status = x] \in SnapType
         /\ \A l \in Seq(RowType) : [s EXCEPT !.logs = l] \in SnapType
         /\ \A n \in 0..MaxErrors : [s EXCEPT !.errors = n] \in SnapType
<1>1. ASSUME NEW x \in States PROVE [s EXCEPT !.status = x] \in SnapType
  BY DEF SnapType
<1>2. ASSUME NEW l \in Seq(RowType) PROVE [s EXCEPT !.logs = l] \in SnapType
  <2> DEFINE L == Seq(RowType)
  <2>1. l \in L
    OBVIOUS
  <2> HIDE DEF L
  <2>2. s \in [status : States \cup {"none"}, logs : L, errors : 0..MaxErrors]
    BY DEF SnapType, L
  <2>3. [s EXCEPT !.logs = l] \in [status : States \cup {"none"}, logs : L, errors : 0..MaxErrors]
    BY <2>1, <2>2
  <2>4. QED
    BY <2>3 DEF SnapType, L
<1>3. ASSUME NEW n \in 0..MaxErrors PROVE [s EXCEPT !.errors = n] \in SnapType
  BY DEF SnapType
<1>4. QED
  BY <1>1, <1>2, <1>3

\* The statements of a poll.
LEMMA PollStep ==
  ASSUME TypeOK, StreamInv, NEW c \in Clients,
         PollStatus(c) \/ PollLogs(c) \/ PollErrors(c)
  PROVE  ClientsOK' /\ ClientInv(c)'
<1>0. ClientInv(c) /\ ClientsOK /\ DbOK
  BY DEF StreamInv, TypeOK
<1>1. CASE PollStatus(c) /\ deleted
  <2>1. Close(c, "eof") /\ UNCHANGED <<dbVars, snap, lastId, lastStatus, polls, got, doneWith>>
    BY <1>1 DEF PollStatus
  <2>2. QED
    BY <1>0, <2>1, CloseStep DEF ClientsOK
<1>2. CASE PollStatus(c) /\ ~deleted
  <2>1. /\ spc[c] = "status" /\ spc' = [spc EXCEPT ![c] = "logs"]
        /\ snap' = [snap EXCEPT ![c].status = status]
        /\ UNCHANGED <<dbVars, lastId, lastStatus, polls, got, ended, doneWith>>
    BY <1>2 DEF PollStatus
  <2>2. snap' \in [Clients -> SnapType]
    <3>1. [snap[c] EXCEPT !.status = status] \in SnapType
      BY <1>0, SnapFields DEF ClientsOK, DbOK
    <3>2. QED
      BY <1>0, <2>1, <3>1 DEF ClientsOK
  <2>3. ClientsOK'
    BY <1>0, <2>1, <2>2 DEF ClientsOK
  <2>4. spc'[c] = "logs" /\ snap'[c].status = status /\ snap'[c].logs = snap[c].logs
    BY <1>0, <2>1 DEF ClientsOK, SnapType
  <2>5. ClientInv(c)'
    BY <1>0, <2>1, <2>4 DEF ClientInv, dbVars
  <2>6. QED
    BY <2>3, <2>5
<1>3. CASE PollLogs(c)
  <2> DEFINE rows == After(VisibleLogs, lastId[c])
             n == Len(got[c])
  <2>1. /\ spc[c] = "logs" /\ snap' = [snap EXCEPT ![c].logs = rows]
        /\ spc' = [spc EXCEPT ![c] = IF snap[c].status \in Terminal THEN "errors" ELSE "send"]
        /\ UNCHANGED <<dbVars, lastId, lastStatus, polls, got, ended, doneWith>>
    BY <1>3 DEF PollLogs
  <2>2. n \in 0..Len(logs) /\ Len(logs) \in Nat
    BY <1>0 DEF ClientInv, ClientsOK, DbOK
  <2>3. rows \in Seq(RowType) /\ Len(rows) \in Nat /\ n + Len(rows) <= Len(logs)
        /\ (\A i \in 1..Len(rows) : rows[i] = logs[n + i])
        /\ (~deleted => n + Len(rows) = Len(logs))
    <3>1. CASE deleted
      <4>1. rows = <<>>
        BY <3>1, AfterOfNothing DEF VisibleLogs
      <4> HIDE DEF rows
      <4>2. QED
        BY <2>2, <3>1, <4>1
    <3>2. CASE ~deleted
      <4>1. rows = After(logs, lastId[c])
        BY <3>2 DEF VisibleLogs
      <4>2. lastId[c] \in Nat /\ lastId[c] = IF n = 0 THEN 0 ELSE logs[n].id
        BY <1>0, StreamAssumption DEF ClientInv, ClientsOK
      <4>3. logs \in Seq(RowType) /\ \A i, j \in 1..Len(logs) : i < j => logs[i].id < logs[j].id
        BY <1>0 DEF DbOK, StreamInv, LogInv
      <4>4. /\ After(logs, lastId[c]) \in Seq(RowType)
            /\ Len(After(logs, lastId[c])) = Len(logs) - n
            /\ \A i \in 1..(Len(logs) - n) : After(logs, lastId[c])[i] = logs[n + i]
        BY <2>2, <4>2, <4>3, AfterIsSuffix
      <4> HIDE DEF rows, n
      <4>5. QED
        BY <2>2, <3>2, <4>1, <4>4
    <3>3. QED
      BY <3>1, <3>2
  <2> HIDE DEF rows
  <2>4. snap' \in [Clients -> SnapType]
    <3>1. [snap[c] EXCEPT !.logs = rows] \in SnapType
      BY <1>0, <2>3, SnapFields DEF ClientsOK
    <3>2. QED
      BY <1>0, <2>1, <3>1 DEF ClientsOK
  <2>5. ClientsOK'
    BY <1>0, <2>1, <2>4 DEF ClientsOK
  <2>6. /\ snap'[c].status = snap[c].status /\ snap'[c].logs = rows
        /\ spc'[c] = IF snap[c].status \in Terminal THEN "errors" ELSE "send"
    BY <1>0, <2>1 DEF ClientsOK, SnapType
  <2>7. ClientInv(c)'
    <3>1. spc'[c] # "tail" /\ (snap[c].status \notin Terminal => spc'[c] = "send")
          /\ (spc'[c] = "send" => snap[c].status \notin Terminal)
      BY <2>6
    <3>2. UNCHANGED <<status, deleted, logs, errors, got, lastId, ended, doneWith>>
      BY <2>1 DEF dbVars
    <3> HIDE DEF n
    <3>3. /\ n + Len(rows) <= Len(logs)
          /\ \A i \in 1..Len(rows) : rows[i] = logs[n + i]
          /\ ~deleted => n + Len(rows) = Len(logs)
      BY <2>3
    <3>4. QED
      BY <1>0, <2>6, <3>1, <3>2, <3>3 DEF ClientInv, n
  <2>8. QED
    BY <2>5, <2>7
<1>4. CASE PollErrors(c)
  <2>1. /\ spc[c] = "errors" /\ spc' = [spc EXCEPT ![c] = "send"]
        /\ snap' = [snap EXCEPT ![c].errors = VisibleErrors]
        /\ UNCHANGED <<dbVars, lastId, lastStatus, polls, got, ended, doneWith>>
    BY <1>4 DEF PollErrors
  <2>2. VisibleErrors \in 0..MaxErrors /\ (~deleted => VisibleErrors = errors)
    BY <1>0, StreamAssumption DEF VisibleErrors, DbOK
  <2>3. snap' \in [Clients -> SnapType]
    <3>1. [snap[c] EXCEPT !.errors = VisibleErrors] \in SnapType
      BY <1>0, <2>2, SnapFields DEF ClientsOK
    <3>2. QED
      BY <1>0, <2>1, <3>1 DEF ClientsOK
  <2>4. ClientsOK'
    BY <1>0, <2>1, <2>3 DEF ClientsOK
  <2>5. spc'[c] = "send" /\ snap'[c].status = snap[c].status /\ snap'[c].logs = snap[c].logs
        /\ snap'[c].errors = VisibleErrors
    BY <1>0, <2>1 DEF ClientsOK, SnapType
  <2>6. ClientInv(c)'
    BY <1>0, <2>1, <2>2, <2>5 DEF ClientInv, dbVars
  <2>7. QED
    BY <2>4, <2>6
<1>5. QED
  BY <1>1, <1>2, <1>3, <1>4

\* The yields of a poll.
LEMMA SendLogStep ==
  ASSUME TypeOK, StreamInv, NEW c \in Clients, SendLog(c)
  PROVE  ClientsOK' /\ ClientInv(c)'
<1> DEFINE n == Len(got[c])
           rows == snap[c].logs
           row == Head(rows)
<1>0. /\ ClientInv(c) /\ ClientsOK /\ DbOK /\ spc[c] = "send"
      /\ UNCHANGED <<dbVars, lastStatus, polls, ended, doneWith>>
  BY DEF StreamInv, TypeOK, SendLog
<1>1. rows \in Seq(RowType) /\ n \in Nat /\ got[c] \in Seq(0..(MaxEvents - 1)) /\ Len(logs) \in Nat
      /\ Len(rows) \in Nat
  BY <1>0 DEF ClientsOK, SnapType, DbOK
<1>2. CASE rows = <<>>
  <2>1. spc' = [spc EXCEPT ![c] = "tail"] /\ UNCHANGED <<snap, lastId, got>>
    BY <1>2 DEF SendLog
  <2>2. ClientsOK'
    BY <1>0, <2>1 DEF ClientsOK
  <2>3. spc'[c] = "tail" /\ Len(rows) = 0
    BY <1>0, <1>2, <2>1 DEF ClientsOK
  <2>4. ClientInv(c)'
    BY <1>0, <2>1, <2>3 DEF ClientInv, dbVars
  <2>5. QED
    BY <2>2, <2>4
<1>3. CASE rows # <<>>
  <2>1. /\ lastId' = [lastId EXCEPT ![c] = row.id]
        /\ got' = [got EXCEPT ![c] = Append(got[c], row.seq)]
        /\ snap' = [snap EXCEPT ![c].logs = Tail(rows)]
        /\ UNCHANGED spc
    BY <1>3 DEF SendLog
  <2>2. /\ row \in RowType /\ Tail(rows) \in Seq(RowType)
        /\ Len(Tail(rows)) = Len(rows) - 1 /\ Len(rows) > 0
        /\ \A i \in 1..(Len(rows) - 1) : Tail(rows)[i] = rows[i + 1]
    <3> HIDE DEF rows
    <3>1. /\ Head(rows) \in RowType /\ Tail(rows) \in Seq(RowType)
          /\ Len(Tail(rows)) = Len(rows) - 1 /\ Len(rows) > 0
          /\ \A i \in 1..Len(Tail(rows)) : Tail(rows)[i] = rows[i + 1]
      BY <1>1, <1>3, HeadTailProperties, EmptySeq
    <3>2. QED
      BY <3>1
  <2>3. n + Len(rows) <= Len(logs) /\ \A i \in 1..Len(rows) : rows[i] = logs[n + i]
    BY <1>0 DEF ClientInv
  <2>4. row = logs[n + 1] /\ n + 1 \in 1..Len(logs)
    <3>1. row = rows[1]
      BY <1>1, <1>3
    <3> HIDE DEF row, rows, n
    <3>2. 1 \in 1..Len(rows) /\ n + 1 \in 1..Len(logs)
      BY <1>1, <2>2, <2>3
    <3>3. QED
      BY <2>3, <3>1, <3>2
  <2>5. row.seq = n /\ row.seq \in 0..(MaxEvents - 1) /\ row.id \in 0..(MaxEvents + MaxForeign)
    <3>1. row.seq = (n + 1) - 1
      BY <2>4 DEF StreamInv, LogInv
    <3> HIDE DEF n, row
    <3>2. row.seq \in 0..(MaxEvents - 1) /\ row.id \in 0..(MaxEvents + MaxForeign)
      BY <2>2, StreamAssumption DEF RowType
    <3>3. QED
      BY <1>1, <3>1, <3>2
  <2> HIDE DEF row, rows
  <2>6. snap' \in [Clients -> SnapType]
    <3>1. [snap[c] EXCEPT !.logs = Tail(rows)] \in SnapType
      BY <1>0, <2>2, SnapFields DEF ClientsOK
    <3>2. QED
      BY <1>0, <2>1, <3>1 DEF ClientsOK
  <2>7. got' \in [Clients -> Seq(0..(MaxEvents - 1))]
    <3>1. Append(got[c], row.seq) \in Seq(0..(MaxEvents - 1))
      BY <1>1, <2>5
    <3>2. QED
      BY <1>0, <2>1, <3>1 DEF ClientsOK
  <2>8. lastId' \in [Clients -> 0..(MaxEvents + MaxForeign)]
    BY <1>0, <2>1, <2>5 DEF ClientsOK
  <2>9. ClientsOK'
    BY <1>0, <2>1, <2>6, <2>7, <2>8 DEF ClientsOK
  <2>10. /\ lastId'[c] = row.id /\ got'[c] = Append(got[c], row.seq)
         /\ snap'[c].logs = Tail(rows) /\ snap'[c].status = snap[c].status
         /\ snap'[c].errors = snap[c].errors /\ spc'[c] = "send"
    BY <1>0, <2>1 DEF ClientsOK, SnapType
  <2>11. got'[c] = Seqs(n + 1) /\ Len(got'[c]) = n + 1
    <3>1. got'[c] = Append(Seqs(n), n)
      BY <1>0, <2>5, <2>10 DEF ClientInv
    <3>2. n \in Nat /\ n + 1 \in Nat
      BY <1>1
    <3> HIDE DEF n
    <3>3. got'[c] = Seqs(n + 1)
      BY <3>1, <3>2, SeqsAppend
    <3>4. QED
      BY <3>2, <3>3, SeqsProperties
  <2>12. UNCHANGED <<status, deleted, logs, errors, ended, doneWith>>
    BY <1>0 DEF dbVars
  <2>13. /\ (n + 1) + Len(Tail(rows)) = n + Len(rows)
         /\ n + 1 <= Len(logs) /\ n + 1 # 0
         /\ \A i \in 1..Len(Tail(rows)) : Tail(rows)[i] = logs[(n + 1) + i]
    <3> HIDE DEF n
    <3>1. ASSUME NEW i \in 1..Len(Tail(rows)) PROVE Tail(rows)[i] = logs[(n + 1) + i]
      <4>1. i + 1 \in 1..Len(rows) /\ n + (i + 1) = (n + 1) + i
        BY <1>1, <2>2
      <4>2. QED
        BY <2>2, <2>3, <4>1
    <3> DEFINE k == Len(Tail(rows))  m == Len(rows)
    <3>2. k = m - 1 /\ m \in Nat /\ n \in Nat
      BY <1>1, <2>2
    <3> HIDE DEF k, m
    <3>3. (n + 1) + k = n + m
      BY <3>2
    <3>4. n + 1 <= Len(logs) /\ n + 1 # 0
      BY <1>1, <2>4
    <3>5. QED
      BY <3>1, <3>3, <3>4 DEF k, m
  <2>14. ended[c] = "open"
    BY <1>0 DEF ClientsOK
  <2>15. (snap[c].status \in Terminal => snap[c].status = status)
         /\ (snap[c].status \in Terminal /\ ~deleted =>
               n + Len(rows) = Len(logs) /\ snap[c].errors = errors)
    BY <1>0 DEF ClientInv, rows
  <2>16. ClientInv(c)'
    <3> HIDE DEF n
    <3>1. QED
      BY <1>0, <2>3, <2>4, <2>10, <2>11, <2>12, <2>13, <2>14, <2>15 DEF ClientInv
  <2>17. QED
    BY <2>9, <2>16
<1>4. QED
  BY <1>2, <1>3

\* The end of a poll.
LEMMA TailStep ==
  ASSUME TypeOK, StreamInv, NEW c \in Clients, SendTail(c) \/ Wake(c) \/ Disconnect(c)
  PROVE  ClientsOK' /\ ClientInv(c)'
<1>0. ClientInv(c) /\ ClientsOK /\ DbOK
  BY DEF StreamInv, TypeOK
<1>1. CASE Disconnect(c)
  <2>1. Close(c, "gone") /\ UNCHANGED <<dbVars, snap, lastId, lastStatus, polls, got, doneWith>>
    BY <1>1 DEF Disconnect
  <2>2. QED
    BY <1>0, <2>1, CloseStep DEF ClientsOK
<1>2. CASE Wake(c)
  <2>1. /\ spc[c] = "sleep" /\ spc' = [spc EXCEPT ![c] = "status"]
        /\ UNCHANGED <<dbVars, snap, lastId, lastStatus, polls, got, ended, doneWith>>
    BY <1>2 DEF Wake
  <2>2. ClientsOK' /\ spc'[c] = "status"
    BY <1>0, <2>1 DEF ClientsOK
  <2>3. ClientInv(c)'
    BY <1>0, <2>1, <2>2 DEF ClientInv, dbVars
  <2>4. QED
    BY <2>2, <2>3
<1>3. CASE SendTail(c)
  <2>0. /\ spc[c] = "tail" /\ lastStatus' = [lastStatus EXCEPT ![c] = snap[c].status]
        /\ UNCHANGED <<dbVars, snap, lastId, got>>
        /\ ended[c] = "open" /\ polls[c] + 1 \in 0..MaxPolls /\ polls[c] \in Nat
    BY <1>0, <1>3, StreamAssumption DEF SendTail, ClientsOK
  <2>a. lastStatus' \in [Clients -> States \cup {"none"}]
    BY <1>0, <2>0 DEF ClientsOK, SnapType
  <2>1. CASE snap[c].status \in Terminal
    <3>1. Close(c, "done") /\ doneWith' = [doneWith EXCEPT ![c] = snap[c]] /\ UNCHANGED polls
      BY <1>3, <2>1 DEF SendTail
    <3>2. ClientsOK' /\ spc'[c] = "closed" /\ ended'[c] = "done" /\ doneWith'[c] = snap[c]
      BY <1>0, <2>0, <2>a, <3>1 DEF ClientsOK, Close
    <3>3. ClientInv(c)'
      <4>1. UNCHANGED <<status, deleted, logs, errors>>
        BY <2>0 DEF dbVars
      <4>2. ~deleted => Len(got[c]) = Len(logs) /\ snap[c].errors = errors
        BY <1>0, <2>0, <2>1 DEF ClientInv, ClientsOK
      <4>3. snap[c].status = status
        BY <1>0, <2>1 DEF ClientInv
      <4>4. QED
        BY <1>0, <2>0, <2>1, <3>2, <4>1, <4>2, <4>3 DEF ClientInv
    <3>4. QED
      BY <3>2, <3>3
  <2>2. CASE snap[c].status \notin Terminal
    <3>1. polls' = [polls EXCEPT ![c] = @ + 1] /\ UNCHANGED doneWith
      BY <1>3, <2>2 DEF SendTail
    <3>2. polls' \in [Clients -> 0..MaxPolls] /\ polls'[c] = polls[c] + 1
          /\ \A d \in Clients \ {c} : polls'[d] = polls[d]
      BY <1>0, <2>0, <3>1 DEF ClientsOK
    <3>3. CASE polls[c] + 1 >= MaxPolls
      <4>1. Close(c, "timeout")
        BY <1>3, <2>2, <3>3 DEF SendTail
      <4>2. QED
        BY <1>0, <2>0, <2>a, <3>1, <3>2, <4>1, CloseStep DEF ClientsOK
    <3>4. CASE ~(polls[c] + 1 >= MaxPolls)
      <4>1. spc' = [spc EXCEPT ![c] = "sleep"] /\ UNCHANGED ended
        BY <1>3, <2>2, <3>4 DEF SendTail
      <4>2. polls'[c] < MaxPolls
        BY <2>0, <3>2, <3>4, StreamAssumption
      <4>3. ClientsOK' /\ spc'[c] = "sleep"
        BY <1>0, <2>0, <2>a, <3>1, <3>2, <4>1, <4>2 DEF ClientsOK
      <4>4. ClientInv(c)'
        BY <1>0, <2>0, <3>1, <4>1, <4>3 DEF ClientInv, dbVars
      <4>5. QED
        BY <4>3, <4>4
    <3>5. QED
      BY <3>3, <3>4
  <2>3. QED
    BY <2>1, <2>2
<1>4. QED
  BY <1>1, <1>2, <1>3

\* A request for the detail.
LEMMA RequestStep ==
  ASSUME TypeOK, StreamInv, NEW q \in Requests, GetRun(q) \/ GetLogs(q) \/ GetErrors(q)
  PROVE  RequestsOK' /\ \A p \in Requests : RequestInv(p)'
<1>0. RequestsOK /\ DbOK /\ UNCHANGED dbVars /\ \A p \in Requests : RequestInv(p)
  BY DEF StreamInv, TypeOK, GetRun, GetLogs, GetErrors
<1>1. VisibleLogs \in Seq(RowType) /\ VisibleErrors \in 0..MaxErrors
  BY <1>0, StreamAssumption DEF VisibleLogs, VisibleErrors, DbOK
<1>2. RequestsOK'
  <2>1. CASE GetRun(q)
    <3>1. [detail[q] EXCEPT !.status = status] \in SnapType
      BY <1>0, SnapFields DEF RequestsOK, DbOK
    <3>2. QED
      BY <1>0, <2>1, <3>1 DEF RequestsOK, GetRun
  <2>2. CASE GetLogs(q)
    <3>1. [detail[q] EXCEPT !.logs = VisibleLogs] \in SnapType
      BY <1>0, <1>1, SnapFields DEF RequestsOK
    <3>2. QED
      BY <1>0, <2>2, <3>1 DEF RequestsOK, GetLogs
  <2>3. CASE GetErrors(q)
    <3>1. [detail[q] EXCEPT !.errors = VisibleErrors] \in SnapType
      BY <1>0, <1>1, SnapFields DEF RequestsOK
    <3>2. QED
      BY <1>0, <2>3, <3>1 DEF RequestsOK, GetErrors
  <2>4. QED
    BY <2>1, <2>2, <2>3
<1>3. ASSUME NEW p \in Requests, p # q PROVE RequestInv(p)'
  <2>1. rpc'[p] = rpc[p] /\ detail'[p] = detail[p]
    BY <1>0, <1>3 DEF RequestsOK, GetRun, GetLogs, GetErrors
  <2>2. QED
    BY <1>0, <2>1 DEF RequestInv, dbVars
<1>4. RequestInv(q)'
  <2>1. CASE GetRun(q)
    BY <1>0, <2>1 DEF GetRun, RequestInv, RequestsOK, SnapType, dbVars
  <2>2. CASE GetLogs(q)
    BY <1>0, <2>2 DEF GetLogs, RequestInv, RequestsOK, SnapType, dbVars, VisibleLogs
  <2>3. CASE GetErrors(q)
    BY <1>0, <2>3 DEF GetErrors, RequestInv, RequestsOK, SnapType, dbVars, VisibleErrors
  <2>4. QED
    BY <2>1, <2>2, <2>3
<1>5. QED
  BY <1>2, <1>3, <1>4

-----------------------------------------------------------------------------
(* The theorems.                                                           *)

\* Nothing has been logged and nobody has read anything.
LEMMA StreamInit == Init => TypeOK /\ StreamInv
<1> SUFFICES ASSUME Init PROVE TypeOK /\ StreamInv
  OBVIOUS
<1>1. Nothing \in SnapType /\ Nothing.logs = <<>> /\ Nothing.status = "none"
  BY StreamAssumption DEF Nothing, SnapType, States, Terminal
<1>2. DbOK /\ WorkerOK
  <2>1. <<>> \in Seq(RowType) /\ 1 \in 1..(MaxEvents + MaxForeign + 1) /\ 0 \in 0..MaxErrors
    BY StreamAssumption
  <2>2. DbOK
    BY <2>1 DEF Init, DbOK, States
  <2>3. WorkerOK
    BY StreamAssumption DEF Init, WorkerOK
  <2>4. QED
    BY <2>2, <2>3
<1>3. ClientsOK
  <2>1. <<>> \in Seq(0..(MaxEvents - 1))
    OBVIOUS
  <2>2. QED
    BY <1>1, <2>1, StreamAssumption DEF Init, ClientsOK, States
<1>4. RequestsOK
  BY <1>1 DEF Init, RequestsOK
<1>5. LogInv /\ WorkerInv
  BY StreamAssumption DEF Init, LogInv, WorkerInv, Terminal
<1>6. \A c \in Clients : ClientInv(c)
  <2>1. Seqs(0) = <<>>
    BY DEF Seqs
  <2>2. ASSUME NEW c \in Clients PROVE ClientInv(c)
    <3>1. /\ got[c] = <<>> /\ Len(got[c]) = 0 /\ lastId[c] = 0 /\ spc[c] = "status"
          /\ snap[c] = Nothing /\ ended[c] = "open" /\ Len(logs) = 0
      BY DEF Init
    <3>2. QED
      BY <1>1, <2>1, <3>1 DEF ClientInv, Terminal
  <2>3. QED
    BY <2>2
<1>7. \A q \in Requests : RequestInv(q)
  BY <1>1 DEF Init, RequestInv, Terminal
<1>8. QED
  BY <1>2, <1>3, <1>4, <1>5, <1>6, <1>7 DEF TypeOK, StreamInv

\* Every step of the system keeps the invariant.
LEMMA StreamStep ==
  ASSUME TypeOK, StreamInv, [Next]_vars
  PROVE  TypeOK' /\ StreamInv'
<1>0. WriterInv
  BY DEF TypeOK, StreamInv, WriterInv
<1>1. CASE Worker \/ WorkerDies \/ ForeignLog \/ DeleteRun
  <2>1. WriterInv' /\ Extends
    BY <1>0, <1>1, WorkerStep, SurroundingsStep
  <2>2. UNCHANGED <<streamVars, restVars>>
    BY <1>1 DEF Worker, Claim, Emit, FlushAdd, FlushCommit, FlushWake, EngineReturns,
       AwaitFlusher, Persist, WorkerDies, ForeignLog, DeleteRun
  <2>3. QED
    BY <2>1, <2>2, ReadersFrame DEF WriterInv, TypeOK, StreamInv
<1>2. ASSUME NEW c \in Clients, Stream(c) \/ Disconnect(c) PROVE TypeOK' /\ StreamInv'
  <2>1. ClientsOK' /\ ClientInv(c)'
    BY <1>2, PollStep, SendLogStep, TailStep DEF Stream
  <2>2. \A d \in Clients : ClientInv(d)'
    BY <1>2, <2>1, OneClient
  <2>3. UNCHANGED <<dbVars, workerVars, restVars>>
    BY <1>2 DEF Stream, PollStatus, PollLogs, PollErrors, SendLog, SendTail, Wake, Disconnect
  <2>4. DbOK' /\ WorkerOK' /\ RequestsOK'
    BY <2>3 DEF TypeOK, DbOK, WorkerOK, RequestsOK, dbVars, workerVars, restVars
  <2>5. LogInv' /\ WorkerInv'
    BY <2>3 DEF StreamInv, LogInv, WorkerInv, dbVars, workerVars
  <2>6. \A q \in Requests : RequestInv(q)'
    BY <2>3 DEF StreamInv, RequestInv, dbVars, restVars
  <2>7. QED
    BY <2>1, <2>2, <2>4, <2>5, <2>6 DEF TypeOK, StreamInv
<1>3. ASSUME NEW q \in Requests, GetRun(q) \/ GetLogs(q) \/ GetErrors(q)
      PROVE  TypeOK' /\ StreamInv'
  <2>1. RequestsOK' /\ \A p \in Requests : RequestInv(p)'
    BY <1>3, RequestStep
  <2>2. UNCHANGED <<dbVars, workerVars, streamVars>>
    BY <1>3 DEF GetRun, GetLogs, GetErrors
  <2>3. DbOK' /\ WorkerOK' /\ ClientsOK'
    BY <2>2 DEF TypeOK, DbOK, WorkerOK, ClientsOK, dbVars, workerVars, streamVars
  <2>4. LogInv' /\ WorkerInv'
    BY <2>2 DEF StreamInv, LogInv, WorkerInv, dbVars, workerVars
  <2>5. \A c \in Clients : ClientInv(c)'
    BY <2>2, ClientFrame DEF StreamInv, streamVars
  <2>6. QED
    BY <2>1, <2>3, <2>4, <2>5 DEF TypeOK, StreamInv
<1>4. CASE UNCHANGED vars
  <2>1. UNCHANGED <<dbVars, workerVars, streamVars, restVars>>
    BY <1>4 DEF vars
  <2>2. TypeOK'
    BY <2>1 DEF TypeOK, DbOK, WorkerOK, ClientsOK, RequestsOK, dbVars, workerVars, streamVars,
       restVars
  <2>3. LogInv' /\ WorkerInv'
    BY <2>1 DEF StreamInv, LogInv, WorkerInv, dbVars, workerVars
  <2>4. \A c \in Clients : ClientInv(c)'
    BY <2>1, ClientFrame DEF StreamInv, streamVars
  <2>5. \A q \in Requests : RequestInv(q)'
    BY <2>1 DEF StreamInv, RequestInv, dbVars, restVars
  <2>6. QED
    BY <2>2, <2>3, <2>4, <2>5 DEF StreamInv
<1>5. QED
  BY <1>1, <1>2, <1>3, <1>4 DEF Next, Environment

\* The invariant holds throughout.
LEMMA StreamInvariance == Spec => [](TypeOK /\ StreamInv)
<1>1. TypeOK /\ StreamInv /\ [Next]_vars => TypeOK' /\ StreamInv'
  BY StreamStep
<1>2. QED
  BY <1>1, StreamInit, PTL DEF Spec

\* Types, with the bounds of ids, cursors and polls: execute_run, the flusher,
\* stream_run_events and get_run, for every number of clients and requests.
THEOREM StreamTypeCorrect == Spec => []TypeOK
BY StreamInvariance, PTL

\* A cursor on a shared autoincrement loses and repeats nothing: whatever a
\* client has received from stream_run_events is the beginning of the log.
THEOREM StreamDeliversPrefix == Spec => []GotIsPrefix
<1>1. StreamInv => GotIsPrefix
  BY DEF StreamInv, ClientInv, GotIsPrefix
<1>2. QED
  BY <1>1, StreamInvariance, PTL

\* A stream that ends with done is complete: status first and logs afterwards
\* in the reader, logs first and status afterwards in the worker.
THEOREM DoneMeansComplete == Spec => []DoneIsComplete
<1>1. TypeOK /\ StreamInv => DoneIsComplete
  <2> SUFFICES ASSUME TypeOK, StreamInv, NEW c \in Clients, ended[c] = "done", ~deleted
               PROVE  /\ got[c] = Seqs(buffer)
                      /\ doneWith[c].status = status
                      /\ doneWith[c].errors = errors
                      /\ status = "failed" <=> doneWith[c].errors > 0
    BY DEF DoneIsComplete
  <2>1. ClientInv(c) /\ WorkerInv
    BY DEF StreamInv
  <2>2. QED
    BY <2>1 DEF ClientInv, WorkerInv
<1>2. QED
  BY <1>1, StreamInvariance, PTL

\* get_run reads in the same order, so a detail with a terminal status is
\* complete too.
THEOREM TerminalDetailIsComplete == Spec => []DetailIsComplete
<1>1. TypeOK /\ StreamInv => DetailIsComplete
  BY DEF StreamInv, RequestInv, WorkerInv, DetailIsComplete
<1>2. QED
  BY <1>1, StreamInvariance, PTL

-----------------------------------------------------------------------------
(* Refinement.                                                             *)

\* The steps of the worker publish, seal and withdraw the log.
LEMMA WriterRefines ==
  ASSUME TypeOK, StreamInv, Worker \/ WorkerDies \/ ForeignLog \/ DeleteRun
  PROVE  [Abstract!Next]_(Abstract!vars)
<1>0. /\ UNCHANGED <<got, ended>>
      /\ Len(logs) \in Nat
  BY DEF Worker, Claim, Emit, FlushAdd, FlushCommit, FlushWake, EngineReturns,
     AwaitFlusher, Persist, WorkerDies, ForeignLog, DeleteRun, streamVars, TypeOK, DbOK
<1>1. CASE FlushCommit /\ ~(deleted /\ written > Len(logs))
  <2>1. Len(logs') = written /\ UNCHANGED <<status, deleted>> /\ status \notin Terminal
    BY <1>1, FlushedRows DEF TypeOK, StreamInv, FlushCommit, WorkerInv
  <2>2. CASE written = Len(logs)
    BY <1>0, <2>1, <2>2 DEF Abstract!vars
  <2>3. CASE written # Len(logs)
    <3>1. written \in (Len(logs) + 1)..MaxEvents
      BY <1>0, <2>3, StreamAssumption DEF TypeOK, WorkerOK, StreamInv, LogInv
    <3>2. ~deleted
      BY <1>0, <1>1, <3>1
    <3>3. Abstract!Publish
      BY <1>0, <2>1, <3>1, <3>2 DEF Abstract!Publish
    <3>4. QED
      BY <3>3 DEF Abstract!Next
  <2>4. QED
    BY <2>2, <2>3
<1>2. CASE FlushCommit /\ deleted /\ written > Len(logs)
  <2>1. UNCHANGED <<status, deleted, logs>>
    BY <1>0, <1>2 DEF FlushCommit, TypeOK, WorkerOK
  <2>2. QED
    BY <1>0, <2>1 DEF Abstract!vars
<1>3. CASE Persist
  <2>1. UNCHANGED <<deleted, logs>> /\ status \notin Terminal
    BY <1>3 DEF Persist, StreamInv, WorkerInv
  <2>2. CASE deleted
    BY <1>0, <1>3, <2>1, <2>2 DEF Persist, Abstract!vars
  <2>3. CASE ~deleted
    <3>1. status' \in Terminal
      BY <1>3, <2>3 DEF Persist, Terminal
    <3>2. Abstract!Seal
      BY <1>0, <2>1, <2>3, <3>1 DEF Abstract!Seal
    <3>3. QED
      BY <3>2 DEF Abstract!Next
  <2>4. QED
    BY <2>2, <2>3
<1>4. CASE DeleteRun
  <2>1. Abstract!Withdraw
    BY <1>0, <1>4 DEF DeleteRun, Abstract!Withdraw
  <2>2. QED
    BY <2>1 DEF Abstract!Next
<1>5. CASE Claim
  <2>1. UNCHANGED <<deleted, logs>> /\ status \notin Terminal /\ status' \notin Terminal
    BY <1>5 DEF Claim, StreamInv, WorkerInv, Terminal
  <2>2. QED
    BY <1>0, <2>1 DEF Abstract!vars
<1>6. CASE Emit \/ FlushAdd \/ FlushWake \/ EngineReturns \/ AwaitFlusher \/ WorkerDies \/ ForeignLog
  <2>1. UNCHANGED <<status, deleted, logs>>
    BY <1>6 DEF Emit, FlushAdd, FlushWake, EngineReturns, AwaitFlusher, WorkerDies, ForeignLog, dbVars
  <2>2. QED
    BY <1>0, <2>1 DEF Abstract!vars
<1>7. QED
  BY <1>1, <1>2, <1>3, <1>4, <1>5, <1>6 DEF Worker

\* The steps of a client deliver, finish and cut its copy of the log.
LEMMA ReaderRefines ==
  ASSUME TypeOK, StreamInv, NEW c \in Clients, Stream(c) \/ Disconnect(c)
  PROVE  [Abstract!Next]_(Abstract!vars)
<1> DEFINE open == [d \in Clients |-> IF ended[d] \in {"open", "done"} THEN ended[d] ELSE "cut"]
           delivered == [d \in Clients |-> Len(got[d])]
<1>0. /\ UNCHANGED <<status, deleted, logs>>
      /\ ClientInv(c) /\ ClientsOK
      /\ ended[c] = "open" /\ Len(got[c]) \in Nat /\ Len(logs) \in Nat
  BY DEF Stream, PollStatus, PollLogs, PollErrors, SendLog, SendTail, Wake, Disconnect, dbVars,
     TypeOK, ClientsOK, DbOK, StreamInv
<1>1. ASSUME NEW how \in {"timeout", "eof", "gone"}, Close(c, how), UNCHANGED got
      PROVE  Abstract!Next
  <2>1. open' = [open EXCEPT ![c] = "cut"] /\ open[c] = "open"
    BY <1>0, <1>1 DEF Close, ClientsOK
  <2>2. Abstract!Cut(c)
    BY <1>0, <1>1, <2>1 DEF Abstract!Cut
  <2>3. QED
    BY <2>2 DEF Abstract!Next
<1>2. CASE Disconnect(c) \/ (PollStatus(c) /\ deleted)
  BY <1>1, <1>2 DEF Disconnect, PollStatus
<1>3. CASE SendLog(c) /\ snap[c].logs # <<>>
  <2> DEFINE row == Head(snap[c].logs)
  <2>1. got' = [got EXCEPT ![c] = Append(got[c], row.seq)] /\ UNCHANGED ended /\ spc[c] = "send"
    BY <1>3 DEF SendLog
  <2>2. Len(Append(got[c], row.seq)) = Len(got[c]) + 1
    <3>1. got[c] \in Seq(0..(MaxEvents - 1)) /\ snap[c].logs \in Seq(RowType)
      BY <1>0 DEF ClientsOK, SnapType
    <3>2. row \in RowType
      BY <1>3, <3>1, HeadTailProperties
    <3>3. row.seq \in 0..(MaxEvents - 1)
      BY <3>2 DEF RowType
    <3>4. QED
      BY <3>1, <3>3, AppendProperties
  <2>3. delivered' = [delivered EXCEPT ![c] = @ + 1]
    <3>1. \A d \in Clients : got'[d] = IF d = c THEN Append(got[c], row.seq) ELSE got[d]
      BY <1>0, <2>1 DEF ClientsOK
    <3> HIDE DEF row
    <3>2. \A d \in Clients : Len(got'[d]) = IF d = c THEN Len(got[d]) + 1 ELSE Len(got[d])
      BY <2>2, <3>1
    <3>3. QED
      BY <3>2
  <2>4. delivered[c] < Len(logs) /\ open[c] = "open"
    <3>1. Len(got[c]) + Len(snap[c].logs) <= Len(logs)
      BY <1>0, <2>1 DEF ClientInv
    <3>2. Len(snap[c].logs) \in Nat \ {0}
      BY <1>0, <1>3, EmptySeq DEF ClientsOK, SnapType
    <3>3. delivered[c] = Len(got[c]) /\ open[c] = "open"
      BY <1>0
    <3> HIDE DEF delivered, open
    <3>4. \A n, k, l \in Nat : n + k <= l /\ k # 0 => n < l
      OBVIOUS
    <3>5. QED
      BY <1>0, <3>1, <3>2, <3>3, <3>4
  <2>5. Abstract!Deliver(c)
    BY <1>0, <2>1, <2>3, <2>4 DEF Abstract!Deliver
  <2>6. QED
    BY <2>5 DEF Abstract!Next
<1>4. CASE SendTail(c) /\ snap[c].status \in Terminal
  <2>1. Close(c, "done") /\ UNCHANGED got /\ spc[c] = "tail"
    BY <1>4 DEF SendTail
  <2>2. open' = [open EXCEPT ![c] = "done"] /\ open[c] = "open"
    BY <1>0, <2>1 DEF Close, ClientsOK
  <2>3. status \in Terminal /\ (Len(got[c]) = Len(logs) \/ deleted)
    <3>1. status \in Terminal /\ Len(snap[c].logs) = 0
      BY <1>0, <1>4, <2>1 DEF ClientInv
    <3>2. ~deleted => Len(got[c]) + Len(snap[c].logs) = Len(logs)
      BY <1>0, <1>4, <2>1 DEF ClientInv
    <3>3. QED
      BY <1>0, <3>1, <3>2
  <2>4. Abstract!Done(c)
    BY <1>0, <2>1, <2>2, <2>3 DEF Abstract!Done
  <2>5. QED
    BY <2>4 DEF Abstract!Next
<1>5. CASE SendTail(c) /\ snap[c].status \notin Terminal /\ polls[c] + 1 >= MaxPolls
  BY <1>1, <1>5 DEF SendTail
<1>6. CASE \/ PollStatus(c) /\ ~deleted
           \/ PollLogs(c) \/ PollErrors(c) \/ Wake(c)
           \/ SendLog(c) /\ snap[c].logs = <<>>
           \/ SendTail(c) /\ snap[c].status \notin Terminal /\ ~(polls[c] + 1 >= MaxPolls)
  <2>1. UNCHANGED <<got, ended>>
    BY <1>6 DEF PollStatus, PollLogs, PollErrors, Wake, SendLog, SendTail
  <2>2. QED
    BY <1>0, <2>1 DEF Abstract!vars
<1>7. QED
  BY <1>2, <1>3, <1>4, <1>5, <1>6 DEF Stream

\* The stream implements the abstract log step by step: polls, cursors,
\* batches and transactions are invisible to a reader of LiveLog.
THEOREM StreamRefinesLiveLog == Spec => Abstract!Safety
<1>1. Init => Abstract!Init
  BY DEF Init, Abstract!Init, Terminal
<1>2. TypeOK /\ StreamInv /\ [Next]_vars => [Abstract!Next]_(Abstract!vars)
  <2> SUFFICES ASSUME TypeOK, StreamInv, [Next]_vars PROVE [Abstract!Next]_(Abstract!vars)
    OBVIOUS
  <2>1. ASSUME NEW q \in Requests, GetRun(q) \/ GetLogs(q) \/ GetErrors(q)
        PROVE  UNCHANGED Abstract!vars
    BY <2>1 DEF GetRun, GetLogs, GetErrors, dbVars, streamVars, Abstract!vars
  <2>2. CASE UNCHANGED vars
    BY <2>2 DEF vars, dbVars, streamVars, Abstract!vars
  <2>3. QED
    BY <2>1, <2>2, WriterRefines, ReaderRefines DEF Next, Environment
<1>3. QED
  BY <1>1, <1>2, StreamInvariance, PTL DEF Spec, Abstract!Safety
=============================================================================
