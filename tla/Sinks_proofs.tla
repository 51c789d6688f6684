--------------------------- MODULE Sinks_proofs ---------------------------
(* Proofs about FileSink and TableSink, for any number of executions.      *)
EXTENDS FileSink, TableSink, SequenceTheorems, FiniteSetTheorems, TLAPS

-----------------------------------------------------------------------------
(* FileSink: the inductive invariant.                                      *)

\* What an execution and its thread know of each other, and of the history:
\* a thread that has not ended has not written.
SinkInv ==
    \A i \in Writers :
        /\ sink[i] \in {"off", "idle"} => ThreadAt(i, "none")
        /\ sink[i] = "running" => InWrite(i) \/ ThreadAt(i, "queued")
        /\ InWrite(i) \/ ThreadAt(i, "queued") => sink[i] \in {"running", "cancelled"}
        /\ sink[i] = "done" => i \in Range(written)
        /\ sink[i] = "failed" => i \notin Range(written)
        /\ ~ThreadAt(i, "end") => i \notin Range(written)

\* Calls do not overlap unless the history says so, and a call that does not
\* meet another one has the file for itself.
AloneInv ==
    ~overlapped => \A i \in Writers :
        /\ \A j \in Writers : InWrite(i) /\ InWrite(j) => i = j
        /\ ThreadAt(i, "write") => thread[i].alone

\* What a call is going to write.
Combined(i) == IF target.mode = "append" THEN Append(written, i) ELSE <<i>>

\* Between its opening and its writing a call has the records that were there.
Kept ==
    /\ (\A i \in Writers : ~ThreadAt(i, "write")) =>
          file.body = Expected /\ (file.there => file.ok)
    /\ \A i \in Writers :
          /\ ThreadAt(i, "read") => target.mode = "append" /\ thread[i].combined = <<i>>
          /\ ThreadAt(i, "open") \/ ThreadAt(i, "write") => thread[i].combined = Combined(i)
          /\ InWrite(i) /\ target.mode = "error" => written = <<>>
    /\ target.mode = "error" => Len(written) <= 1

ContentInv ==
    /\ ~file.there => written = <<>>
    /\ ~overlapped /\ ~damaged /\ target.header => Kept

FileInv == SinkInv /\ AloneInv /\ ContentInv

-----------------------------------------------------------------------------
(* Lemmas about the operators.                                             *)

LEMMA AppendFacts ==
  ASSUME NEW s \in Tokens, NEW i \in Writers
  PROVE  /\ Append(s, i) \in Tokens
         /\ Range(Append(s, i)) = Range(s) \cup {i}
         /\ Append(s, i) # <<>>
         /\ Last(Append(s, i)) = i
         /\ s \o <<i>> = Append(s, i)
         /\ Len(Append(s, i)) = Len(s) + 1
<1> DEFINE t == Append(s, i)
<1>1. /\ i \in 0..FileWriters /\ Len(s) \in Nat
      /\ t \in Tokens /\ Len(t) = Len(s) + 1
      /\ \A k \in 1..Len(s) : t[k] = s[k]
      /\ t[Len(s) + 1] = i
      /\ s \o <<i>> = t
  BY FileAssumption DEF Tokens, Writers
<1>2. DOMAIN t = 1..(Len(s) + 1) /\ DOMAIN s = 1..Len(s)
  BY <1>1 DEF Tokens
<1> HIDE DEF t
<1>3. Range(t) = Range(s) \cup {i}
  <2>1. Range(t) \subseteq Range(s) \cup {i}
    <3> SUFFICES ASSUME NEW k \in DOMAIN t PROVE t[k] \in Range(s) \cup {i}
      BY DEF Range
    <3>1. CASE k \in 1..Len(s)
      BY <1>1, <1>2, <3>1 DEF Range
    <3>2. CASE k = Len(s) + 1
      BY <1>1, <3>2
    <3>3. QED
      BY <1>1, <1>2, <3>1, <3>2
  <2>2. Range(s) \subseteq Range(t)
    <3> SUFFICES ASSUME NEW k \in DOMAIN s PROVE s[k] \in Range(t)
      BY DEF Range
    <3>1. k \in DOMAIN t /\ t[k] = s[k]
      BY <1>1, <1>2
    <3>2. QED
      BY <3>1 DEF Range
  <2>3. i \in Range(t)
    BY <1>1, <1>2 DEF Range
  <2>4. QED
    BY <2>1, <2>2, <2>3
<1>4. t # <<>> /\ Last(t) = i
  BY <1>1 DEF Last, Tokens
<1>5. QED
  BY <1>1, <1>3, <1>4 DEF t

\* What a file can be while it is written.
FileType == [there : BOOLEAN, body : Tokens, ok : BOOLEAN]

LEMMA TextType ==
  ASSUME NEW s \in Tokens
  PROVE  Text(s) \in FileType /\ Garbled \in FileType /\ <<>> \in Tokens
BY DEF Text, Garbled, FileType, Tokens

LEMMA PartType ==
  ASSUME FileTypeOK, NEW s \in Tokens
  PROVE  \A x \in Part(s) : x \in FileType /\ x.there
<1>1. ASSUME NEW p \in Prefixes(s) PROVE p \in Tokens
  BY <1>1 DEF Prefixes, Tokens
<1>2. \A x \in Part(s) : x = Garbled \/ \E p \in Prefixes(s) : x = Text(p)
  BY DEF Part
<1>3. Garbled \in FileType /\ Garbled.there
  BY TextType DEF Garbled
<1>4. ASSUME NEW p \in Prefixes(s) PROVE Text(p) \in FileType /\ Text(p).there
  BY <1>1, TextType DEF Text
<1>5. QED
  BY <1>2, <1>3, <1>4

LEMMA OverType ==
  ASSUME FileTypeOK, NEW s \in Tokens
  PROVE  \A x \in Over(s) : x \in FileType /\ x.there
<1>1. file.body \in Tokens
  BY DEF FileTypeOK
<1>2. ASSUME NEW p \in Suffixes(file.body) PROVE s \o p \in Tokens
  <2>1. p \in Tokens
    <3>1. CASE p = <<>>
      BY <3>1 DEF Tokens
    <3>2. ASSUME NEW l \in 1..Len(file.body), p = SubSeq(file.body, l, Len(file.body))
          PROVE  p \in Tokens
      <4> DEFINE b == file.body
      <4>1. b \in Seq(0..FileWriters)
        BY <1>1 DEF Tokens
      <4>2. l \in 1..Len(b)
        OBVIOUS
      <4> HIDE DEF b
      <4>3. Len(b) \in Nat /\ \A k \in 1..Len(b) : b[k] \in 0..FileWriters
        BY <4>1, ElementOfSeq, LenProperties
      <4> DEFINE n == Len(b)
      <4>4. n \in Int /\ l \in Int /\ \A k \in l..n : b[k] \in 0..FileWriters
        BY <4>2, <4>3
      <4> HIDE DEF n
      <4>5. SubSeq(b, l, n) \in Seq(0..FileWriters)
        BY <4>4, SubSeqProperties
      <4>6. QED
        BY <3>2, <4>5 DEF Tokens, b, n
    <3>3. QED
      BY <3>1, <3>2 DEF Suffixes
  <2>2. QED
    BY <2>1 DEF Tokens
<1>3. \A x \in Over(s) : x = Garbled \/ \E p \in Suffixes(file.body) : x = Text(s \o p)
  BY DEF Over
<1>4. Garbled \in FileType /\ Garbled.there
  BY TextType DEF Garbled
<1>5. ASSUME NEW p \in Suffixes(file.body) PROVE Text(s \o p) \in FileType /\ Text(s \o p).there
  BY <1>2, TextType DEF Text
<1>6. QED
  BY <1>3, <1>4, <1>5

LEMMA VisibleType ==
  ASSUME FileTypeOK, NEW x \in Visible
  PROVE  /\ x \in FileType
         /\ x = file \/ x.there
         /\ (\A j \in Writers : ~ThreadAt(j, "write")) => x = file
<1>1. CASE \E j \in Writers : ThreadAt(j, "write")
  <2>1. PICK j \in Writers : x \in Part(thread[j].combined)
    BY <1>1 DEF Visible
  <2>2. thread[j].combined \in Tokens
    BY DEF FileTypeOK, ThreadType
  <2>3. QED
    BY <1>1, <2>1, <2>2, PartType
<1>2. CASE ~\E j \in Writers : ThreadAt(j, "write")
  BY <1>2 DEF Visible, FileTypeOK, FileType
<1>3. QED
  BY <1>1, <1>2

-----------------------------------------------------------------------------
(* Types.                                                                  *)

LEMMA FileTypeStep ==
  ASSUME FileTypeOK, FileStep
  PROVE  FileTypeOK'
<1> USE DEF FileTypeOK, ThreadType, Goto, Settle, fileHistory
<1>1. ASSUME NEW i \in Writers, RefusePath(i) \/ ToThread(i) \/ CancelSink(i) \/ FailBeforeOpen(i)
      PROVE  FileTypeOK'
  BY <1>1 DEF RefusePath, ToThread, CancelSink, FailBeforeOpen
<1>2. ASSUME NEW i \in Writers, CheckTarget(i) PROVE FileTypeOK'
  <2>1. <<i>> \in Tokens
    BY FileAssumption DEF Tokens, Writers
  <2>2. QED
    BY <1>2, <2>1 DEF CheckTarget
<1>3. ASSUME NEW i \in Writers, ReadExisting(i) PROVE FileTypeOK'
  <2>1. PICK x \in Visible :
          IF x.ok
          THEN /\ thread' = [thread EXCEPT ![i].combined = Existing(x) \o @, ![i].pc = "open"]
               /\ UNCHANGED sink
          ELSE Goto(i, "end") /\ Settle(i, "failed")
    BY <1>3 DEF ReadExisting
  <2>2. x.body \in Tokens /\ thread[i].combined \in Tokens
    BY VisibleType DEF FileType
  <2> DEFINE b == x.body
  <2>3. Existing(x) \in Tokens
    <3>1. Existing(x) = b \/ (b # <<>> /\ Existing(x) = Tail(b))
      BY DEF Existing
    <3>2. b \in Seq(0..FileWriters)
      BY <2>2 DEF Tokens
    <3> HIDE DEF b
    <3>3. ASSUME b # <<>> PROVE Tail(b) \in Seq(0..FileWriters)
      BY <3>2, <3>3, HeadTailProperties
    <3>4. QED
      BY <3>1, <3>2, <3>3 DEF Tokens
  <2> DEFINE c == Existing(x) \o thread[i].combined
  <2>4. c \in Tokens
    BY <2>2, <2>3 DEF Tokens
  <2>5. thread' \in [Writers -> ThreadType] /\ sink' \in [Writers -> {"off", "idle", "running",
           "done", "failed", "cancelled"}]
    <3>1. CASE x.ok
      <4>1. thread' = [thread EXCEPT ![i].combined = c, ![i].pc = "open"]
        BY <2>1, <3>1
      <4> HIDE DEF c
      <4> DEFINE y == [thread[i] EXCEPT !.combined = c, !.pc = "open"]
      <4>2. y \in ThreadType
        BY <2>4
      <4>3. thread' = [thread EXCEPT ![i] = y]
        BY <4>1
      <4> HIDE DEF y
      <4>4. thread' \in [Writers -> ThreadType]
        BY <4>2, <4>3
      <4>5. QED
        BY <2>1, <3>1, <4>4
    <3>2. CASE ~x.ok
      <4>1. Goto(i, "end") /\ Settle(i, "failed")
        BY <2>1, <3>2
      <4>2. QED
        BY <4>1
    <3>3. QED
      BY <3>1, <3>2
  <2>6. QED
    BY <1>3, <2>5 DEF ReadExisting
<1>4. ASSUME NEW i \in Writers, OpenTruncates(i) PROVE FileTypeOK'
  <2>1. file' \in FileType
    BY <1>4, TextType DEF OpenTruncates
  <2>2. thread' \in [Writers -> ThreadType]
    <3>1. ASSUME NEW j \in Writers, NEW b \in BOOLEAN
          PROVE  /\ [thread[j] EXCEPT !.pc = "write", !.alone = b] \in ThreadType
                 /\ [thread[j] EXCEPT !.alone = FALSE] \in ThreadType
      OBVIOUS
    <3> HIDE DEF ThreadType
    <3>2. QED
      BY <1>4, <3>1 DEF OpenTruncates
  <2>3. QED
    BY <1>4, <2>1, <2>2 DEF OpenTruncates, FileType
<1>5. ASSUME NEW i \in Writers, WriteText(i) PROVE FileTypeOK'
  <2>1. thread[i].combined \in Tokens
    OBVIOUS
  <2>2. file' \in FileType
    BY <1>5, <2>1, TextType, OverType DEF WriteText
  <2>3. written' \in Tokens
    BY <1>5, AppendFacts DEF WriteText
  <2>4. QED
    BY <1>5, <2>2, <2>3 DEF WriteText, FileType
<1>6. ASSUME NEW i \in Writers, FailMidway(i) PROVE FileTypeOK'
  <2>1. thread[i].combined \in Tokens
    OBVIOUS
  <2>2. file' \in FileType
    BY <1>6, <2>1, PartType DEF FailMidway, FileType
  <2>3. QED
    BY <1>6, <2>2 DEF FailMidway, FileType
<1>7. CASE ProcessDies
  <2>1. file' \in FileType
    BY <1>7, VisibleType DEF ProcessDies
  <2>2. thread' \in [Writers -> ThreadType]
    BY <1>7 DEF ProcessDies
  <2>3. QED
    BY <1>7, <2>1, <2>2 DEF ProcessDies, FileType
<1>8. QED
  BY <1>1, <1>2, <1>3, <1>4, <1>5, <1>6, <1>7 DEF FileStep

-----------------------------------------------------------------------------
(* One lemma per action and part of the invariant.                         *)

LEMMA FileInitInv == FileInit => FileTypeOK /\ FileInv
<1> SUFFICES ASSUME FileInit PROVE FileTypeOK /\ FileInv
  OBVIOUS
<1>1. <<0>> \in Tokens /\ <<>> \in Tokens
  BY FileAssumption DEF Tokens
<1>2. FileTypeOK
  <2>1. file \in FileType /\ written \in Tokens
    <3>1. CASE file = NoFile
      BY <1>1, <3>1 DEF FileInit, FileType, NoFile
    <3>2. CASE file = Text(<<0>>)
      BY <1>1, <3>2 DEF FileInit, FileType, Text
    <3>3. QED
      BY <3>1, <3>2 DEF FileInit
  <2>2. thread \in [Writers -> ThreadType]
    BY <1>1 DEF FileInit, ThreadType
  <2>3. QED
    BY <2>1, <2>2 DEF FileInit, FileTypeOK, FileType
<1>3. \A i \in Writers : i \notin Range(written)
  <2>1. CASE written = <<>>
    BY <2>1 DEF Range
  <2>2. CASE written = <<0>>
    BY <2>2, FileAssumption DEF Range, Writers
  <2>3. QED
    BY <2>1, <2>2 DEF FileInit, NoFile, Text
<1>4. SinkInv /\ AloneInv
  BY <1>3 DEF FileInit, SinkInv, AloneInv, ThreadAt, InWrite
<1>5. Expected = written /\ Len(written) <= 1
  <2>1. CASE written = <<>>
    BY <2>1 DEF Expected
  <2>2. CASE written = <<0>>
    BY <2>2 DEF Expected, Last
  <2>3. QED
    BY <2>1, <2>2 DEF FileInit, NoFile, Text
<1>6. ContentInv
  BY <1>5 DEF FileInit, ContentInv, Kept, ThreadAt, InWrite, NoFile, Text
<1>7. QED
  BY <1>2, <1>4, <1>6 DEF FileInv

LEMMA SinkStep ==
  ASSUME FileTypeOK, SinkInv, FileStep
  PROVE  SinkInv'
<1> USE DEF ThreadAt, InWrite, Goto, Settle, fileHistory
<1>0. \A i \in Writers : thread[i] \in ThreadType
  BY DEF FileTypeOK
<1>1. CASE ProcessDies
  <2> SUFFICES ASSUME NEW i \in Writers
               PROVE  /\ sink'[i] \in {"off", "idle"} => ThreadAt(i, "none")'
                      /\ sink'[i] = "running" => InWrite(i)' \/ ThreadAt(i, "queued")'
                      /\ InWrite(i)' \/ ThreadAt(i, "queued")' =>
                            sink'[i] \in {"running", "cancelled"}
                      /\ sink'[i] = "done" => i \in Range(written')
                      /\ sink'[i] = "failed" => i \notin Range(written')
                      /\ ~ThreadAt(i, "end")' => i \notin Range(written')
    BY DEF SinkInv
  <2>1. QED
    BY <1>0, <1>1 DEF ProcessDies, SinkInv, FileTypeOK, ThreadType
<1>2. ASSUME NEW j \in Writers, WriteText(j) PROVE SinkInv'
  <2>1. Range(written') = Range(written) \cup {j}
    BY <1>2, AppendFacts DEF WriteText, FileTypeOK
  <2>2. QED
    BY <1>0, <1>2, <2>1 DEF WriteText, SinkInv, FileTypeOK, ThreadType
<1>3. ASSUME NEW j \in Writers, OpenTruncates(j) PROVE SinkInv'
  <2>1. \A i \in Writers : thread'[i].pc = IF i = j THEN "write" ELSE thread[i].pc
    BY <1>0, <1>3 DEF OpenTruncates, ThreadType
  <2>2. sink' = sink /\ written' = written /\ thread[j].pc = "open"
    BY <1>3 DEF OpenTruncates
  <2>3. QED
    BY <1>0, <2>1, <2>2 DEF SinkInv
<1>4. ASSUME NEW j \in Writers, ReadExisting(j) PROVE SinkInv'
  <2>1. /\ thread'[j].pc \in {"open", "end"}
        /\ thread'[j].pc = "open" => sink' = sink
        /\ thread'[j].pc = "end" => Settle(j, "failed")
        /\ \A i \in Writers \ {j} : thread'[i] = thread[i]
        /\ written' = written
    BY <1>0, <1>4 DEF ReadExisting, FileTypeOK, ThreadType
  <2>2. QED
    BY <1>0, <1>4, <2>1 DEF ReadExisting, SinkInv, FileTypeOK
<1>5. ASSUME NEW j \in Writers, CheckTarget(j) PROVE SinkInv'
  <2>1. /\ thread'[j].pc \in {"read", "open", "end"}
        /\ thread'[j].pc # "end" => sink' = sink
        /\ thread'[j].pc = "end" => Settle(j, "failed")
        /\ \A i \in Writers \ {j} : thread'[i] = thread[i]
        /\ written' = written
    BY <1>0, <1>5 DEF CheckTarget, FileTypeOK, ThreadType
  <2>2. QED
    BY <1>0, <1>5, <2>1 DEF CheckTarget, SinkInv, FileTypeOK
<1>6. ASSUME NEW j \in Writers,
             RefusePath(j) \/ ToThread(j) \/ CancelSink(j) \/ FailBeforeOpen(j) \/ FailMidway(j)
      PROVE  SinkInv'
  BY <1>0, <1>6 DEF RefusePath, ToThread, CancelSink, FailBeforeOpen, FailMidway, SinkInv,
     FileTypeOK, ThreadType
<1>7. QED
  BY <1>1, <1>2, <1>3, <1>4, <1>5, <1>6 DEF FileStep

LEMMA AloneStep ==
  ASSUME FileTypeOK, AloneInv, FileStep
  PROVE  AloneInv'
<1> USE DEF ThreadAt, InWrite, Goto, fileHistory
<1>0. \A i \in Writers : thread[i] \in ThreadType
  BY DEF FileTypeOK
<1>1. CASE ProcessDies
  BY <1>0, <1>1 DEF ProcessDies, AloneInv, FileTypeOK, ThreadType
<1>2. ASSUME NEW j \in Writers, OpenTruncates(j) PROVE AloneInv'
  <2>1. \A i \in Writers : thread'[i].pc = IF i = j THEN "write" ELSE thread[i].pc
    BY <1>0, <1>2 DEF OpenTruncates, ThreadType
  <2>2. thread'[j].alone = \A k \in Writers \ {j} : ~ThreadAt(k, "write")
    BY <1>0, <1>2 DEF OpenTruncates, ThreadType
  <2>3. thread[j].pc = "open" /\ overlapped' = overlapped
    BY <1>2 DEF OpenTruncates
  <2>4. QED
    BY <2>1, <2>2, <2>3 DEF AloneInv
<1>3. ASSUME NEW j \in Writers, CheckTarget(j) PROVE AloneInv'
  <2>1. /\ thread'[j].pc \in {"read", "open", "end"}
        /\ \A i \in Writers \ {j} : thread'[i] = thread[i]
        /\ ~overlapped' => ~overlapped /\ QuietFile
    BY <1>0, <1>3 DEF CheckTarget, FileTypeOK, ThreadType
  <2>2. QED
    BY <1>0, <2>1 DEF AloneInv, QuietFile
<1>4. ASSUME NEW j \in Writers,
             \/ RefusePath(j) \/ ToThread(j) \/ CancelSink(j) \/ FailBeforeOpen(j)
             \/ ReadExisting(j) \/ WriteText(j) \/ FailMidway(j)
      PROVE  AloneInv'
  <2>1. /\ InWrite(j)' => (InWrite(j) /\ ~ThreadAt(j, "write")') \/ thread' = thread
        /\ \A i \in Writers \ {j} : thread'[i] = thread[i]
        /\ overlapped' = overlapped
    <3>1. CASE ReadExisting(j)
      BY <1>0, <3>1 DEF ReadExisting, FileTypeOK, ThreadType
    <3>2. CASE RefusePath(j) \/ ToThread(j) \/ CancelSink(j)
      BY <1>0, <3>2 DEF RefusePath, ToThread, CancelSink, FileTypeOK, ThreadType
    <3>3. CASE FailBeforeOpen(j) \/ WriteText(j) \/ FailMidway(j)
      BY <1>0, <3>3 DEF FailBeforeOpen, WriteText, FailMidway, FileTypeOK, ThreadType
    <3>4. QED
      BY <1>4, <3>1, <3>2, <3>3
  <2>2. QED
    BY <1>0, <2>1 DEF AloneInv
<1>5. QED
  BY <1>1, <1>2, <1>3, <1>4 DEF FileStep

\* A file that is not there has never been written.
LEMMA ThereStep ==
  ASSUME FileTypeOK, FileStep, ~file.there => written = <<>>
  PROVE  ~file'.there => written' = <<>>
<1>0. \A i \in Writers : thread[i].combined \in Tokens
  BY DEF FileTypeOK, ThreadType
<1>1. ASSUME NEW i \in Writers, OpenTruncates(i) PROVE file'.there
  BY <1>1 DEF OpenTruncates, Text, Garbled
<1>2. ASSUME NEW i \in Writers, WriteText(i) PROVE file'.there
  <2>1. CASE file' = Text(thread[i].combined)
    BY <2>1 DEF Text
  <2>2. CASE file' \in Over(thread[i].combined)
    BY <1>0, <2>2, OverType
  <2>3. QED
    BY <1>2, <2>1, <2>2 DEF WriteText
<1>3. ASSUME NEW i \in Writers, FailMidway(i)
      PROVE  (file'.there \/ file' = file) /\ written' = written
  BY <1>0, <1>3, PartType DEF FailMidway
<1>4. CASE ProcessDies
  BY <1>4, VisibleType DEF ProcessDies
<1>5. ASSUME NEW i \in Writers, RefusePath(i) \/ ToThread(i) \/ CancelSink(i) \/ CheckTarget(i)
                                  \/ ReadExisting(i) \/ FailBeforeOpen(i)
      PROVE  file' = file /\ written' = written
  BY <1>5 DEF RefusePath, ToThread, CancelSink, CheckTarget, ReadExisting, FailBeforeOpen,
     fileHistory
<1>6. QED
  BY <1>1, <1>2, <1>3, <1>4, <1>5 DEF FileStep

\* Steps that touch neither the file nor a thread that goes on writing.
LEMMA KeptFrame ==
  ASSUME Kept, UNCHANGED <<target, file, written>>,
         \A i \in Writers : /\ InWrite(i)' => thread'[i] = thread[i]
                            /\ ThreadAt(i, "write") => ThreadAt(i, "write")'
  PROVE  Kept'
<1>1. Expected' = Expected
  BY DEF Expected
<1>2. \A i \in Writers : Combined(i)' = Combined(i)
  BY DEF Combined
<1>3. QED
  BY <1>1, <1>2 DEF Kept, ThreadAt, InWrite

LEMMA KeptByCheck ==
  ASSUME FileTypeOK, Kept, ~file.there => written = <<>>, QuietFile,
         NEW j \in Writers, CheckTarget(j)
  PROVE  Kept'
<1> USE DEF ThreadAt, InWrite, Goto
<1>0. thread[j] \in ThreadType
  BY DEF FileTypeOK
<1>1. CASE target.mode = "error" /\ file.there
  <2>1. \A i \in Writers : InWrite(i)' => thread'[i] = thread[i]
    BY <1>0, <1>1 DEF CheckTarget, FileTypeOK, ThreadType
  <2>2. QED
    BY <2>1, KeptFrame DEF CheckTarget, QuietFile
<1>2. CASE ~(target.mode = "error" /\ file.there)
  <2>1. /\ thread'[j].combined = <<j>>
        /\ thread'[j].pc = IF target.mode = "append" /\ file.there THEN "read" ELSE "open"
        /\ \A i \in Writers \ {j} : thread'[i] = thread[i]
        /\ UNCHANGED <<target, file, written>>
    BY <1>0, <1>2 DEF CheckTarget, FileTypeOK, ThreadType
  <2>2. ASSUME thread'[j].pc = "open" PROVE Combined(j)' = <<j>>
    <3>1. CASE target.mode = "append"
      <4>1. written = <<>>
        BY <2>1, <2>2, <3>1
      <4>2. Append(<<>>, j) = <<j>>
        OBVIOUS
      <4>3. QED
        BY <2>1, <3>1, <4>1, <4>2 DEF Combined
    <3>2. QED
      BY <2>1, <3>1 DEF Combined
  <2>3. Expected' = Expected
    BY <2>1 DEF Expected
  <2>4. target.mode = "error" => written = <<>>
    BY <1>2
  <2>5. QED
    BY <2>1, <2>2, <2>3, <2>4 DEF Kept, QuietFile
<1>3. QED
  BY <1>1, <1>2

LEMMA KeptByRead ==
  ASSUME FileTypeOK, Kept, ~overlapped, AloneInv, target.header,
         NEW j \in Writers, ReadExisting(j)
  PROVE  Kept'
<1> USE DEF ThreadAt, InWrite, Goto
<1>0. thread[j] \in ThreadType /\ UNCHANGED <<target, file, written>>
  BY DEF FileTypeOK, ReadExisting, fileHistory
<1>1. \A i \in Writers : InWrite(i) => i = j
  BY DEF AloneInv, ReadExisting
<1>2. \A i \in Writers : ~ThreadAt(i, "write")
  BY <1>1 DEF ReadExisting
<1>3. file.body = written /\ thread[j].combined = <<j>> /\ target.mode = "append"
  BY <1>2 DEF Kept, ReadExisting, Expected
<1>4. Visible = {file}
  BY <1>2 DEF Visible
<1>5. CASE file.ok
  <2>1. thread' = [thread EXCEPT ![j].combined = Existing(file) \o @, ![j].pc = "open"]
    BY <1>4, <1>5 DEF ReadExisting
  <2>2. Existing(file) = written
    BY <1>3 DEF Existing
  <2>3. /\ thread'[j].combined = written \o <<j>>
        /\ thread'[j].pc = "open"
        /\ \A i \in Writers \ {j} : thread'[i] = thread[i]
    BY <1>0, <1>3, <2>1, <2>2 DEF FileTypeOK, ThreadType
  <2>4. written \o <<j>> = Append(written, j)
    BY AppendFacts DEF FileTypeOK
  <2>5. Combined(j)' = thread'[j].combined
    BY <1>0, <1>3, <2>3, <2>4 DEF Combined
  <2>6. Expected' = Expected
    BY <1>0 DEF Expected
  <2>7. QED
    BY <1>0, <1>1, <1>2, <1>3, <2>3, <2>5, <2>6 DEF Kept
<1>6. CASE ~file.ok
  <2>1. thread' = [thread EXCEPT ![j].pc = "end"]
    BY <1>4, <1>6 DEF ReadExisting
  <2>2. \A i \in Writers : InWrite(i)' => thread'[i] = thread[i]
    BY <1>0, <2>1 DEF FileTypeOK, ThreadType
  <2>3. QED
    BY <1>0, <1>2, <2>2, KeptFrame
<1>7. QED
  BY <1>5, <1>6

LEMMA KeptByOpen ==
  ASSUME FileTypeOK, Kept, NEW j \in Writers, OpenTruncates(j)
  PROVE  Kept'
<1> USE DEF ThreadAt, InWrite
<1>0. \A i \in Writers : thread[i] \in ThreadType
  BY DEF FileTypeOK
<1>1. \A i \in Writers : /\ thread'[i].pc = IF i = j THEN "write" ELSE thread[i].pc
                         /\ thread'[i].combined = thread[i].combined
  BY <1>0 DEF OpenTruncates, ThreadType
<1>2. thread[j].pc = "open" /\ target' = target /\ written' = written
  BY DEF OpenTruncates, fileHistory
<1>3. \A i \in Writers : Combined(i)' = Combined(i)
  BY <1>2 DEF Combined
<1>4. QED
  BY <1>1, <1>2, <1>3 DEF Kept

LEMMA KeptByWrite ==
  ASSUME FileTypeOK, Kept, ~overlapped, AloneInv, NEW j \in Writers, WriteText(j)
  PROVE  Kept'
<1> USE DEF ThreadAt, InWrite, Goto
<1>0. thread[j] \in ThreadType /\ written \in Tokens /\ target' = target
      /\ target.mode \in {"overwrite", "append", "error"}
  BY DEF FileTypeOK, WriteText
<1>1. \A i \in Writers : InWrite(i) => i = j
  BY DEF AloneInv, WriteText
<1>2. \A i \in Writers : ~InWrite(i)'
  BY <1>0, <1>1 DEF WriteText, FileTypeOK, ThreadType
<1>3. file' = Text(Combined(j))
  BY DEF AloneInv, Kept, WriteText
<1>4. /\ written' = Append(written, j) /\ written' # <<>>
      /\ Last(written') = j /\ Len(written') = Len(written) + 1
  BY <1>0, AppendFacts DEF WriteText
<1>5. target.mode = "error" => written = <<>>
  BY DEF Kept, WriteText
<1>6. Combined(j) = Expected'
  <2>1. CASE target.mode = "append"
    BY <1>0, <1>4, <2>1 DEF Combined, Expected
  <2>2. CASE target.mode = "overwrite"
    BY <1>0, <1>4, <2>2 DEF Combined, Expected
  <2>3. CASE target.mode = "error"
    <3>1. written' = <<j>>
      BY <1>4, <1>5, <2>3
    <3>2. QED
      BY <1>0, <2>3, <3>1 DEF Combined, Expected
  <2>4. QED
    BY <1>0, <2>1, <2>2, <2>3
<1>7. target.mode = "error" => Len(written') <= 1
  BY <1>4, <1>5
<1>8. QED
  BY <1>0, <1>2, <1>3, <1>6, <1>7 DEF Kept, Text

LEMMA ContentStep ==
  ASSUME FileTypeOK, SinkInv, AloneInv, ContentInv, FileStep
  PROVE  ContentInv'
<1>1. ~file'.there => written' = <<>>
  BY ThereStep DEF ContentInv
<1>2. ASSUME ~overlapped', ~damaged', target'.header PROVE Kept'
  <2> USE DEF ThreadAt, InWrite, Goto, fileHistory
  <2>0. \A i \in Writers : thread[i] \in ThreadType
    BY DEF FileTypeOK
  <2>1. target' = target /\ ~overlapped /\ ~damaged
    <3>1. ASSUME NEW j \in Writers, CheckTarget(j) PROVE target' = target /\ ~overlapped /\ ~damaged
      BY <1>2, <3>1, Zenon DEF CheckTarget
    <3>2. ASSUME NEW j \in Writers, FailMidway(j) PROVE FALSE
      BY <1>2, <3>2 DEF FailMidway
    <3>3. CASE ProcessDies
      BY <1>2, <3>3, Zenon DEF ProcessDies
    <3>4. ASSUME NEW j \in Writers,
                 \/ RefusePath(j) \/ ToThread(j) \/ CancelSink(j) \/ ReadExisting(j)
                 \/ FailBeforeOpen(j) \/ OpenTruncates(j) \/ WriteText(j)
          PROVE  UNCHANGED <<target, overlapped, damaged>>
      BY <3>4 DEF RefusePath, ToThread, CancelSink, ReadExisting, FailBeforeOpen, OpenTruncates,
         WriteText
    <3>5. QED
      BY <1>2, <3>1, <3>2, <3>3, <3>4 DEF FileStep
  <2>2. Kept /\ (~file.there => written = <<>>)
    BY <1>2, <2>1 DEF ContentInv
  <2>3. ASSUME NEW j \in Writers,
               RefusePath(j) \/ ToThread(j) \/ CancelSink(j) \/ FailBeforeOpen(j)
        PROVE  Kept'
    <3>1. /\ UNCHANGED <<target, file, written>>
          /\ \A i \in Writers : /\ InWrite(i)' => thread'[i] = thread[i]
                                /\ ThreadAt(i, "write") => ThreadAt(i, "write")'
      <4>1. CASE RefusePath(j)
        BY <4>1 DEF RefusePath
      <4>2. CASE ToThread(j)
        <5>1. thread[j].pc \notin {"read", "open", "write"}
          BY <4>2 DEF ToThread, SinkInv
        <5>2. QED
          BY <2>0, <4>2, <5>1 DEF ToThread, FileTypeOK, ThreadType
      <4>3. CASE CancelSink(j) \/ FailBeforeOpen(j)
        BY <2>0, <4>3 DEF CancelSink, FailBeforeOpen, FileTypeOK, ThreadType
      <4>4. QED
        BY <2>3, <4>1, <4>2, <4>3
    <3>2. QED
      BY <2>2, <3>1, KeptFrame
  <2>4. ASSUME NEW j \in Writers, CheckTarget(j) PROVE Kept'
    BY <1>2, <2>2, <2>4, KeptByCheck DEF CheckTarget
  <2>5. ASSUME NEW j \in Writers, ReadExisting(j) PROVE Kept'
    BY <1>2, <2>1, <2>2, <2>5, KeptByRead
  <2>6. ASSUME NEW j \in Writers, OpenTruncates(j) PROVE Kept'
    BY <2>2, <2>6, KeptByOpen
  <2>7. ASSUME NEW j \in Writers, WriteText(j) PROVE Kept'
    BY <2>1, <2>2, <2>7, KeptByWrite
  <2>8. ASSUME NEW j \in Writers, FailMidway(j) PROVE FALSE
    BY <1>2, <2>8 DEF FailMidway
  <2>9. CASE ProcessDies
    <3>1. \A i \in Writers : ~ThreadAt(i, "write")
      BY <1>2, <2>9 DEF ProcessDies
    <3>2. UNCHANGED <<target, file, written>>
      BY <2>9, <3>1, VisibleType DEF ProcessDies
    <3>3. \A i \in Writers : ~InWrite(i)'
      BY <2>0, <2>9 DEF ProcessDies, ThreadType
    <3>4. QED
      BY <2>2, <3>1, <3>2, <3>3, KeptFrame
  <2>10. QED
    BY <2>3, <2>4, <2>5, <2>6, <2>7, <2>8, <2>9 DEF FileStep
<1>3. QED
  BY <1>1, <1>2 DEF ContentInv

LEMMA FileNext ==
  ASSUME FileTypeOK, FileInv, [FileStep]_fileVars
  PROVE  FileTypeOK' /\ FileInv'
<1>1. CASE FileStep
  BY <1>1, FileTypeStep, SinkStep, AloneStep, ContentStep DEF FileInv
<1>2. CASE UNCHANGED fileVars
  <2>1. FileTypeOK' /\ SinkInv' /\ AloneInv'
    BY <1>2 DEF FileTypeOK, FileInv, SinkInv, AloneInv, ThreadAt, InWrite, fileVars
  <2>2. ContentInv'
    BY <1>2, KeptFrame DEF FileInv, ContentInv, ThreadAt, fileVars
  <2>3. QED
    BY <2>1, <2>2 DEF FileInv
<1>3. QED
  BY <1>1, <1>2

\* The invariant holds throughout.
LEMMA FileInvariance == FileSpec => [](FileTypeOK /\ FileInv)
<1>1. FileTypeOK /\ FileInv /\ [FileStep]_fileVars => FileTypeOK' /\ FileInv'
  BY FileNext
<1>2. QED
  BY <1>1, FileInitInv, PTL DEF FileSpec

\* Types of the file, the threads and the history of writes.
THEOREM FileTypeCorrect == FileSpec => []FileTypeOK
BY FileInvariance, PTL

\* However many executions of file_sink share a path: as long as their calls of
\* write_records do not overlap and none stops half-way, the file holds what
\* the finished calls wrote, although tasks are cancelled, calls fail before
\* they open the file and processes die between calls; and what the engine was
\* told of an execution is always true.
THEOREM FileWritesAreKept == FileSpec => []WritesAreKept
<1>1. FileTypeOK /\ FileInv => WritesAreKept
  <2> SUFFICES ASSUME FileTypeOK, FileInv PROVE WritesAreKept
    OBVIOUS
  <2>1. ASSUME ~overlapped, ~damaged, QuietFile, target.header
        PROVE  /\ file.body = Expected
               /\ file.there => file.ok
               /\ target.mode = "error" => Len(written) <= 1
    BY <2>1 DEF FileInv, ContentInv, Kept, QuietFile, InWrite, ThreadAt
  <2>2. \A i \in Writers : /\ sink[i] = "done" => i \in Range(written)
                           /\ sink[i] = "failed" => i \notin Range(written)
    BY DEF FileInv, SinkInv
  <2>3. QED
    BY <2>1, <2>2 DEF WritesAreKept
<1>2. QED
  BY <1>1, FileInvariance, PTL

-----------------------------------------------------------------------------
(* TableSink: the inductive invariant.                                     *)

Committed == 1..Len(committed)
Who == {committed[k].who : k \in Committed}

\* An execution commits at most once, and only while it is running.
OnceInv ==
    /\ \A k, m \in Committed : k # m => committed[k].who # committed[m].who
    /\ \A i \in Transactions :
          /\ Open(i) => load[i] = "running"
          /\ load[i] \in {"off", "idle", "running"} => i \notin Who
          /\ load[i] \in {"failed", "cancelled"} /\ ~tx[i].sent => i \notin Who
          /\ load[i] = "done" => i \in Who
          /\ tx[i].began <= Len(committed)

\* What is committed, apart from what transactions under way will do.
RowsInv ==
    /\ table.rows \subseteq Who \ sinkConfig.empty
    /\ Len(committed) > 0 =>
          /\ table.there
          /\ {committed[Len(committed)].who} \ sinkConfig.empty \subseteq table.rows
    /\ sinkConfig.mode = "append" =>
          /\ table.rows = Who \ sinkConfig.empty
          /\ \A i \in Transactions : tx[i].deleted = {} /\ tx[i].pc \notin {"delete", "lock"}

\* In mode replace, what was committed before a transaction began is gone, or
\* in its snapshot, or among the rows it deletes; a transaction that found no
\* table began before every commit.
Older(i, S) ==
    \A k \in Committed :
        k <= tx[i].began /\ committed[k].who \in table.rows => committed[k].who \in S

ReplaceInv ==
    sinkConfig.mode = "replace" =>
        /\ \A i \in Transactions :
              /\ tx[i].pc \in {"checkfirst", "create"} => tx[i].began = 0
              /\ tx[i].pc = "lock" => Older(i, tx[i].snapshot)
              /\ tx[i].pc \in {"insert", "commit"} => Older(i, tx[i].deleted)
        /\ \A k, m \in Committed : k < m /\ committed[m].began >= k =>
              committed[k].who \notin table.rows

TableInv == OnceInv /\ RowsInv /\ ReplaceInv

-----------------------------------------------------------------------------
(* Lemmas.                                                                 *)

\* Nobody commits twice, so there are at most as many commits as executions
\* and the rows that were there before.
LEMMA CommitCount ==
  ASSUME TableTypeOK, OnceInv
  PROVE  Len(committed) \in 0..(Loaders + 1)
<1> DEFINE n == Len(committed)
           f == [k \in 1..n |-> committed[k].who]
<1>1. n \in Nat
  BY DEF TableTypeOK
<1>2. f \in [1..n -> 0..Loaders]
  <2>1. \A k \in 1..n : committed[k] \in CommitType
    BY ElementOfSeq DEF TableTypeOK
  <2>2. QED
    BY <2>1 DEF CommitType
<1>3. \A k, m \in 1..n : k # m => f[k] # f[m]
  BY DEF OnceInv, Committed
<1>4. /\ IsFiniteSet(1..n) /\ Cardinality(1..n) = n
      /\ IsFiniteSet(0..Loaders) /\ Cardinality(0..Loaders) = Loaders + 1
  <2> HIDE DEF n
  <2>1. IsFiniteSet(1..n) /\ Cardinality(1..n) = IF 1 > n THEN 0 ELSE n - 1 + 1
    BY <1>1, FS_Interval
  <2>2. IsFiniteSet(0..Loaders) /\ Cardinality(0..Loaders) = IF 0 > Loaders THEN 0 ELSE Loaders - 0 + 1
    BY FS_Interval, LoadersAssumption
  <2>3. QED
    BY <1>1, <2>1, <2>2, LoadersAssumption
<1> HIDE DEF f, n
<1>5. ~(Loaders + 1 < n)
  BY <1>2, <1>3, <1>4, FS_PigeonHole
<1>6. QED
  BY <1>1, <1>5, LoadersAssumption DEF n

\* An execution that does not commit, whose transaction becomes t and of
\* which the engine then knows l.
LEMMA LocalStep ==
  ASSUME TableTypeOK, TableInv, NEW i \in Transactions,
         UNCHANGED <<sinkConfig, table, committed>>,
         NEW t \in TxType, tx' = [tx EXCEPT ![i] = t],
         NEW l \in LoadStates \ {"done"}, load' = [load EXCEPT ![i] = l],
         i \notin Who, t.pc # "none" => l = "running", t.began <= Len(committed),
         sinkConfig.mode = "append" => t.deleted = {} /\ t.pc \notin {"delete", "lock"},
         sinkConfig.mode = "replace" =>
            /\ t.pc \in {"checkfirst", "create"} => t.began = 0
            /\ t.pc = "lock" =>
                 \A k \in Committed : k <= t.began /\ committed[k].who \in table.rows =>
                     committed[k].who \in t.snapshot
            /\ t.pc \in {"insert", "commit"} =>
                 \A k \in Committed : k <= t.began /\ committed[k].who \in table.rows =>
                     committed[k].who \in t.deleted
  PROVE  TableTypeOK' /\ TableInv'
<1>1. tx'[i] = t /\ load'[i] = l /\ \A j \in Transactions \ {i} : tx'[j] = tx[j] /\ load'[j] = load[j]
  BY DEF TableTypeOK
<1>2. TableTypeOK'
  BY DEF TableTypeOK
<1>3. Who' = Who /\ Committed' = Committed
  BY DEF Who, Committed
<1>4. OnceInv'
  BY <1>1, <1>3 DEF TableInv, OnceInv, Open
<1>5. RowsInv'
  BY <1>1, <1>3 DEF TableInv, RowsInv
<1>6. ReplaceInv'
  BY <1>1, <1>3 DEF TableInv, ReplaceInv, Older
<1>7. QED
  BY <1>2, <1>4, <1>5, <1>6 DEF TableInv

\* What is left of a transaction that has ended.
LEMMA EndedTx ==
  ASSUME NEW i
  PROVE  LET t == [NoTransaction EXCEPT !.sent = In(i, "commit")] IN
         t \in TxType /\ t.pc = "none" /\ t.deleted = {} /\ t.began = 0 /\ t.sent = In(i, "commit")
<1> DEFINE b == In(i, "commit")
           t == [NoTransaction EXCEPT !.sent = b]
<1>1. b \in BOOLEAN
  BY DEF In
<1> HIDE DEF b
<1>2. NoTransaction \in TxType /\ NoTransaction.pc = "none" /\ NoTransaction.deleted = {}
      /\ NoTransaction.began = 0
  BY LoadersAssumption DEF NoTransaction, TxType
<1>3. t \in TxType /\ t.sent = b
  BY <1>1, <1>2 DEF TxType
<1>4. t.pc = "none" /\ t.deleted = {} /\ t.began = 0
  BY <1>2 DEF TxType
<1>5. QED
  BY <1>3, <1>4 DEF b

\* The end of a transaction that leaves nothing.
LEMMA RollbackStep ==
  ASSUME TableTypeOK, TableInv, NEW i \in Transactions, Open(i),
         NEW l \in {"failed", "cancelled"}, Rollback(i, l)
  PROVE  TableTypeOK' /\ TableInv'
<1> DEFINE t == [NoTransaction EXCEPT !.sent = In(i, "commit")]
<1>1. t \in TxType /\ t.pc = "none" /\ t.deleted = {} /\ t.began = 0
  BY EndedTx
<1>2. i \notin Who /\ t.began <= Len(committed)
  BY <1>1 DEF TableInv, OnceInv, TableTypeOK
<1>3. /\ tx' = [tx EXCEPT ![i] = t] /\ load' = [load EXCEPT ![i] = l]
      /\ UNCHANGED <<sinkConfig, table, committed>> /\ l \in LoadStates \ {"done"}
  BY DEF Rollback, EndTx, LoadStates
<1> HIDE DEF t
<1>4. QED
  BY <1>1, <1>2, <1>3, LocalStep

\* What a commit of i adds to the history.
LEMMA AppliedHistory ==
  ASSUME TableTypeOK, TableInv, NEW i \in Transactions, Open(i), Apply(i)
  PROVE  /\ committed' \in Seq(CommitType)
         /\ Len(committed') = Len(committed) + 1 /\ Len(committed) \in Nat
         /\ \A k \in Committed : committed'[k] = committed[k]
         /\ committed'[Len(committed) + 1] = [who |-> i, began |-> tx[i].began]
         /\ Who' = Who \cup {i}
         /\ i \notin Who
<1> DEFINE c == [who |-> i, began |-> tx[i].began]
<1>1. committed \in Seq(CommitType) /\ c \in CommitType
  BY LoadersAssumption DEF TableTypeOK, TxType, CommitType, Transactions
<1>2. committed' = Append(committed, c)
  BY DEF Apply
<1> HIDE DEF c
<1>3. /\ committed' \in Seq(CommitType) /\ Len(committed') = Len(committed) + 1 /\ Len(committed) \in Nat
      /\ \A k \in 1..Len(committed) : committed'[k] = committed[k]
      /\ committed'[Len(committed) + 1] = c
  BY <1>1, <1>2, AppendProperties
<1>4. Who' = Who \cup {c.who}
  <2>1. Committed' = Committed \cup {Len(committed) + 1}
    BY <1>3 DEF Committed
  <2>2. QED
    BY <1>3, <2>1 DEF Who, Committed
<1>5. c.who = i
  BY DEF c
<1>6. QED
  BY <1>3, <1>4, <1>5 DEF c, Committed, TableInv, OnceInv

\* A commit.
LEMMA ApplyStep ==
  ASSUME TableTypeOK, TableInv, NEW i \in Transactions, In(i, "commit"), Apply(i),
         NEW l \in {"done", "failed", "cancelled"}, load' = [load EXCEPT ![i] = l]
  PROVE  TableTypeOK' /\ TableInv'
<1> DEFINE n == Len(committed)
<1>0. Open(i)
  BY DEF In, Open
<1>1. /\ Len(committed') = n + 1 /\ n \in Nat
      /\ \A k \in 1..n : committed'[k] = committed[k]
      /\ committed'[n + 1].who = i /\ committed'[n + 1].began = tx[i].began
      /\ Who' = Who \cup {i} /\ i \notin Who
      /\ committed' \in Seq(CommitType)
  <2>1. /\ Len(committed') = n + 1 /\ n \in Nat
        /\ \A k \in 1..n : committed'[k] = committed[k]
        /\ committed'[n + 1] = [who |-> i, began |-> tx[i].began]
        /\ Who' = Who \cup {i} /\ i \notin Who
        /\ committed' \in Seq(CommitType)
    BY <1>0, AppliedHistory DEF Committed
  <2>2. committed'[n + 1].who = i /\ committed'[n + 1].began = tx[i].began
    BY <2>1
  <2>3. QED
    BY <2>1, <2>2
<1>2. /\ UNCHANGED sinkConfig /\ table'.there = TRUE
      /\ table'.rows = (table.rows \ tx[i].deleted) \cup ({i} \ sinkConfig.empty)
  BY DEF Apply, Batch
<1> DEFINE t == [NoTransaction EXCEPT !.sent = In(i, "commit")]
<1>3. /\ tx'[i] = t /\ load'[i] = l
      /\ \A j \in Transactions \ {i} : tx'[j] = tx[j] /\ load'[j] = load[j]
      /\ tx' = [tx EXCEPT ![i] = t]
  BY DEF Apply, EndTx, TableTypeOK
<1>3a. t \in TxType /\ t.pc = "none" /\ t.deleted = {} /\ t.began = 0 /\ t.sent
  BY EndedTx
<1> HIDE DEF t
<1>4. TableTypeOK'
  <2>2. tx' \in [Transactions -> TxType]
    BY <1>3, <1>3a DEF TableTypeOK
  <2>3. table' \in [there : BOOLEAN, rows : SUBSET (0..Loaders)]
    <3>1. (table.rows \ tx[i].deleted) \cup Batch(i) \in SUBSET (0..Loaders)
      BY LoadersAssumption DEF TableTypeOK, Batch, Transactions
    <3>2. QED
      BY <3>1 DEF Apply
  <2>4. load' \in [Transactions -> LoadStates]
    BY DEF TableTypeOK, LoadStates
  <2>5. QED
    BY <1>1, <1>2, <2>2, <2>3, <2>4 DEF TableTypeOK
<1>5. \A k \in 1..n : committed[k].who \in Who /\ committed[k].who # i
  BY <1>1 DEF Who, Committed
<1>6. OnceInv'
  <2>1. ASSUME NEW k \in 1..(n + 1), NEW m \in 1..(n + 1), k # m
        PROVE  committed'[k].who # committed'[m].who
    <3>1. CASE k \in 1..n /\ m \in 1..n
      BY <1>1, <2>1, <3>1 DEF TableInv, OnceInv, Committed
    <3>2. CASE k = n + 1 /\ m \in 1..n
      BY <1>1, <1>5, <3>2
    <3>3. CASE k \in 1..n /\ m = n + 1
      BY <1>1, <1>5, <3>3
    <3>4. QED
      BY <1>1, <2>1, <3>1, <3>2, <3>3
  <2>2. ASSUME NEW j \in Transactions
        PROVE  /\ Open(j)' => load'[j] = "running"
               /\ load'[j] \in {"off", "idle", "running"} => j \notin Who'
               /\ load'[j] \in {"failed", "cancelled"} /\ ~tx'[j].sent => j \notin Who'
               /\ load'[j] = "done" => j \in Who'
               /\ tx'[j].began <= n + 1
    <3>1. CASE j = i
      BY <1>1, <1>3, <1>3a, <3>1 DEF Open
    <3>2. CASE j # i
      <4>1. tx[j].began <= n /\ tx[j].began \in Nat
        BY LoadersAssumption DEF TableInv, OnceInv, TableTypeOK, TxType
      <4>2. QED
        BY <1>1, <1>3, <3>2, <4>1 DEF TableInv, OnceInv, Open
    <3>3. QED
      BY <3>1, <3>2
  <2>3. QED
    BY <1>1, <2>1, <2>2 DEF OnceInv, Committed
<1>7. RowsInv'
  <2>1. table.rows \subseteq Who \ sinkConfig.empty
    BY DEF TableInv, RowsInv
  <2>2. table'.rows \subseteq Who' \ sinkConfig'.empty
    BY <1>1, <1>2, <2>1
  <2>3. {committed'[n + 1].who} \ sinkConfig'.empty \subseteq table'.rows
    BY <1>1, <1>2
  <2>4. sinkConfig.mode = "append" =>
          /\ table'.rows = Who' \ sinkConfig.empty
          /\ \A j \in Transactions : tx'[j].deleted = {} /\ tx'[j].pc \notin {"delete", "lock"}
    BY <1>1, <1>2, <1>3, <1>3a DEF TableInv, RowsInv
  <2>5. QED
    BY <1>1, <1>2, <2>2, <2>3, <2>4 DEF RowsInv
<1>8. ReplaceInv'
  <2> SUFFICES ASSUME sinkConfig.mode = "replace" PROVE ReplaceInv'
    BY <1>2 DEF ReplaceInv
  <2>0. \A k \in 1..n : committed[k].who \in table'.rows =>
           committed[k].who \in table.rows /\ committed[k].who \notin tx[i].deleted
    BY <1>2, <1>5
  <2>1. ASSUME NEW j \in Transactions, j # i, NEW S, Older(j, S)
        PROVE  \A k \in Committed' : k <= tx'[j].began /\ committed'[k].who \in table'.rows =>
                   committed'[k].who \in S
    <3>1. tx[j].began <= n /\ tx[j].began \in Nat /\ tx'[j] = tx[j]
      BY <1>3, <2>1, LoadersAssumption DEF TableInv, OnceInv, TableTypeOK, TxType
    <3>2. ASSUME NEW k \in 1..(n + 1), k <= tx[j].began, committed'[k].who \in table'.rows
          PROVE  committed'[k].who \in S
      <4>1. k \in 1..n
        BY <1>1, <3>1, <3>2
      <4>2. QED
        BY <1>1, <2>0, <2>1, <3>2, <4>1 DEF Older, Committed
    <3>3. QED
      BY <1>1, <3>1, <3>2 DEF Committed
  <2>2. ASSUME NEW j \in Transactions
        PROVE  /\ tx'[j].pc \in {"checkfirst", "create"} => tx'[j].began = 0
               /\ tx'[j].pc = "lock" => Older(j, tx[j].snapshot)'
               /\ tx'[j].pc \in {"insert", "commit"} => Older(j, tx[j].deleted)'
    <3>1. CASE j = i
      BY <1>3, <1>3a, <3>1
    <3>2. CASE j # i
      <4>1. /\ tx[j].pc = "lock" => Older(j, tx[j].snapshot)
            /\ tx[j].pc \in {"insert", "commit"} => Older(j, tx[j].deleted)
            /\ tx[j].pc \in {"checkfirst", "create"} => tx[j].began = 0
        BY DEF TableInv, ReplaceInv
      <4>2. tx'[j] = tx[j]
        BY <1>3, <3>2
      <4>3. ASSUME tx[j].pc = "lock" PROVE Older(j, tx[j].snapshot)'
        BY <2>1, <3>2, <4>1, <4>2, <4>3 DEF Older
      <4>4. ASSUME tx[j].pc \in {"insert", "commit"} PROVE Older(j, tx[j].deleted)'
        BY <2>1, <3>2, <4>1, <4>2, <4>4 DEF Older
      <4>5. QED
        BY <4>1, <4>2, <4>3, <4>4
    <3>3. QED
      BY <3>1, <3>2
  <2>3. ASSUME NEW k \in 1..(n + 1), NEW m \in 1..(n + 1), k < m, committed'[m].began >= k
        PROVE  committed'[k].who \notin table'.rows
    <3>1. k \in 1..n /\ committed'[k] = committed[k]
      BY <1>1, <2>3
    <3>2. CASE m \in 1..n
      BY <1>1, <2>0, <2>3, <3>1, <3>2 DEF TableInv, ReplaceInv, Committed
    <3>3. CASE m = n + 1
      <4>1. Older(i, tx[i].deleted) /\ k <= tx[i].began
        BY <1>1, <2>3, <3>3, LoadersAssumption DEF TableInv, ReplaceInv, In, TableTypeOK, TxType
      <4>2. QED
        BY <2>0, <3>1, <4>1 DEF Older, Committed
    <3>4. QED
      BY <1>1, <2>3, <3>2, <3>3
  <2>4. QED
    BY <1>1, <2>2, <2>3 DEF ReplaceInv, Committed
<1>9. QED
  BY <1>4, <1>6, <1>7, <1>8 DEF TableInv

-----------------------------------------------------------------------------
(* The statements of a transaction.                                        *)

\* An execution before and at its first statement.
LEMMA BeginStep ==
  ASSUME TableTypeOK, TableInv, NEW i \in Transactions, RefuseHost(i) \/ BeginTx(i)
  PROVE  TableTypeOK' /\ TableInv'
<1>0. tx[i] \in TxType /\ i \notin Who /\ tx[i].pc = "none" /\ Len(committed) \in 0..(Loaders + 1)
      /\ UNCHANGED <<sinkConfig, table, committed>>
  BY CommitCount DEF TableTypeOK, TableInv, OnceInv, Open, RefuseHost, BeginTx
<1>1. tx[i].began <= Len(committed) /\ (sinkConfig.mode = "append" => tx[i].deleted = {})
  BY DEF TableInv, OnceInv, RowsInv
<1>2. CASE RefuseHost(i)
  <2>1. tx' = [tx EXCEPT ![i] = tx[i]] /\ load' = [load EXCEPT ![i] = "failed"]
    BY <1>2 DEF RefuseHost, TableTypeOK
  <2>2. QED
    BY <1>0, <1>1, <2>1, LocalStep DEF LoadStates
<1>3. CASE BeginTx(i)
  <2> DEFINE t == [tx[i] EXCEPT !.pc = "reflect", !.began = Len(committed)]
  <2>1. tx' = [tx EXCEPT ![i] = t] /\ load' = [load EXCEPT ![i] = "running"]
    BY <1>3 DEF BeginTx, TableTypeOK
  <2>2. t \in TxType /\ t.pc = "reflect" /\ t.began = Len(committed) /\ t.deleted = tx[i].deleted
    BY <1>0 DEF TxType
  <2>3. t.began <= Len(committed)
    BY <1>0, <2>2
  <2> HIDE DEF t
  <2>4. QED
    BY <1>0, <1>1, <2>1, <2>2, <2>3, LocalStep DEF LoadStates
<1>4. QED
  BY <1>2, <1>3

\* A statement of an open transaction that leaves the table alone.
LEMMA StatementStep ==
  ASSUME TableTypeOK, TableInv, NEW i \in Transactions,
         \/ Reflect(i) \/ CheckFirst(i) \/ CreateTable(i)
         \/ DeleteStarts(i) \/ DeleteRows(i) \/ InsertRows(i)
  PROVE  TableTypeOK' /\ TableInv'
<1>0. /\ tx[i] \in TxType /\ Open(i) /\ load[i] = "running" /\ i \notin Who
      /\ UNCHANGED <<sinkConfig, table, committed, load>>
      /\ tx[i].began <= Len(committed) /\ Len(committed) \in Nat /\ tx[i].began \in Nat
      /\ load' = [load EXCEPT ![i] = "running"]
  <2>1. /\ Open(i) /\ UNCHANGED <<sinkConfig, table, committed, load>>
    BY DEF Reflect, CheckFirst, CreateTable, MayCreate, DeleteStarts, DeleteRows, InsertRows, In, Open
  <2>2. load[i] = "running" /\ i \notin Who /\ tx[i].began <= Len(committed)
    BY <2>1 DEF TableInv, OnceInv
  <2>3. tx[i] \in TxType /\ Len(committed) \in Nat /\ load' = [load EXCEPT ![i] = "running"]
    BY <2>1, <2>2 DEF TableTypeOK
  <2>4. tx[i].began \in Nat
    BY <2>3, LoadersAssumption DEF TxType
  <2>5. QED
    BY <2>1, <2>2, <2>3, <2>4
<1>1. /\ sinkConfig.mode = "append" => tx[i].deleted = {} /\ tx[i].pc \notin {"delete", "lock"}
      /\ sinkConfig.mode \in {"append", "replace"}
      /\ Len(committed) > 0 => table.there
      /\ sinkConfig.mode = "replace" =>
           /\ tx[i].pc \in {"checkfirst", "create"} => tx[i].began = 0
           /\ tx[i].pc = "lock" => Older(i, tx[i].snapshot)
           /\ tx[i].pc \in {"insert", "commit"} => Older(i, tx[i].deleted)
  BY DEF TableTypeOK, TableInv, RowsInv, ReplaceInv
<1>2. ASSUME NEW p \in {"checkfirst", "create", "delete", "insert", "commit"}, Move(i, p),
             p = "delete" => sinkConfig.mode # "append",
             sinkConfig.mode = "replace" =>
                 /\ p \in {"checkfirst", "create"} => tx[i].began = 0
                 /\ p \in {"insert", "commit"} => tx[i].began = 0 \/ Older(i, tx[i].deleted)
      PROVE  TableTypeOK' /\ TableInv'
  <2> DEFINE t == [tx[i] EXCEPT !.pc = p]
  <2>1. tx' = [tx EXCEPT ![i] = t]
    BY <1>2 DEF Move, TableTypeOK
  <2>2. t \in TxType /\ t.pc = p /\ t.began = tx[i].began /\ t.deleted = tx[i].deleted
    BY <1>0 DEF TxType
  <2>3. sinkConfig.mode = "replace" /\ p \in {"insert", "commit"} =>
          \A k \in Committed : k <= t.began /\ committed[k].who \in table.rows =>
              committed[k].who \in t.deleted
    BY <1>2, <2>2 DEF Older, Committed
  <2> HIDE DEF t
  <2>4. "running" \in LoadStates \ {"done"} /\ t.began <= Len(committed)
    BY <1>0, <2>2 DEF LoadStates
  <2>5. sinkConfig.mode = "append" => t.deleted = {} /\ t.pc \notin {"delete", "lock"}
    BY <1>1, <1>2, <2>2
  <2>6. sinkConfig.mode = "replace" =>
            /\ t.pc \in {"checkfirst", "create"} => t.began = 0
            /\ t.pc # "lock"
    BY <1>2, <2>2
  <2>7. QED
    BY <1>0, <2>1, <2>2, <2>3, <2>4, <2>5, <2>6, LocalStep
<1>3. CASE Reflect(i)
  <2>1. CASE table.there
    <3>1. Move(i, IF sinkConfig.mode = "replace" THEN "delete" ELSE "insert")
      BY <1>3, <2>1 DEF Reflect
    <3>2. CASE sinkConfig.mode = "replace"
      BY <1>2, <3>1, <3>2
    <3>3. CASE sinkConfig.mode = "append"
      BY <1>2, <3>1, <3>3
    <3>4. QED
      BY <1>1, <3>2, <3>3
  <2>2. CASE ~table.there
    <3>1. Move(i, "checkfirst") /\ tx[i].began = 0
      BY <1>0, <1>1, <1>3, <2>2 DEF Reflect
    <3>2. QED
      BY <1>2, <3>1
  <2>3. QED
    BY <2>1, <2>2
<1>4. CASE CheckFirst(i)
  <2>1. Move(i, IF table.there THEN "insert" ELSE "create")
        /\ (sinkConfig.mode = "replace" => tx[i].began = 0)
    BY <1>1, <1>4 DEF CheckFirst, In
  <2>2. CASE table.there
    BY <1>2, <2>1, <2>2
  <2>3. CASE ~table.there
    BY <1>2, <2>1, <2>3
  <2>4. QED
    BY <2>2, <2>3
<1>5. CASE InsertRows(i)
  BY <1>1, <1>2, <1>5 DEF InsertRows, In
<1>6. CASE CreateTable(i)
  <2> DEFINE t == [tx[i] EXCEPT !.made = TRUE, !.pc = "insert"]
  <2>1. tx' = [tx EXCEPT ![i] = t]
    BY <1>6 DEF CreateTable, TableTypeOK
  <2>2. t \in TxType /\ t.pc = "insert" /\ t.began = tx[i].began /\ t.deleted = tx[i].deleted
    BY <1>0 DEF TxType
  <2>3. sinkConfig.mode = "replace" => t.began = 0
    BY <1>1, <1>6, <2>2 DEF CreateTable, MayCreate, In
  <2> HIDE DEF t
  <2>4. sinkConfig.mode = "replace" =>
          \A k \in Committed : k <= t.began /\ committed[k].who \in table.rows =>
              committed[k].who \in t.deleted
    BY <2>3 DEF Committed
  <2>5. "running" \in LoadStates \ {"done"} /\ t.began <= Len(committed)
    BY <1>0, <2>2 DEF LoadStates
  <2>6. sinkConfig.mode = "append" => t.deleted = {} /\ t.pc \notin {"delete", "lock"}
    BY <1>1, <2>2
  <2>7. QED
    BY <1>0, <2>1, <2>2, <2>4, <2>5, <2>6, LocalStep
<1>7. CASE DeleteStarts(i)
  <2> DEFINE t == [tx[i] EXCEPT !.snapshot = table.rows, !.pc = "lock"]
  <2>1. tx' = [tx EXCEPT ![i] = t]
    BY <1>7 DEF DeleteStarts, TableTypeOK
  <2>2. /\ t \in TxType /\ t.pc = "lock" /\ t.began = tx[i].began /\ t.deleted = tx[i].deleted
        /\ t.snapshot = table.rows
    BY <1>0 DEF TxType, TableTypeOK
  <2>3. sinkConfig.mode # "append"
    BY <1>1, <1>7 DEF DeleteStarts, In
  <2> HIDE DEF t
  <2>4. QED
    BY <1>0, <2>1, <2>2, <2>3, LocalStep DEF LoadStates
<1>8. CASE DeleteRows(i)
  <2> DEFINE t == [tx[i] EXCEPT !.deleted = tx[i].snapshot \cap table.rows, !.pc = "insert"]
  <2>1. tx' = [tx EXCEPT ![i] = t]
    BY <1>8 DEF DeleteRows, TableTypeOK
  <2>2. /\ t \in TxType /\ t.pc = "insert" /\ t.began = tx[i].began
        /\ t.deleted = tx[i].snapshot \cap table.rows
    BY <1>0 DEF TxType
  <2>3. sinkConfig.mode # "append" /\ Older(i, tx[i].snapshot)
    BY <1>1, <1>8 DEF DeleteRows, In
  <2> HIDE DEF t
  <2>4. QED
    BY <1>0, <2>1, <2>2, <2>3, LocalStep DEF LoadStates, Older
<1>9. QED
  BY <1>3, <1>4, <1>5, <1>6, <1>7, <1>8

-----------------------------------------------------------------------------
(* The theorem.                                                            *)

\* No execution has begun; the table may hold rows from before.
LEMMA TableStart == TableInit => TableTypeOK /\ TableInv
<1> SUFFICES ASSUME TableInit PROVE TableTypeOK /\ TableInv
  OBVIOUS
<1>1. NoTransaction \in TxType /\ NoTransaction.pc = "none" /\ NoTransaction.deleted = {}
      /\ NoTransaction.began = 0
  BY LoadersAssumption DEF NoTransaction, TxType
<1>2. [who |-> 0, began |-> 0] \in CommitType
  BY LoadersAssumption DEF CommitType
<1>3. /\ sinkConfig \in [mode : {"append", "replace"}, create : BOOLEAN, empty : SUBSET Transactions]
      /\ table \in {[there |-> FALSE, rows |-> {}], [there |-> TRUE, rows |-> {0}]}
      /\ load = [i \in Transactions |-> "idle"]
      /\ tx = [i \in Transactions |-> NoTransaction]
      /\ committed = IF table.there THEN <<[who |-> 0, began |-> 0]>> ELSE <<>>
  BY DEF TableInit
<1>4. 0 \notin sinkConfig.empty /\ 0 \notin Transactions
  BY <1>3 DEF Transactions
<1>5. TableTypeOK
  <2>1. table \in [there : BOOLEAN, rows : SUBSET (0..Loaders)]
    <3>1. {0} \in SUBSET (0..Loaders) /\ {} \in SUBSET (0..Loaders)
      BY LoadersAssumption
    <3>2. /\ [there |-> FALSE, rows |-> {}] \in [there : BOOLEAN, rows : SUBSET (0..Loaders)]
          /\ [there |-> TRUE, rows |-> {0}] \in [there : BOOLEAN, rows : SUBSET (0..Loaders)]
      BY <3>1
    <3>3. QED
      BY <1>3, <3>2, Zenon
  <2>2. committed \in Seq(CommitType)
    BY <1>2, <1>3
  <2>3. load \in [Transactions -> LoadStates] /\ tx \in [Transactions -> TxType]
    BY <1>1, <1>3 DEF LoadStates
  <2>4. QED
    BY <1>3, <2>1, <2>2, <2>3 DEF TableTypeOK
<1>6. CASE ~table.there
  <2>1. committed = <<>> /\ Len(committed) = 0 /\ table.rows = {}
    BY <1>3, <1>6
  <2>2. Committed = {} /\ Who = {}
    BY <2>1 DEF Committed, Who
  <2>3. QED
    BY <1>1, <1>3, <1>5, <2>1, <2>2 DEF TableInv, OnceInv, RowsInv, ReplaceInv, Open
<1>7. CASE table.there
  <2>1. /\ committed = <<[who |-> 0, began |-> 0]>> /\ table.rows = {0}
    BY <1>3, <1>7
  <2>2. Len(committed) = 1 /\ committed[1].who = 0 /\ Committed = {1}
    BY <2>1 DEF Committed
  <2>3. Who = {0}
    BY <2>2 DEF Who
  <2>4. OnceInv
    BY <1>1, <1>3, <1>4, <2>2, <2>3 DEF OnceInv, Open
  <2>5. RowsInv
    BY <1>1, <1>3, <1>4, <1>7, <2>1, <2>2, <2>3 DEF RowsInv
  <2>6. ReplaceInv
    BY <1>1, <1>3, <2>2 DEF ReplaceInv
  <2>7. QED
    BY <1>5, <2>4, <2>5, <2>6 DEF TableInv
<1>8. QED
  BY <1>6, <1>7

\* Every step of any execution keeps the invariant.
LEMMA TableNext ==
  ASSUME TableTypeOK, TableInv, [TableStep]_tableVars
  PROVE  TableTypeOK' /\ TableInv'
<1>1. ASSUME NEW i \in Transactions, TableMissing(i) \/ AlreadyExists(i) \/ StatementFails(i) \/ CancelLoad(i)
      PROVE  TableTypeOK' /\ TableInv'
  <2>1. Open(i) /\ (Rollback(i, "failed") \/ Rollback(i, "cancelled"))
    BY <1>1 DEF TableMissing, AlreadyExists, MayCreate, StatementFails, CancelLoad, In, Open
  <2>2. QED
    BY <2>1, RollbackStep
<1>2. ASSUME NEW i \in Transactions, CommitTx(i) \/ CommitFails(i) \/ CancelCommit(i)
      PROVE  TableTypeOK' /\ TableInv'
  <2>1. In(i, "commit") /\ Open(i)
    BY <1>2 DEF CommitTx, CommitFails, CancelCommit, In, Open
  <2>2. \E l \in {"done", "failed", "cancelled"} :
           \/ l # "done" /\ Rollback(i, l)
           \/ Apply(i) /\ load' = [load EXCEPT ![i] = l]
    BY <1>2 DEF CommitTx, CommitFails, CancelCommit, CommitOpen
  <2>3. QED
    BY <2>1, <2>2, RollbackStep, ApplyStep
<1>3. CASE UNCHANGED tableVars
  <2>1. TableTypeOK'
    BY <1>3 DEF tableVars, TableTypeOK
  <2>2. TableInv'
    BY <1>3 DEF tableVars, TableInv, OnceInv, RowsInv, ReplaceInv, Older, Who, Committed, Open
  <2>3. QED
    BY <2>1, <2>2
<1>4. QED
  BY <1>1, <1>2, <1>3, BeginStep, StatementStep DEF TableStep

\* Types of the table, the transactions and the history of commits.
THEOREM TableTypeCorrect == TableSpec => []TableTypeOK
<1>1. TableTypeOK /\ TableInv /\ [TableStep]_tableVars => TableTypeOK' /\ TableInv'
  BY TableNext
<1>2. QED
  BY <1>1, TableStart, PTL DEF TableSpec

\* write_table is one transaction: however many db_sink executions interleave
\* their statements, fail, are cancelled or lose the answer to a COMMIT, the
\* table holds what the commits say, a reported success committed, and nothing
\* is left of an execution that ended otherwise before its COMMIT was sent.
THEOREM TableWritesAreTransactions == TableSpec => []TableIsTrue
<1>1. TableTypeOK /\ TableInv => TableIsTrue
  <2> SUFFICES ASSUME TableTypeOK, TableInv PROVE TableIsTrue
    OBVIOUS
  <2>1. Who = {committed[k].who : k \in 1..Len(committed)}
    BY DEF Who, Committed
  <2>2. QED
    BY <2>1 DEF TableIsTrue, TableInv, OnceInv, RowsInv, ReplaceInv, Committed
<1>2. TableTypeOK /\ TableInv /\ [TableStep]_tableVars => TableTypeOK' /\ TableInv'
  BY TableNext
<1>3. QED
  BY <1>1, <1>2, TableStart, PTL DEF TableSpec
=============================================================================
