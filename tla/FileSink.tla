------------------------------ MODULE FileSink ------------------------------
(***************************************************************************)
(* file_sink: executions of one node that write one file.                  *)
(*                                                                         *)
(* The executions are the iterations of a scope, or runs that name the     *)
(* same path.  write_records runs in a thread: it looks at the target,     *)
(* reads what is there (append), opens the file, which truncates it, and   *)
(* writes.  Cancelling the task does not stop the thread.  The records of  *)
(* an execution are one token, its number; 0 stands for records that were  *)
(* there before.  A text that is not valid in its format has ok = FALSE.   *)
(***************************************************************************)
EXTENDS Integers, Sequences, SequencesExt

CONSTANT FileWriters    \* number of executions

ASSUME FileAssumption == FileWriters \in Nat \ {0}

Writers == 1..FileWriters

VARIABLES
    target,       \* the configuration: [fmt, mode, header]
    file,         \* [there, body, ok]
    sink,         \* what the engine knows of an execution
    thread,       \* [pc, combined, alone]
    written,      \* history: the records written, in the order of the writes
    overlapped,   \* history: two threads were in write_records at a time
    damaged       \* history: a thread stopped between opening and writing

fileVars == <<target, file, sink, thread, written, overlapped, damaged>>
fileHistory == <<written, overlapped, damaged>>

Formats == {"json", "jsonl", "csv", "parquet"}
Text(body) == [there |-> TRUE, body |-> body, ok |-> TRUE]
Garbled == [there |-> TRUE, body |-> <<>>, ok |-> FALSE]
NoFile == [there |-> FALSE, body |-> <<>>, ok |-> FALSE]

Tokens == Seq(0..FileWriters)
ThreadType == [pc : {"none", "queued", "read", "open", "write", "end"},
               combined : Tokens, alone : BOOLEAN]

FileTypeOK ==
    /\ target \in [fmt : Formats, mode : {"overwrite", "append", "error"}, header : BOOLEAN]
    /\ file \in [there : BOOLEAN, body : Tokens, ok : BOOLEAN]
    /\ sink \in [Writers -> {"off", "idle", "running", "done", "failed", "cancelled"}]
    /\ thread \in [Writers -> ThreadType]
    /\ written \in Tokens
    /\ overlapped \in BOOLEAN /\ damaged \in BOOLEAN

FileInit ==
    /\ target \in [fmt : Formats, mode : {"overwrite", "append", "error"}, header : BOOLEAN]
    /\ ~target.header => target.fmt = "csv"
    /\ file \in {NoFile, Text(<<0>>)}
    /\ sink = [i \in Writers |-> "idle"]
    /\ thread = [i \in Writers |-> [pc |-> "none", combined |-> <<>>, alone |-> TRUE]]
    /\ written = file.body
    /\ overlapped = FALSE /\ damaged = FALSE

ThreadAt(i, pc) == thread[i].pc = pc
Goto(i, pc) == thread' = [thread EXCEPT ![i].pc = pc]
InWrite(i) == thread[i].pc \in {"read", "open", "write"}
QuietFile == \A i \in Writers : ~InWrite(i)

\* What the task of i learns when its thread ends; nothing if it was cancelled.
Settle(i, st) == sink' = [sink EXCEPT ![i] = IF @ = "running" THEN st ELSE @]

-----------------------------------------------------------------------------
\* The format cannot be inferred, or the access policy denies the path.
RefusePath(i) ==
    /\ sink[i] = "idle"
    /\ sink' = [sink EXCEPT ![i] = "failed"]
    /\ UNCHANGED <<target, file, thread, fileHistory>>

ToThread(i) ==
    /\ sink[i] = "idle"
    /\ sink' = [sink EXCEPT ![i] = "running"]
    /\ Goto(i, "queued")
    /\ UNCHANGED <<target, file, fileHistory>>

\* The task is cancelled (fail-fast).  A thread that has started goes on.
CancelSink(i) ==
    /\ sink[i] = "running"
    /\ sink' = [sink EXCEPT ![i] = "cancelled"]
    /\ IF ThreadAt(i, "queued") THEN Goto(i, "end") ELSE UNCHANGED thread
    /\ UNCHANGED <<target, file, fileHistory>>

\* Mutant: what is there is not read.
CheckTargetOnly(i) ==
    /\ ThreadAt(i, "queued")
    /\ overlapped' = (overlapped \/ ~QuietFile)
    /\ IF target.mode = "error" /\ file.there
       THEN Goto(i, "end") /\ Settle(i, "failed")
       ELSE /\ thread' = [thread EXCEPT ![i].combined = <<i>>, ![i].pc = "open"]
            /\ UNCHANGED sink
    /\ UNCHANGED <<target, file, written, damaged>>

\* write_records starts: mode "error" refuses a file that is there, and
\* "append" reads it.
CheckTarget(i) ==
    /\ ThreadAt(i, "queued")
    /\ overlapped' = (overlapped \/ ~QuietFile)
    /\ IF target.mode = "error" /\ file.there
       THEN Goto(i, "end") /\ Settle(i, "failed")
       ELSE /\ thread' = [thread EXCEPT
                  ![i].combined = <<i>>,
                  ![i].pc = IF target.mode = "append" /\ file.there THEN "read" ELSE "open"]
            /\ UNCHANGED sink
    /\ UNCHANGED <<target, file, written, damaged>>

\* Lines are read as they are there; the other formats are valid as a whole.
Part(body) ==
    {Garbled} \cup (IF target.fmt = "jsonl" THEN {Text(p) : p \in Prefixes(body)} ELSE {})

\* What a reader finds: somebody may be writing.
Visible ==
    IF \E j \in Writers : ThreadAt(j, "write")
    THEN UNION {Part(thread[j].combined) : j \in {j \in Writers : ThreadAt(j, "write")}}
    ELSE {file}

\* read_records as append calls it: the csv options of the node are not
\* passed on, so without a header the first record is taken for one.
Existing(text) ==
    IF target.fmt = "csv" /\ ~target.header /\ text.body # <<>> THEN Tail(text.body) ELSE text.body

ReadExisting(i) ==
    /\ ThreadAt(i, "read")
    /\ \E text \in Visible :
          IF text.ok
          THEN /\ thread' = [thread EXCEPT ![i].combined = Existing(text) \o @, ![i].pc = "open"]
               /\ UNCHANGED sink
          ELSE Goto(i, "end") /\ Settle(i, "failed")
    /\ UNCHANGED <<target, file, fileHistory>>

\* A directory that cannot be made, a file that cannot be read or opened.
FailBeforeOpen(i) ==
    /\ thread[i].pc \in {"queued", "read", "open"}
    /\ Goto(i, "end") /\ Settle(i, "failed")
    /\ UNCHANGED <<target, file, fileHistory>>

\* An empty text is a valid file of lines only.
OpenTruncates(i) ==
    /\ ThreadAt(i, "open")
    /\ file' = IF target.fmt = "jsonl" THEN Text(<<>>) ELSE Garbled
    /\ thread' = [j \in Writers |->
          IF j = i THEN [thread[i] EXCEPT !.pc = "write",
                                          !.alone = \A k \in Writers \ {i} : ~ThreadAt(k, "write")]
          ELSE [thread[j] EXCEPT !.alone = FALSE]]
    /\ UNCHANGED <<target, sink, fileHistory>>

\* Written over the text of another thread, the file may keep its tail.
Over(text) ==
    {Garbled} \cup (IF target.fmt = "jsonl"
                    THEN {Text(text \o s) : s \in Suffixes(file.body)} ELSE {})

WriteText(i) ==
    /\ ThreadAt(i, "write")
    /\ \/ file' = Text(thread[i].combined)
       \/ ~thread[i].alone /\ file' \in Over(thread[i].combined)
    /\ written' = Append(written, i)
    /\ Goto(i, "end") /\ Settle(i, "done")
    /\ UNCHANGED <<target, overlapped, damaged>>

\* The disk is full, or a value cannot be encoded.
FailMidway(i) ==
    /\ ThreadAt(i, "write")
    /\ file' \in {file} \cup Part(thread[i].combined)
    /\ damaged' = TRUE
    /\ Goto(i, "end") /\ Settle(i, "failed")
    /\ UNCHANGED <<target, written, overlapped>>

\* The process dies with all its threads; a later delivery uses another one.
ProcessDies ==
    /\ \E i \in Writers : InWrite(i) \/ ThreadAt(i, "queued")
    /\ file' \in Visible
    /\ damaged' = (damaged \/ \E i \in Writers : ThreadAt(i, "write"))
    /\ sink' = [i \in Writers |-> IF sink[i] = "running" THEN "cancelled" ELSE sink[i]]
    /\ thread' = [i \in Writers |->
          IF ThreadAt(i, "none") THEN thread[i] ELSE [thread[i] EXCEPT !.pc = "end"]]
    /\ UNCHANGED <<target, written, overlapped>>

FileStep ==
    \/ \E i \in Writers :
          \/ RefusePath(i) \/ ToThread(i) \/ CancelSink(i) \/ CheckTarget(i) \/ ReadExisting(i)
          \/ FailBeforeOpen(i) \/ OpenTruncates(i) \/ WriteText(i) \/ FailMidway(i)
    \/ ProcessDies

FileSpec == FileInit /\ [][FileStep]_fileVars

FileDone == \A i \in Writers : sink[i] # "idle" /\ thread[i].pc \in {"none", "end"}

-----------------------------------------------------------------------------
(* Properties.                                                             *)

\* What the writes so far should have left.
Expected ==
    IF target.mode = "overwrite" /\ written # <<>> THEN <<Last(written)>> ELSE written

\* write_records is only as atomic as its use: while calls do not overlap and
\* none stops between opening and writing, the file holds exactly what the
\* finished calls wrote, in order and once (append), the last of them
\* (overwrite) or the only one (error), and stays readable, although tasks
\* are cancelled while their threads write on and calls fail before they open.
\* Appending to a csv reads it with the default options, which is excepted:
\* without a header a record is lost, and with a delimiter of its own, which
\* the model leaves out, the columns of what was there become one.
WritesAreKept ==
    /\ ~overlapped /\ ~damaged /\ QuietFile /\ target.header =>
          /\ file.body = Expected
          /\ file.there => file.ok
          /\ target.mode = "error" => Len(written) <= 1
    /\ \A i \in Writers : /\ sink[i] = "done" => i \in Range(written)
                          /\ sink[i] = "failed" => i \notin Range(written)
=============================================================================
