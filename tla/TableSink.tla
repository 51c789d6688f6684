------------------------------ MODULE TableSink ------------------------------
(***************************************************************************)
(* db_sink: executions of one node that write one table, each in one       *)
(* transaction of its own connection (write_table).                        *)
(*                                                                         *)
(* The database is external: PostgreSQL at its default isolation, READ     *)
(* COMMITTED.  A statement sees what was committed when it started; a      *)
(* DELETE waits for transactions that delete the same rows, and a CREATE   *)
(* TABLE for one that creates the same name.  The rows of an execution are *)
(* one token, its number; 0 stands for rows that were there before.        *)
(***************************************************************************)
EXTENDS Integers, Sequences, SequencesExt

CONSTANT Loaders    \* number of executions

ASSUME LoadersAssumption == Loaders \in Nat \ {0}

Transactions == 1..Loaders

VARIABLES
    sinkConfig,   \* [mode, create, empty]: empty, the executions without records
    table,        \* what is committed: [there, rows]
    load,         \* what the engine knows of an execution
    tx,           \* [pc, made, snapshot, deleted, began, sent]; began and sent are
                  \* history: the number of commits before the transaction, and
                  \* whether it ended when its COMMIT had been sent
    committed     \* history: the commits, in order: [who, began]

tableVars == <<sinkConfig, table, load, tx, committed>>

NoTransaction ==
    [pc |-> "none", made |-> FALSE, snapshot |-> {}, deleted |-> {}, began |-> 0,
     sent |-> FALSE]

LoadStates == {"off", "idle", "running", "done", "failed", "cancelled"}
TxType ==
    [pc : {"none", "reflect", "checkfirst", "create", "delete", "lock", "insert", "commit"},
     made : BOOLEAN, snapshot : SUBSET (0..Loaders), deleted : SUBSET (0..Loaders),
     began : 0..(Loaders + 1), sent : BOOLEAN]

CommitType == [who : 0..Loaders, began : 0..(Loaders + 1)]

TableTypeOK ==
    /\ sinkConfig \in [mode : {"append", "replace"}, create : BOOLEAN, empty : SUBSET Transactions]
    /\ table \in [there : BOOLEAN, rows : SUBSET (0..Loaders)]
    /\ load \in [Transactions -> LoadStates]
    /\ tx \in [Transactions -> TxType]
    /\ committed \in Seq(CommitType)

TableInit ==
    /\ sinkConfig \in [mode : {"append", "replace"}, create : BOOLEAN, empty : SUBSET Transactions]
    /\ table \in {[there |-> FALSE, rows |-> {}], [there |-> TRUE, rows |-> {0}]}
    /\ load = [i \in Transactions |-> "idle"]
    /\ tx = [i \in Transactions |-> NoTransaction]
    /\ committed = IF table.there THEN <<[who |-> 0, began |-> 0]>> ELSE <<>>

In(i, pc) == tx[i].pc = pc
Open(i) == tx[i].pc # "none"
Move(i, pc) == tx' = [tx EXCEPT ![i].pc = pc]

\* The transaction is over; only its history is left.
EndTx(i) == tx' = [tx EXCEPT ![i] = [NoTransaction EXCEPT !.sent = In(i, "commit")]]

\* engine.begin() rolls back, and the connection is closed.
Rollback(i, st) ==
    /\ EndTx(i)
    /\ load' = [load EXCEPT ![i] = st]
    /\ UNCHANGED <<sinkConfig, table, committed>>

-----------------------------------------------------------------------------
\* ensure_db_host_allowed: a host that does not resolve, or that the policy
\* denies, fails the node before it connects.
RefuseHost(i) ==
    /\ load[i] = "idle"
    /\ load' = [load EXCEPT ![i] = "failed"]
    /\ UNCHANGED <<sinkConfig, table, tx, committed>>

BeginTx(i) ==
    /\ load[i] = "idle"
    /\ load' = [load EXCEPT ![i] = "running"]
    /\ tx' = [tx EXCEPT ![i].pc = "reflect", ![i].began = Len(committed)]
    /\ UNCHANGED <<sinkConfig, table, committed>>

Reflect(i) ==
    /\ In(i, "reflect")
    /\ \/ /\ table.there
          /\ Move(i, IF sinkConfig.mode = "replace" THEN "delete" ELSE "insert")
       \/ /\ ~table.there /\ sinkConfig.create /\ i \notin sinkConfig.empty
          /\ Move(i, "checkfirst")
    /\ UNCHANGED <<sinkConfig, table, load, committed>>

\* DbTableMissing: nothing to write to, and no leave or no columns to create it.
TableMissing(i) ==
    /\ In(i, "reflect") /\ ~table.there
    /\ ~sinkConfig.create \/ i \in sinkConfig.empty
    /\ Rollback(i, "failed")

\* metadata.create_all looks again before it creates.
CheckFirst(i) ==
    /\ In(i, "checkfirst")
    /\ Move(i, IF table.there THEN "insert" ELSE "create")
    /\ UNCHANGED <<sinkConfig, table, load, committed>>

\* CREATE TABLE waits for whoever is creating the same table.
MayCreate(i) == In(i, "create") /\ \A j \in Transactions \ {i} : ~tx[j].made

CreateTable(i) ==
    /\ MayCreate(i) /\ ~table.there
    /\ tx' = [tx EXCEPT ![i].made = TRUE, ![i].pc = "insert"]
    /\ UNCHANGED <<sinkConfig, table, load, committed>>

AlreadyExists(i) ==
    /\ MayCreate(i) /\ table.there
    /\ Rollback(i, "failed")

DeleteStarts(i) ==
    /\ In(i, "delete")
    /\ tx' = [tx EXCEPT ![i].snapshot = table.rows, ![i].pc = "lock"]
    /\ UNCHANGED <<sinkConfig, table, load, committed>>

\* It deletes the rows of its snapshot that are still there once nobody else
\* is deleting them.
DeleteRows(i) ==
    /\ In(i, "lock")
    /\ \A j \in Transactions \ {i} : tx[j].deleted \cap tx[i].snapshot = {}
    /\ tx' = [tx EXCEPT ![i].deleted = tx[i].snapshot \cap table.rows, ![i].pc = "insert"]
    /\ UNCHANGED <<sinkConfig, table, load, committed>>

\* No records: return before the INSERT.
InsertRows(i) ==
    /\ In(i, "insert")
    /\ Move(i, "commit")
    /\ UNCHANGED <<sinkConfig, table, load, committed>>

Batch(i) == {i} \ sinkConfig.empty

\* What the database does with a COMMIT.
Apply(i) ==
    /\ table' = [there |-> TRUE, rows |-> (table.rows \ tx[i].deleted) \cup Batch(i)]
    /\ committed' = Append(committed, [who |-> i, began |-> tx[i].began])
    /\ EndTx(i)
    /\ UNCHANGED sinkConfig

CommitTx(i) ==
    /\ In(i, "commit")
    /\ Apply(i)
    /\ load' = [load EXCEPT ![i] = "done"]

\* A COMMIT that has been sent and whose answer never reaches write_table was
\* applied or not; the engine knows st of the execution.
CommitOpen(i, st) ==
    \/ Apply(i) /\ load' = [load EXCEPT ![i] = st]
    \/ Rollback(i, st)

\* COMMIT fails, or the connection is lost before its answer: an exception
\* like any other, so the node failed.
CommitFails(i) ==
    /\ In(i, "commit")
    /\ CommitOpen(i, "failed")

\* Mutant: the statements before the failing one stay.
StatementFailsAlone(i) ==
    /\ Open(i) /\ ~In(i, "commit")
    /\ tx' = [tx EXCEPT ![i] = NoTransaction]
    /\ load' = [load EXCEPT ![i] = "failed"]
    /\ table' = [table EXCEPT !.rows = @ \ tx[i].deleted]
    /\ UNCHANGED <<sinkConfig, committed>>

\* A statement fails (a constraint, a type, a lost connection).
StatementFails(i) ==
    /\ Open(i) /\ ~In(i, "commit")
    /\ Rollback(i, "failed")

\* The task is cancelled or its process dies: the server rolls back.
CancelLoad(i) ==
    /\ Open(i) /\ ~In(i, "commit")
    /\ Rollback(i, "cancelled")

\* The same while the task awaits COMMIT, which nothing shields, or closes the
\* connection after it.
CancelCommit(i) ==
    /\ In(i, "commit")
    /\ CommitOpen(i, "cancelled")

TableStep ==
    \E i \in Transactions :
        \/ RefuseHost(i) \/ BeginTx(i) \/ Reflect(i) \/ TableMissing(i)
        \/ CheckFirst(i) \/ CreateTable(i) \/ AlreadyExists(i)
        \/ DeleteStarts(i) \/ DeleteRows(i) \/ InsertRows(i)
        \/ CommitTx(i) \/ CommitFails(i) \/ StatementFails(i)
        \/ CancelLoad(i) \/ CancelCommit(i)

TableSpec == TableInit /\ [][TableStep]_tableVars

TableDone == \A i \in Transactions : load[i] # "idle" /\ ~Open(i)

-----------------------------------------------------------------------------
(* Properties.                                                             *)

\* One transaction per execution, whatever interleaves.  Appended rows are all
\* there and nothing else is touched.  In mode replace the rows of the last
\* commit are there, so rows never disappear without new ones taking their
\* place, and the rows of an earlier commit are gone if a replacement began
\* after it (one that was already under way may leave both).  An execution
\* that reports success committed; one that failed or was cancelled before its
\* COMMIT was sent left nothing, and after that all of its rows or none.
TableIsTrue ==
    LET n == Len(committed)
        Left(k) == {committed[k].who} \ sinkConfig.empty
        Who == {committed[k].who : k \in 1..n}
    IN
    /\ table.rows \subseteq Who \ sinkConfig.empty
    /\ n > 0 => table.there /\ Left(n) \subseteq table.rows
    /\ sinkConfig.mode = "append" => table.rows = Who \ sinkConfig.empty
    /\ sinkConfig.mode = "replace" =>
          \A k, m \in 1..n : k < m /\ committed[m].began >= k =>
              committed[k].who \notin table.rows
    /\ \A i \in Transactions :
          /\ load[i] = "done" => i \in Who
          /\ load[i] \in {"failed", "cancelled"} /\ ~tx[i].sent => i \notin Who
=============================================================================
