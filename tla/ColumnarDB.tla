--------------------------------- MODULE ColumnarDB ---------------------------------
(***************************************************************************)
(* The first engine of the project (legacy.py over storage.py): one table  *)
(* in memory, saved as a whole into one file by every change, and a        *)
(* transaction, whose changes are made in memory at once and saved when it *)
(* is committed.  Its indexes are left out: they never get a key           *)
(* (BTreeIndex), so what the engine does to them does nothing.             *)
(*                                                                         *)
(* A task holds the database's lock for a whole insert, update or delete;  *)
(* commit, vacuum and the creation of an index save without it.  A save    *)
(* takes the table's lock in the storage manager, encodes the table as it  *)
(* is then, and suspends while a temporary file is written and put in the  *)
(* place of the table's.  The storage manager answers False to what goes   *)
(* wrong, and nobody looks at the answer.                                  *)
(***************************************************************************)
EXTENDS Naturals, Sequences, FiniteSets

CONSTANTS
    DbTasks,      \* coroutines
    DbIds,        \* identifiers that rows are inserted with
    DbValues,     \* values of the other column
    Unencodable,  \* of these: no value of the column's type
    MaxDbRows,    \* bound: rows
    MaxDbCalls    \* bound: calls

Nobody == "nobody"

\* 0 is no identifier: it stands for no condition.
ASSUME ColumnarAssumption ==
    Unencodable \subseteq DbValues /\ Nobody \notin DbTasks /\ DbIds \subseteq Nat \ {0}

VARIABLES
    table,    \* whether the table is there, and its rows [id, value] by position
    file,     \* what reading the table's file gives
    db,       \* the task that holds the database's lock
    storage,  \* the task that holds the table's lock in the storage manager
    task,     \* where each task is suspended
    txn,      \* a transaction's state, and the number of its operations
    unsaved,  \* memory holds changes that nobody has saved, nor is about to
    dbCalls

dbVars == <<table, file, db, storage, task, txn, unsaved, dbCalls>>

NoTable == [there |-> FALSE, rows |-> <<>>]
Table(rows) == [there |-> TRUE, rows |-> rows]
Dropped(rows) == [there |-> FALSE, rows |-> rows]
Free == [at |-> "idle"]

DbInit ==
    /\ table = NoTable /\ file = NoTable
    /\ db = Nobody /\ storage = Nobody /\ task = [t \in DbTasks |-> Free]
    /\ txn = [state |-> "none", ops |-> 0] /\ unsaved = FALSE /\ dbCalls = 0

-----------------------------------------------------------------------------
(* Saving *)

Encodable(rows) == \A i \in DOMAIN rows : rows[i].value \notin Unencodable

\* write_table, once it has the lock, of a table object: the current one, or one that was
\* dropped.  The rows are encoded, and the task suspends; or they cannot be, and the
\* call is over.
Encodes(t, object, left) ==
    IF Encodable(object.rows)
    THEN /\ storage' = t /\ unsaved' = (~object.there \/ table' # object)
         /\ task' = [task EXCEPT ![t] = [at |-> "writing", rows |-> object.rows, left |-> left]]
    ELSE /\ unsaved' = TRUE /\ UNCHANGED storage
         /\ task' = [task EXCEPT ![t] = [at |-> "saved", left |-> left]]

Waiting == {t \in DbTasks : task[t].at = "waiting"}

\* Mutant: the storage manager has no lock.
SavesUnlocked(t, left) == Encodes(t, table', left)

\* _save_table: left saves are to follow this one.
Saves(t, left) ==
    IF storage = Nobody /\ Waiting = {}
    THEN Encodes(t, table', left)
    ELSE /\ task' = [task EXCEPT ![t] = [at |-> "waiting", dropped |-> FALSE, left |-> left]]
         /\ UNCHANGED <<storage, unsaved>>

\* The lock is free again: the rows are those of the table object that the task was given.
GetsLock(t) ==
    /\ task[t].at = "waiting" /\ storage = Nobody
    /\ UNCHANGED table
    /\ Encodes(t, IF task[t].dropped THEN Dropped(task[t].rows) ELSE table, task[t].left)
    /\ UNCHANGED <<file, db, txn, dbCalls>>

\* The new file is in its place.
Written(t) ==
    /\ task[t].at = "writing" /\ storage' = Nobody
    /\ file' = Table(task[t].rows)
    /\ task' = [task EXCEPT ![t] = [at |-> "saved", left |-> @.left]]
    /\ UNCHANGED <<table, db, txn, unsaved, dbCalls>>

\* Writing or renaming raises.
NotWritten(t) ==
    /\ task[t].at = "writing" /\ storage' = Nobody
    /\ unsaved' = TRUE
    /\ task' = [task EXCEPT ![t] = [at |-> "saved", left |-> @.left]]
    /\ UNCHANGED <<table, file, db, txn, dbCalls>>

Unlocked(t) == db' = IF db = t THEN Nobody ELSE db

\* The call goes on: with the next save (a commit has one for each operation), or ends.
SaveReturns(t) ==
    /\ task[t].at = "saved"
    /\ IF task[t].left > 0 /\ table.there
       THEN UNCHANGED <<table, db>> /\ Saves(t, task[t].left - 1)
       ELSE /\ task' = [task EXCEPT ![t] = Free] /\ Unlocked(t)
            /\ UNCHANGED <<table, storage, unsaved>>
    /\ UNCHANGED <<file, txn, dbCalls>>

-----------------------------------------------------------------------------
(* Changing the table *)

Begins(t) == task[t] = Free /\ dbCalls < MaxDbCalls /\ dbCalls' = dbCalls + 1

\* The end of insert, update and delete: the change is saved, or is an operation of the
\* transaction, which is refused if it is over; the change itself stays.
Concludes(t, inTxn) ==
    IF ~inTxn THEN Saves(t, 0) /\ db' = t
    ELSE /\ unsaved' = TRUE /\ UNCHANGED storage
         /\ IF txn.state = "ACTIVE"
            THEN db' = t /\ task' = [task EXCEPT ![t] = [at |-> "logging"]]
            ELSE UNCHANGED <<db, task>>

Insert(t, id, value, inTxn) ==
    LET rows == table.rows
    IN  /\ Begins(t) /\ db = Nobody /\ table.there /\ Len(rows) < MaxDbRows
        /\ table' = Table(Append(rows, [id |-> id, value |-> value]))
        /\ Concludes(t, inTxn)
        /\ UNCHANGED <<file, txn>>

\* The rows a condition on the identifier selects; all, without one.
Selected(id) == {i \in DOMAIN table.rows : id = 0 \/ table.rows[i].id = id}

\* update: of the identifiers, or of the other column.
Update(t, id, column, new, inTxn) ==
    /\ Begins(t) /\ db = Nobody /\ table.there
    /\ table' = Table([i \in DOMAIN table.rows |-> IF i \in Selected(id) THEN [table.rows[i] EXCEPT ![column] = new] ELSE table.rows[i]])
    /\ Concludes(t, inTxn)
    /\ UNCHANGED <<file, txn>>

\* The i-th of some places.
Place(places, i) == CHOOSE k \in places : Cardinality({j \in places : j <= k}) = i

\* delete: the rows behind a deleted one move.
Delete(t, id, inTxn) ==
    LET gone == Selected(id)
        kept == DOMAIN table.rows \ gone
    IN  /\ Begins(t) /\ db = Nobody /\ table.there
        /\ table' = Table([i \in 1 .. Cardinality(kept) |-> table.rows[Place(kept, i)]])
        /\ Concludes(t, inTxn)
        /\ UNCHANGED <<file, txn>>

\* add_operation: its record is in the log, or could not be written, and the call raises.
Logged(t) ==
    /\ task[t].at = "logging"
    /\ task' = [task EXCEPT ![t] = Free] /\ Unlocked(t)
    /\ \/ txn.state = "ACTIVE" /\ txn' = [txn EXCEPT !.ops = @ + 1]
       \/ UNCHANGED txn
    /\ UNCHANGED <<table, file, storage, unsaved, dbCalls>>

-----------------------------------------------------------------------------
(* Tables and transactions *)

CreateTable(t) ==
    /\ Begins(t) /\ db = Nobody /\ ~table.there
    /\ table' = Table(<<>>)
    /\ Saves(t, 0) /\ db' = t
    /\ UNCHANGED <<file, txn>>

\* The file is removed with the table's lock; a save that waits for it keeps the object.
DropTable(t) ==
    /\ Begins(t) /\ db = Nobody /\ table.there /\ storage = Nobody
    /\ table' = NoTable /\ file' = NoTable /\ unsaved' = FALSE
    /\ task' = [u \in DbTasks |-> IF task[u].at = "waiting" /\ ~task[u].dropped
                                  THEN [at |-> "waiting", dropped |-> TRUE, left |-> task[u].left, rows |-> table.rows]
                                  ELSE task[u]]
    /\ UNCHANGED <<db, storage, txn>>

\* vacuum, close and create_index: the table is saved, without the lock.
Vacuum(t) ==
    /\ Begins(t) /\ table.there
    /\ UNCHANGED table /\ Saves(t, 0)
    /\ UNCHANGED <<file, db, txn>>

BeginTransaction(t) ==
    /\ Begins(t) /\ txn.state = "none" /\ txn' = [txn EXCEPT !.state = "ACTIVE"]
    /\ UNCHANGED <<table, file, db, storage, task, unsaved>>

\* commit and rollback: the manager is asked to, if nobody writes to its log.
Finishes(t, how) ==
    /\ Begins(t) /\ txn.state = "ACTIVE" /\ \A u \in DbTasks : task[u].at \notin {"logging", "committing", "aborting"}
    /\ task' = [task EXCEPT ![t] = [at |-> how]]
    /\ UNCHANGED <<table, file, db, storage, txn, unsaved>>

\* Whether the log took the commit or not, the table is saved once for each operation.
Commits(t) ==
    /\ task[t].at = "committing"
    /\ txn' \in {txn, [txn EXCEPT !.state = "COMMITTED"]}
    /\ UNCHANGED table
    /\ IF table.there /\ txn.ops > 0 THEN Saves(t, txn.ops - 1)
       ELSE task' = [task EXCEPT ![t] = Free] /\ UNCHANGED <<storage, unsaved>>
    /\ UNCHANGED <<file, db, dbCalls>>

\* What the transaction did stays in memory.
RollsBack(t) ==
    /\ task[t].at = "aborting"
    /\ txn' \in {txn, [txn EXCEPT !.state = "ABORTED"]}
    /\ task' = [task EXCEPT ![t] = Free]
    /\ UNCHANGED <<table, file, db, storage, unsaved, dbCalls>>

\* The process dies; initialize loads the file.
DbRestarts ==
    /\ table' = file
    /\ db' = Nobody /\ storage' = Nobody /\ task' = [t \in DbTasks |-> Free]
    /\ txn' = [state |-> "none", ops |-> 0] /\ unsaved' = FALSE
    /\ UNCHANGED <<file, dbCalls>>

DbNext ==
    \/ \E t \in DbTasks, inTxn \in BOOLEAN :
          /\ inTxn => txn.state # "none"
          /\ \/ \E id \in DbIds, value \in DbValues : Insert(t, id, value, inTxn)
             \/ \E id \in DbIds, new \in DbIds : id # new /\ Update(t, id, "id", new, inTxn)
             \/ \E value \in DbValues : Update(t, 0, "value", value, inTxn)
             \/ \E id \in DbIds \cup {0} : Delete(t, id, inTxn)
    \/ \E t \in DbTasks :
          \/ GetsLock(t) \/ Written(t) \/ NotWritten(t) \/ SaveReturns(t) \/ Logged(t)
          \/ CreateTable(t) \/ DropTable(t) \/ Vacuum(t) \/ BeginTransaction(t)
          \/ Finishes(t, "committing") \/ Finishes(t, "aborting") \/ Commits(t) \/ RollsBack(t)
    \/ DbRestarts

DbSpec == DbInit /\ [][DbNext]_dbVars

-----------------------------------------------------------------------------
\* Whenever no call is under way, the file holds the table as it is in memory, rows that
\* were deleted and tables that were dropped included, in whatever order calls that lock
\* the database and calls that do not have saved it: unless a save failed, a transaction
\* changed the table, or a save waited while the table was dropped, and the table was
\* not saved since.
FileIsTable == (\A t \in DbTasks : task[t] = Free) /\ ~unsaved => file = table
=============================================================================
