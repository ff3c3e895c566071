-------------------------------- MODULE Transactions --------------------------------
(***************************************************************************)
(* The transaction manager and its write-ahead log (transaction.py).  Its  *)
(* lock is held while a record is appended, so one record is under way at  *)
(* a time; the append may fail, after it wrote nothing, a part of the      *)
(* record or all of it, and so may the process die.  A process appends to  *)
(* a file of its own.  Recovery reads the files oldest first, with no lock.*)
(*                                                                         *)
(* A record is [txn, type, op]: an operation of a transaction, by its      *)
(* number, its commit, its abort, or Torn.                                 *)
(***************************************************************************)
EXTENDS Naturals, Sequences, FiniteSets, Functions

CONSTANTS
    Txns,         \* identifiers of transactions, each begun once
    MaxCalls,     \* bound: operations, commits and aborts asked for
    MaxIncidents  \* bound: appends that raise, deaths of the process, and clean-ups

VARIABLES
    wal,        \* the log's files, oldest first, each a sequence of records
    mine,       \* this process has a file, the last one
    held,       \* the Transaction objects that callers in this process hold
    known,      \* _transactions: none ("no"), that object ("held"), or the state of what recovery put there
    appending,  \* the record that is being appended, and whether it is written; or Nothing
    read,       \* what a recovery that goes on has read: entries by their places, and what it must find; or NotRead
    calls,      \* operations, commits and aborts asked for; an operation's number
    tried,      \* transactions whose commit was asked for
    told,       \* what callers were told: "", "aborted" or "committed"; and the operations then
    doubtful,   \* records whose append raised after all of it was written
    cleaned,    \* transactions with records in a file that was removed
    incidents   \* how many

logVars == <<wal, mine, appending, doubtful, cleaned, incidents>>
objects == <<held, known, calls, tried, told>>
txnVars == <<logVars, objects, read>>

Nothing  == [written |-> FALSE]
NotRead  == [entries |-> <<>>, sure |-> {}, now |-> FALSE]
Object(state) == [state |-> state, operations |-> <<>>]
Record(t, type, op) == [txn |-> t, type |-> type, op |-> op]
Torn == [type |-> "torn"]

TxnInit ==
    /\ wal = <<>> /\ mine = FALSE /\ appending = Nothing /\ read = NotRead
    /\ held = [t \in Txns |-> Object("none")] /\ known = [t \in Txns |-> "no"]
    /\ calls = 0 /\ tried = {} /\ told = [t \in Txns |-> [what |-> "", operations |-> <<>>]]
    /\ doubtful = {} /\ cleaned = {} /\ incidents = 0

-----------------------------------------------------------------------------
(* Callers *)

\* begin
Begin(t) ==
    /\ held[t].state = "none"
    /\ held' = [held EXCEPT ![t] = Object("ACTIVE")]
    /\ known' = [known EXCEPT ![t] = "held"]
    /\ UNCHANGED <<logVars, read, calls, tried, told>>

\* The lock is taken: the identifier is known and the caller's object active, or the
\* call is refused.
Appends(record) ==
    /\ calls < MaxCalls /\ calls' = calls + 1
    /\ appending = Nothing /\ known[record.txn] # "no" /\ held[record.txn].state = "ACTIVE"
    /\ appending' = [record |-> record, written |-> FALSE]
    /\ UNCHANGED <<wal, mine, doubtful, cleaned, incidents, held, known, read, told>>

AddOperation(t) == Appends(Record(t, "OP", calls + 1)) /\ UNCHANGED tried
Commit(t)       == Appends(Record(t, "COMMIT", 0)) /\ tried' = tried \cup {t}
Abort(t)        == Appends(Record(t, "ABORT", 0)) /\ UNCHANGED tried

-----------------------------------------------------------------------------
(* Appending *)

\* _append_file: to this process's file, made anew if there is none.
With(record) == IF mine THEN [wal EXCEPT ![Len(wal)] = Append(@, record)] ELSE Append(wal, <<record>>)

Writes ==
    /\ appending # Nothing /\ ~appending.written
    /\ wal' = With(appending.record) /\ mine' = TRUE
    /\ appending' = [appending EXCEPT !.written = TRUE]
    /\ UNCHANGED <<doubtful, cleaned, incidents, objects, read>>

\* The transaction is marked, and its caller told, unless a callback raises.
Marks(t, state, what) ==
    /\ held' = [held EXCEPT ![t].state = state]
    /\ told' \in {told, [told EXCEPT ![t] = [what |-> what, operations |-> held[t].operations]]}

Returns ==
    LET record == appending.record
        t == record.txn
    IN  /\ appending.written /\ appending' = Nothing
        /\ CASE record.type = "COMMIT" -> Marks(t, "COMMITTED", "committed")
             [] record.type = "ABORT"  -> Marks(t, "ABORTED", "aborted")
             [] record.type = "OP" -> /\ held' = [held EXCEPT ![t].operations = Append(@, record.op)]
                                      /\ UNCHANGED told
        /\ UNCHANGED <<wal, mine, doubtful, cleaned, incidents, known, read, calls, tried>>

Incident == incidents < MaxIncidents /\ incidents' = incidents + 1

\* What is left of an append that was not written: nothing, or a part.
CutOff == wal' \in {wal, With(Torn)} /\ mine' = (mine \/ wal' # wal)

\* Mutant: the operation is in the transaction although its append raised.
AppendRaisesLate ==
    /\ appending # Nothing /\ Incident
    /\ appending' = Nothing
    /\ IF appending.written THEN doubtful' = doubtful \cup {appending.record} /\ UNCHANGED <<wal, mine>>
                            ELSE CutOff /\ UNCHANGED doubtful
    /\ held' = IF appending.record.type = "OP"
               THEN [held EXCEPT ![appending.record.txn].operations = Append(@, appending.record.op)] ELSE held
    /\ UNCHANGED <<cleaned, known, calls, tried, told, read>>

\* The append raises, in the write or in the flush after it: the object is as it was,
\* the caller is told so, and may go on.
AppendRaises ==
    /\ appending # Nothing /\ Incident
    /\ appending' = Nothing
    /\ IF appending.written THEN doubtful' = doubtful \cup {appending.record} /\ UNCHANGED <<wal, mine>>
                            ELSE CutOff /\ UNCHANGED doubtful
    /\ UNCHANGED <<cleaned, objects, read>>

\* The process ends and the next one starts.
Dies ==
    /\ Incident
    /\ IF appending # Nothing /\ ~appending.written THEN wal' \in {wal, With(Torn)} ELSE UNCHANGED wal
    /\ mine' = FALSE /\ appending' = Nothing /\ read' = NotRead
    /\ held' = [t \in Txns |-> IF held[t].state = "none" THEN held[t] ELSE Object("lost")]
    /\ known' = [t \in Txns |-> "no"]
    /\ UNCHANGED <<doubtful, cleaned, calls, tried, told>>

\* The transactions that entries, or whole records, name.
Mentioned(entries) == {entries[i].txn : i \in {k \in DOMAIN entries : entries[k] # Torn}}

\* cleanup: finished transactions that are old enough are forgotten, and the files that
\* are old enough removed, this process's file among them.
Finished(t) == (IF known[t] = "held" THEN held[t].state ELSE known[t]) \in {"COMMITTED", "ABORTED"}

CleansUp(old, files) ==
    /\ Incident /\ \A t \in old : Finished(t)
    /\ known' = [t \in Txns |-> IF t \in old THEN "no" ELSE known[t]]
    /\ wal' = SubSeq(wal, files + 1, Len(wal))
    /\ mine' = (mine /\ files < Len(wal))
    /\ cleaned' = cleaned \cup UNION {Mentioned(wal[f]) : f \in 1 .. files}
    /\ UNCHANGED <<appending, doubtful, held, read, calls, tried, told>>

-----------------------------------------------------------------------------
(* Recovery *)

TornAt(file) == {i \in DOMAIN file : file[i] = Torn}
RaisesError(file) == TornAt(file) # {}

\* The records of a file from one of them up to the next that is torn.
Whole(file, from) == {i \in from .. Len(file) : \A j \in from .. i : file[j] # Torn}

\* Which records are read from a file: one torn within its first four bytes ends it; one
\* torn later raises an error at the end of the file and, with records behind it, either
\* raises, ends the file, or swallows some of them and stops at the next that is torn.
Readings(file) ==
    {Whole(file, 1)} \cup
    {Whole(file, 1) \cup Whole(file, from) : from \in {i \in DOMAIN file : \E j \in TornAt(file) : j + 1 < i}}

Has(entries, t, type) == \E place \in DOMAIN entries : entries[place].type = type /\ entries[place].txn = t

\* The state of the transaction that the entries of its identifier make; its operations are
\* theirs, in their order.
StateOf(entries, t) ==
    CASE Has(entries, t, "COMMIT") -> "COMMITTED"
      [] Has(entries, t, "ABORT") /\ ~Has(entries, t, "COMMIT") -> "ABORTED"
      [] OTHER -> "PENDING"

\* Nothing is torn before a record of the transaction, and none was removed.
Kept(t) ==
    /\ t \notin cleaned
    /\ \A f \in DOMAIN wal : \A i \in TornAt(wal[f]), j \in DOMAIN wal[f] : i < j /\ wal[f][j] # Torn => wal[f][j].txn # t

\* The files are read, the last of them, to which this process appends, at last.
RecoveryReads ==
    /\ ~read.now
    /\ \E chosen \in [DOMAIN wal -> UNION {Readings(wal[f]) : f \in DOMAIN wal}] :
          /\ \A f \in DOMAIN wal : chosen[f] \in Readings(wal[f])
          /\ read' = [entries |-> [place \in UNION {{f} \X chosen[f] : f \in DOMAIN wal} |-> wal[place[1]][place[2]]], now |-> TRUE,
                      sure |-> {t \in Txns : told[t].what = "committed" /\ Kept(t)}]
    /\ UNCHANGED <<logVars, objects>>

\* recover: every transaction of the entries is known from now on as the entries say,
\* instead of the object that a caller of this process may hold; or reading failed.
RecoveryEnds ==
    /\ read.now /\ read' = NotRead
    /\ \/ known' = [t \in Txns |-> IF t \in Mentioned(read.entries) THEN StateOf(read.entries, t) ELSE known[t]]
       \/ (\E f \in DOMAIN wal : RaisesError(wal[f])) /\ UNCHANGED known
    /\ UNCHANGED <<logVars, held, calls, tried, told>>

TxnNext ==
    \/ \E t \in Txns : Begin(t) \/ AddOperation(t) \/ Commit(t) \/ Abort(t)
    \/ Writes \/ Returns \/ AppendRaises \/ Dies \/ RecoveryReads \/ RecoveryEnds
    \/ \E old \in SUBSET Txns, files \in 0 .. Len(wal) : (old # {} \/ files > 0) /\ CleansUp(old, files)

TxnSpec == TxnInit /\ [][TxnNext]_txnVars

-----------------------------------------------------------------------------
\* The entries are read file by file.
Before(p, q) == p[1] < q[1] \/ (p[1] = q[1] /\ p[2] < q[2])

\* Where the operations of a transaction are among the entries, without those whose append raised.
Operations(t) ==
    {place \in DOMAIN read.entries :
        LET entry == read.entries[place] IN entry.type = "OP" /\ entry.txn = t /\ entry \notin doubtful}

\* They are the operations of which the caller was told, in their order.
AsTold(t, ops) ==
    /\ {read.entries[place].op : place \in Operations(t)} = Range(ops)
    /\ \A p, q \in Operations(t) : \A i, j \in DOMAIN ops :
          read.entries[p].op = ops[i] /\ read.entries[q].op = ops[j] => (Before(p, q) <=> i < j)

\* Whatever failed, was cut off or was cleaned up in the log, and whatever was appended
\* while it was read: a recovery that reads a transaction whose commit succeeded finds it
\* committed, with the operations that succeeded and in their order, unless one of its
\* records was removed or follows a torn one; and it takes none for committed that was
\* never asked to commit, or whose caller was told that it was aborted.  (A record whose
\* append raised may be there nevertheless, and counts for recovery.)
RecoveryIsTrue ==
    read.now =>
        /\ \A t \in read.sure : StateOf(read.entries, t) = "COMMITTED" /\ AsTold(t, told[t].operations)
        /\ \A t \in Mentioned(read.entries) :
              StateOf(read.entries, t) = "COMMITTED" =>
                  t \in tried /\ (told[t].what = "aborted" => Record(t, "COMMIT", 0) \in doubtful)
=============================================================================
