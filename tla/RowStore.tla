-------------------------------- MODULE RowStore --------------------------------
(***************************************************************************)
(* What DirectFlushManager promises its callers: one map from row          *)
(* identifiers to the newest version of the row.  A get answers with the   *)
(* map as it was when the call began, a scan with the map as it is when    *)
(* the call ends, a write takes effect in one step between its beginning   *)
(* and its return, or fails and has no effect.                             *)
(***************************************************************************)
EXTENDS Naturals

CONSTANTS Clients, Rows, Vals, NoVal

VARIABLES
    rows,     \* the map
    job,      \* the call each client is in, with what it was decided to do
    result    \* what each client's last call returned

vars == <<rows, job, result>>

Version == [val : Vals \cup {NoVal}, deleted : BOOLEAN]
RowMaps == UNION {[R -> Version] : R \in SUBSET Rows}
NoRows  == [r \in {} |-> r]
NoJob   == [kind |-> "none", arg |-> NoRows]

Overlay(old, new) == [r \in DOMAIN old \cup DOMAIN new |->
                        IF r \in DOMAIN new THEN new[r] ELSE old[r]]
Live(m) == [r \in {x \in DOMAIN m : ~m[x].deleted} |-> m[r]]

TypeOK ==
    /\ rows \in RowMaps
    /\ job \in [Clients -> [kind : {"none", "write", "get", "scan", "compact"}, arg : RowMaps]]
    /\ result \in [Clients -> RowMaps]

Init ==
    /\ rows = NoRows
    /\ job = [c \in Clients |-> NoJob]
    /\ result = [c \in Clients |-> NoRows]

Begin(c, kind, arg) ==
    /\ job[c] = NoJob
    /\ job' = [job EXCEPT ![c] = [kind |-> kind, arg |-> arg]]
    /\ result' = [result EXCEPT ![c] = NoRows]
    /\ UNCHANGED rows

Finish(c, answer) ==
    /\ job' = [job EXCEPT ![c] = NoJob]
    /\ result' = [result EXCEPT ![c] = answer]

\* insert and delete: any version of any rows.
BeginWrite(c) == \E m \in RowMaps : m # NoRows /\ Begin(c, "write", m)

\* update writes the version it found with new columns (a tombstone stays one);
\* of a row that is not there it is a get that finds nothing.
BeginUpdate(c) == \E r \in DOMAIN rows, v \in Vals :
    Begin(c, "write", [x \in {r} |-> [rows[r] EXCEPT !.val = v]])

BeginGet(c) == \E r \in Rows : Begin(c, "get", [x \in {r} \cap DOMAIN rows |-> rows[x]])

BeginPass(c) == \E kind \in {"scan", "compact"} : Begin(c, kind, NoRows)

\* A get that no segment covers and a scan of an empty map return at once.
ReturnNothing(c) == job[c] = NoJob /\ Finish(c, NoRows) /\ UNCHANGED rows

Commit(c) == job[c].kind = "write" /\ rows' = Overlay(rows, job[c].arg) /\ Finish(c, NoRows)
EndGet(c) == job[c].kind = "get" /\ Finish(c, job[c].arg) /\ UNCHANGED rows
EndScan(c) == job[c].kind = "scan" /\ Finish(c, rows) /\ UNCHANGED rows
EndCompact(c) == job[c].kind = "compact" /\ rows' \in {rows, Live(rows)} /\ Finish(c, NoRows)
Fail(c) == job[c].kind \in {"write", "compact"} /\ Finish(c, NoRows) /\ UNCHANGED rows
Clear(c) == job[c] = NoJob /\ rows' = NoRows /\ Finish(c, NoRows)

Next == \E c \in Clients :
    \/ BeginWrite(c) \/ BeginUpdate(c) \/ BeginGet(c) \/ BeginPass(c)
    \/ ReturnNothing(c) \/ Commit(c) \/ EndGet(c) \/ EndScan(c) \/ EndCompact(c)
    \/ Fail(c) \/ Clear(c)

Spec == Init /\ [][Next]_vars
=============================================================================
