--------------------------- MODULE DirectFlushRefines ---------------------------
(***************************************************************************)
(* DirectFlush implements RowStore: the map is the newest listed version   *)
(* of every row; a get that is walking the list backwards is bound to      *)
(* answer with the newest version at or before its position.               *)
(***************************************************************************)
EXTENDS DirectFlush

\* The last position up to i of a list whose file holds row r.
LastAt(list, i, r) ==
    MaxOf({j \in 1 .. i : Exists(list[j]) /\ r \in DOMAIN files[list[j].file]})

\* A row found at or before position i of a list, as a map of that row alone.
Found(list, i, r) ==
    IF \E j \in 1 .. i : Exists(list[j]) /\ r \in DOMAIN files[list[j].file]
      THEN [x \in {r} |-> files[list[LastAt(list, i, r)].file][r]]
      ELSE NoRows

AbstractJob(c) ==
    LET found == Found(ListOf(c), at[c], call[c].row)
    IN  CASE pc[c] = "idle" -> [kind |-> "none", arg |-> NoRows]
          [] pc[c] = "scanning" -> [kind |-> call[c].op, arg |-> NoRows]
          [] pc[c] = "probing" /\ (call[c].op = "get" \/ found = NoRows) -> [kind |-> "get", arg |-> found]
          [] pc[c] = "probing" /\ call[c].op = "update" /\ found # NoRows ->
               [kind |-> "write", arg |-> [r \in DOMAIN found |-> [found[r] EXCEPT !.val = call[c].val]]]
          [] pc[c] \in {"queued", "written"} /\ call[c].op = "compact" ->
               [kind |-> "compact", arg |-> NoRows]
          [] OTHER -> [kind |-> "write", arg |-> hand[c]]

Abstract == INSTANCE RowStore WITH
    rows   <- View,
    job    <- [c \in Clients |-> AbstractJob(c)],
    result <- [c \in Clients |-> IF pc[c] = "idle" THEN hand[c] ELSE NoRows]

\* Every behaviour of the manager is one of the row store's.
ImplementsRowStore == Abstract!Spec
=============================================================================
