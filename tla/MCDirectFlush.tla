----------------------------- MODULE MCDirectFlush -----------------------------
(* DirectFlush on small instances: which methods the clients call in each run. *)
EXTENDS DirectFlushRefines, TLC

AllOperations == {"insert", "insert_batch", "update", "delete", "get", "scan",
                  "compact", "clear", "restart"}
\* What one task alone may call without the process dying.
SerialOperations == AllOperations \ {"restart"}
\* Reads against appending writes.
AppendOperations == {"insert", "insert_batch", "delete", "get", "scan"}
CompactAndInsert == {"insert", "compact"}
InsertAndRestart == {"insert", "restart"}

ClientSymmetry == Permutations(Clients)
=============================================================================
