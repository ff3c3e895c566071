------------------------------ MODULE MCRepository ------------------------------
(* Repository on small instances: two processes with a task each. *)
EXTENDS Repository, TLC

CONSTANTS b1, b2, t1, t2

MCBots  == {b1, b2}
MCTasks == {t1, t2}
MCBotOf == t1 :> b1 @@ t2 :> b2
MCConns == 1 .. MaxConns
MCIds   == (1 .. MaxCalls) \X Waiting

\* The processes, each with its task, may change places, and so may the keys.
Swap == b1 :> b2 @@ b2 :> b1 @@ t1 :> t2 @@ t2 :> t1
BotAndKeySymmetry == {p @@ q : p \in {Swap, [x \in {} |-> x]}, q \in Permutations(Keys)}

AllMethods == {"save", "get", "lookup", "list", "remove", "restart"}
SaveOnly   == {"save"}
=============================================================================
