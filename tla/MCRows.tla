------------------------------------ MODULE MCRows ------------------------------------
(***************************************************************************)
(* The rows of the bot in one run: those behind a repository, the objects  *)
(* that a repository remembers, and the tickets, which none does.  The     *)
(* three share no state: a behaviour picks one at its start, and the       *)
(* others stay as they began.                                              *)
(***************************************************************************)
EXTENDS MCRepository, SharedRows, Tickets

CONSTANT RowParts   \* of "repository", "objects" and "tickets"

VARIABLE part

\* A member who wrote on an earlier day, and is about to reach the first level.
NearLevel == [xp |-> 140, level |-> 0, total |-> 140, daily |-> 2, date |-> 0]

\* Coroutines may change places, as in MCRepository.
RowSymmetry == BotAndKeySymmetry \cup Permutations(Handlers)

\* The parts that are not picked begin in one state.
RowsInit ==
    /\ part \in RowParts
    /\ Init /\ SharedInit /\ TicketInit
    /\ part = "objects" \/ (table = "users" /\ row = NoRow)

RowsNext ==
    \/ part = "repository" /\ Next /\ UNCHANGED <<part, rowVars, ticketVars>>
    \/ part = "objects" /\ SharedNext /\ UNCHANGED <<part, vars, ticketVars>>
    \/ part = "tickets" /\ TicketNext /\ UNCHANGED <<part, vars, rowVars>>

RowsSpec == RowsInit /\ [][RowsNext]_<<part, vars, rowVars, ticketVars>>
=============================================================================
