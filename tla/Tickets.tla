---------------------------------- MODULE Tickets ----------------------------------
(***************************************************************************)
(* The tickets of one member in one guild (TicketsCog and its views,       *)
(* src/src/bot/cogs/utility/tickets.py): a handler reads a ticket from the *)
(* database by its channel, or counts the member's open tickets, decides,  *)
(* suspends, and saves what it made of what it read.  Tickets are not      *)
(* remembered by the repository, so a step of another handler falls        *)
(* between.                                                                *)
(*                                                                         *)
(* Both questions may be answered from the database's query cache          *)
(* (TableServer): it tells neither one member's list from another's nor    *)
(* one channel's row from another's, and writing drops nothing from it.    *)
(* The numbers of tickets are in SharedRows.                               *)
(***************************************************************************)
EXTENDS Naturals, FiniteSets

CONSTANTS
    TicketIds,        \* bound: tickets ever made; model values
    MaxOpenTickets,   \* settings.max_open_tickets
    Staff,            \* who claims
    TicketHandlers    \* coroutines

Other == "other"   \* the tickets of other members, and of other guilds

ASSUME TicketAssumption ==
    IsFiniteSet(TicketIds) /\ Other \notin TicketIds /\ MaxOpenTickets \in Nat

VARIABLES
    tickets,   \* the rows: a ticket's status and who claimed it
    channels,  \* tickets whose channel exists
    desk,      \* where each handler is suspended
    listed,    \* the cached list of a member's tickets: whether it leaves room for another
    found,     \* the cached row of a channel
    excused    \* open tickets made beside another creation or by a cached list that hid open
               \* ones, or saved as open when they were closed

ticketVars == <<tickets, channels, desk, listed, found, excused>>

AtRest == [at |-> "idle"]
Absent == [status |-> "absent", by |-> "nobody"]

IsOpen(ticket) == ticket.status \in {"open", "claimed"}
OpenTickets == {id \in TicketIds : IsOpen(tickets[id])}

\* What the query cache holds: no answer, or one, which may be that there is no row.
NotCached == [kind |-> "none"]
NoTicket  == [kind |-> "nothing"]
TicketRow(id, ticket) == [kind |-> "row", id |-> id, ticket |-> ticket]
OtherRow  == TicketRow(Other, [status |-> "open", by |-> "nobody"])

TicketInit ==
    /\ tickets = [id \in TicketIds |-> Absent] /\ channels = {}
    /\ desk = [h \in TicketHandlers |-> AtRest]
    /\ listed = "none" /\ found = NotCached
    /\ excused = {}

Turns(h, state) == desk' = [desk EXCEPT ![h] = state]

-----------------------------------------------------------------------------
(* ticket create, and the button of the panel *)

\* Mutant: a ticket that is claimed is not counted.
FewEnoughUnclaimed == Cardinality({id \in OpenTickets : tickets[id].status = "open"}) < MaxOpenTickets

\* The rows of the member that are open, against the limit.
FewEnough == Cardinality(OpenTickets) < MaxOpenTickets

\* get_user_open_tickets: the rows of now, or a list that the cache has from before, this
\* member's or another's.
HasRoom == IF listed = "none" THEN FewEnough ELSE listed = "room"

Creating(h) == desk[h].at \in {"creating", "storing"}

\* The handler counts, and goes on to create the channel.  It is sure if nobody else is
\* creating a ticket and the list, if it is a cached one, does not hide too many.
BeginsTicket(h) ==
    LET sure == (\A other \in TicketHandlers : ~Creating(other)) /\ (listed = "none" \/ FewEnough)
    IN  /\ desk[h] = AtRest
        /\ listed' = IF HasRoom THEN "room" ELSE "full"
        /\ IF HasRoom THEN Turns(h, [at |-> "creating", sure |-> sure]) ELSE UNCHANGED desk
        /\ UNCHANGED <<tickets, channels, found, excused>>

\* Tickets that nobody has made or is making.
Unmade ==
    {id \in TicketIds \ channels : /\ tickets[id] = Absent
                                   /\ \A h \in TicketHandlers : desk[h].at = "storing" => desk[h].id # id}

\* The channel is there, and the ticket is about to be stored.
CreatesChannel(h) ==
    /\ desk[h].at = "creating"
    /\ \E id \in Unmade :
          /\ channels' = channels \cup {id}
          /\ Turns(h, [at |-> "storing", id |-> id, sure |-> desk[h].sure])
    /\ UNCHANGED <<tickets, listed, found, excused>>

\* save_ticket, of a ticket that has no row: find_by_id goes on to find_one, and a cached
\* row, whosever it is, makes the save an update, which finds nothing to change.
StoresTicket(h) ==
    LET id == desk[h].id
    IN  /\ desk[h].at = "storing"
        /\ IF found.kind = "row"
           THEN UNCHANGED <<tickets, found, excused>>
           ELSE /\ tickets' = [tickets EXCEPT ![id] = [status |-> "open", by |-> "nobody"]]
                /\ found' = NoTicket
                /\ excused' = IF desk[h].sure THEN excused ELSE excused \cup {id}
        /\ Turns(h, AtRest)
        /\ UNCHANGED <<channels, listed>>

-----------------------------------------------------------------------------
(* close, claim, unclaim, add and remove, and the buttons *)

\* What becomes of the ticket that was read; the handler returns if there is nothing.
\* Nobody looks at the status but close.
Outcomes(does, who, read) ==
    CASE does = "close"   -> IF read.status = "closed" THEN {} ELSE {[read EXCEPT !.status = "closed"]}
      [] does = "claim"   -> IF read.by # "nobody" THEN {} ELSE {[status |-> "claimed", by |-> who]}
      [] does = "unclaim" -> IF read.by = "nobody" THEN {} ELSE {[status |-> "open", by |-> "nobody"]}
      [] does = "add"     -> {read}

\* get_by_channel, in the channel of a ticket: its row, if it is there by now, or the
\* answer that the cache has from before, this channel's or another's.
RowOfChannel(id) ==
    IF found # NotCached THEN found
    ELSE IF tickets[id] = Absent THEN NoTicket ELSE TicketRow(id, tickets[id])

ReadsTicket(h, does, who, channel) ==
    LET row == RowOfChannel(channel)
    IN  /\ desk[h] = AtRest
        /\ found' = row
        /\ \/ row.kind = "row" /\ \E saves \in Outcomes(does, who, row.ticket) :
                 Turns(h, [at |-> "saving", id |-> row.id, saves |-> saves,
                           deletes |-> IF does = "close" THEN {channel} ELSE {}])
           \/ (row.kind = "row" => Outcomes(does, who, row.ticket) = {}) /\ UNCHANGED desk
        /\ UNCHANGED <<tickets, channels, listed, excused>>

\* save_ticket, of a ticket that was read and so has a row: the update has its effect, or
\* none (the run repo_update).
SavesTicket(h) ==
    LET id == desk[h].id
    IN  /\ desk[h].at = "saving"
        /\ \/ UNCHANGED <<tickets, excused>>
           \/ /\ id # Other
              /\ tickets' = [tickets EXCEPT ![id] = desk[h].saves]
              /\ excused' = IF ~IsOpen(desk[h].saves) THEN excused \ {id}
                            ELSE IF ~IsOpen(tickets[id]) THEN excused \cup {id} ELSE excused
        /\ Turns(h, IF desk[h].deletes = {} THEN AtRest ELSE [at |-> "leaving", deletes |-> desk[h].deletes])
        /\ UNCHANGED <<channels, listed, found>>

\* Five seconds after the close: the channel of the command, whosever ticket was closed.
DeletesChannel(h) ==
    /\ desk[h].at = "leaving"
    /\ channels' = channels \ desk[h].deletes
    /\ Turns(h, AtRest)
    /\ UNCHANGED <<tickets, listed, found, excused>>

\* A request that fails, or a permission that is missing.
GivesUp(h) ==
    /\ desk[h] # AtRest
    /\ Turns(h, AtRest)
    /\ UNCHANGED <<tickets, channels, listed, found, excused>>

-----------------------------------------------------------------------------
(* The query cache *)

\* Other members count their tickets, or use theirs, and find nothing cached.
OthersAsk ==
    /\ \/ listed = "none" /\ listed' \in {"room", "full"} /\ UNCHANGED found
       \/ found = NotCached /\ found' \in {NoTicket, OtherRow} /\ UNCHANGED listed
    /\ UNCHANGED <<tickets, channels, desk, excused>>

\* An answer has reached its time to live, or gives way to others.
AnswerExpires ==
    /\ \/ listed # "none" /\ listed' = "none" /\ UNCHANGED found
       \/ found # NotCached /\ found' = NotCached /\ UNCHANGED listed
    /\ UNCHANGED <<tickets, channels, desk, excused>>

TicketNext ==
    \/ \E h \in TicketHandlers :
          \/ BeginsTicket(h) \/ CreatesChannel(h) \/ StoresTicket(h)
          \/ SavesTicket(h) \/ DeletesChannel(h) \/ GivesUp(h)
          \/ \E does \in {"close", "claim", "unclaim", "add"}, who \in Staff, channel \in channels :
                ReadsTicket(h, does, who, channel)
    \/ OthersAsk \/ AnswerExpires

TicketSpec == TicketInit /\ [][TicketNext]_ticketVars

-----------------------------------------------------------------------------
\* A member has no more open tickets than the limit says, whatever overlaps with what,
\* but for those that were made while another was being made, or by the word of a cached
\* list that left out open ones, and those that a handler reopened with what it had read
\* of them before they were closed: each such slip is one ticket too many, and none makes
\* room for another.
OpenTicketsLimited == Cardinality(OpenTickets \ excused) <= MaxOpenTickets
=============================================================================
