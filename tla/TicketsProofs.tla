------------------------------- MODULE TicketsProofs -------------------------------
(***************************************************************************)
(* OpenTicketsLimited of Tickets, for any limit and any number of handlers *)
(* and tickets.  It is not inductive: between counting and storing, a      *)
(* handler relies on a count of before.  IInv adds that at most one handler*)
(* is sure of its count, and that for this one there is still room.        *)
(***************************************************************************)
EXTENDS Tickets, FiniteSetTheorems, TLAPS

Ticket   == [status : {"absent", "open", "claimed", "closed"}, by : Staff \cup {"nobody"}]
Creator  == [at : {"creating"}, sure : BOOLEAN]
Storer   == [at : {"storing"}, id : TicketIds, sure : BOOLEAN]
Saver    == [at : {"saving"}, id : TicketIds \cup {Other}, saves : Ticket, deletes : SUBSET TicketIds]
Leaver   == [at : {"leaving"}, deletes : SUBSET TicketIds]
Places   == {AtRest} \cup Creator \cup Storer \cup Saver \cup Leaver
RowFound == [kind : {"row"}, id : TicketIds \cup {Other}, ticket : Ticket]

TicketTypeOK ==
    /\ tickets \in [TicketIds -> Ticket] /\ channels \subseteq TicketIds
    /\ desk \in [TicketHandlers -> Places]
    /\ found \in {NotCached, NoTicket} \cup RowFound
    /\ excused \subseteq TicketIds

\* A handler that creates a ticket in the room it has counted itself.
Sure(h) == Creating(h) /\ desk[h].sure

OneSure == \A h, k \in TicketHandlers : Sure(h) /\ Sure(k) => h = k

Counted == OpenTickets \ excused

RoomLeft ==
    /\ Cardinality(Counted) <= MaxOpenTickets
    /\ \A h \in TicketHandlers : Sure(h) => Cardinality(Counted) < MaxOpenTickets

IInv == TicketTypeOK /\ OneSure /\ RoomLeft

-----------------------------------------------------------------------------
\* The open tickets are finitely many, and so are those that count.
LEMMA CountedFinite ==
    /\ IsFiniteSet(OpenTickets) /\ Cardinality(OpenTickets) \in Nat
    /\ IsFiniteSet(Counted) /\ Cardinality(Counted) \in Nat /\ Cardinality(Counted) <= Cardinality(OpenTickets)
  <1>1. OpenTickets \subseteq TicketIds /\ Counted \subseteq OpenTickets
    BY DEF OpenTickets, Counted
  <1> QED
    BY <1>1, TicketAssumption, FS_Subset, FS_CardinalityType

\* No ticket comes to count, and nobody becomes sure: the room that is left stays.
LEMMA RoomStays ==
    ASSUME RoomLeft, Counted' \subseteq Counted, \A h \in TicketHandlers : Sure(h)' => Sure(h)
    PROVE  RoomLeft'
  <1>1. Cardinality(Counted') <= Cardinality(Counted) /\ Cardinality(Counted') \in Nat
    BY CountedFinite, FS_Subset, FS_CardinalityType
  <1> QED
    BY <1>1, CountedFinite, TicketAssumption DEF RoomLeft

\* A handler that goes elsewhere leaves the others where they are.
LEMMA OthersStay ==
    ASSUME TicketTypeOK, NEW h \in TicketHandlers, NEW state, Turns(h, state)
    PROVE  desk'[h] = state /\ \A k \in TicketHandlers \ {h} : desk'[k] = desk[k]
  BY DEF TicketTypeOK, Turns

LEMMA PlaceOK ==
    ASSUME TicketTypeOK, NEW h \in TicketHandlers, NEW state \in Places, Turns(h, state)
    PROVE  desk' \in [TicketHandlers -> Places]
  BY DEF TicketTypeOK, Turns

\* Whom the handler that moves is not sure of, nobody is who was not before.
LEMMA NobodySure ==
    ASSUME TicketTypeOK, NEW h \in TicketHandlers, NEW state, Turns(h, state),
           state.at \notin {"creating", "storing"} \/ (Creating(h) /\ state.sure = desk[h].sure)
    PROVE  \A k \in TicketHandlers : Sure(k)' => Sure(k)
  BY OthersStay DEF Sure, Creating

LEMMA SureStays == ASSUME OneSure, \A k \in TicketHandlers : Sure(k)' => Sure(k) PROVE OneSure'
  BY DEF OneSure

-----------------------------------------------------------------------------
LEMMA BeginsKeeps == ASSUME IInv, NEW h \in TicketHandlers, BeginsTicket(h) PROVE IInv'
  <1>1. /\ TicketTypeOK /\ OneSure /\ RoomLeft /\ desk[h] = AtRest
        /\ UNCHANGED <<tickets, channels, found, excused>>
    BY DEF IInv, BeginsTicket
  <1>2. Counted' = Counted
    BY <1>1 DEF Counted, OpenTickets
  <1>3. CASE UNCHANGED desk
    <2>1. \A k \in TicketHandlers : Sure(k)' => Sure(k)
      BY <1>3 DEF Sure, Creating
    <2> QED
      BY <1>1, <1>2, <1>3, <2>1, SureStays, RoomStays DEF IInv, TicketTypeOK
  <1>4. CASE HasRoom
    <2>1. PICK sure : sure = ((\A other \in TicketHandlers : ~Creating(other)) /\ (listed = "none" \/ FewEnough))
      OBVIOUS
    <2>2. Turns(h, [at |-> "creating", sure |-> sure])
      BY <1>4, <2>1 DEF BeginsTicket
    <2>3. PICK state : state = [at |-> "creating", sure |-> sure]
      OBVIOUS
    <2>4. state \in Places /\ state.at = "creating" /\ state.sure = sure
      BY <2>1, <2>3 DEF Places, Creator
    <2>5. TicketTypeOK'
      <3>1. desk' \in [TicketHandlers -> Places]
        BY <1>1, <2>2, <2>3, <2>4, PlaceOK
      <3> QED
        BY <1>1, <3>1 DEF TicketTypeOK
    <2>6. desk'[h] = state /\ \A k \in TicketHandlers \ {h} : desk'[k] = desk[k]
      BY <1>1, <2>2, <2>3, OthersStay
    <2>7. \A k \in TicketHandlers \ {h} : Sure(k)' => Sure(k)
      BY <2>6 DEF Sure, Creating
    <2>8. Sure(h)' => FewEnough /\ \A k \in TicketHandlers : ~Sure(k)
      BY <1>4, <2>1, <2>4, <2>6 DEF Sure, Creating, HasRoom
    <2>9. OneSure'
      BY <1>1, <2>7, <2>8 DEF OneSure
    <2>10. FewEnough => Cardinality(Counted) < MaxOpenTickets
      BY CountedFinite, TicketAssumption DEF FewEnough
    <2>11. RoomLeft'
      BY <1>1, <1>2, <2>7, <2>8, <2>10 DEF RoomLeft
    <2> QED
      BY <2>5, <2>9, <2>11 DEF IInv
  <1> QED
    BY <1>3, <1>4 DEF BeginsTicket

LEMMA CreatesKeeps == ASSUME IInv, NEW h \in TicketHandlers, CreatesChannel(h) PROVE IInv'
  <1>1. /\ TicketTypeOK /\ OneSure /\ RoomLeft /\ desk[h].at = "creating"
        /\ UNCHANGED <<tickets, found, excused>>
    BY DEF IInv, CreatesChannel
  <1>2. PICK id \in TicketIds : /\ channels' = channels \cup {id}
                                /\ Turns(h, [at |-> "storing", id |-> id, sure |-> desk[h].sure])
    BY DEF CreatesChannel, Unmade
  <1>3. desk[h].sure \in BOOLEAN
    BY <1>1 DEF TicketTypeOK, Places, AtRest, Creator, Storer, Saver, Leaver
  <1>4. PICK state : state = [at |-> "storing", id |-> id, sure |-> desk[h].sure]
    OBVIOUS
  <1>5. state \in Places /\ state.sure = desk[h].sure
    BY <1>3, <1>4 DEF Places, Storer
  <1>6. TicketTypeOK'
    <2>1. desk' \in [TicketHandlers -> Places]
      BY <1>1, <1>2, <1>4, <1>5, PlaceOK
    <2> QED
      BY <1>1, <1>2, <2>1 DEF TicketTypeOK
  <1>7. \A k \in TicketHandlers : Sure(k)' => Sure(k)
    BY <1>1, <1>2, <1>4, <1>5, NobodySure DEF Creating
  <1>8. Counted' = Counted
    BY <1>1 DEF Counted, OpenTickets
  <1> QED
    BY <1>1, <1>6, <1>7, <1>8, SureStays, RoomStays DEF IInv

\* The ticket that counts is made by the one handler that is sure, in its room.
LEMMA StoresKeeps == ASSUME IInv, NEW h \in TicketHandlers, StoresTicket(h) PROVE IInv'
  <1>1. /\ TicketTypeOK /\ OneSure /\ RoomLeft /\ desk[h].at = "storing" /\ Turns(h, AtRest)
        /\ UNCHANGED <<channels, listed>>
    BY DEF IInv, StoresTicket
  <1>2. PICK id : id = desk[h].id
    OBVIOUS
  <1>3. id \in TicketIds /\ desk[h].sure \in BOOLEAN
    BY <1>1, <1>2 DEF TicketTypeOK, Places, AtRest, Creator, Storer, Saver, Leaver
  <1>4. AtRest \in Places /\ AtRest.at \notin {"creating", "storing"}
    BY DEF AtRest, Places
  <1>5. desk' \in [TicketHandlers -> Places] /\ \A k \in TicketHandlers : Sure(k)' => Sure(k)
    BY <1>1, <1>4, PlaceOK, NobodySure
  <1>6. OneSure'
    BY <1>1, <1>5, SureStays
  <1>7. CASE UNCHANGED <<tickets, found, excused>>
    <2>1. Counted' = Counted
      BY <1>7 DEF Counted, OpenTickets
    <2> QED
      BY <1>1, <1>5, <1>6, <1>7, <2>1, RoomStays DEF IInv, TicketTypeOK
  <1>8. CASE /\ tickets' = [tickets EXCEPT ![id] = [status |-> "open", by |-> "nobody"]]
             /\ found' = NoTicket
             /\ excused' = IF desk[h].sure THEN excused ELSE excused \cup {id}
    <2>1. PICK new : new = [status |-> "open", by |-> "nobody"]
      OBVIOUS
    <2>2. new \in Ticket
      BY <2>1 DEF Ticket
    <2>3. TicketTypeOK'
      <3>1. tickets' \in [TicketIds -> Ticket]
        BY <1>1, <1>8, <2>1, <2>2 DEF TicketTypeOK
      <3> QED
        BY <1>1, <1>3, <1>5, <1>8, <3>1 DEF TicketTypeOK
    <2>4. \A other \in TicketIds \ {id} : tickets'[other] = tickets[other]
      BY <1>1, <1>8 DEF TicketTypeOK
    <2>5. OpenTickets' \subseteq OpenTickets \cup {id}
      BY <2>4 DEF OpenTickets, IsOpen
    <2>6. CASE ~desk[h].sure
      <3>1. Counted' \subseteq Counted
        BY <1>8, <2>5, <2>6 DEF Counted
      <3> QED
        BY <1>1, <1>5, <1>6, <2>3, <3>1, RoomStays DEF IInv
    <2>7. CASE desk[h].sure
      <3>1. Sure(h) /\ Counted' \subseteq Counted \cup {id}
        BY <1>1, <1>8, <2>5, <2>7 DEF Sure, Creating, Counted
      <3>2. \A k \in TicketHandlers : ~Sure(k)'
        BY <1>1, <1>4, <1>5, <3>1, OthersStay DEF OneSure, Sure, Creating
      <3>3. Cardinality(Counted) < MaxOpenTickets
        BY <1>1, <3>1 DEF RoomLeft
      <3>4. IsFiniteSet(Counted \cup {id}) /\ Cardinality(Counted \cup {id}) <= Cardinality(Counted) + 1
            /\ Cardinality(Counted \cup {id}) \in Nat
        <4>1. PICK C : C = Counted
          OBVIOUS
        <4>2. /\ IsFiniteSet(C \cup {id})
              /\ Cardinality(C \cup {id}) = IF id \in C THEN Cardinality(C) ELSE Cardinality(C) + 1
          BY <4>1, CountedFinite, FS_AddElement
        <4>3. Cardinality(C) \in Nat
          BY <4>1, CountedFinite
        <4> QED
          BY <4>1, <4>2, <4>3
      <3>5. Cardinality(Counted') <= Cardinality(Counted \cup {id}) /\ Cardinality(Counted') \in Nat
        BY <3>1, <3>4, FS_Subset, FS_CardinalityType
      <3>6. Cardinality(Counted') <= MaxOpenTickets
        BY <3>3, <3>4, <3>5, CountedFinite, TicketAssumption
      <3> QED
        BY <1>6, <2>3, <3>2, <3>6 DEF IInv, RoomLeft
    <2> QED
      BY <1>3, <2>6, <2>7
  <1> QED
    BY <1>2, <1>7, <1>8 DEF StoresTicket

LEMMA ReadsKeeps ==
    ASSUME IInv, NEW h \in TicketHandlers, NEW does \in {"close", "claim", "unclaim", "add"}, NEW who \in Staff,
           NEW channel \in TicketIds, ReadsTicket(h, does, who, channel)
    PROVE  IInv'
  <1>1. /\ TicketTypeOK /\ OneSure /\ RoomLeft /\ UNCHANGED <<tickets, channels, excused>>
        /\ found' = RowOfChannel(channel)
    BY DEF IInv, ReadsTicket
  <1>2. RowOfChannel(channel) \in {NotCached, NoTicket} \cup RowFound
    BY <1>1 DEF RowOfChannel, TicketTypeOK, TicketRow, RowFound
  <1>3. Counted' = Counted
    BY <1>1 DEF Counted, OpenTickets
  <1>4. CASE UNCHANGED desk
    <2>1. \A k \in TicketHandlers : Sure(k)' => Sure(k)
      BY <1>4 DEF Sure, Creating
    <2> QED
      BY <1>1, <1>2, <1>3, <1>4, <2>1, SureStays, RoomStays DEF IInv, TicketTypeOK
  <1>5. ASSUME NEW row, row = RowOfChannel(channel), row.kind = "row",
               NEW saves \in Outcomes(does, who, row.ticket),
               Turns(h, [at |-> "saving", id |-> row.id, saves |-> saves,
                         deletes |-> IF does = "close" THEN {channel} ELSE {}])
        PROVE  IInv'
    <2>1. row \in RowFound
      BY <1>2, <1>5 DEF NotCached, NoTicket
    <2>2. row.id \in TicketIds \cup {Other} /\ row.ticket \in Ticket
      BY <2>1 DEF RowFound
    <2>3. \A ticket \in Ticket : Outcomes(does, who, ticket) \subseteq Ticket
      BY DEF Outcomes, Ticket
    <2>4. PICK deletes : deletes = IF does = "close" THEN {channel} ELSE {}
      OBVIOUS
    <2>5. saves \in Ticket /\ deletes \in SUBSET TicketIds
      BY <1>5, <2>2, <2>3, <2>4
    <2>6. PICK state : state = [at |-> "saving", id |-> row.id, saves |-> saves, deletes |-> deletes]
      OBVIOUS
    <2>7. state \in Places /\ state.at = "saving"
      BY <2>2, <2>5, <2>6 DEF Places, Saver
    <2>8. Turns(h, state)
      BY <1>5, <2>4, <2>6
    <2>9. desk' \in [TicketHandlers -> Places] /\ \A k \in TicketHandlers : Sure(k)' => Sure(k)
      BY <1>1, <2>7, <2>8, PlaceOK, NobodySure
    <2> QED
      BY <1>1, <1>2, <1>3, <2>9, SureStays, RoomStays DEF IInv, TicketTypeOK
  <1> QED
    BY <1>4, <1>5 DEF ReadsTicket

\* What is saved as open again is excused.
LEMMA SavesKeeps == ASSUME IInv, NEW h \in TicketHandlers, SavesTicket(h) PROVE IInv'
  <1>1. /\ TicketTypeOK /\ OneSure /\ RoomLeft /\ desk[h].at = "saving" /\ UNCHANGED <<channels, listed, found>>
    BY DEF IInv, SavesTicket
  <1>2. desk[h] \in Saver
    BY <1>1 DEF TicketTypeOK, Places, AtRest, Creator, Storer, Leaver
  <1>3. PICK state : state = IF desk[h].deletes = {} THEN AtRest ELSE [at |-> "leaving", deletes |-> desk[h].deletes]
    OBVIOUS
  <1>4. state \in Places /\ state.at \notin {"creating", "storing"} /\ Turns(h, state)
    <2>1. state \in Places /\ state.at \notin {"creating", "storing"}
      BY <1>2, <1>3 DEF Places, Leaver, AtRest, Saver
    <2> QED
      BY <1>3, <2>1 DEF SavesTicket
  <1>5. desk' \in [TicketHandlers -> Places] /\ \A k \in TicketHandlers : Sure(k)' => Sure(k)
    BY <1>1, <1>4, PlaceOK, NobodySure
  <1>6. PICK id, saves : id = desk[h].id /\ saves = desk[h].saves
    OBVIOUS
  <1>7. tickets' \in [TicketIds -> Ticket] /\ excused' \subseteq TicketIds /\ Counted' \subseteq Counted
    <2>1. CASE UNCHANGED <<tickets, excused>>
      BY <1>1, <2>1 DEF TicketTypeOK, Counted, OpenTickets
    <2>2. CASE /\ id # Other /\ tickets' = [tickets EXCEPT ![id] = saves]
               /\ excused' = IF ~IsOpen(saves) THEN excused \ {id}
                             ELSE IF ~IsOpen(tickets[id]) THEN excused \cup {id} ELSE excused
      <3>1. id \in TicketIds /\ saves \in Ticket
        BY <1>2, <1>6, <2>2 DEF Saver
      <3>2. tickets' \in [TicketIds -> Ticket] /\ excused' \subseteq TicketIds
        BY <1>1, <2>2, <3>1 DEF TicketTypeOK
      <3>3. tickets'[id] = saves /\ \A other \in TicketIds \ {id} : tickets'[other] = tickets[other]
        BY <1>1, <2>2, <3>1 DEF TicketTypeOK
      <3>4. Counted' \subseteq Counted
        BY <2>2, <3>3 DEF Counted, OpenTickets
      <3> QED
        BY <3>2, <3>4
    <2> QED
      BY <1>6, <2>1, <2>2 DEF SavesTicket
  <1> QED
    BY <1>1, <1>5, <1>7, SureStays, RoomStays DEF IInv, TicketTypeOK

LEMMA LeavesKeeps == ASSUME IInv, NEW h \in TicketHandlers, DeletesChannel(h) \/ GivesUp(h) PROVE IInv'
  <1>1. /\ TicketTypeOK /\ OneSure /\ RoomLeft /\ UNCHANGED <<tickets, found, excused>> /\ Turns(h, AtRest)
        /\ channels' \subseteq channels
    BY DEF IInv, DeletesChannel, GivesUp
  <1>2. AtRest \in Places /\ AtRest.at \notin {"creating", "storing"}
    BY DEF AtRest, Places
  <1>3. desk' \in [TicketHandlers -> Places] /\ \A k \in TicketHandlers : Sure(k)' => Sure(k)
    BY <1>1, <1>2, PlaceOK, NobodySure
  <1>4. Counted' = Counted
    BY <1>1 DEF Counted, OpenTickets
  <1> QED
    BY <1>1, <1>3, <1>4, SureStays, RoomStays DEF IInv, TicketTypeOK

\* What the cache comes to hold changes no room.
LEMMA CacheKeeps == ASSUME IInv, OthersAsk \/ AnswerExpires \/ UNCHANGED ticketVars PROVE IInv'
  <1>1. /\ TicketTypeOK /\ OneSure /\ RoomLeft /\ UNCHANGED <<tickets, channels, desk, excused>>
        /\ found' \in {NotCached, NoTicket, OtherRow, found}
    BY DEF IInv, OthersAsk, AnswerExpires, ticketVars
  <1>2. OtherRow \in RowFound
    BY DEF OtherRow, TicketRow, RowFound, Ticket
  <1>3. Counted' = Counted /\ \A k \in TicketHandlers : Sure(k)' => Sure(k)
    BY <1>1 DEF Counted, OpenTickets, Sure, Creating
  <1> QED
    BY <1>1, <1>2, <1>3, SureStays, RoomStays DEF IInv, TicketTypeOK

-----------------------------------------------------------------------------
\* A member never has more open tickets than the limit says, but for those made beside
\* another creation or by the word of a cached list that hid open ones, and those a
\* handler saved as open that had been closed: the row-by-row saves of tickets.py do no
\* other harm to max_open_tickets, and none of these makes room for another.
THEOREM TicketsLimited == TicketSpec => []OpenTicketsLimited
  <1>1. TicketInit => IInv
    <2> SUFFICES ASSUME TicketInit PROVE IInv
      OBVIOUS
    <2>1. TicketTypeOK
      BY DEF TicketInit, TicketTypeOK, Ticket, Absent, AtRest, Places
    <2>2. Counted = {} /\ \A h \in TicketHandlers : ~Sure(h)
      BY DEF TicketInit, Counted, OpenTickets, IsOpen, Absent, AtRest, Sure, Creating
    <2>3. OneSure /\ RoomLeft
      BY <2>2, FS_EmptySet, TicketAssumption DEF RoomLeft, OneSure
    <2> QED
      BY <2>1, <2>3 DEF IInv
  <1>2. IInv /\ [TicketNext]_ticketVars => IInv'
    <2> SUFFICES ASSUME IInv, [TicketNext]_ticketVars PROVE IInv'
      OBVIOUS
    <2>1. channels \subseteq TicketIds
      BY DEF IInv, TicketTypeOK
    <2> QED
      BY <2>1, BeginsKeeps, CreatesKeeps, StoresKeeps, ReadsKeeps, SavesKeeps, LeavesKeeps, CacheKeeps DEF TicketNext
  <1>3. IInv => OpenTicketsLimited
    BY DEF IInv, RoomLeft, Counted, OpenTicketsLimited
  <1> QED
    BY <1>1, <1>2, <1>3, PTL DEF TicketSpec
=============================================================================
