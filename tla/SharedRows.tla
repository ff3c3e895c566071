--------------------------------- MODULE SharedRows ---------------------------------
(***************************************************************************)
(* What the handlers of one bot process do to an object that a repository  *)
(* remembers: a guild's configuration with its case and ticket numbers     *)
(* (moderation.py, tickets.py), a member's warnings (moderation.py,        *)
(* automod.py, filter.py) and a member's level (leveling.py).  A handler   *)
(* gets the object, changes it and saves it; it suspends in a get that     *)
(* finds nothing remembered, between change and save, and in the save.     *)
(*                                                                         *)
(* One row and the objects made from it.  A step is the code between two   *)
(* suspensions.                                                            *)
(***************************************************************************)
EXTENDS Naturals, Sequences, FiniteSets

CONSTANTS
    Handlers,      \* coroutines
    Tables,        \* of "guilds", "users" and "user_levels": those that are explored
    DailyLimit,    \* daily_message_limit
    XpGains,       \* what _get_random_xp returns
    OldLevel,      \* a member's level that was saved on an earlier day
    MaxObjects,    \* bound: objects ever made of the row
    MaxChanges,    \* bound: changes of the row
    MaxDay         \* bound: days

Levels == [xp : Nat, level : Nat, total : Nat, daily : Nat, date : Nat]

\* _xp_for_level, and what all levels up to one cost.
XpForLevel(level) == 5 * level * level + 50 * level + 100

Cost[n \in Nat] == IF n = 0 THEN 0 ELSE XpForLevel(n) + Cost[n - 1]

\* What the levels cost and the points left make all the points given.
AddsUp(v) == v.total = v.xp + Cost[v.level] /\ v.xp < XpForLevel(v.level + 1)

ASSUME SharedAssumption ==
    /\ Tables \subseteq {"guilds", "users", "user_levels"}
    /\ DailyLimit \in Nat
    /\ XpGains \subseteq Nat /\ \A gain \in XpGains : gain < XpForLevel(1)
    /\ OldLevel \in Levels /\ OldLevel.date = 0 /\ AddsUp(OldLevel)

VARIABLES
    table,      \* whose row this is
    initial,    \* the row in the database when the process started
    row,        \* the row in the database
    cached,     \* the object the repository remembers, by its place in objects; 0: none
    objects,    \* the values of the objects made of the row
    handler,    \* where each handler is suspended
    day,        \* date.today()
    done,       \* what the handlers have done, in order
    cases,      \* the rows of moderation_cases: a case's number, and which of done it is
    misleads,   \* the query cache holds a case that find_one answered
    spoilt,     \* numbers that already had a case, or whose save it misled
    sanctions,  \* cases whose member was kicked, banned, timed out, ...
    torn        \* two handlers may have used different objects

caseVars == <<cases, misleads, spoilt>>
log      == <<caseVars, sanctions>>
rowVars  == <<table, initial, row, cached, objects, handler, day, done, log, torn>>

NoRow == [missing |-> TRUE]
Idle  == [at |-> "idle"]

\* Of a new object, for each table.
Fresh(d) ==
    CASE table = "guilds"      -> [case |-> 0, ticket |-> 0, enabled |-> FALSE]
      [] table = "users"       -> [warnings |-> 0, total |-> 0]
      [] table = "user_levels" -> [xp |-> 0, level |-> 0, total |-> 0, daily |-> 0, date |-> d]

\* Rows a process may find when it starts.
Stored ==
    CASE table = "guilds"      -> [case |-> 3, ticket |-> 2, enabled |-> TRUE]
      [] table = "users"       -> [warnings |-> 1, total |-> 2]
      [] table = "user_levels" -> OldLevel

\* A case of the number that comes next, if the process before stored it and could not
\* save the object.
EarlierCases ==
    IF table = "guilds" THEN {[number |-> (IF initial = NoRow THEN 0 ELSE initial.case) + 1, what |-> 0]} ELSE {}

SharedInit ==
    /\ table \in Tables
    /\ initial \in {NoRow, Stored} /\ row = initial
    /\ cached = 0 /\ objects = <<>> /\ handler = [h \in Handlers |-> Idle]
    /\ day = 1 /\ done = <<>> /\ cases \in {{}, EarlierCases} /\ misleads = FALSE
    /\ spoilt = {c.number : c \in cases} /\ sanctions = {} /\ torn = FALSE

-----------------------------------------------------------------------------
(* What a handler does to the object when it has it: [does, of, day]       *)

\* A gain is less than the first level costs: the loop runs at most once.
LevelUp(v) ==
    LET needed == XpForLevel(v.level + 1)
    IN  IF v.xp >= needed THEN [v EXCEPT !.xp = @ - needed, !.level = @ + 1] ELSE v

\* Mutant: a new day does not become the object's date.
OfDayAlways(v, d) == IF v.date # d THEN [v EXCEPT !.daily = 0] ELSE v

OfDay(v, d) == IF v.date # d THEN [v EXCEPT !.daily = 0, !.date = d] ELSE v

\* The changes of a handler: the object's next value, and what was done.
Changes(does, v, d) ==
    CASE does = "case"   -> {<<[v EXCEPT !.case = @ + 1], [did |-> "case", number |-> v.case + 1]>>}
      [] does = "ticket" -> {<<[v EXCEPT !.ticket = @ + 1], [did |-> "ticket", number |-> v.ticket + 1]>>}
      [] does = "enable" -> {<<[v EXCEPT !.enabled = TRUE], [did |-> "enable"]>>}
      [] does \in {"warn", "autowarn"} -> {<<[v EXCEPT !.warnings = @ + 1, !.total = @ + 1],
                            [did |-> "warn", number |-> v.total + 1]>>}
      [] does = "clear"  -> {<<[v EXCEPT !.warnings = 0], [did |-> "clear"]>>}
      [] does = "level"  -> LET w == OfDay(v, d) IN
                            {<<LevelUp([w EXCEPT !.daily = @ + 1, !.xp = @ + gain, !.total = @ + gain]),
                               [did |-> "level", day |-> d]>> : gain \in XpGains}

\* A disabled ticket system, a member without warnings, and a member who has written
\* enough today: the handler returns, a new day noted in the object and not saved.
Declines(does, v, d) ==
    \/ does = "read"
    \/ does = "ticket" /\ ~v.enabled
    \/ does = "clear" /\ v.warnings = 0
    \/ does = "level" /\ OfDay(v, d).daily >= DailyLimit

\* Handlers that need no object to begin with; the cogs that warn automatically mean
\* to make one and raise a NameError.
MakesObject == {"case", "ticket", "enable", "warn", "level"}

HandlersOf == [guilds |-> {"case", "ticket", "enable", "read"},
               users |-> {"warn", "autowarn", "clear"}, user_levels |-> {"level"}]

-----------------------------------------------------------------------------
(* The handlers *)

Becomes(h, state) == handler' = [handler EXCEPT ![h] = state]

\* The object is changed: a case is stored, a ticket's channel created and the ticket
\* stored, before the object is saved; the others save it now, as it is now.
Change(h, does, obj, objs, d) ==
    /\ Len(done) < MaxChanges
    /\ \E change \in Changes(does, objs[obj], d) :
          /\ objects' = [objs EXCEPT ![obj] = change[1]]
          /\ done' = Append(done, change[2])
          /\ Becomes(h, [at |-> IF does \in {"case", "ticket"} THEN "storing" ELSE "saving",
                         obj |-> obj, data |-> change[1], what |-> Len(done) + 1])

\* With the object, to the next suspension.
Proceed(h, does, obj, objs, d) ==
    IF Declines(does, objs[obj], d)
    THEN /\ objects' = IF does = "level" THEN [objs EXCEPT ![obj] = OfDay(@, d)] ELSE objs
         /\ Becomes(h, Idle) /\ UNCHANGED done
    ELSE IF does = "ticket"
    THEN /\ objects' = objs /\ UNCHANGED done
         /\ Becomes(h, [at |-> "counting", obj |-> obj])
    ELSE Change(h, does, obj, objs, d)

\* The get: the repository remembers the object, or asks the database.
Starts(h, does) ==
    /\ handler[h] = Idle
    /\ IF cached # 0
       THEN /\ Proceed(h, does, cached, objects, day)
            /\ UNCHANGED torn
       ELSE /\ Becomes(h, [at |-> "asking", does |-> does, day |-> day])
            /\ torn' = (torn \/ \E other \in Handlers : handler[other] # Idle)
            /\ UNCHANGED <<objects, done>>
    /\ UNCHANGED <<table, initial, row, cached, day, log>>

\* The database answers with the row as it is now.
Answers(h) ==
    /\ handler[h].at = "asking"
    /\ Becomes(h, [at |-> "asked", does |-> handler[h].does, day |-> handler[h].day, answer |-> row])
    /\ UNCHANGED <<table, initial, row, cached, objects, day, done, log, torn>>

\* The row becomes a new object, and is remembered; or there is none, and the handler
\* makes an object of its own.
Gets(h) ==
    LET j == handler[h]
        made == Append(objects, IF j.answer = NoRow THEN Fresh(j.day) ELSE j.answer)
    IN  /\ j.at = "asked"
        /\ IF j.answer = NoRow /\ j.does \notin MakesObject
           THEN Becomes(h, Idle) /\ UNCHANGED <<objects, done, cached>>
           ELSE /\ Len(objects) < MaxObjects
                /\ Proceed(h, j.does, Len(made), made, j.day)
                /\ cached' = IF j.answer = NoRow THEN cached ELSE Len(made)
        /\ UNCHANGED <<table, initial, row, day, log, torn>>

\* The member's open tickets are few enough: the number is taken.
Counts(h) ==
    /\ handler[h].at = "counting"
    /\ Change(h, "ticket", handler[h].obj, objects, day)
    /\ UNCHANGED <<table, initial, row, cached, day, log, torn>>

\* save_case.  A number that has a row is updated, with its effect or none (the run
\* repo_update).  For one that has none, find_by_id goes on to find_one: a case of any
\* number in the query cache makes the save an update, which finds nothing to change.
SaveCase(case) ==
    \/ /\ \E c \in cases : c.number = case.number
       /\ cases' \in {cases, {c \in cases : c.number # case.number} \cup {case}}
       /\ UNCHANGED <<misleads, spoilt>>
    \/ /\ \A c \in cases : c.number # case.number
       /\ cases' = IF misleads THEN cases ELSE cases \cup {case}
       /\ spoilt' = IF misleads THEN spoilt \cup {case.number} ELSE spoilt
       /\ UNCHANGED misleads

\* save_config begins with what the object holds now.
Saving(j) == [at |-> "saving", obj |-> j.obj, data |-> objects[j.obj], what |-> j.what]

\* Mutant: a case that cannot be stored does not stop the command.
StoresIfItCan(h) ==
    /\ handler[h].at = "storing"
    /\ Becomes(h, Saving(handler[h]))
    /\ \/ done[handler[h].what].did = "case" /\ SaveCase([number |-> done[handler[h].what].number, what |-> handler[h].what])
       \/ UNCHANGED caseVars
    /\ UNCHANGED <<table, initial, row, cached, objects, day, done, sanctions, torn>>

\* The case or ticket is stored, and the object is saved.
Stores(h) ==
    LET what == handler[h].what
    IN  /\ handler[h].at = "storing"
        /\ Becomes(h, Saving(handler[h]))
        /\ IF done[what].did = "case" THEN SaveCase([number |-> done[what].number, what |-> what])
                                      ELSE UNCHANGED caseVars
        /\ UNCHANGED <<table, initial, row, cached, objects, day, done, sanctions, torn>>

AfterSave(h) ==
    Becomes(h, IF done[handler[h].what].did = "case"
               THEN [at |-> "sanctioning", what |-> handler[h].what] ELSE Idle)

\* Mutant: what is saved is not remembered, as another object may be.
SavesForgets(h) ==
    /\ handler[h].at = "saving"
    /\ row' \in {row, IF table = "user_levels" THEN objects[handler[h].obj] ELSE handler[h].data}
    /\ AfterSave(h)
    /\ UNCHANGED <<table, initial, cached, objects, day, done, log, torn>>

\* The save ends: the row is what it was given, or, for an update may have no effect
\* (the run repo_update), as before; and the object is remembered.  A level's data
\* are the object itself, as it is when the update is sent.
Saves(h) ==
    /\ handler[h].at = "saving"
    /\ row' \in {row, IF table = "user_levels" THEN objects[handler[h].obj] ELSE handler[h].data}
    /\ cached' = handler[h].obj
    /\ AfterSave(h)
    /\ UNCHANGED <<table, initial, objects, day, done, log, torn>>

\* kick, ban, unban, timeout, untimeout and softban go on when the case is there: the
\* member is told, the sanction carried out and the case stored again.
Sanctions(h) ==
    LET case == [number |-> done[handler[h].what].number, what |-> handler[h].what]
    IN  /\ handler[h].at = "sanctioning"
        /\ sanctions' = sanctions \cup {case}
        /\ SaveCase(case) \/ UNCHANGED caseVars
        /\ Becomes(h, Idle)
        /\ UNCHANGED <<table, initial, row, cached, objects, day, done, torn>>

\* Too many open tickets, no permission for a channel, a request that fails: the
\* handler ends.  What it did is lost if nobody remembers its object.
Fails(h) ==
    /\ handler[h] # Idle
    /\ torn' = (torn \/ (handler[h].at \in {"storing", "saving"} /\ cached = 0))
    /\ Becomes(h, Idle)
    /\ UNCHANGED <<table, initial, row, cached, objects, day, done, log>>

\* The command case, of any case of any guild: its answer is cached, and expires.
LooksUp ==
    /\ table = "guilds" /\ misleads' = ~misleads
    /\ UNCHANGED <<table, initial, row, cached, objects, handler, day, done, cases, spoilt, sanctions, torn>>

NextDay ==
    /\ table = "user_levels" /\ day < MaxDay /\ day' = day + 1
    /\ UNCHANGED <<table, initial, row, cached, objects, handler, done, log, torn>>

SharedNext ==
    \/ \E h \in Handlers, does \in HandlersOf[table] : Starts(h, does)
    \/ \E h \in Handlers : Answers(h) \/ Gets(h) \/ Counts(h) \/ Stores(h) \/ Saves(h)
                            \/ Sanctions(h) \/ Fails(h)
    \/ LooksUp \/ NextDay

SharedSpec == SharedInit /\ [][SharedNext]_rowVars

-----------------------------------------------------------------------------
(* Properties *)

\* The number that a deed counts, in an object or row.
Number(did, v) == IF did = "case" THEN v.case ELSE IF did = "ticket" THEN v.ticket ELSE v.total

Counters == {"case", "ticket", "warn"}

StartOf(did) == IF initial = NoRow THEN 0 ELSE Number(did, initial)

\* How many of the first i deeds were of this kind.
Times(did, i) == Cardinality({k \in 1 .. i : done[k].did = did})

\* Case numbers, ticket numbers and warnings are counted without a gap or a repetition
\* by all handlers of a process, however they overlap and fail, from the number the
\* row had: unless two of them asked for the object while nobody remembered one, or
\* the first save of a new object failed.
CountedOnce ==
    ~torn => \A i \in DOMAIN done :
        done[i].did \in Counters => done[i].number = StartOf(done[i].did) + Times(done[i].did, i)

\* Whoever was kicked, banned or timed out has a case of that number that says so, with
\* the same exceptions, and but for the numbers that had a case before the process
\* began and those whose save a cached look-up of another case misled.  (A case may be
\* stored whose sanction then failed.)
SanctionHasCase == ~torn => \A c \in sanctions : c \in cases \/ c.number \in spoilt

MessagesOf(d) == Cardinality({i \in DOMAIN done : done[i].did = "level" /\ done[i].day = d})

\* On no day, whenever midnight falls, more messages of a member count than the limit
\* says (same exceptions); and in every object, and the row, what the levels cost and
\* the points left make all the points given.
LevelsKept ==
    table = "user_levels" =>
        /\ ~torn => \A d \in 1 .. day : MessagesOf(d) <= DailyLimit
        /\ \A i \in DOMAIN objects : AddsUp(objects[i])
        /\ row # NoRow => AddsUp(row)
=============================================================================
