------------------------------- MODULE CogsProofs -------------------------------
(***************************************************************************)
(* Proofs about the cogs: what the handlers of one process do to the       *)
(* object a repository remembers (SharedRows), when automod times a member *)
(* out and what a spam tracker forgets (AutoMod), when a server is locked  *)
(* and for how long (AntiRaid), whom the audit log makes the bot punish    *)
(* (AntiNuke), and how much the limiters let through (Cooldown).           *)
(***************************************************************************)
EXTENDS SharedRows, AntiRaid, AntiNuke, AutoMod, Cooldown,
        FiniteSetTheorems, SequenceTheorems, WellFoundedInduction, TLAPS

-----------------------------------------------------------------------------
(* SharedRows: the invariant *)

Guilds == [case : Nat, ticket : Nat, enabled : BOOLEAN]
Users  == [warnings : Nat, total : Nat]

Values == IF table = "guilds" THEN Guilds ELSE IF table = "users" THEN Users ELSE Levels

Deeds ==
    IF table = "guilds" THEN {"case", "ticket", "enable"}
    ELSE IF table = "users" THEN {"warn", "clear"} ELSE {"level"}

ObjectsTyped ==
    /\ table \in {"guilds", "users", "user_levels"}
    /\ initial \in Values \cup {NoRow} /\ row \in Values \cup {NoRow}
    /\ objects \in Seq(Values)
    /\ cached \in 0 .. Len(objects)
    /\ day \in Nat

DoneTyped ==
    /\ Len(done) \in Nat /\ DOMAIN done = 1 .. Len(done)
    /\ \A i \in DOMAIN done : done[i].did \in Deeds
    /\ \A i \in DOMAIN done : done[i].did \in Counters => done[i].number \in Nat

Asking == {"asking", "asked"}
Using  == {"counting", "storing", "saving"}
Has    == {"storing", "saving"}
Owes   == {"storing", "saving", "sanctioning"}

\* Where a handler may be, with n objects made and m deeds done.
HandlerOK(j, n, m) ==
    /\ j.at \in {"idle", "sanctioning"} \cup Asking \cup Using
    /\ j.at = "idle" <=> j = Idle
    /\ j.at \in Asking => j.does \in HandlersOf[table] /\ j.day \in Nat
    /\ j.at = "asked" => j.answer \in Values \cup {NoRow}
    /\ j.at \in Using => j.obj \in 1 .. n
    /\ j.at = "counting" => "ticket" \in HandlersOf[table]
    /\ j.at \in Has => j.data \in Values
    /\ j.at \in Owes => j.what \in 1 .. m

HandlersTyped ==
    /\ DOMAIN handler = Handlers
    /\ \A h \in Handlers : HandlerOK(handler[h], Len(objects), Len(done))

\* The first n deeds of a kind.
Of(s, did, n) == {k \in 1 .. n : s[k].did = did}

\* The object's numbers are those of the row at first, and the deeds since.
Reached(v) ==
    \A did \in Deeds \cap Counters : Number(did, v) = StartOf(did) + Cardinality(Of(done, did, Len(done)))

\* The object the deeds were done to: the one remembered, or a new one of the only
\* handler there is.
InUse(o) ==
    \/ cached # 0 /\ o = cached
    \/ cached = 0 /\ \E h \in Handlers : handler[h].at \in Has /\ handler[h].obj = o

Held(o) == InUse(o) \/ \E h \in Handlers : handler[h].at = "counting" /\ handler[h].obj = o

\* While nobody remembers an object, one handler at most is at work, and has done
\* nothing before it has an object; afterwards all use the same.
OneObject ==
    /\ cached = 0 => row = initial
    /\ cached = 0 => \A h, k \in Handlers : handler[h] = Idle \/ handler[k] = Idle \/ h = k
    /\ cached = 0 /\ (\A h \in Handlers : handler[h].at \notin Has) => done = <<>>
    /\ \A h \in Handlers : handler[h].at \in Asking => cached = 0
    /\ \A h \in Handlers : handler[h].at = "asked" => handler[h].answer = initial
    /\ \A h \in Handlers : handler[h].at = "sanctioning" => cached # 0
    /\ cached # 0 => \A h \in Handlers : handler[h].at \in Using => handler[h].obj = cached
    /\ \A o \in DOMAIN objects : Held(o) => Reached(objects[o])

Once ==
    \A i \in DOMAIN done :
        done[i].did \in Counters =>
            done[i].number = StartOf(done[i].did) + Cardinality(Of(done, done[i].did, i))

CountsOK == ~torn => OneObject /\ Once

\* A case that is stored is the one that was counted, but for a number that is spoilt.
Case(i) == [number |-> done[i].number, what |-> i]

CasesOK ==
    \A c \in cases :
        \/ c.number \in spoilt
        \/ c.what \in DOMAIN done /\ done[c.what].did = "case" /\ c = Case(c.what)

OnCase == \A h \in Handlers : handler[h].at = "sanctioning" => done[handler[h].what].did = "case"

Kept(c) == c \in cases \/ c.number \in spoilt

\* A handler that saves the counter of its case, or goes on to the sanction, has stored it.
Sanctioned ==
    ~torn => /\ \A c \in sanctions : Kept(c)
             /\ \A h \in Handlers :
                  handler[h].at \in {"saving", "sanctioning"} /\ done[handler[h].what].did = "case"
                    => Kept(Case(handler[h].what))

SharedTyped == ObjectsTyped /\ DoneTyped /\ HandlersTyped
SharedInv   == SharedTyped /\ CountsOK /\ CasesOK /\ OnCase /\ Sanctioned

-----------------------------------------------------------------------------
(* SharedRows: what a handler does to the object *)

LEMMA TableKinds ==
    ASSUME ObjectsTyped
    PROVE  /\ table = "guilds" => /\ Values = Guilds /\ Deeds = {"case", "ticket", "enable"}
                                  /\ HandlersOf[table] = {"case", "ticket", "enable", "read"}
           /\ table = "users" => /\ Values = Users /\ Deeds = {"warn", "clear"}
                                 /\ HandlersOf[table] = {"warn", "autowarn", "clear"}
           /\ table = "user_levels" => /\ Values = Levels /\ Deeds = {"level"}
                                       /\ HandlersOf[table] = {"level"}
  BY DEF ObjectsTyped, Values, Deeds, HandlersOf

LEMMA NumberTyped ==
    ASSUME ObjectsTyped, NEW v \in Values, NEW did \in Deeds, did \in Counters
    PROVE  Number(did, v) \in Nat
  <1>1. CASE table = "guilds"
    <2>1. v \in Guilds /\ did \in {"case", "ticket"}
      BY <1>1, TableKinds DEF Counters
    <2>2. v.case \in Nat /\ v.ticket \in Nat
      BY <2>1 DEF Guilds
    <2> QED
      BY <2>1, <2>2 DEF Number
  <1>2. CASE table = "users"
    <2>1. v \in Users /\ did = "warn"
      BY <1>2, TableKinds DEF Counters
    <2>2. v.total \in Nat
      BY <2>1 DEF Users
    <2> QED
      BY <2>1, <2>2 DEF Number
  <1>3. CASE table = "user_levels"
    BY <1>3, TableKinds DEF Counters
  <1> QED
    BY <1>1, <1>2, <1>3 DEF ObjectsTyped

LEMMA GuildCounts ==
    ASSUME NEW v \in Guilds, NEW n \in Nat, NEW u, u = [v EXCEPT !.case = n]
    PROVE  u \in Guilds /\ u.case = n /\ u.ticket = v.ticket
  BY DEF Guilds

LEMMA GuildTickets ==
    ASSUME NEW v \in Guilds, NEW n \in Nat, NEW u, u = [v EXCEPT !.ticket = n]
    PROVE  u \in Guilds /\ u.ticket = n /\ u.case = v.case
  BY DEF Guilds

LEMMA GuildEnables ==
    ASSUME NEW v \in Guilds, NEW u, u = [v EXCEPT !.enabled = TRUE]
    PROVE  u \in Guilds /\ u.ticket = v.ticket /\ u.case = v.case
  BY DEF Guilds

LEMMA UserCleared ==
    ASSUME NEW v \in Users, NEW u, u = [v EXCEPT !.warnings = 0]
    PROVE  u \in Users /\ u.total = v.total
  BY DEF Users

LEMMA LevelUpRecord ==
    ASSUME NEW v \in Levels, NEW a \in Nat, NEW b \in Nat, NEW u, u = [v EXCEPT !.xp = a, !.level = b]
    PROVE  u \in Levels
  BY DEF Levels

LEMMA GainRecord ==
    ASSUME NEW v \in Levels, NEW a \in Nat, NEW b \in Nat, NEW c \in Nat,
           NEW u, u = [v EXCEPT !.daily = a, !.xp = b, !.total = c]
    PROVE  u \in Levels
  BY DEF Levels

LEMMA OfDayTyped ==
    ASSUME NEW v \in Levels, NEW d \in Nat
    PROVE  /\ OfDay(v, d) \in Levels /\ OfDay(v, d).date = d
           /\ OfDay(v, d).xp = v.xp /\ OfDay(v, d).level = v.level /\ OfDay(v, d).total = v.total
           /\ v.date = d => OfDay(v, d).daily = v.daily
           /\ v.date # d => OfDay(v, d).daily = 0
  BY DEF OfDay, Levels

LEMMA CostsTyped == ASSUME NEW n \in Nat PROVE XpForLevel(n) \in Nat /\ XpForLevel(n) >= 100
  <1>1. n * n \in Nat
    OBVIOUS
  <1> QED
    BY <1>1 DEF XpForLevel

LEMMA LevelUpTyped == ASSUME NEW v \in Levels PROVE LevelUp(v) \in Levels
  <1>1. v.level + 1 \in Nat /\ v.xp \in Nat
    BY DEF Levels
  <1>2. XpForLevel(v.level + 1) \in Nat
    BY <1>1, CostsTyped
  <1> DEFINE needed == XpForLevel(v.level + 1)
  <1> HIDE DEF needed
  <1>3. LevelUp(v) = IF v.xp >= needed THEN [v EXCEPT !.xp = @ - needed, !.level = @ + 1] ELSE v
    BY DEF LevelUp, needed
  <1>4. needed \in Nat
    BY <1>2 DEF needed
  <1>5. CASE v.xp >= needed
    <2>1. LevelUp(v) = [v EXCEPT !.xp = @ - needed, !.level = @ + 1]
      BY <1>3, <1>5
    <2>2. [v EXCEPT !.xp = @ - needed, !.level = @ + 1] = [v EXCEPT !.xp = v.xp - needed, !.level = v.level + 1]
      OBVIOUS
    <2>3. v.xp - needed \in Nat
      BY <1>1, <1>4, <1>5
    <2> QED
      BY <1>1, <2>1, <2>2, <2>3, LevelUpRecord
  <1> QED
    BY <1>3, <1>5

\* A deed takes the next number of its counter, and no counter goes back.
LEMMA ChangedValue ==
    ASSUME ObjectsTyped, NEW does \in HandlersOf[table], does # "read", NEW v \in Values, NEW d \in Nat,
           NEW change \in Changes(does, v, d)
    PROVE  /\ change[1] \in Values /\ change[2].did \in Deeds
           /\ change[2].did \in Counters =>
                change[2].number = Number(change[2].did, v) + 1
                /\ change[2].number = Number(change[2].did, change[1])
           /\ \A did \in Deeds \cap Counters :
                Number(did, change[1]) = IF did = change[2].did THEN Number(did, v) + 1 ELSE Number(did, v)
           /\ change[2].did = "case" <=> does = "case"
  <1>1. CASE table = "guilds"
    <2>1. v \in Guilds /\ does \in {"case", "ticket", "enable"}
      BY <1>1, TableKinds
    <2>2. CASE does = "case"
      <3>1. change = <<[v EXCEPT !.case = @ + 1], [did |-> "case", number |-> v.case + 1]>>
        BY <2>2 DEF Changes
      <3>2. [v EXCEPT !.case = @ + 1] = [v EXCEPT !.case = v.case + 1]
        OBVIOUS
      <3>3. v.case \in Nat /\ v.ticket \in Nat
        BY <2>1 DEF Guilds
      <3>4. change[1] \in Guilds /\ change[1].case = v.case + 1 /\ change[1].ticket = v.ticket
        <4>1. change[1] = [v EXCEPT !.case = v.case + 1] /\ v.case + 1 \in Nat
          BY <3>1, <3>2, <3>3
        <4> QED
          BY <2>1, <4>1, GuildCounts
      <3> QED
        BY <3>1, <3>3, <3>4, <2>2, <1>1, TableKinds DEF Number, Counters
    <2>3. CASE does = "ticket"
      <3>1. change = <<[v EXCEPT !.ticket = @ + 1], [did |-> "ticket", number |-> v.ticket + 1]>>
        BY <2>3 DEF Changes
      <3>2. [v EXCEPT !.ticket = @ + 1] = [v EXCEPT !.ticket = v.ticket + 1]
        OBVIOUS
      <3>3. v.case \in Nat /\ v.ticket \in Nat
        BY <2>1 DEF Guilds
      <3>4. change[1] \in Guilds /\ change[1].ticket = v.ticket + 1 /\ change[1].case = v.case
        <4>1. change[1] = [v EXCEPT !.ticket = v.ticket + 1] /\ v.ticket + 1 \in Nat
          BY <3>1, <3>2, <3>3
        <4> QED
          BY <2>1, <4>1, GuildTickets
      <3> QED
        BY <3>1, <3>3, <3>4, <2>3, <1>1, TableKinds DEF Number, Counters
    <2>4. CASE does = "enable"
      <3>1. change = <<[v EXCEPT !.enabled = TRUE], [did |-> "enable"]>>
        BY <2>4 DEF Changes
      <3>2. v.case \in Nat /\ v.ticket \in Nat
        BY <2>1 DEF Guilds
      <3>3. change[1] \in Guilds /\ change[1].ticket = v.ticket /\ change[1].case = v.case
        BY <2>1, <3>1, GuildEnables
      <3> QED
        <4>1. change[1] \in Values /\ change[2].did = "enable" /\ Deeds = {"case", "ticket", "enable"}
          BY <3>1, <3>3, <1>1, TableKinds
        <4>2. \A did \in Deeds \cap Counters :
                 Number(did, change[1]) = IF did = change[2].did THEN Number(did, v) + 1 ELSE Number(did, v)
          BY <4>1, <3>2, <3>3 DEF Number, Counters
        <4> QED
          BY <4>1, <4>2, <2>4 DEF Counters
    <2> QED
      BY <2>1, <2>2, <2>3, <2>4
  <1>2. CASE table = "users"
    <2>1. v \in Users /\ does \in {"warn", "autowarn", "clear"}
      BY <1>2, TableKinds
    <2>2. CASE does \in {"warn", "autowarn"}
      <3>1. change = <<[v EXCEPT !.warnings = @ + 1, !.total = @ + 1],
                       [did |-> "warn", number |-> v.total + 1]>>
        BY <2>2 DEF Changes
      <3>2. [v EXCEPT !.warnings = @ + 1, !.total = @ + 1]
              = [v EXCEPT !.warnings = v.warnings + 1, !.total = v.total + 1]
        OBVIOUS
      <3>3. v.warnings \in Nat /\ v.total \in Nat
        BY <2>1 DEF Users
      <3>4. change[1] \in Users /\ change[1].total = v.total + 1
        <4>1. v \in Users /\ v.warnings + 1 \in Nat /\ v.total + 1 \in Nat
          BY <2>1, <3>3
        <4>2. change[1] = [v EXCEPT !.warnings = v.warnings + 1, !.total = v.total + 1]
          BY <3>1, <3>2
        <4>3. change[1] = [warnings |-> v.warnings + 1, total |-> v.total + 1]
          BY <4>1, <4>2 DEF Users
        <4> QED
          BY <4>1, <4>3 DEF Users
      <3> QED
        BY <3>1, <3>3, <3>4, <2>2, <1>2, TableKinds DEF Number, Counters
    <2>3. CASE does = "clear"
      <3>1. change = <<[v EXCEPT !.warnings = 0], [did |-> "clear"]>>
        BY <2>3 DEF Changes
      <3>2. v.total \in Nat
        BY <2>1 DEF Users
      <3>3. change[1] \in Users /\ change[1].total = v.total
        BY <2>1, <3>1, UserCleared
      <3> QED
        BY <3>1, <3>2, <3>3, <2>3, <1>2, TableKinds DEF Number, Counters
    <2> QED
      BY <2>1, <2>2, <2>3
  <1>3. CASE table = "user_levels"
    <2>1. v \in Levels /\ does = "level"
      BY <1>3, TableKinds
    <2> DEFINE w == OfDay(v, d)
    <2>2. w \in Levels
      BY <2>1, OfDayTyped
    <2>3. PICK gain \in XpGains :
            change = <<LevelUp([w EXCEPT !.daily = @ + 1, !.xp = @ + gain, !.total = @ + gain]),
                       [did |-> "level", day |-> d]>>
      BY <2>1 DEF Changes
    <2> HIDE DEF w
    <2>4. [w EXCEPT !.daily = @ + 1, !.xp = @ + gain, !.total = @ + gain] \in Levels
      <3>1. w.daily \in Nat /\ w.xp \in Nat /\ w.total \in Nat /\ gain \in Nat
        BY <2>2, SharedAssumption DEF Levels
      <3>2. [w EXCEPT !.daily = @ + 1, !.xp = @ + gain, !.total = @ + gain]
              = [w EXCEPT !.daily = w.daily + 1, !.xp = w.xp + gain, !.total = w.total + gain]
        OBVIOUS
      <3>3. w.daily + 1 \in Nat /\ w.xp + gain \in Nat /\ w.total + gain \in Nat
        BY <3>1
      <3> QED
        BY <2>2, <3>2, <3>3, GainRecord
    <2>5. change[1] \in Levels /\ change[2].did = "level"
      BY <2>3, <2>4, LevelUpTyped
    <2> QED
      BY <2>1, <2>5, <1>3, TableKinds DEF Counters
  <1> QED
    BY <1>1, <1>2, <1>3 DEF ObjectsTyped

\* What an object has reached when a deed is done.
ReachedNext(v) ==
    \A did \in Deeds \cap Counters : Number(did, v) = StartOf(did) + Cardinality(Of(done', did, Len(done')))

LEMMA Grown ==
    ASSUME DoneTyped, NEW e, done' = Append(done, e)
    PROVE  /\ DOMAIN done' = 1 .. Len(done) + 1 /\ Len(done') = Len(done) + 1
           /\ \A i \in DOMAIN done : i \in DOMAIN done' /\ done'[i] = done[i]
           /\ done'[Len(done) + 1] = e
  BY DEF DoneTyped

Deed(e, does, v, w) ==
    /\ e.did \in Deeds
    /\ e.did \in Counters =>
         e.number \in Nat /\ e.number = Number(e.did, v) + 1 /\ e.number = Number(e.did, w)
    /\ \A did \in Deeds \cap Counters :
         Number(did, w) = IF did = e.did THEN Number(did, v) + 1 ELSE Number(did, v)
    /\ e.did = "case" <=> does = "case"

\* A handler with an object, of objs, up to its next suspension.
Worked(h, does, obj, objs) ==
    /\ objects' \in Seq(Values) /\ Len(objects') = Len(objs)
    /\ \E x : /\ handler' = [handler EXCEPT ![h] = x]
              /\ \/ /\ done' = done
                    /\ x = Idle \/ (x = [at |-> "counting", obj |-> obj] /\ does = "ticket")
                    /\ \A did \in Deeds \cap Counters : Number(did, objects'[obj]) = Number(did, objs[obj])
                 \/ /\ \E e : done' = Append(done, e) /\ Deed(e, does, objs[obj], objects'[obj])
                    /\ x.at \in Has /\ (x.at = "saving" => does # "case")
                    /\ x.obj = obj /\ x.data \in Values /\ x.what = Len(done) + 1

LEMMA ChangeWorks ==
    ASSUME SharedTyped, NEW h \in Handlers, NEW does \in HandlersOf[table], does # "read",
           NEW objs \in Seq(Values), NEW obj \in 1 .. Len(objs), NEW d \in Nat, Change(h, does, obj, objs, d)
    PROVE  Worked(h, does, obj, objs)
  <1>1. PICK change \in Changes(does, objs[obj], d) :
          /\ objects' = [objs EXCEPT ![obj] = change[1]]
          /\ done' = Append(done, change[2])
          /\ Becomes(h, [at |-> IF does \in {"case", "ticket"} THEN "storing" ELSE "saving",
                         obj |-> obj, data |-> change[1], what |-> Len(done) + 1])
    BY DEF Change
  <1>2. objs[obj] \in Values
    OBVIOUS
  <1>3. /\ change[1] \in Values /\ change[2].did \in Deeds
        /\ change[2].did \in Counters =>
             change[2].number = Number(change[2].did, objs[obj]) + 1
             /\ change[2].number = Number(change[2].did, change[1])
        /\ \A did \in Deeds \cap Counters :
             Number(did, change[1]) = IF did = change[2].did THEN Number(did, objs[obj]) + 1 ELSE Number(did, objs[obj])
        /\ change[2].did = "case" <=> does = "case"
    BY <1>2, ChangedValue DEF SharedTyped
  <1>4. change[2].did \in Counters => change[2].number \in Nat
    BY <1>2, <1>3, NumberTyped DEF SharedTyped
  <1>5. objects' \in Seq(Values) /\ Len(objects') = Len(objs) /\ objects'[obj] = change[1]
    BY <1>1, <1>3
  <1>6. Deed(change[2], does, objs[obj], objects'[obj])
    BY <1>3, <1>4, <1>5 DEF Deed
  <1> DEFINE x == [at |-> IF does \in {"case", "ticket"} THEN "storing" ELSE "saving",
                   obj |-> obj, data |-> change[1], what |-> Len(done) + 1]
  <1>7. /\ x.at \in Has /\ (x.at = "saving" => does # "case")
        /\ x.obj = obj /\ x.data \in Values /\ x.what = Len(done) + 1
    BY <1>3 DEF Has
  <1>8. handler' = [handler EXCEPT ![h] = x]
    BY <1>1 DEF Becomes
  <1> HIDE DEF x
  <1> QED
    BY <1>1, <1>5, <1>6, <1>7, <1>8 DEF Worked

LEMMA ProceedWorks ==
    ASSUME SharedTyped, NEW h \in Handlers, NEW does \in HandlersOf[table],
           NEW objs \in Seq(Values), NEW obj \in 1 .. Len(objs), NEW d \in Nat, Proceed(h, does, obj, objs, d)
    PROVE  Worked(h, does, obj, objs)
  <1>1. objs[obj] \in Values
    OBVIOUS
  <1>3. CASE Declines(does, objs[obj], d) /\ does = "level"
    <2>1. /\ objects' = [objs EXCEPT ![obj] = OfDay(@, d)] /\ done' = done
          /\ handler' = [handler EXCEPT ![h] = Idle]
      BY <1>3 DEF Proceed, Becomes
    <2>2. table = "user_levels"
      BY <1>3, TableKinds DEF SharedTyped, ObjectsTyped
    <2>3. Values = Levels /\ Deeds \cap Counters = {}
      BY <2>2, TableKinds DEF SharedTyped, Counters
    <2>4. OfDay(objs[obj], d) \in Values
      BY <1>1, <2>3, OfDayTyped
    <2>5. objects' \in Seq(Values) /\ Len(objects') = Len(objs)
      BY <2>1, <2>4
    <2> QED
      BY <2>1, <2>3, <2>5 DEF Worked
  <1>4. CASE Declines(does, objs[obj], d) /\ does # "level"
    BY <1>4 DEF Proceed, Becomes, Worked
  <1>5. CASE ~Declines(does, objs[obj], d) /\ does = "ticket"
    BY <1>5 DEF Proceed, Becomes, Worked
  <1>6. CASE ~Declines(does, objs[obj], d) /\ does # "ticket"
    BY <1>6, ChangeWorks DEF Proceed, Declines
  <1> QED
    BY <1>3, <1>4, <1>5, <1>6

\* A step of one handler leaves the others where they are, and typed.
LEMMA HandlersMove ==
    ASSUME SharedTyped, NEW h \in Handlers, NEW x, handler' = [handler EXCEPT ![h] = x], table' = table, initial' = initial,
           Len(objects') \in Nat, Len(objects) <= Len(objects'), Len(done') \in Nat, Len(done) <= Len(done'),
           HandlerOK(x, Len(objects'), Len(done'))
    PROVE  HandlersTyped'
  <1>1. /\ DOMAIN handler' = Handlers /\ handler'[h] = x
        /\ \A k \in Handlers \ {h} : handler'[k] = handler[k]
    BY DEF SharedTyped, HandlersTyped
  <1>2. Len(objects) \in Nat /\ Len(done) \in Nat
    BY DEF SharedTyped, ObjectsTyped, DoneTyped
  <1>3. \A k \in Handlers : HandlerOK(handler'[k], Len(objects'), Len(done'))
    <2> SUFFICES ASSUME NEW k \in Handlers, k # h PROVE HandlerOK(handler'[k], Len(objects'), Len(done'))
      BY <1>1
    <2>1. HandlerOK(handler[k], Len(objects), Len(done)) /\ handler'[k] = handler[k]
      BY <1>1 DEF SharedTyped, HandlersTyped
    <2>2. 1 .. Len(objects) \subseteq 1 .. Len(objects') /\ 1 .. Len(done) \subseteq 1 .. Len(done')
      BY <1>2
    <2> QED
      BY <2>1, <2>2 DEF HandlerOK
  <1> QED
    BY <1>1, <1>3 DEF HandlersTyped, HandlerOK, Values

\* What a handler that worked leaves.
LEMMA WorkedTyped ==
    ASSUME SharedTyped, NEW h \in Handlers, NEW does \in HandlersOf[table], NEW objs \in Seq(Values), NEW obj \in 1 .. Len(objs),
           Worked(h, does, obj, objs), Len(objects) <= Len(objs), table' = table, initial' = initial, row' = row, day' = day,
           cached' \in 0 .. Len(objs)
    PROVE  SharedTyped'
  <1>1. PICK x :
           /\ handler' = [handler EXCEPT ![h] = x]
           /\ \/ done' = done /\ (x = Idle \/ (x = [at |-> "counting", obj |-> obj] /\ does = "ticket"))
              \/ /\ \E e : done' = Append(done, e) /\ Deed(e, does, objs[obj], objects'[obj])
                 /\ x.at \in Has /\ x.obj = obj /\ x.data \in Values /\ x.what = Len(done) + 1
    BY DEF Worked
  <1>2. objects' \in Seq(Values) /\ Len(objects') = Len(objs) /\ Len(objs) \in Nat
    BY DEF Worked
  <1>3. ObjectsTyped'
    BY <1>2 DEF SharedTyped, ObjectsTyped, Values
  <1>4. DoneTyped' /\ Len(done) <= Len(done') /\ Len(done') \in Nat /\ Len(done) \in Nat
    <2>1. CASE done' = done
      BY <2>1 DEF SharedTyped, DoneTyped, Deeds
    <2>2. CASE \E e : done' = Append(done, e) /\ Deed(e, does, objs[obj], objects'[obj])
      <3>1. PICK e : done' = Append(done, e) /\ Deed(e, does, objs[obj], objects'[obj])
        BY <2>2
      <3>2. e.did \in Deeds /\ (e.did \in Counters => e.number \in Nat)
        BY <3>1 DEF Deed
      <3>3. /\ DOMAIN done' = 1 .. Len(done) + 1 /\ Len(done') = Len(done) + 1 /\ Len(done) \in Nat
            /\ DOMAIN done = 1 .. Len(done)
            /\ \A i \in DOMAIN done : done'[i] = done[i]
            /\ done'[Len(done) + 1] = e
        BY <3>1, Grown DEF SharedTyped, DoneTyped
      <3>4. Deeds' = Deeds
        BY DEF Deeds
      <3>5. \A i \in DOMAIN done' : done'[i].did \in Deeds /\ (done'[i].did \in Counters => done'[i].number \in Nat)
        <4> SUFFICES ASSUME NEW i \in DOMAIN done'
                     PROVE  done'[i].did \in Deeds /\ (done'[i].did \in Counters => done'[i].number \in Nat)
          OBVIOUS
        <4>1. i \in DOMAIN done \/ i = Len(done) + 1
          BY <3>3
        <4> QED
          BY <4>1, <3>2, <3>3 DEF SharedTyped, DoneTyped
      <3> QED
        BY <3>3, <3>4, <3>5 DEF DoneTyped
    <2> QED
      BY <1>1, <2>1, <2>2
  <1>5. HandlerOK(x, Len(objects'), Len(done'))
    <2>1. CASE done' = done /\ (x = Idle \/ (x = [at |-> "counting", obj |-> obj] /\ does = "ticket"))
      <3>1. CASE x = Idle
        BY <3>1 DEF HandlerOK, Idle, Asking, Using, Has, Owes
      <3>2. CASE x = [at |-> "counting", obj |-> obj] /\ does = "ticket"
        BY <3>2, <1>2 DEF HandlerOK, Idle, Asking, Using, Has, Owes
      <3> QED
        BY <2>1, <3>1, <3>2
    <2>2. CASE /\ \E e : done' = Append(done, e) /\ Deed(e, does, objs[obj], objects'[obj])
               /\ x.at \in Has /\ x.obj = obj /\ x.data \in Values /\ x.what = Len(done) + 1
      <3>1. Len(done') = Len(done) + 1
        BY <2>2, Grown DEF SharedTyped
      <3>2. x # Idle
        BY <2>2 DEF Has, Idle
      <3>3. Len(done) + 1 \in 1 .. Len(done')
        BY <1>4, <3>1
      <3> QED
        BY <2>2, <1>2, <3>2, <3>3 DEF HandlerOK, Asking, Using, Has, Owes
    <2> QED
      BY <1>1, <2>1, <2>2
  <1>6. HandlersTyped'
    <2>1. Len(objects') \in Nat /\ Len(objects) <= Len(objects')
      BY <1>2
    <2> QED
      BY <1>1, <1>4, <1>5, <2>1, HandlersMove
  <1> QED
    BY <1>3, <1>4, <1>6 DEF SharedTyped

\* A step that only moves a handler, or the row.
LEMMA MovedTyped ==
    ASSUME SharedTyped, NEW h \in Handlers, NEW x, handler' = [handler EXCEPT ![h] = x],
           HandlerOK(x, Len(objects), Len(done)),
           table' = table, initial' = initial, done' = done, objects' = objects, day' = day,
           row' \in Values \cup {NoRow}, cached' \in 0 .. Len(objects)
    PROVE  SharedTyped'
  <1>1. ObjectsTyped'
    BY DEF SharedTyped, ObjectsTyped, Values
  <1>2. DoneTyped'
    BY DEF SharedTyped, DoneTyped, Deeds
  <1>3. Len(objects) \in Nat /\ Len(done) \in Nat
    BY DEF SharedTyped, ObjectsTyped, DoneTyped
  <1>4. /\ Len(objects') \in Nat /\ Len(objects) <= Len(objects') /\ Len(done') \in Nat /\ Len(done) <= Len(done')
        /\ HandlerOK(x, Len(objects'), Len(done'))
    BY <1>3
  <1>5. HandlersTyped'
    BY <1>4, HandlersMove
  <1> QED
    BY <1>1, <1>2, <1>5 DEF SharedTyped

\* A new object has a row's fields.
LEMMA FreshTyped == ASSUME ObjectsTyped, NEW d \in Nat PROVE Fresh(d) \in Values
  <1>1. CASE table = "guilds"
    BY <1>1, TableKinds DEF Fresh, Guilds
  <1>2. CASE table = "users"
    BY <1>2, TableKinds DEF Fresh, Users
  <1>3. CASE table = "user_levels"
    BY <1>3, TableKinds DEF Fresh, Levels
  <1> QED
    BY <1>1, <1>2, <1>3 DEF ObjectsTyped

\* Of a handler: where it was.
LEMMA WasOK ==
    ASSUME SharedTyped, NEW h \in Handlers
    PROVE  /\ HandlerOK(handler[h], Len(objects), Len(done))
           /\ Len(objects) \in Nat /\ Len(done) \in Nat /\ objects \in Seq(Values) /\ day \in Nat
           /\ cached \in 0 .. Len(objects) /\ row \in Values \cup {NoRow}
  BY DEF SharedTyped, HandlersTyped, ObjectsTyped, DoneTyped

LEMMA IdleOK == ASSUME NEW n, NEW m PROVE HandlerOK(Idle, n, m)
  BY DEF HandlerOK, Idle, Asking, Using, Has, Owes

\* What each operation does to the objects, the deeds and the handler.
LEMMA StartsMoves ==
    ASSUME SharedTyped, NEW h \in Handlers, NEW does \in HandlersOf[table], Starts(h, does)
    PROVE  /\ SharedTyped' /\ UNCHANGED <<table, initial, row, cached, day, log>> /\ handler[h] = Idle
           /\ \/ cached # 0 /\ Worked(h, does, cached, objects) /\ torn' = torn
              \/ /\ cached = 0 /\ UNCHANGED <<objects, done>>
                 /\ torn' = (torn \/ \E other \in Handlers : handler[other] # Idle)
                 /\ \E x : handler' = [handler EXCEPT ![h] = x] /\ x.at = "asking"
  <1>1. UNCHANGED <<table, initial, row, cached, day, log>> /\ handler[h] = Idle
    BY DEF Starts
  <1>2. CASE cached # 0
    <2>1. cached \in 1 .. Len(objects) /\ objects \in Seq(Values) /\ day \in Nat /\ Len(objects) \in Nat
      BY <1>2, WasOK
    <2>2. Proceed(h, does, cached, objects, day) /\ torn' = torn
      BY <1>2 DEF Starts
    <2>3. Worked(h, does, cached, objects)
      BY <2>1, <2>2, ProceedWorks
    <2>4. SharedTyped'
      BY <1>1, <2>1, <2>3, WorkedTyped
    <2> QED
      BY <1>1, <1>2, <2>2, <2>3, <2>4
  <1>3. CASE cached = 0
    <2> DEFINE x == [at |-> "asking", does |-> does, day |-> day]
    <2>1. /\ UNCHANGED <<objects, done>> /\ handler' = [handler EXCEPT ![h] = x]
          /\ torn' = (torn \/ \E other \in Handlers : handler[other] # Idle)
      BY <1>3 DEF Starts, Becomes
    <2>2. x.at = "asking" /\ HandlerOK(x, Len(objects), Len(done))
      BY WasOK DEF HandlerOK, Idle, Asking, Using, Has, Owes
    <2> HIDE DEF x
    <2>3. SharedTyped'
      BY <1>1, <2>1, <2>2, WasOK, MovedTyped
    <2> QED
      BY <1>1, <1>3, <2>1, <2>2, <2>3
  <1> QED
    BY <1>2, <1>3

LEMMA AnswersMoves ==
    ASSUME SharedTyped, NEW h \in Handlers, Answers(h)
    PROVE  /\ SharedTyped' /\ UNCHANGED <<table, initial, row, cached, objects, day, done, log, torn>>
           /\ handler[h].at = "asking"
           /\ \E x : handler' = [handler EXCEPT ![h] = x] /\ x.at = "asked" /\ x.answer = row
  <1> DEFINE x == [at |-> "asked", does |-> handler[h].does, day |-> handler[h].day, answer |-> row]
  <1>1. /\ UNCHANGED <<table, initial, row, cached, objects, day, done, log, torn>>
        /\ handler[h].at = "asking" /\ handler' = [handler EXCEPT ![h] = x]
    BY DEF Answers, Becomes
  <1>2. x.at = "asked" /\ x.answer = row /\ HandlerOK(x, Len(objects), Len(done))
    BY <1>1, WasOK DEF HandlerOK, Idle, Asking, Using, Has, Owes
  <1> HIDE DEF x
  <1>3. SharedTyped'
    BY <1>1, <1>2, WasOK, MovedTyped
  <1> QED
    BY <1>1, <1>2, <1>3

LEMMA GetsMoves ==
    ASSUME SharedTyped, NEW h \in Handlers, Gets(h)
    PROVE  /\ SharedTyped' /\ UNCHANGED <<table, initial, row, day, log, torn>> /\ handler[h].at = "asked"
           /\ \/ handler' = [handler EXCEPT ![h] = Idle] /\ UNCHANGED <<objects, done, cached>>
              \/ /\ cached' \in {cached, Len(objects) + 1}
                 /\ \E objs \in Seq(Values) :
                       /\ Len(objs) = Len(objects) + 1 /\ \A o \in 1 .. Len(objects) : objs[o] = objects[o]
                       /\ IF handler[h].answer = NoRow THEN \E d \in Nat : objs[Len(objs)] = Fresh(d)
                                                       ELSE objs[Len(objs)] = handler[h].answer
                       /\ Worked(h, handler[h].does, Len(objs), objs)
  <1> DEFINE j == handler[h]
             value == IF j.answer = NoRow THEN Fresh(j.day) ELSE j.answer
             made == Append(objects, value)
  <1>1. UNCHANGED <<table, initial, row, day, log, torn>> /\ j.at = "asked"
    BY DEF Gets
  <1>2. /\ j.does \in HandlersOf[table] /\ j.day \in Nat /\ j.answer \in Values \cup {NoRow}
        /\ objects \in Seq(Values) /\ Len(objects) \in Nat /\ cached \in 0 .. Len(objects)
    BY <1>1, WasOK DEF HandlerOK, Asking
  <1>3. CASE j.answer = NoRow /\ j.does \notin MakesObject
    <2>1. handler' = [handler EXCEPT ![h] = Idle] /\ UNCHANGED <<objects, done, cached>>
      BY <1>3 DEF Gets, Becomes
    <2>2. SharedTyped'
      BY <1>1, <2>1, WasOK, IdleOK, MovedTyped
    <2> QED
      BY <1>1, <2>1, <2>2
  <1>4. CASE ~(j.answer = NoRow /\ j.does \notin MakesObject)
    <2>1. value \in Values
      BY <1>2, FreshTyped DEF SharedTyped
    <2>2. /\ Proceed(h, j.does, Len(made), made, j.day)
          /\ cached' = IF j.answer = NoRow THEN cached ELSE Len(made)
      BY <1>4 DEF Gets
    <2> HIDE DEF value
    <2>3. /\ made \in Seq(Values) /\ Len(made) = Len(objects) + 1
          /\ \A o \in 1 .. Len(objects) : made[o] = objects[o]
          /\ made[Len(made)] = value
      BY <1>2, <2>1
    <2>7. IF j.answer = NoRow THEN \E d \in Nat : made[Len(made)] = Fresh(d) ELSE made[Len(made)] = j.answer
      BY <1>2, <2>3 DEF value
    <2> HIDE DEF made, j
    <2>4. Len(made) \in 1 .. Len(made) /\ Len(objects) <= Len(made) /\ cached' \in 0 .. Len(made)
          /\ cached' \in {cached, Len(objects) + 1}
      BY <1>2, <2>2, <2>3
    <2>5. Worked(h, j.does, Len(made), made)
      BY <1>2, <2>2, <2>3, <2>4, ProceedWorks
    <2>6. SharedTyped'
      BY <1>1, <1>2, <2>3, <2>4, <2>5, WorkedTyped
    <2> QED
      BY <1>1, <2>3, <2>4, <2>5, <2>6, <2>7 DEF j
  <1> QED
    BY <1>3, <1>4

LEMMA CountsMoves ==
    ASSUME SharedTyped, NEW h \in Handlers, Counts(h)
    PROVE  /\ SharedTyped' /\ UNCHANGED <<table, initial, row, cached, day, log, torn>> /\ handler[h].at = "counting"
           /\ Worked(h, "ticket", handler[h].obj, objects) /\ handler[h].obj \in 1 .. Len(objects)
           /\ "ticket" \in HandlersOf[table]
  <1>1. UNCHANGED <<table, initial, row, cached, day, log, torn>> /\ handler[h].at = "counting"
    BY DEF Counts
  <1>2. /\ "ticket" \in HandlersOf[table]
        /\ handler[h].obj \in 1 .. Len(objects) /\ objects \in Seq(Values) /\ day \in Nat /\ Len(objects) \in Nat
    BY <1>1, WasOK DEF HandlerOK, Using
  <1>3. Worked(h, "ticket", handler[h].obj, objects)
    <2>1. Change(h, "ticket", handler[h].obj, objects, day)
      BY DEF Counts
    <2> QED
      BY <1>2, <2>1, ChangeWorks
  <1>4. SharedTyped'
    BY <1>1, <1>2, <1>3, WasOK, WorkedTyped
  <1> QED
    BY <1>1, <1>2, <1>3, <1>4

LEMMA StoresMoves ==
    ASSUME SharedTyped, NEW h \in Handlers, Stores(h)
    PROVE  /\ SharedTyped' /\ UNCHANGED <<table, initial, row, cached, objects, day, done, sanctions, torn>>
           /\ handler[h].at = "storing"
           /\ IF done[handler[h].what].did = "case" THEN SaveCase(Case(handler[h].what)) ELSE UNCHANGED caseVars
           /\ \E x : /\ handler' = [handler EXCEPT ![h] = x] /\ x.at = "saving"
                     /\ x.obj = handler[h].obj /\ x.what = handler[h].what
  <1> DEFINE x == Saving(handler[h])
  <1>1. /\ UNCHANGED <<table, initial, row, cached, objects, day, done, sanctions, torn>>
        /\ handler[h].at = "storing" /\ handler' = [handler EXCEPT ![h] = x]
        /\ IF done[handler[h].what].did = "case" THEN SaveCase(Case(handler[h].what)) ELSE UNCHANGED caseVars
    BY DEF Stores, Becomes, Case
  <1>2. /\ handler[h].obj \in 1 .. Len(objects) /\ handler[h].what \in 1 .. Len(done)
        /\ objects \in Seq(Values)
    BY <1>1, WasOK DEF HandlerOK, Using, Owes
  <1>3. /\ x.at = "saving" /\ x.obj = handler[h].obj /\ x.what = handler[h].what
        /\ x.data \in Values
    BY <1>2 DEF Saving
  <1> HIDE DEF x
  <1>4. HandlerOK(x, Len(objects), Len(done))
    BY <1>2, <1>3 DEF HandlerOK, Idle, Asking, Using, Has, Owes
  <1>5. SharedTyped'
    BY <1>1, <1>4, WasOK, MovedTyped
  <1> QED
    BY <1>1, <1>3, <1>5

LEMMA SavesMoves ==
    ASSUME SharedTyped, NEW h \in Handlers, Saves(h)
    PROVE  /\ SharedTyped' /\ UNCHANGED <<table, initial, objects, day, done, log, torn>> /\ handler[h].at = "saving"
           /\ handler[h].obj \in 1 .. Len(objects) /\ cached' = handler[h].obj
           /\ \E x : /\ handler' = [handler EXCEPT ![h] = x]
                     /\ \/ x = Idle
                        \/ /\ x.at = "sanctioning" /\ x.what = handler[h].what
                           /\ done[handler[h].what].did = "case"
  <1>1. /\ UNCHANGED <<table, initial, objects, day, done, log, torn>> /\ handler[h].at = "saving"
        /\ cached' = handler[h].obj /\ AfterSave(h)
        /\ row' \in {row, IF table = "user_levels" THEN objects[handler[h].obj] ELSE handler[h].data}
    BY DEF Saves
  <1>2. /\ handler[h].obj \in 1 .. Len(objects) /\ handler[h].what \in 1 .. Len(done)
        /\ objects \in Seq(Values) /\ handler[h].data \in Values /\ row \in Values \cup {NoRow}
        /\ Len(objects) \in Nat
    BY <1>1, WasOK DEF HandlerOK, Using, Has, Owes
  <1>3. row' \in Values \cup {NoRow}
    BY <1>1, <1>2
  <1> DEFINE x == IF done[handler[h].what].did = "case"
                  THEN [at |-> "sanctioning", what |-> handler[h].what] ELSE Idle
  <1>4. handler' = [handler EXCEPT ![h] = x]
    BY <1>1 DEF AfterSave, Becomes
  <1>5. /\ HandlerOK(x, Len(objects), Len(done))
        /\ \/ x = Idle
           \/ /\ x.at = "sanctioning" /\ x.what = handler[h].what
              /\ done[handler[h].what].did = "case"
    BY <1>2 DEF HandlerOK, Idle, Asking, Using, Has, Owes
  <1> HIDE DEF x
  <1>6. SharedTyped'
    <2>1. cached' \in 0 .. Len(objects)
      BY <1>1, <1>2
    <2> QED
      BY <1>1, <1>3, <1>4, <1>5, <2>1, MovedTyped
  <1> QED
    BY <1>1, <1>2, <1>4, <1>5, <1>6

LEMMA SanctionsMoves ==
    ASSUME SharedTyped, NEW h \in Handlers, Sanctions(h)
    PROVE  /\ SharedTyped' /\ UNCHANGED <<table, initial, row, cached, objects, day, done, torn>>
           /\ handler[h].at = "sanctioning" /\ handler' = [handler EXCEPT ![h] = Idle]
           /\ sanctions' = sanctions \cup {Case(handler[h].what)}
           /\ SaveCase(Case(handler[h].what)) \/ UNCHANGED caseVars
  <1>1. /\ UNCHANGED <<table, initial, row, cached, objects, day, done, torn>>
        /\ handler[h].at = "sanctioning" /\ handler' = [handler EXCEPT ![h] = Idle]
        /\ sanctions' = sanctions \cup {Case(handler[h].what)}
        /\ SaveCase(Case(handler[h].what)) \/ UNCHANGED caseVars
    BY DEF Sanctions, Becomes, Case
  <1>2. SharedTyped'
    BY <1>1, IdleOK, WasOK, MovedTyped
  <1> QED
    BY <1>1, <1>2

LEMMA FailsMoves ==
    ASSUME SharedTyped, NEW h \in Handlers, Fails(h)
    PROVE  /\ SharedTyped' /\ UNCHANGED <<table, initial, row, cached, objects, day, done, log>>
           /\ handler' = [handler EXCEPT ![h] = Idle]
           /\ torn' = (torn \/ (handler[h].at \in Has /\ cached = 0))
  <1>1. /\ UNCHANGED <<table, initial, row, cached, objects, day, done, log>>
        /\ handler' = [handler EXCEPT ![h] = Idle]
        /\ torn' = (torn \/ (handler[h].at \in Has /\ cached = 0))
    BY DEF Fails, Becomes, Has
  <1>2. SharedTyped'
    BY <1>1, IdleOK, WasOK, MovedTyped
  <1> QED
    BY <1>1, <1>2

LEMMA NextDayTyped == ASSUME SharedTyped, NextDay \/ LooksUp PROVE SharedTyped'
  <1>1. UNCHANGED <<table, initial, row, cached, objects, handler, done>> /\ day' \in Nat
    BY DEF NextDay, LooksUp, SharedTyped, ObjectsTyped
  <1>2. ObjectsTyped'
    BY <1>1 DEF SharedTyped, ObjectsTyped, Values
  <1>3. DoneTyped'
    BY <1>1 DEF SharedTyped, DoneTyped, Deeds
  <1>4. HandlersTyped'
    BY <1>1 DEF SharedTyped, HandlersTyped, HandlerOK, Values
  <1> QED
    BY <1>2, <1>3, <1>4 DEF SharedTyped

-----------------------------------------------------------------------------
(* SharedRows: every number is taken once *)

\* Where the handlers are after one of them has moved.
LEMMA OthersStay ==
    ASSUME SharedTyped, NEW h \in Handlers, NEW x, handler' = [handler EXCEPT ![h] = x]
    PROVE  handler'[h] = x /\ \A k \in Handlers \ {h} : handler'[k] = handler[k]
  BY DEF SharedTyped, HandlersTyped

\* How many deeds of a kind there are, of the first n.
LEMMA OfFinite ==
    ASSUME NEW t, NEW did, NEW n \in Nat
    PROVE  IsFiniteSet(Of(t, did, n)) /\ Cardinality(Of(t, did, n)) \in Nat
  <1>1. IsFiniteSet(1 .. n) /\ Of(t, did, n) \in SUBSET (1 .. n)
    BY FS_Interval DEF Of
  <1>2. IsFiniteSet(Of(t, did, n))
    BY <1>1, FS_Subset
  <1> QED
    BY <1>2, FS_CardinalityType

LEMMA OfNone == ASSUME NEW t, NEW did PROVE Cardinality(Of(t, did, 0)) = 0
  <1>1. Of(t, did, 0) = {}
    BY DEF Of
  <1> QED
    BY <1>1, FS_EmptySet

LEMMA OfNext ==
    ASSUME NEW t, NEW did, NEW n \in Nat
    PROVE  Cardinality(Of(t, did, n + 1))
             = IF did = t[n + 1].did THEN Cardinality(Of(t, did, n)) + 1 ELSE Cardinality(Of(t, did, n))
  <1>1. PICK C : C = Of(t, did, n)
    OBVIOUS
  <1>2. IsFiniteSet(C) /\ n + 1 \notin C
    <2>1. C \subseteq 1 .. n
      BY <1>1 DEF Of
    <2>2. IsFiniteSet(C)
      BY <1>1, OfFinite
    <2> QED
      BY <2>1, <2>2
  <1>3. CASE did = t[n + 1].did
    <2>1. Of(t, did, n + 1) = C \cup {n + 1}
      BY <1>1, <1>3 DEF Of
    <2>2. Cardinality(C \cup {n + 1}) = Cardinality(C) + 1
      BY <1>2, FS_AddElement
    <2> QED
      BY <1>1, <1>3, <2>1, <2>2
  <1>4. CASE did # t[n + 1].did
    <2>1. Of(t, did, n + 1) = C
      BY <1>1, <1>4 DEF Of
    <2> QED
      BY <1>1, <1>4, <2>1
  <1> QED
    BY <1>3, <1>4

LEMMA OfLess ==
    ASSUME NEW t, NEW did, NEW m \in Nat, NEW n \in Nat, m < n, t[n].did = did
    PROVE  Cardinality(Of(t, did, m)) < Cardinality(Of(t, did, n))
  <1>1. PICK A : A = Of(t, did, m)
    OBVIOUS
  <1>2. PICK B : B = Of(t, did, n)
    OBVIOUS
  <1>3. A \in SUBSET B /\ n \in B /\ n \notin A
    BY <1>1, <1>2 DEF Of
  <1>4. IsFiniteSet(B) /\ Cardinality(A) \in Nat /\ Cardinality(B) \in Nat
    BY <1>1, <1>2, OfFinite
  <1>5. Cardinality(A) <= Cardinality(B) /\ Cardinality(A) # Cardinality(B)
    BY <1>3, <1>4, FS_Subset
  <1> QED
    BY <1>1, <1>2, <1>4, <1>5

LEMMA OfSame ==
    ASSUME NEW t, NEW u, NEW did, NEW n \in Nat, \A k \in 1 .. n : t[k] = u[k]
    PROVE  Of(t, did, n) = Of(u, did, n)
  BY DEF Of

LEMMA StartTyped == ASSUME ObjectsTyped, NEW did \in Deeds \cap Counters PROVE StartOf(did) \in Nat
  BY NumberTyped DEF StartOf, ObjectsTyped

\* The number of a deed counts those before it, and the object counts it.
LEMMA WorkedOnce ==
    ASSUME SharedTyped, Once, NEW h \in Handlers, NEW does, NEW objs \in Seq(Values), NEW obj \in 1 .. Len(objs),
           Worked(h, does, obj, objs), Reached(objs[obj]), table' = table, initial' = initial
    PROVE  ReachedNext(objects'[obj]) /\ Once'
  <1>1. PICK v : v = objs[obj]
    OBVIOUS
  <1>2. PICK w : w = objects'[obj]
    OBVIOUS
  <1>3. Reached(v)
    BY <1>1
  <1>4. \A did : StartOf(did)' = StartOf(did)
    BY DEF StartOf
  <1>5. Len(done) \in Nat /\ DOMAIN done = 1 .. Len(done) /\ \A i \in DOMAIN done : done[i].did \in Deeds
    BY DEF SharedTyped, DoneTyped
  <1>6. CASE done' = done /\ \A did \in Deeds \cap Counters : Number(did, w) = Number(did, v)
    <2>1. ReachedNext(w)
      BY <1>3, <1>6 DEF Reached, ReachedNext
    <2>2. Once'
      BY <1>4, <1>6 DEF Once
    <2> QED
      BY <1>2, <2>1, <2>2
  <1>7. CASE \E e : done' = Append(done, e) /\ Deed(e, does, v, w)
    <2>1. PICK e : done' = Append(done, e) /\ Deed(e, does, v, w)
      BY <1>7
    <2>2. /\ DOMAIN done' = 1 .. Len(done) + 1 /\ Len(done') = Len(done) + 1
          /\ \A i \in DOMAIN done : done'[i] = done[i]
          /\ done'[Len(done) + 1] = e
      BY <2>1, Grown DEF SharedTyped
    <2>3. PICK t : t = done'
      OBVIOUS
    <2>4. PICK n : n = Len(done)
      OBVIOUS
    <2>5. \A i \in 0 .. n : \A did : Of(t, did, i) = Of(done, did, i)
      <3> SUFFICES ASSUME NEW i \in 0 .. n, NEW did PROVE Of(t, did, i) = Of(done, did, i)
        OBVIOUS
      <3>1. i \in Nat /\ \A k \in 1 .. i : t[k] = done[k]
        BY <1>5, <2>2, <2>3, <2>4
      <3> QED
        BY <3>1, OfSame
    <2>6. \A did : Cardinality(Of(t, did, n + 1))
                     = IF did = e.did THEN Cardinality(Of(done, did, n)) + 1 ELSE Cardinality(Of(done, did, n))
      <3>1. n \in Nat /\ n \in 0 .. n /\ t[n + 1] = e
        BY <1>5, <2>2, <2>3, <2>4
      <3>2. ASSUME NEW did PROVE Cardinality(Of(t, did, n)) = Cardinality(Of(done, did, n))
        <4>1. Of(t, did, n) = Of(done, did, n)
          BY <2>5, <3>1
        <4> QED
          BY <4>1
      <3> QED
        BY <3>1, <3>2, OfNext
    <2>7. \A did \in Deeds \cap Counters :
             /\ Number(did, v) = StartOf(did) + Cardinality(Of(done, did, n))
             /\ StartOf(did) \in Nat /\ Cardinality(Of(done, did, n)) \in Nat
      BY <1>3, <1>5, <2>4, StartTyped, OfFinite DEF Reached, SharedTyped
    <2>8. ReachedNext(w)
      <3> SUFFICES ASSUME NEW did \in Deeds \cap Counters
                   PROVE  Number(did, w) = StartOf(did) + Cardinality(Of(done', did, Len(done')))
        BY DEF ReachedNext
      <3>1. Number(did, w) = IF did = e.did THEN Number(did, v) + 1 ELSE Number(did, v)
        BY <2>1 DEF Deed
      <3>2. Number(did, w) = StartOf(did) + Cardinality(Of(t, did, n + 1))
        BY <2>6, <2>7, <3>1
      <3> QED
        BY <2>2, <2>3, <2>4, <3>2
    <2>9. Once'
      <3> SUFFICES ASSUME NEW i \in DOMAIN done', done'[i].did \in Counters
                   PROVE  done'[i].number = StartOf(done'[i].did) + Cardinality(Of(done', done'[i].did, i))
        BY <1>4 DEF Once
      <3>1. CASE i \in DOMAIN done
        <4>1. done'[i] = done[i] /\ i \in 0 .. n
          BY <1>5, <2>2, <2>4, <3>1
        <4>2. done[i].number = StartOf(done[i].did) + Cardinality(Of(done, done[i].did, i))
          BY <3>1, <4>1 DEF Once
        <4>3. Of(t, done[i].did, i) = Of(done, done[i].did, i)
          BY <2>5, <4>1
        <4>4. done[i].number = StartOf(done[i].did) + Cardinality(Of(t, done[i].did, i))
          BY <4>2, <4>3
        <4> QED
          BY <2>3, <4>1, <4>4
      <3>2. CASE i = n + 1
        <4>1. done'[i] = e
          BY <2>2, <2>4, <3>2
        <4>2. e.did \in Deeds \cap Counters /\ e.number = Number(e.did, v) + 1
          BY <2>1, <4>1 DEF Deed
        <4>3. e.number = StartOf(e.did) + Cardinality(Of(t, e.did, n + 1))
          BY <2>6, <2>7, <4>2
        <4> QED
          BY <2>3, <3>2, <4>1, <4>3
      <3> QED
        BY <1>5, <2>2, <2>4, <3>1, <3>2
    <2> QED
      BY <1>2, <2>8, <2>9
  <1> QED
    BY <1>1, <1>2, <1>6, <1>7 DEF Worked

\* A handler worked with the one object there is.
LEMMA WorkedCounts ==
    ASSUME SharedTyped, OneObject, Once, NEW h \in Handlers, NEW does, NEW objs \in Seq(Values),
           NEW obj \in 1 .. Len(objs), Worked(h, does, obj, objs), Reached(objs[obj]), cached' \in {0, obj},
           UNCHANGED <<table, initial, row>>, cached' = 0 => cached = 0,
           cached' # 0 => \A k \in Handlers \ {h} :
               handler[k].at \notin Asking /\ (handler[k].at \in Using => handler[k].obj = obj),
           cached' = 0 => done = <<>> /\ \A k \in Handlers \ {h} : handler[k] = Idle
    PROVE  OneObject' /\ Once'
  <1>1. PICK x :
           /\ handler' = [handler EXCEPT ![h] = x]
           /\ \/ done' = done /\ (x = Idle \/ x = [at |-> "counting", obj |-> obj])
              \/ x.at \in Has /\ x.obj = obj
    BY DEF Worked
  <1>2. handler'[h] = x /\ \A k \in Handlers \ {h} : handler'[k] = handler[k]
    BY <1>1, OthersStay
  <1>3. ReachedNext(objects'[obj]) /\ Once'
    BY WorkedOnce
  <1>4. x.at \notin Asking /\ x.at # "asked" /\ x.at # "sanctioning" /\ (x.at \in Using => x.obj = obj)
    BY <1>1 DEF Idle, Asking, Has, Using
  <1>5. obj # 0
    OBVIOUS
  <1>6. cached' = 0 => \A j, k \in Handlers : handler'[j] = Idle \/ handler'[k] = Idle \/ j = k
    BY <1>2
  <1>7. cached' = 0 /\ (\A k \in Handlers : handler'[k].at \notin Has) => done' = <<>>
    BY <1>1, <1>2
  <1>8. \A k \in Handlers : handler'[k].at \in Asking => cached' = 0
    BY <1>2, <1>4
  <1>9. \A k \in Handlers : handler'[k].at = "sanctioning" => cached' # 0
    BY <1>2, <1>4 DEF Idle
  <1>10. cached' # 0 => \A k \in Handlers : handler'[k].at \in Using => handler'[k].obj = cached'
    BY <1>2, <1>4
  <1>11. \A o : Held(o)' => o = obj
    <2> SUFFICES ASSUME NEW o, Held(o)' PROVE o = obj
      OBVIOUS
    <2>1. CASE cached' # 0
      <3>1. o = cached' \/ \E k \in Handlers : handler'[k].at \in Using /\ handler'[k].obj = o
        BY <2>1 DEF Held, InUse, Using
      <3> QED
        BY <1>10, <2>1, <3>1
    <2>2. CASE cached' = 0
      <3>1. PICK k \in Handlers : handler'[k].at \in Using /\ handler'[k].obj = o
        BY <2>2 DEF Held, InUse, Has, Using
      <3>2. k = h
        BY <1>2, <2>2, <3>1 DEF Idle, Using
      <3> QED
        BY <1>2, <1>4, <3>1, <3>2
    <2> QED
      BY <2>1, <2>2
  <1>12. \A o \in DOMAIN objects' : Held(o)' => Reached(objects[o])'
    <2>1. Deeds' = Deeds /\ \A did : StartOf(did)' = StartOf(did)
      BY DEF Deeds, StartOf
    <2> QED
      BY <1>3, <1>11, <2>1 DEF Reached, ReachedNext
  <1>13. cached' = 0 => row' = initial'
    BY DEF OneObject
  <1>14. \A k \in Handlers : handler'[k].at = "asked" => handler'[k].answer = initial'
    BY <1>2, <1>4 DEF OneObject
  <1> QED
    BY <1>3, <1>6, <1>7, <1>8, <1>9, <1>10, <1>12, <1>13, <1>14 DEF OneObject

\* A handler goes on without a deed, or ends.
LEMMA MovedCounts ==
    ASSUME SharedTyped, OneObject, Once, UNCHANGED <<table, initial, row, objects, done, cached>>,
           NEW h \in Handlers, NEW x,
           handler' = [handler EXCEPT ![h] = x], x.at # "sanctioning",
           x.at = "asked" => x.answer = initial,
           x.at \in Asking => cached = 0,
           x.at \in Using => handler[h].at \in Has /\ x.at \in Has /\ x.obj = handler[h].obj,
           cached = 0 /\ x.at \notin Has => handler[h].at \notin Has,
           cached = 0 => handler[h] # Idle \/ \A k \in Handlers : handler[k] = Idle
    PROVE  OneObject' /\ Once'
  <1>2. handler'[h] = x /\ \A k \in Handlers \ {h} : handler'[k] = handler[k]
    BY OthersStay
  <1>1. Deeds' = Deeds /\ \A did : StartOf(did)' = StartOf(did)
    BY DEF Deeds, StartOf
  <1>3. Once'
    BY <1>1 DEF Once
  <1>4. cached' = 0 => \A k \in Handlers \ {h} : handler[k] = Idle
    BY DEF OneObject
  <1>6. cached' = 0 => \A j, k \in Handlers : handler'[j] = Idle \/ handler'[k] = Idle \/ j = k
    BY <1>2, <1>4
  <1>7. cached' = 0 /\ (\A k \in Handlers : handler'[k].at \notin Has) => done' = <<>>
    BY <1>2 DEF OneObject
  <1>8. \A k \in Handlers : handler'[k].at \in Asking => cached' = 0
    BY <1>2 DEF OneObject
  <1>9. \A k \in Handlers : handler'[k].at = "sanctioning" => cached' # 0
    BY <1>2 DEF OneObject
  <1>10. cached' # 0 => \A k \in Handlers : handler'[k].at \in Using => handler'[k].obj = cached'
    BY <1>2 DEF OneObject, Has, Using
  <1>11. \A o : Held(o)' => Held(o)
    BY <1>2 DEF Held, InUse, Has, Using
  <1>12. \A o \in DOMAIN objects' : Held(o)' => Reached(objects[o])'
    BY <1>1, <1>11 DEF Reached, OneObject
  <1>13. cached' = 0 => row' = initial'
    BY DEF OneObject
  <1>14. \A k \in Handlers : handler'[k].at = "asked" => handler'[k].answer = initial'
    BY <1>2 DEF OneObject
  <1> QED
    BY <1>3, <1>6, <1>7, <1>8, <1>9, <1>10, <1>12, <1>13, <1>14 DEF OneObject

\* The object that was saved is the one that was used.
LEMMA SavedCounts == ASSUME SharedTyped, OneObject, Once, NEW h \in Handlers, Saves(h) PROVE OneObject' /\ Once'
  <1>1. PICK x :
           /\ handler' = [handler EXCEPT ![h] = x]
           /\ x = Idle \/ x.at = "sanctioning"
    BY SavesMoves
  <1>2. /\ UNCHANGED <<table, initial, objects, done>> /\ handler[h].at = "saving" /\ cached' = handler[h].obj
        /\ handler[h].obj \in 1 .. Len(objects)
    BY SavesMoves
  <1>10. Deeds' = Deeds /\ \A did : StartOf(did)' = StartOf(did)
    BY <1>2 DEF Deeds, StartOf
  <1>3. handler'[h] = x /\ \A k \in Handlers \ {h} : handler'[k] = handler[k]
    BY <1>1, OthersStay
  <1>4. cached' # 0 /\ InUse(cached')
    BY <1>2 DEF InUse, OneObject, Using, Has
  <1>5. \A k \in Handlers \ {h} : handler'[k].at \notin Asking /\ (handler'[k].at \in Using => handler'[k].obj = cached')
    <2>1. CASE cached = 0
      <3>1. \A k \in Handlers \ {h} : handler'[k] = Idle
        BY <1>2, <1>3, <2>1 DEF OneObject, Idle
      <3> QED
        BY <3>1 DEF Idle, Asking, Using
    <2>2. CASE cached # 0
      BY <1>2, <1>3, <2>2 DEF OneObject, Using
    <2> QED
      BY <2>1, <2>2
  <1>6. x.at \notin Asking /\ x.at # "asked" /\ x.at \notin Using
    BY <1>1 DEF Idle, Asking, Using
  <1>11. \A k \in Handlers : handler'[k].at # "asked"
    BY <1>3, <1>5, <1>6 DEF Asking
  <1>7. Reached(objects[cached'])
    BY <1>2, <1>4, WasOK DEF OneObject, Held
  <1>8. \A o \in DOMAIN objects' : Held(o)' => Reached(objects[o])'
    <2> SUFFICES ASSUME NEW o \in DOMAIN objects', Held(o)' PROVE Reached(objects[o])'
      OBVIOUS
    <2>1. o = cached'
      <3>1. o = cached' \/ \E k \in Handlers : handler'[k].at \in Using /\ handler'[k].obj = o
        BY <1>4 DEF Held, InUse, Using
      <3> QED
        BY <1>3, <1>5, <1>6, <3>1
    <2> QED
      BY <1>2, <1>7, <1>10, <2>1 DEF Reached
  <1>9. Once'
    BY <1>2, <1>10 DEF Once
  <1> QED
    BY <1>3, <1>4, <1>5, <1>6, <1>8, <1>9, <1>11 DEF OneObject

\* A new object has the numbers of the row.
LEMMA NewReached ==
    ASSUME ObjectsTyped, done = <<>>, NEW v,
           IF initial = NoRow THEN \E d \in Nat : v = Fresh(d) ELSE v = initial
    PROVE  Reached(v)
  <1>1. \A did : Cardinality(Of(done, did, Len(done))) = 0
    BY OfNone
  <1>2. \A did \in Deeds \cap Counters : Number(did, v) = StartOf(did)
    <2>1. CASE initial = NoRow
      <3>1. PICK d \in Nat : v = Fresh(d)
        BY <2>1
      <3>2. CASE table = "guilds"
        BY <2>1, <3>1, <3>2, TableKinds DEF Fresh, Number, StartOf, Counters
      <3>3. CASE table = "users"
        BY <2>1, <3>1, <3>3, TableKinds DEF Fresh, Number, StartOf, Counters
      <3>4. CASE table = "user_levels"
        BY <3>4, TableKinds DEF Counters
      <3> QED
        BY <3>2, <3>3, <3>4 DEF ObjectsTyped
    <2>2. CASE initial # NoRow
      BY <2>2 DEF StartOf
    <2> QED
      BY <2>1, <2>2
  <1>3. \A did \in Deeds \cap Counters : StartOf(did) \in Nat
    BY StartTyped
  <1> QED
    BY <1>1, <1>2, <1>3 DEF Reached

LEMMA CountsStep == ASSUME SharedTyped, CountsOK, [SharedNext]_rowVars PROVE CountsOK'
  <1> SUFFICES ASSUME ~torn' PROVE OneObject' /\ Once'
    BY DEF CountsOK
  <1>1. ASSUME NEW h \in Handlers, NEW does \in HandlersOf[table], Starts(h, does) PROVE OneObject' /\ Once'
    <2>1. OneObject /\ Once /\ UNCHANGED <<table, initial, row, cached>>
      BY <1>1, StartsMoves DEF CountsOK
    <2>2. CASE cached # 0 /\ Worked(h, does, cached, objects)
      <3>1. objects \in Seq(Values) /\ cached \in 1 .. Len(objects)
        BY <2>2, WasOK
      <3>2. Reached(objects[cached])
        BY <2>1, <2>2, <3>1 DEF OneObject, Held, InUse
      <3>3. \A k \in Handlers \ {h} :
               handler[k].at \notin Asking /\ (handler[k].at \in Using => handler[k].obj = cached)
        BY <2>1, <2>2 DEF OneObject
      <3> QED
        BY <2>1, <2>2, <3>1, <3>2, <3>3, WorkedCounts
    <2>3. CASE /\ cached = 0 /\ UNCHANGED <<objects, done>>
               /\ torn' = (torn \/ \E other \in Handlers : handler[other] # Idle)
               /\ \E x : handler' = [handler EXCEPT ![h] = x] /\ x.at = "asking"
      <3>1. \A k \in Handlers : handler[k] = Idle
        BY <2>3
      <3>2. handler[h].at \notin Has
        BY <3>1 DEF Idle, Has
      <3>3. PICK x : handler' = [handler EXCEPT ![h] = x] /\ x.at = "asking"
        BY <2>3
      <3>4. x.at # "sanctioning" /\ x.at # "asked" /\ x.at \in Asking /\ x.at \notin Using
        BY <3>3 DEF Asking, Using
      <3> QED
        BY <2>1, <2>3, <3>1, <3>2, <3>3, <3>4, MovedCounts
    <2> QED
      BY <1>1, <2>2, <2>3, StartsMoves
  <1>2. ASSUME NEW h \in Handlers, Answers(h) PROVE OneObject' /\ Once'
    <2>1. /\ OneObject /\ Once /\ UNCHANGED <<table, initial, row, objects, done, cached>> /\ handler[h].at = "asking"
      BY <1>2, AnswersMoves DEF CountsOK
    <2>2. PICK x : handler' = [handler EXCEPT ![h] = x] /\ x.at = "asked" /\ x.answer = row
      BY <1>2, AnswersMoves
    <2>3. /\ x.at # "sanctioning" /\ x.at \notin Using /\ handler[h].at \notin Has /\ handler[h] # Idle
          /\ cached = 0 /\ row = initial
      BY <2>1, <2>2 DEF Asking, Using, Has, Idle, OneObject
    <2> QED
      BY <2>1, <2>2, <2>3, MovedCounts
  <1>3. ASSUME NEW h \in Handlers, Gets(h) PROVE OneObject' /\ Once'
    <2>1. OneObject /\ Once /\ handler[h].at = "asked" /\ UNCHANGED <<table, initial, row>>
      BY <1>3, GetsMoves DEF CountsOK
    <2>2. /\ cached = 0 /\ handler[h] # Idle /\ handler[h].at \notin Has
          /\ \A k \in Handlers \ {h} : handler[k] = Idle
      BY <2>1 DEF OneObject, Asking, Idle, Has
    <2>3. done = <<>>
      <3>1. \A k \in Handlers : handler[k].at \notin Has
        BY <2>2 DEF Idle, Has
      <3> QED
        BY <2>1, <2>2, <3>1 DEF OneObject
    <2>4. CASE handler' = [handler EXCEPT ![h] = Idle] /\ UNCHANGED <<objects, done, cached>>
      <3>1. Idle.at # "sanctioning" /\ Idle.at # "asked" /\ Idle.at \notin Asking /\ Idle.at \notin Using
        BY DEF Idle, Asking, Using
      <3> QED
        BY <2>1, <2>2, <2>4, <3>1, MovedCounts
    <2>5. ASSUME NEW objs \in Seq(Values), cached' \in {cached, Len(objects) + 1},
                 Len(objs) = Len(objects) + 1, Worked(h, handler[h].does, Len(objs), objs),
                 IF handler[h].answer = NoRow THEN \E d \in Nat : objs[Len(objs)] = Fresh(d)
                                              ELSE objs[Len(objs)] = handler[h].answer
          PROVE  OneObject' /\ Once'
      <3>1. Len(objs) \in 1 .. Len(objs)
        BY <2>5, WasOK
      <3>2. Reached(objs[Len(objs)])
        <4>1. handler[h].answer = initial
          BY <2>1 DEF OneObject
        <4> QED
          BY <2>3, <2>5, <4>1, NewReached DEF SharedTyped
      <3>3. cached' \in {0, Len(objs)}
        BY <2>2, <2>5
      <3>4. \A k \in Handlers \ {h} : handler[k].at \notin Asking /\ handler[k].at \notin Using
        BY <2>2 DEF Idle, Asking, Using
      <3> QED
        BY <2>1, <2>2, <2>3, <2>5, <3>1, <3>2, <3>3, <3>4, WorkedCounts
    <2> QED
      BY <1>3, <2>4, <2>5, GetsMoves
  <1>4. ASSUME NEW h \in Handlers, Counts(h) PROVE OneObject' /\ Once'
    <2>1. /\ OneObject /\ Once /\ UNCHANGED <<table, initial, row, cached>> /\ handler[h].at = "counting"
          /\ handler[h].obj \in 1 .. Len(objects) /\ objects \in Seq(Values)
          /\ Worked(h, "ticket", handler[h].obj, objects)
      BY <1>4, CountsMoves, WasOK DEF CountsOK
    <2>2. handler[h] # Idle /\ handler[h].at \notin Has /\ handler[h].at \in Using
      BY <2>1 DEF Idle, Has, Using
    <2>3. cached = 0 => done = <<>> /\ \A k \in Handlers \ {h} : handler[k] = Idle
      <3> SUFFICES ASSUME cached = 0 PROVE done = <<>> /\ \A k \in Handlers \ {h} : handler[k] = Idle
        OBVIOUS
      <3>1. \A k \in Handlers \ {h} : handler[k] = Idle
        BY <2>1, <2>2 DEF OneObject
      <3>2. \A k \in Handlers : handler[k].at \notin Has
        BY <2>2, <3>1 DEF Idle, Has
      <3> QED
        BY <2>1, <3>1, <3>2 DEF OneObject
    <2>4. cached # 0 => cached = handler[h].obj /\ \A k \in Handlers \ {h} :
               handler[k].at \notin Asking /\ (handler[k].at \in Using => handler[k].obj = handler[h].obj)
      BY <2>1, <2>2 DEF OneObject
    <2>5. Reached(objects[handler[h].obj])
      BY <2>1 DEF OneObject, Held
    <2> QED
      BY <2>1, <2>3, <2>4, <2>5, WorkedCounts
  <1>5. ASSUME NEW h \in Handlers, Stores(h) PROVE OneObject' /\ Once'
    <2>1. /\ OneObject /\ Once /\ UNCHANGED <<table, initial, row, objects, done, cached>> /\ handler[h].at = "storing"
      BY <1>5, StoresMoves DEF CountsOK
    <2>2. PICK x : handler' = [handler EXCEPT ![h] = x] /\ x.at = "saving" /\ x.obj = handler[h].obj
      BY <1>5, StoresMoves
    <2>3. /\ x.at # "sanctioning" /\ x.at \notin Asking /\ x.at # "asked" /\ handler[h].at \in Has /\ x.at \in Has
          /\ handler[h] # Idle
      BY <2>1, <2>2 DEF Asking, Has, Idle
    <2> QED
      BY <2>1, <2>2, <2>3, MovedCounts
  <1>6. ASSUME NEW h \in Handlers, Saves(h) PROVE OneObject' /\ Once'
    BY <1>6, SavesMoves, SavedCounts DEF CountsOK
  <1>7. ASSUME NEW h \in Handlers, Sanctions(h) PROVE OneObject' /\ Once'
    <2>1. /\ OneObject /\ Once /\ UNCHANGED <<table, initial, row, objects, done, cached>> /\ handler[h].at = "sanctioning"
          /\ handler' = [handler EXCEPT ![h] = Idle]
      BY <1>7, SanctionsMoves DEF CountsOK
    <2>2. /\ Idle.at # "sanctioning" /\ Idle.at # "asked" /\ Idle.at \notin Asking /\ Idle.at \notin Using
          /\ handler[h].at \notin Has /\ handler[h] # Idle
      BY <2>1 DEF Idle, Asking, Using, Has
    <2> QED
      BY <2>1, <2>2, MovedCounts
  <1>8. ASSUME NEW h \in Handlers, Fails(h) PROVE OneObject' /\ Once'
    <2>1. /\ OneObject /\ Once /\ UNCHANGED <<table, initial, row, objects, done, cached>>
          /\ handler' = [handler EXCEPT ![h] = Idle] /\ handler[h] # Idle
          /\ ~(handler[h].at \in Has /\ cached = 0)
      BY <1>8, FailsMoves DEF CountsOK, Fails
    <2>2. Idle.at # "sanctioning" /\ Idle.at # "asked" /\ Idle.at \notin Asking /\ Idle.at \notin Using
      BY DEF Idle, Asking, Using
    <2> QED
      BY <2>1, <2>2, MovedCounts
  <1>9. ASSUME UNCHANGED <<table, initial, row, cached, objects, handler, done, torn>> PROVE OneObject' /\ Once'
    BY <1>9 DEF CountsOK, OneObject, Once, Held, InUse, Reached, StartOf, Deeds
  <1> QED
    BY <1>1, <1>2, <1>3, <1>4, <1>5, <1>6, <1>7, <1>8, <1>9 DEF SharedNext, NextDay, LooksUp, rowVars

-----------------------------------------------------------------------------
(* SharedRows: every sanction has its case *)

\* A number that is counted once is the number of one case.
LEMMA NumbersDiffer ==
    ASSUME SharedTyped, Once, NEW i \in DOMAIN done, NEW k \in DOMAIN done,
           done[i].did = "case", done[k].did = "case", done[i].number = done[k].number
    PROVE  i = k
  <1>1. i \in Nat /\ k \in Nat
    BY DEF SharedTyped, DoneTyped
  <1>2. PICK m : m = Cardinality(Of(done, "case", i))
    OBVIOUS
  <1>3. PICK n : n = Cardinality(Of(done, "case", k))
    OBVIOUS
  <1>4. PICK start : start = StartOf("case")
    OBVIOUS
  <1>5. start \in Nat /\ m \in Nat /\ n \in Nat
    <2>1. "case" \in Deeds \cap Counters
      BY DEF SharedTyped, DoneTyped, Counters
    <2> QED
      BY <1>1, <1>2, <1>3, <1>4, <2>1, StartTyped, OfFinite DEF SharedTyped
  <1>6. done[i].number = start + m /\ done[k].number = start + n
    BY <1>2, <1>3, <1>4 DEF Once, Counters
  <1>7. m = n
    <2>1. start + m = start + n
      BY <1>6
    <2> QED
      BY <1>5, <2>1
  <1>8. i < k => m < n
    BY <1>1, <1>2, <1>3, OfLess
  <1>9. k < i => n < m
    BY <1>1, <1>2, <1>3, OfLess
  <1> QED
    BY <1>1, <1>5, <1>7, <1>8, <1>9

KeptNext(c) == c \in cases' \/ c.number \in spoilt'

\* To store a case loses no other, but of a number that is spoilt.
LEMMA StoredKeeps ==
    ASSUME SharedTyped, CasesOK, Once, NEW i \in DOMAIN done, done[i].did = "case", SaveCase(Case(i))
    PROVE  KeptNext(Case(i)) /\ \A c : Kept(c) => KeptNext(c)
  <1>1. PICK case : case = Case(i)
    OBVIOUS
  <1>2. SaveCase(case) /\ spoilt \subseteq spoilt'
    BY <1>1 DEF SaveCase
  <1>3. \A c \in cases : c.number = case.number => c.number \in spoilt \/ c = case
    <2> SUFFICES ASSUME NEW c \in cases, c.number = case.number, c.number \notin spoilt PROVE c = case
      OBVIOUS
    <2>1. c.what \in DOMAIN done /\ done[c.what].did = "case" /\ c = Case(c.what)
      BY DEF CasesOK
    <2>2. c.number = done[c.what].number
      BY <2>1 DEF Case
    <2>3. case.number = done[i].number
      BY <1>1 DEF Case
    <2>4. c.what = i
      BY <2>1, <2>2, <2>3, NumbersDiffer
    <2> QED
      BY <1>1, <2>1, <2>4
  <1>4. \A c \in cases : c \in cases' \/ c.number = case.number
    BY <1>2 DEF SaveCase
  <1>5. case \in cases => case \in cases'
    BY <1>2 DEF SaveCase
  <1>6. KeptNext(case)
    <2>1. CASE \E c \in cases : c.number = case.number
      BY <1>2, <1>3, <1>5, <2>1 DEF KeptNext
    <2>2. CASE \A c \in cases : c.number # case.number
      BY <1>2, <2>2 DEF KeptNext, SaveCase
    <2> QED
      BY <2>1, <2>2
  <1>7. ASSUME NEW c, Kept(c) PROVE KeptNext(c)
    <2>1. CASE c.number \in spoilt
      BY <1>2, <2>1 DEF KeptNext
    <2>2. CASE c \in cases /\ c.number # case.number
      BY <1>4, <2>2 DEF KeptNext
    <2>3. CASE c \in cases /\ c.number = case.number /\ c.number \notin spoilt
      BY <1>3, <1>6, <2>3
    <2> QED
      BY <1>7, <2>1, <2>2, <2>3 DEF Kept
  <1> QED
    BY <1>1, <1>6, <1>7

\* What may be in the table afterwards.
LEMMA StoredBounds ==
    ASSUME NEW i, SaveCase(Case(i)) \/ UNCHANGED caseVars
    PROVE  cases' \subseteq cases \cup {Case(i)} /\ spoilt \subseteq spoilt'
  BY DEF SaveCase, caseVars

\* No deed that was done is changed.
LEMMA DoneGrows ==
    ASSUME SharedTyped, NEW h \in Handlers, NEW does, NEW obj, NEW objs, Worked(h, does, obj, objs)
    PROVE  \A i \in DOMAIN done : i \in DOMAIN done' /\ done'[i] = done[i]
  BY Grown DEF Worked, SharedTyped

\* The deeds of a step, and where each handler is with its deed.
LEMMA DoneKept ==
    ASSUME SharedTyped, [SharedNext]_rowVars
    PROVE  \A i \in DOMAIN done : i \in DOMAIN done' /\ done'[i] = done[i]
  BY StartsMoves, AnswersMoves, GetsMoves, CountsMoves, StoresMoves, SavesMoves, SanctionsMoves, FailsMoves,
     DoneGrows DEF SharedNext, NextDay, LooksUp, rowVars

LEMMA CasesStay == ASSUME SharedTyped, CasesOK, [SharedNext]_rowVars, UNCHANGED <<cases, spoilt>> PROVE CasesOK'
  <1>1. \A i \in DOMAIN done : i \in DOMAIN done' /\ done'[i] = done[i]
    BY DoneKept
  <1>2. \A i \in DOMAIN done : Case(i)' = Case(i)
    BY <1>1 DEF Case
  <1> QED
    BY <1>1, <1>2 DEF CasesOK

LEMMA CasesStored ==
    ASSUME SharedTyped, CasesOK, NEW i \in DOMAIN done, done[i].did = "case",
           SaveCase(Case(i)) \/ UNCHANGED caseVars, done' = done
    PROVE  CasesOK'
  <1>1. cases' \subseteq cases \cup {Case(i)} /\ spoilt \subseteq spoilt'
    BY StoredBounds
  <1>2. Case(i).what = i
    BY DEF Case
  <1>3. \A c \in cases' :
           \/ c.number \in spoilt'
           \/ c.what \in DOMAIN done /\ done[c.what].did = "case" /\ c = Case(c.what)
    BY <1>1, <1>2 DEF CasesOK
  <1>4. \A k : Case(k)' = Case(k)
    BY DEF Case
  <1> QED
    BY <1>3, <1>4 DEF CasesOK

\* A handler at work on a case, in a step that loses no case.
Follows(h) ==
    handler'[h].at \in {"saving", "sanctioning"} /\ done'[handler'[h].what].did = "case"
      => KeptNext([number |-> done'[handler'[h].what].number, what |-> handler'[h].what])

LEMMA OthersFollow ==
    ASSUME SharedTyped, Sanctioned, ~torn, [SharedNext]_rowVars, \A c : Kept(c) => KeptNext(c), NEW h \in Handlers,
           handler' = [handler EXCEPT ![h] = handler'[h]], Follows(h), \A c \in sanctions' : KeptNext(c)
    PROVE  Sanctioned'
  <1>1. \A i \in DOMAIN done : i \in DOMAIN done' /\ done'[i] = done[i]
    BY DoneKept
  <1>2. ASSUME NEW k \in Handlers, k # h PROVE Follows(k)
    <2>1. handler'[k] = handler[k]
      BY <1>2, OthersStay
    <2>2. handler[k].at \in {"saving", "sanctioning"} => handler[k].what \in DOMAIN done
      BY WasOK DEF HandlerOK, Owes, SharedTyped, DoneTyped
    <2>3. CASE handler[k].at \in {"saving", "sanctioning"}
      <3>1. done'[handler'[k].what] = done[handler[k].what]
        BY <1>1, <2>1, <2>2, <2>3
      <3>2. done[handler[k].what].did = "case" => KeptNext(Case(handler[k].what))
        BY <2>3 DEF Sanctioned
      <3> QED
        BY <2>1, <3>1, <3>2 DEF Follows, Case
    <2>4. CASE handler[k].at \notin {"saving", "sanctioning"}
      BY <2>1, <2>4 DEF Follows
    <2> QED
      BY <2>3, <2>4
  <1>3. \A k \in Handlers : Follows(k)
    BY <1>2
  <1> QED
    BY <1>3 DEF Follows, Sanctioned, Case, Kept, KeptNext

\* A handler that worked has stored nothing yet, and what it saves is no case.
LEMMA WorkedFollows ==
    ASSUME SharedTyped, NEW h \in Handlers, NEW does, NEW objs, NEW obj, Worked(h, does, obj, objs)
    PROVE  Follows(h) /\ handler' = [handler EXCEPT ![h] = handler'[h]]
  <1>1. PICK x :
           /\ handler' = [handler EXCEPT ![h] = x]
           /\ \/ x = Idle \/ x = [at |-> "counting", obj |-> obj]
              \/ /\ \E e : done' = Append(done, e) /\ Deed(e, does, objs[obj], objects'[obj])
                 /\ x.at \in Has /\ (x.at = "saving" => does # "case") /\ x.what = Len(done) + 1
    BY DEF Worked
  <1>2. handler'[h] = x
    BY <1>1, OthersStay
  <1>3. ASSUME x = Idle \/ x = [at |-> "counting", obj |-> obj] PROVE Follows(h)
    BY <1>2, <1>3 DEF Follows, Idle
  <1>4. ASSUME /\ \E e : done' = Append(done, e) /\ Deed(e, does, objs[obj], objects'[obj])
               /\ x.at \in Has /\ (x.at = "saving" => does # "case") /\ x.what = Len(done) + 1
        PROVE  Follows(h)
    <2>1. PICK e : done' = Append(done, e) /\ Deed(e, does, objs[obj], objects'[obj])
      BY <1>4
    <2>2. done'[Len(done) + 1] = e
      BY <2>1, Grown DEF SharedTyped
    <2>3. x.at = "saving" => done'[x.what].did # "case"
      BY <1>4, <2>1, <2>2 DEF Deed
    <2> QED
      BY <1>2, <1>4, <2>3 DEF Follows, Has
  <1> QED
    BY <1>1, <1>2, <1>3, <1>4

LEMMA OnCaseStep == ASSUME SharedTyped, OnCase, [SharedNext]_rowVars PROVE OnCase'
  <1>1. \A i \in DOMAIN done : i \in DOMAIN done' /\ done'[i] = done[i]
    BY DoneKept
  <1>2. \A k \in Handlers : handler[k].at = "sanctioning" => handler[k].what \in DOMAIN done
    BY WasOK DEF HandlerOK, Owes, SharedTyped, DoneTyped
  <1>3. ASSUME NEW h \in Handlers, NEW x, handler' = [handler EXCEPT ![h] = x],
               x.at = "sanctioning" => done'[x.what].did = "case"
        PROVE  OnCase'
    BY <1>1, <1>2, <1>3, OthersStay DEF OnCase
  <1>4. Idle.at # "sanctioning"
    BY DEF Idle
  <1>5. ASSUME NEW h \in Handlers, NEW does, NEW objs, NEW obj, Worked(h, does, obj, objs) PROVE OnCase'
    <2>1. PICK x : /\ handler' = [handler EXCEPT ![h] = x]
                   /\ x = Idle \/ x = [at |-> "counting", obj |-> obj] \/ x.at \in Has
      BY <1>5 DEF Worked
    <2>2. x.at # "sanctioning"
      BY <1>4, <2>1 DEF Has
    <2> QED
      BY <1>3, <2>1, <2>2
  <1>6. ASSUME NEW h \in Handlers, Saves(h) PROVE OnCase'
    <2>1. PICK x : /\ handler' = [handler EXCEPT ![h] = x] /\ done' = done
                   /\ x.at = "sanctioning" => done[x.what].did = "case"
      BY <1>4, <1>6, SavesMoves
    <2> QED
      BY <1>3, <2>1
  <1>7. ASSUME NEW h \in Handlers, Gets(h) PROVE OnCase'
    BY <1>3, <1>4, <1>5, <1>7, GetsMoves
  <1>8. ASSUME NEW h \in Handlers, NEW x, handler' = [handler EXCEPT ![h] = x], x.at # "sanctioning" PROVE OnCase'
    BY <1>3, <1>8
  <1>9. ASSUME NEW h \in Handlers, Answers(h) \/ Counts(h) \/ Stores(h) \/ Sanctions(h) \/ Fails(h) PROVE OnCase'
    <2>1. CASE Answers(h)
      <3>1. PICK x : handler' = [handler EXCEPT ![h] = x] /\ x.at # "sanctioning"
        BY <2>1, AnswersMoves
      <3> QED
        BY <1>8, <3>1
    <2>2. CASE Stores(h)
      <3>1. PICK x : handler' = [handler EXCEPT ![h] = x] /\ x.at # "sanctioning"
        BY <2>2, StoresMoves
      <3> QED
        BY <1>8, <3>1
    <2> QED
      BY <1>4, <1>5, <1>8, <1>9, <2>1, <2>2, CountsMoves, SanctionsMoves, FailsMoves
  <1>10. ASSUME NEW h \in Handlers, NEW does \in HandlersOf[table], Starts(h, does) PROVE OnCase'
    <2>1. CASE \E x : handler' = [handler EXCEPT ![h] = x] /\ x.at = "asking"
      BY <1>8, <2>1
    <2> QED
      BY <1>5, <1>10, <2>1, StartsMoves
  <1>11. ASSUME UNCHANGED <<handler, done>> PROVE OnCase'
    BY <1>11 DEF OnCase
  <1> QED
    BY <1>6, <1>7, <1>9, <1>10, <1>11 DEF SharedNext, NextDay, LooksUp, rowVars

LEMMA CasesStep ==
    ASSUME SharedTyped, CountsOK, CasesOK, OnCase, Sanctioned, [SharedNext]_rowVars
    PROVE  CasesOK' /\ Sanctioned'
  <1>1. ~torn' => ~torn /\ Once /\ Once'
    BY CountsStep, StartsMoves, AnswersMoves, GetsMoves, CountsMoves, StoresMoves, SavesMoves, SanctionsMoves,
       FailsMoves DEF CountsOK, SharedNext, NextDay, LooksUp, rowVars
  <1>2. ASSUME NEW h \in Handlers, UNCHANGED log, Follows(h), handler' = [handler EXCEPT ![h] = handler'[h]]
        PROVE  CasesOK' /\ Sanctioned'
    <2>1. UNCHANGED <<cases, spoilt, sanctions>>
      BY <1>2 DEF log, caseVars
    <2>2. CasesOK'
      BY <2>1, CasesStay
    <2>3. CASE torn'
      BY <2>2, <2>3 DEF Sanctioned
    <2>4. CASE ~torn'
      <3>1. (\A c \in sanctions' : KeptNext(c)) /\ \A c : Kept(c) => KeptNext(c)
        BY <1>1, <2>1, <2>4 DEF Sanctioned, Kept, KeptNext
      <3> QED
        BY <1>1, <1>2, <2>2, <2>4, <3>1, OthersFollow
    <2> QED
      BY <2>3, <2>4
  <1>3. ASSUME NEW h \in Handlers, NEW x, handler' = [handler EXCEPT ![h] = x], UNCHANGED log,
               x.at \notin {"saving", "sanctioning"}
        PROVE  CasesOK' /\ Sanctioned'
    <2>1. handler'[h] = x
      BY <1>3, OthersStay
    <2>2. Follows(h)
      BY <1>3, <2>1 DEF Follows
    <2> QED
      BY <1>2, <1>3, <2>1, <2>2
  <1>4. ASSUME NEW h \in Handlers, NEW does \in HandlersOf[table], Starts(h, does) PROVE CasesOK' /\ Sanctioned'
    <2>1. CASE Worked(h, does, cached, objects)
      BY <1>2, <1>4, <2>1, WorkedFollows, StartsMoves
    <2>2. CASE \E x : handler' = [handler EXCEPT ![h] = x] /\ x.at = "asking"
      BY <1>3, <1>4, <2>2, StartsMoves
    <2> QED
      BY <1>4, <2>1, <2>2, StartsMoves
  <1>5. ASSUME NEW h \in Handlers, Answers(h) PROVE CasesOK' /\ Sanctioned'
    BY <1>3, <1>5, AnswersMoves
  <1>6. ASSUME NEW h \in Handlers, Gets(h) PROVE CasesOK' /\ Sanctioned'
    <2>1. CASE handler' = [handler EXCEPT ![h] = Idle]
      <3>1. Idle.at \notin {"saving", "sanctioning"}
        BY DEF Idle
      <3> QED
        BY <1>3, <1>6, <2>1, <3>1, GetsMoves
    <2>2. CASE \E objs : Worked(h, handler[h].does, Len(objs), objs)
      BY <1>2, <1>6, <2>2, WorkedFollows, GetsMoves
    <2> QED
      BY <1>6, <2>1, <2>2, GetsMoves
  <1>7. ASSUME NEW h \in Handlers, Counts(h) PROVE CasesOK' /\ Sanctioned'
    BY <1>2, <1>7, WorkedFollows, CountsMoves
  <1>8. ASSUME NEW h \in Handlers, Stores(h) PROVE CasesOK' /\ Sanctioned'
    <2>1. /\ UNCHANGED <<done, sanctions>> /\ handler[h].at = "storing"
          /\ IF done[handler[h].what].did = "case" THEN SaveCase(Case(handler[h].what)) ELSE UNCHANGED caseVars
      BY <1>8, StoresMoves
    <2>2. PICK x : handler' = [handler EXCEPT ![h] = x] /\ x.at = "saving" /\ x.what = handler[h].what
      BY <1>8, StoresMoves
    <2>3. handler[h].what \in DOMAIN done
      BY <2>1, WasOK DEF HandlerOK, Owes, SharedTyped, DoneTyped
    <2>4. handler'[h] = x
      BY <2>2, OthersStay
    <2>5. CasesOK'
      <3>1. UNCHANGED caseVars => UNCHANGED <<cases, spoilt>>
        BY DEF caseVars
      <3> QED
        BY <1>8, <2>1, <2>3, <3>1, CasesStay, CasesStored
    <2>6. CASE torn'
      BY <2>5, <2>6 DEF Sanctioned
    <2>7. CASE ~torn'
      <3>1. /\ \A c : Kept(c) => KeptNext(c)
            /\ done[handler[h].what].did = "case" => KeptNext(Case(handler[h].what))
        <4>1. CASE done[handler[h].what].did = "case"
          BY <1>1, <2>1, <2>3, <2>7, <4>1, StoredKeeps
        <4>2. CASE done[handler[h].what].did # "case"
          BY <2>1, <4>2 DEF Kept, KeptNext, caseVars
        <4> QED
          BY <4>1, <4>2
      <3>2. Follows(h)
        BY <2>1, <2>2, <2>4, <3>1 DEF Follows, Case
      <3>3. \A c \in sanctions' : KeptNext(c)
        BY <1>1, <2>1, <2>7, <3>1 DEF Sanctioned
      <3> QED
        BY <1>1, <2>2, <2>4, <2>5, <2>7, <3>1, <3>2, <3>3, OthersFollow
    <2> QED
      BY <2>6, <2>7
  <1>9. ASSUME NEW h \in Handlers, Saves(h) PROVE CasesOK' /\ Sanctioned'
    <2>1. UNCHANGED <<done, log, torn>> /\ handler[h].at = "saving"
      BY <1>9, SavesMoves
    <2>2. PICK x : /\ handler' = [handler EXCEPT ![h] = x]
                   /\ \/ x = Idle
                      \/ x.at = "sanctioning" /\ x.what = handler[h].what /\ done[handler[h].what].did = "case"
      BY <1>9, SavesMoves
    <2>3. CASE x = Idle
      <3>1. x.at \notin {"saving", "sanctioning"}
        BY <2>3 DEF Idle
      <3> QED
        BY <1>3, <2>1, <2>2, <3>1
    <2>4. CASE x.at = "sanctioning" /\ x.what = handler[h].what /\ done[handler[h].what].did = "case"
      <3>1. handler'[h] = x
        BY <2>2, OthersStay
      <3>2. CASE torn
        BY <2>1, <3>2, CasesStay DEF Sanctioned, log, caseVars
      <3>3. CASE ~torn
        <4>1. Follows(h)
          BY <2>1, <2>4, <3>1, <3>3 DEF Follows, Sanctioned, Case, Kept, KeptNext, log, caseVars
        <4> QED
          BY <1>2, <2>1, <2>2, <3>1, <4>1
      <3> QED
        BY <3>2, <3>3
    <2> QED
      BY <2>2, <2>3, <2>4
  <1>10. ASSUME NEW h \in Handlers, Sanctions(h) PROVE CasesOK' /\ Sanctioned'
    <2>1. /\ UNCHANGED <<done, torn>> /\ handler[h].at = "sanctioning" /\ handler' = [handler EXCEPT ![h] = Idle]
          /\ sanctions' = sanctions \cup {Case(handler[h].what)}
          /\ SaveCase(Case(handler[h].what)) \/ UNCHANGED caseVars
      BY <1>10, SanctionsMoves
    <2>2. handler[h].what \in DOMAIN done
      BY <2>1, WasOK DEF HandlerOK, Owes, SharedTyped, DoneTyped
    <2>3. CASE torn
      BY <2>1, <2>2, <2>3, CasesStored DEF OnCase, Sanctioned
    <2>4. CASE ~torn
      <3>1. done[handler[h].what].did = "case" /\ Kept(Case(handler[h].what))
        BY <2>1, <2>4 DEF OnCase, Sanctioned
      <3>2. CasesOK'
        BY <2>1, <2>2, <3>1, CasesStored
      <3>3. \A c : Kept(c) => KeptNext(c)
        <4>1. CASE SaveCase(Case(handler[h].what))
          BY <1>1, <2>1, <2>2, <2>4, <3>1, <4>1, StoredKeeps
        <4>2. CASE UNCHANGED caseVars
          BY <4>2 DEF Kept, KeptNext, caseVars
        <4> QED
          BY <2>1, <4>1, <4>2
      <3>4. \A c \in sanctions' : KeptNext(c)
        BY <2>1, <2>4, <3>1, <3>3 DEF Sanctioned
      <3>5. handler'[h] = Idle
        BY <2>1, OthersStay
      <3>6. Follows(h)
        BY <3>5 DEF Follows, Idle
      <3> QED
        BY <2>1, <2>4, <3>2, <3>3, <3>4, <3>5, <3>6, OthersFollow
    <2> QED
      BY <2>3, <2>4
  <1>11. ASSUME NEW h \in Handlers, Fails(h) PROVE CasesOK' /\ Sanctioned'
    <2>1. Idle.at \notin {"saving", "sanctioning"}
      BY DEF Idle
    <2> QED
      BY <1>3, <1>11, <2>1, FailsMoves
  <1>12. ASSUME UNCHANGED <<handler, done, cases, spoilt, sanctions, torn>> PROVE CasesOK' /\ Sanctioned'
    BY <1>12 DEF CasesOK, Sanctioned, Case, Kept
  <1> QED
    BY <1>4, <1>5, <1>6, <1>7, <1>8, <1>9, <1>10, <1>11, <1>12 DEF SharedNext, NextDay, LooksUp, rowVars, log, caseVars

LEMMA SharedInitInv == SharedInit => SharedInv
  <1> SUFFICES ASSUME SharedInit PROVE SharedInv
    OBVIOUS
  <1>1. /\ table \in {"guilds", "users", "user_levels"} /\ objects = <<>> /\ done = <<>> /\ cached = 0
        /\ handler = [h \in Handlers |-> Idle] /\ sanctions = {} /\ day = 1
        /\ initial \in {NoRow, Stored} /\ row = initial /\ spoilt = {c.number : c \in cases}
    BY SharedAssumption DEF SharedInit
  <1>2. Stored \in Values
    <2>1. CASE table = "guilds"
      BY <2>1 DEF Stored, Values, Guilds
    <2>2. CASE table = "users"
      BY <2>2 DEF Stored, Values, Users
    <2>3. CASE table = "user_levels"
      BY <2>3, SharedAssumption DEF Stored, Values
    <2> QED
      BY <1>1, <2>1, <2>2, <2>3
  <1>3. ObjectsTyped
    BY <1>1, <1>2 DEF ObjectsTyped
  <1>4. DoneTyped
    BY <1>1 DEF DoneTyped
  <1>5. HandlersTyped
    BY <1>1, IdleOK DEF HandlersTyped
  <1>6. CountsOK
    BY <1>1 DEF CountsOK, OneObject, Once, Idle, Asking, Using, Has, Held, InUse
  <1>7. CasesOK /\ OnCase /\ Sanctioned
    BY <1>1 DEF CasesOK, OnCase, Sanctioned, Idle
  <1> QED
    BY <1>3, <1>4, <1>5, <1>6, <1>7 DEF SharedInv, SharedTyped

LEMMA SharedTypedStep == ASSUME SharedTyped, [SharedNext]_rowVars PROVE SharedTyped'
  <1>1. ASSUME UNCHANGED rowVars PROVE SharedTyped'
    BY <1>1 DEF rowVars, SharedTyped, ObjectsTyped, DoneTyped, HandlersTyped, HandlerOK, Values, Deeds
  <1> QED
    BY <1>1, StartsMoves, AnswersMoves, GetsMoves, CountsMoves, StoresMoves, SavesMoves, SanctionsMoves,
       FailsMoves, NextDayTyped DEF SharedNext

LEMMA SharedInductive == SharedSpec => []SharedInv
  <1>1. SharedInv /\ [SharedNext]_rowVars => SharedInv'
    BY SharedTypedStep, CountsStep, CasesStep, OnCaseStep DEF SharedInv
  <1> QED
    BY <1>1, SharedInitInv, PTL DEF SharedSpec

\* However the handlers of a process overlap and fail, case numbers, ticket numbers and
\* warnings are counted from the row's without a gap or a repetition: for any number of
\* handlers, objects and changes.
THEOREM NumbersTakenOnce == SharedSpec => []CountedOnce
  <1>1. SharedInv => CountedOnce
    <2>1. \A did, i : Times(did, i) = Cardinality(Of(done, did, i))
      BY DEF Times, Of
    <2> QED
      BY <2>1 DEF SharedInv, CountsOK, Once, CountedOnce
  <1> QED
    BY <1>1, SharedInductive, PTL

\* Nobody is kicked, banned or timed out without the case that says so, but for numbers
\* that had a case or whose save was misled.
THEOREM SanctionsHaveCases == SharedSpec => []SanctionHasCase
  <1>1. SharedInv => SanctionHasCase
    BY DEF SharedInv, Sanctioned, SanctionHasCase, Kept
  <1> QED
    BY <1>1, SharedInductive, PTL

-----------------------------------------------------------------------------
(* SharedRows: what levels cost, and how many messages of a day count *)

LEMMA Smallest ==
    ASSUME NEW S \in SUBSET Nat, S # {}
    PROVE  \E m \in S : \A n \in S : m <= n
  <1>1. PICK m \in S : \A n \in S : <<n, m>> \notin OpToRel(<, Nat)
    BY NatLessThanWellFounded, WFMin
  <1>2. \A n \in S : ~(n < m)
    BY <1>1 DEF OpToRel
  <1> QED
    BY <1>2

\* What the levels cost is defined by recursion.  That it solves its equation needs a
\* function that does: a sixth of a polynomial.
Sixfold(n) == 10 * n * n * n + 165 * n * n + 755 * n

Closed == [n \in Nat |-> Sixfold(n) \div 6]

LEMMA SixfoldStep == ASSUME NEW n \in Nat, n # 0 PROVE Sixfold(n) = Sixfold(n - 1) + 6 * XpForLevel(n)
  BY DEF Sixfold, XpForLevel

LEMMA SixfoldTyped == ASSUME NEW n \in Nat PROVE Sixfold(n) \in Nat /\ XpForLevel(n) \in Nat
  <1>1. n * n \in Nat /\ n * n * n \in Nat
    OBVIOUS
  <1> QED
    BY <1>1 DEF Sixfold, XpForLevel

LEMMA SixthsStep == ASSUME NEW a \in Nat, NEW b \in Nat PROVE (a + 6 * b) \div 6 = b + (a \div 6)
  OBVIOUS

LEMMA ClosedStep == Closed = [n \in Nat |-> IF n = 0 THEN 0 ELSE XpForLevel(n) + Closed[n - 1]]
  <1>1. ASSUME NEW n \in Nat PROVE Closed[n] = IF n = 0 THEN 0 ELSE XpForLevel(n) + Closed[n - 1]
    <2>1. CASE n = 0
      <3>1. Sixfold(0) = 0
        BY DEF Sixfold
      <3> QED
        BY <2>1, <3>1 DEF Closed
    <2>2. CASE n # 0
      <3>1. n - 1 \in Nat
        BY <2>2
      <3>2. Closed[n] = Sixfold(n) \div 6 /\ Closed[n - 1] = Sixfold(n - 1) \div 6
        BY <3>1 DEF Closed
      <3> QED
        BY <3>1, <3>2, <2>2, SixfoldStep, SixfoldTyped, SixthsStep
    <2> QED
      BY <2>1, <2>2
  <1> QED
    BY <1>1 DEF Closed

LEMMA CostFound == Cost = [n \in Nat |-> IF n = 0 THEN 0 ELSE XpForLevel(n) + Cost[n - 1]]
  BY ClosedStep DEF Cost

LEMMA CostStep ==
    /\ Cost[0] = 0
    /\ \A n \in Nat : Cost[n + 1] = XpForLevel(n + 1) + Cost[n]
  <1>1. Cost[0] = 0
    BY CostFound
  <1>2. ASSUME NEW n \in Nat PROVE Cost[n + 1] = XpForLevel(n + 1) + Cost[n]
    <2>1. n + 1 \in Nat /\ n + 1 # 0 /\ (n + 1) - 1 = n
      OBVIOUS
    <2> HIDE DEF Cost
    <2> QED
      BY <2>1, CostFound
  <1> QED
    BY <1>1, <1>2

LEMMA CostTyped == \A n \in Nat : Cost[n] \in Nat
  <1> DEFINE wrong == {n \in Nat : Cost[n] \notin Nat}
  <1> SUFFICES ASSUME wrong # {} PROVE FALSE
    OBVIOUS
  <1>1. PICK m \in wrong : \A n \in wrong : m <= n
    <2>1. wrong \in SUBSET Nat
      OBVIOUS
    <2> HIDE DEF wrong
    <2> QED
      BY <2>1, Smallest
  <1>2. m \in Nat /\ Cost[m] \notin Nat
    BY <1>1
  <1>3. m # 0
    BY <1>2, CostStep
  <1>4. m - 1 \in Nat /\ (m - 1) + 1 = m
    BY <1>2, <1>3
  <1>5. Cost[m - 1] \in Nat
    BY <1>1, <1>4
  <1>6. Cost[m] = XpForLevel(m) + Cost[m - 1]
    BY <1>4, CostStep
  <1>7. XpForLevel(m) \in Nat
    BY <1>2, CostsTyped
  <1> HIDE DEF Cost
  <1> QED
    BY <1>2, <1>5, <1>6, <1>7

LEMMA LevelsCostMore == ASSUME NEW n \in Nat PROVE XpForLevel(1) <= XpForLevel(n + 2) /\ XpForLevel(1) \in Nat
  <1>1. n * n \in Nat
    OBVIOUS
  <1> QED
    BY <1>1 DEF XpForLevel

\* With less than a level more than it had, a level goes up once and adds up again.
LEMMA LevelUpAdds ==
    ASSUME NEW v \in Levels, v.total = v.xp + Cost[v.level],
           NEW x \in Nat, x < XpForLevel(v.level + 1), v.xp < x + XpForLevel(1)
    PROVE  /\ LevelUp(v) \in Levels /\ AddsUp(LevelUp(v))
           /\ LevelUp(v).date = v.date /\ LevelUp(v).daily = v.daily
  <1> DEFINE needed == XpForLevel(v.level + 1)
             w == [v EXCEPT !.xp = v.xp - needed, !.level = v.level + 1]
  <1>1. v.level \in Nat /\ v.level + 1 \in Nat /\ v.xp \in Nat /\ v.total \in Nat
    BY DEF Levels
  <1>2. needed \in Nat /\ Cost[v.level] \in Nat /\ Cost[v.level + 1] = needed + Cost[v.level]
    BY <1>1, CostsTyped, CostTyped, CostStep
  <1>3. XpForLevel(1) \in Nat /\ XpForLevel(1) <= XpForLevel((v.level + 1) + 1)
        /\ XpForLevel((v.level + 1) + 1) \in Nat
    <2>1. v.level + 2 = (v.level + 1) + 1 /\ v.level + 2 \in Nat
      BY <1>1
    <2>2. XpForLevel(v.level + 2) \in Nat
      BY <2>1, CostsTyped
    <2> QED
      BY <1>1, <2>1, <2>2, LevelsCostMore
  <1>4. LevelUp(v) = IF v.xp >= needed THEN w ELSE v
    BY DEF LevelUp
  <1>5. w.xp = v.xp - needed /\ w.level = v.level + 1 /\ w.total = v.total /\ w.date = v.date /\ w.daily = v.daily
    BY DEF Levels
  <1> HIDE DEF w, Cost
  <1>6. CASE v.xp >= needed
    <2>1. LevelUp(v) = w
      BY <1>4, <1>6
    <2>2. w.total = w.xp + Cost[w.level]
      BY <1>1, <1>2, <1>5
    <2>3. w.xp < XpForLevel(w.level + 1)
      <3> HIDE DEF XpForLevel
      <3> QED
        BY <1>1, <1>2, <1>3, <1>5, <1>6
    <2> QED
      BY <2>1, <2>2, <2>3, <1>5, LevelUpTyped DEF AddsUp
  <1>7. CASE ~(v.xp >= needed)
    <2>1. LevelUp(v) = v
      BY <1>4, <1>7
    <2> QED
      BY <1>1, <1>2, <1>7, <2>1 DEF AddsUp
  <1> QED
    BY <1>6, <1>7

\* The next value of a level, and what is noted of it.
LevelWorked(h, obj, objs, d) ==
    \E w \in Levels :
        /\ objects' = [objs EXCEPT ![obj] = w] /\ w.date = d /\ AddsUp(w)
        /\ \/ /\ done' = done /\ handler' = [handler EXCEPT ![h] = Idle]
              /\ w.daily = OfDay(objs[obj], d).daily
           \/ /\ done' = Append(done, [did |-> "level", day |-> d])
              /\ OfDay(objs[obj], d).daily < DailyLimit
              /\ w.daily = OfDay(objs[obj], d).daily + 1
              /\ \E x : handler' = [handler EXCEPT ![h] = x] /\ x.at = "saving" /\ x.obj = obj

LEMMA OfDayAdds ==
    ASSUME NEW v \in Levels, NEW d \in Nat, AddsUp(v)
    PROVE  AddsUp(OfDay(v, d))
  BY OfDayTyped DEF AddsUp

LEMMA ProceedLevels ==
    ASSUME NEW h \in Handlers, NEW objs \in Seq(Levels), NEW obj \in 1 .. Len(objs), NEW d \in Nat,
           AddsUp(objs[obj]), Proceed(h, "level", obj, objs, d)
    PROVE  LevelWorked(h, obj, objs, d)
  <1> DEFINE v == OfDay(objs[obj], d)
  <1>1. objs[obj] \in Levels
    OBVIOUS
  <1>2. v \in Levels /\ v.date = d /\ AddsUp(v)
    BY <1>1, OfDayTyped, OfDayAdds
  <1>3. Declines("level", objs[obj], d) <=> v.daily >= DailyLimit
    BY DEF Declines
  <1>4. v.daily \in Nat /\ v.xp \in Nat /\ v.total \in Nat /\ v.level \in Nat /\ DailyLimit \in Nat
    BY <1>2, SharedAssumption DEF Levels
  <1>5. CASE v.daily >= DailyLimit
    <2>1. /\ objects' = [objs EXCEPT ![obj] = v] /\ done' = done
          /\ handler' = [handler EXCEPT ![h] = Idle]
      BY <1>3, <1>5 DEF Proceed, Becomes
    <2> HIDE DEF v
    <2>2. LevelWorked(h, obj, objs, d) <=>
            \E w \in Levels :
              /\ objects' = [objs EXCEPT ![obj] = w] /\ w.date = d /\ AddsUp(w)
              /\ \/ /\ done' = done /\ handler' = [handler EXCEPT ![h] = Idle]
                    /\ w.daily = v.daily
                 \/ /\ done' = Append(done, [did |-> "level", day |-> d])
                    /\ v.daily < DailyLimit
                    /\ w.daily = v.daily + 1
                    /\ \E x : handler' = [handler EXCEPT ![h] = x] /\ x.at = "saving" /\ x.obj = obj
      BY DEF LevelWorked, v
    <2> QED
      BY <1>2, <2>1, <2>2
  <1>6. CASE ~(v.daily >= DailyLimit)
    <2>1. Change(h, "level", obj, objs, d)
      BY <1>3, <1>6 DEF Proceed
    <2>2. PICK change \in Changes("level", objs[obj], d) :
          /\ objects' = [objs EXCEPT ![obj] = change[1]]
          /\ done' = Append(done, change[2])
          /\ Becomes(h, [at |-> IF "level" \in {"case", "ticket"} THEN "storing" ELSE "saving",
                         obj |-> obj, data |-> change[1], what |-> Len(done) + 1])
      BY <2>1 DEF Change
    <2>3. PICK gain \in XpGains :
            change = <<LevelUp([v EXCEPT !.daily = @ + 1, !.xp = @ + gain, !.total = @ + gain]),
                       [did |-> "level", day |-> d]>>
      BY <2>2 DEF Changes
    <2>4. gain \in Nat /\ gain < XpForLevel(1)
      BY SharedAssumption
    <2> DEFINE u == [v EXCEPT !.daily = v.daily + 1, !.xp = v.xp + gain, !.total = v.total + gain]
               w == LevelUp(u)
               x == [at |-> "saving", obj |-> obj, data |-> w, what |-> Len(done) + 1]
    <2>5. [v EXCEPT !.daily = @ + 1, !.xp = @ + gain, !.total = @ + gain] = u
      OBVIOUS
    <2>6. change[1] = w /\ change[2] = [did |-> "level", day |-> d]
      BY <2>3, <2>5
    <2>7. handler' = [handler EXCEPT ![h] = x]
      BY <2>2, <2>6 DEF Becomes
    <2>8. x.at = "saving" /\ x.obj = obj
      OBVIOUS
    <2> HIDE DEF x
    <2>9. u \in Levels
      <3>1. v.daily + 1 \in Nat /\ v.xp + gain \in Nat /\ v.total + gain \in Nat
        BY <1>4, <2>4
      <3> HIDE DEF v
      <3> QED
        BY <1>2, <3>1, GainRecord
    <2>10. /\ u.daily = v.daily + 1 /\ u.xp = v.xp + gain /\ u.total = v.total + gain
           /\ u.level = v.level /\ u.date = d
      <3> HIDE DEF v
      <3> QED
        BY <1>2 DEF Levels
    <2> HIDE DEF u, v
    <2>11. u.total = u.xp + Cost[u.level] /\ v.xp < XpForLevel(u.level + 1) /\ u.xp < v.xp + XpForLevel(1)
      <3>1. Cost[v.level] \in Nat /\ XpForLevel(1) \in Nat
        BY <1>4, CostTyped, CostsTyped
      <3>2. v.total = v.xp + Cost[v.level] /\ v.xp < XpForLevel(v.level + 1)
        BY <1>2 DEF AddsUp
      <3> HIDE DEF Cost, XpForLevel
      <3> QED
        BY <1>4, <2>4, <2>10, <3>1, <3>2
    <2>12. w \in Levels /\ AddsUp(w) /\ w.date = d /\ w.daily = v.daily + 1
      <3> HIDE DEF Cost, XpForLevel
      <3> QED
        BY <1>4, <2>9, <2>10, <2>11, LevelUpAdds
    <2> HIDE DEF w
    <2>13. v.daily < DailyLimit
      BY <1>4, <1>6
    <2>14. objects' = [objs EXCEPT ![obj] = w] /\ done' = Append(done, [did |-> "level", day |-> d])
      BY <2>2, <2>6
    <2>15. OfDay(objs[obj], d) = v
      BY DEF v
    <2> QED
      BY <2>7, <2>8, <2>12, <2>13, <2>14, <2>15 DEF LevelWorked
  <1> QED
    BY <1>5, <1>6

\* Every level adds up, wherever it is; a handler that waits asked on an earlier day
\* or today.
LevelsOK ==
    table = "user_levels" =>
        /\ \A o \in DOMAIN objects : AddsUp(objects[o])
        /\ row # NoRow => AddsUp(row)
        /\ \A h \in Handlers : handler[h].at = "asked" /\ handler[h].answer # NoRow => AddsUp(handler[h].answer)
        /\ \A h \in Handlers : handler[h].at \in Asking => handler[h].day <= day
        /\ \A i \in DOMAIN done : done[i].did = "level" /\ done[i].day \in Nat

\* The object in use counts all messages of its day, and none is of a later one.
DailyOK ==
    table = "user_levels" /\ ~torn =>
        /\ \A o \in DOMAIN objects : InUse(o) =>
             /\ objects[o].date <= day
             /\ \A i \in DOMAIN done : done[i].day <= objects[o].date
             /\ MessagesOf(objects[o].date) <= objects[o].daily
        /\ \A d \in Nat : MessagesOf(d) <= DailyLimit

LevelsInv == LevelsOK /\ DailyOK

LEMMA MessagesTyped ==
    ASSUME SharedTyped, NEW d
    PROVE  /\ MessagesOf(d) \in Nat
           /\ IsFiniteSet({i \in DOMAIN done : done[i].did = "level" /\ done[i].day = d})
  <1>1. IsFiniteSet(DOMAIN done)
    <2>1. DOMAIN done = 1 .. Len(done) /\ 1 \in Int /\ Len(done) \in Int
      BY DEF SharedTyped, DoneTyped
    <2> QED
      BY <2>1, FS_Interval
  <1>2. IsFiniteSet({i \in DOMAIN done : done[i].did = "level" /\ done[i].day = d})
    BY <1>1, FS_Subset
  <1> QED
    BY <1>2, FS_CardinalityType DEF MessagesOf

\* One more message of a day.
LEMMA MessageCounted ==
    ASSUME SharedTyped, NEW d, done' = Append(done, [did |-> "level", day |-> d])
    PROVE  /\ MessagesOf(d)' = MessagesOf(d) + 1
           /\ \A e : e # d => MessagesOf(e)' = MessagesOf(e)
  <1> DEFINE of(e) == {i \in DOMAIN done : done[i].did = "level" /\ done[i].day = e}
             then(e) == {i \in DOMAIN done' : done'[i].did = "level" /\ done'[i].day = e}
             new == Len(done) + 1
  <1>1. /\ DOMAIN done' = DOMAIN done \cup {new} /\ new \notin DOMAIN done
        /\ \A i \in DOMAIN done : done'[i] = done[i]
        /\ done'[new].did = "level" /\ done'[new].day = d
    <2>1. /\ DOMAIN done' = 1 .. Len(done) + 1 /\ \A i \in DOMAIN done : done'[i] = done[i]
          /\ done'[Len(done) + 1] = [did |-> "level", day |-> d]
      BY Grown DEF SharedTyped
    <2>2. DOMAIN done = 1 .. Len(done) /\ Len(done) \in Nat
      BY DEF SharedTyped, DoneTyped
    <2> QED
      BY <2>1, <2>2
  <1>2. then(d) = of(d) \cup {new} /\ new \notin of(d)
    BY <1>1
  <1>3. \A e : e # d => then(e) = of(e)
    BY <1>1
  <1>4. IsFiniteSet(of(d))
    BY MessagesTyped
  <1>5. Cardinality(then(d)) = Cardinality(of(d)) + 1
    <2> HIDE DEF of, then
    <2> QED
      BY <1>2, <1>4, FS_AddElement
  <1> QED
    BY <1>3, <1>5 DEF MessagesOf

\* A handler worked with the one object there is, of the day d or made new.
LEMMA WorkedDaily ==
    ASSUME SharedTyped, LevelsOK, NEW h \in Handlers, NEW objs \in Seq(Levels),
           NEW obj \in 1 .. Len(objs), NEW d \in Nat, LevelWorked(h, obj, objs, d),
           table = "user_levels", day' = day, d <= day, \A o : InUse(o)' => o = obj,
           \A i \in DOMAIN done : done[i].day <= d,
           MessagesOf(d) <= OfDay(objs[obj], d).daily, \A e \in Nat : MessagesOf(e) <= DailyLimit
    PROVE  DailyOK'
  <1>1. PICK w \in Levels :
            /\ objects' = [objs EXCEPT ![obj] = w] /\ w.date = d
            /\ \/ done' = done /\ w.daily = OfDay(objs[obj], d).daily
               \/ /\ done' = Append(done, [did |-> "level", day |-> d])
                  /\ OfDay(objs[obj], d).daily < DailyLimit
                  /\ w.daily = OfDay(objs[obj], d).daily + 1
    BY DEF LevelWorked
  <1>2. objects'[obj] = w
    BY <1>1
  <1>3. objs[obj] \in Levels
    OBVIOUS
  <1>4. OfDay(objs[obj], d).daily \in Nat /\ DailyLimit \in Nat
    BY <1>3, OfDayTyped, SharedAssumption DEF Levels
  <1>9. PICK c \in Nat : c = OfDay(objs[obj], d).daily
    BY <1>4
  <1>5. MessagesOf(d) \in Nat /\ \A e \in Nat : MessagesOf(e) \in Nat
    BY MessagesTyped
  <1>6. /\ \A i \in DOMAIN done' : done'[i].day <= d
        /\ MessagesOf(d)' <= w.daily
        /\ \A e \in Nat : MessagesOf(e)' <= DailyLimit
    <2>1. CASE done' = done /\ w.daily = c
      <3>1. \A e : MessagesOf(e)' = MessagesOf(e)
        BY <2>1 DEF MessagesOf
      <3> QED
        BY <2>1, <3>1, <1>9
    <2>2. CASE /\ done' = Append(done, [did |-> "level", day |-> d])
               /\ c < DailyLimit /\ w.daily = c + 1
      <3>1. MessagesOf(d)' = MessagesOf(d) + 1 /\ \A e : e # d => MessagesOf(e)' = MessagesOf(e)
        BY <2>2, MessageCounted
      <3>2. /\ \A i \in DOMAIN done : done'[i] = done[i]
            /\ \A i \in DOMAIN done' : i \in DOMAIN done \/ done'[i] = [did |-> "level", day |-> d]
        <4>1. /\ DOMAIN done' = 1 .. Len(done) + 1 /\ \A i \in DOMAIN done : done'[i] = done[i]
              /\ done'[Len(done) + 1] = [did |-> "level", day |-> d]
          BY <2>2, Grown DEF SharedTyped
        <4>2. DOMAIN done = 1 .. Len(done) /\ Len(done) \in Nat
          BY DEF SharedTyped, DoneTyped
        <4> QED
          BY <4>1, <4>2
      <3>3. \A i \in DOMAIN done' : done'[i].day <= d
        BY <3>2
      <3>4. MessagesOf(d) <= c
        BY <1>9
      <3>5. MessagesOf(d) + 1 <= c + 1 /\ MessagesOf(d) + 1 <= DailyLimit
        <4>1. c < DailyLimit
          BY <2>2
        <4>2. PICK m \in Nat : m = MessagesOf(d)
          BY <1>5
        <4>3. m + 1 <= c + 1 /\ m + 1 <= DailyLimit
          BY <3>4, <4>1, <4>2, <1>4
        <4> QED
          BY <4>2, <4>3
      <3>6. MessagesOf(d)' <= w.daily /\ MessagesOf(d)' <= DailyLimit
        BY <2>2, <3>1, <3>5
      <3> QED
        BY <3>1, <3>3, <3>6
    <2> QED
      BY <1>1, <1>9, <2>1, <2>2
  <1> SUFFICES ASSUME NEW o \in DOMAIN objects', InUse(o)'
               PROVE  /\ objects'[o].date <= day'
                      /\ \A i \in DOMAIN done' : done'[i].day <= objects'[o].date
                      /\ MessagesOf(objects[o].date)' <= objects'[o].daily
    BY <1>6 DEF DailyOK
  <1>7. o = obj
    OBVIOUS
  <1>8. MessagesOf(objects[o].date)' = MessagesOf(d)'
    BY <1>1, <1>2, <1>7 DEF MessagesOf
  <1> QED
    BY <1>1, <1>2, <1>6, <1>7, <1>8

\* Neither an object nor a deed changes, and none comes into use.
LEMMA DailyStays ==
    ASSUME DailyOK, ObjectsTyped, UNCHANGED <<table, objects, done>>, day' \in Nat, day <= day', torn => torn',
           \A o \in DOMAIN objects : ~torn' /\ InUse(o)' => InUse(o)
    PROVE  DailyOK'
  <1> SUFFICES ASSUME table = "user_levels", ~torn'
               PROVE  /\ \A o \in DOMAIN objects : InUse(o)' =>
                           /\ objects[o].date <= day'
                           /\ \A i \in DOMAIN done : done[i].day <= objects[o].date
                           /\ MessagesOf(objects[o].date) <= objects[o].daily
                      /\ \A d \in Nat : MessagesOf(d) <= DailyLimit
    BY DEF DailyOK, MessagesOf
  <1>1. /\ \A o \in DOMAIN objects : InUse(o) =>
             /\ objects[o].date <= day
             /\ \A i \in DOMAIN done : done[i].day <= objects[o].date
             /\ MessagesOf(objects[o].date) <= objects[o].daily
        /\ \A d \in Nat : MessagesOf(d) <= DailyLimit
    BY DEF DailyOK
  <1>2. \A o \in DOMAIN objects : objects[o].date \in Nat
    <2>1. objects \in Seq(Levels)
      BY TableKinds DEF ObjectsTyped
    <2>2. \A o \in DOMAIN objects : objects[o] \in Levels
      BY <2>1
    <2> QED
      BY <2>2 DEF Levels
  <1> QED
    BY <1>1, <1>2 DEF ObjectsTyped

\* A handler that asked has its object: a new one, or the one remembered.
LEMMA ObjectsWorked ==
    ASSUME LevelsOK, table = "user_levels", UNCHANGED <<table, row, day>>, DoneTyped, HandlersTyped,
           NEW h \in Handlers, NEW objs \in Seq(Levels), NEW obj \in 1 .. Len(objs), NEW d \in Nat,
           LevelWorked(h, obj, objs, d), \A o \in DOMAIN objs : AddsUp(objs[o])
    PROVE  LevelsOK'
  <1>1. PICK w \in Levels :
            /\ objects' = [objs EXCEPT ![obj] = w] /\ AddsUp(w)
            /\ done' = done \/ done' = Append(done, [did |-> "level", day |-> d])
            /\ \E x : handler' = [handler EXCEPT ![h] = x] /\ x.at \notin Asking
    <2>1. Idle.at \notin Asking /\ "saving" \notin Asking
      BY DEF Idle, Asking
    <2>2. PICK w \in Levels :
             /\ objects' = [objs EXCEPT ![obj] = w] /\ AddsUp(w)
             /\ \/ done' = done /\ handler' = [handler EXCEPT ![h] = Idle]
                \/ /\ done' = Append(done, [did |-> "level", day |-> d])
                   /\ \E x : handler' = [handler EXCEPT ![h] = x] /\ x.at = "saving"
      <3> HIDE DEF AddsUp
      <3> QED
        BY DEF LevelWorked
    <2> HIDE DEF AddsUp, Idle
    <2>3. \E x : handler' = [handler EXCEPT ![h] = x] /\ x.at \notin Asking
      BY <2>1, <2>2
    <2> QED
      BY <2>2, <2>3
  <1>2. \A o \in DOMAIN objects' : AddsUp(objects'[o])
    <2>1. DOMAIN objects' = DOMAIN objs /\ \A o \in DOMAIN objs : objects'[o] \in {w, objs[o]}
      BY <1>1
    <2> HIDE DEF AddsUp
    <2> QED
      BY <1>1, <2>1
  <1>3. \A k \in Handlers : handler'[k].at \in Asking => handler'[k] = handler[k]
    BY <1>1 DEF HandlersTyped
  <1>4. \A i \in DOMAIN done' : done'[i].did = "level" /\ done'[i].day \in Nat
    <2>1. CASE done' = done
      BY <2>1 DEF LevelsOK
    <2>2. CASE done' = Append(done, [did |-> "level", day |-> d])
      <3>1. /\ DOMAIN done' = 1 .. Len(done) + 1 /\ \A i \in DOMAIN done : done'[i] = done[i]
            /\ done'[Len(done) + 1] = [did |-> "level", day |-> d]
        BY <2>2, Grown
      <3>2. \A i \in DOMAIN done' : i \in DOMAIN done \/ done'[i] = [did |-> "level", day |-> d]
        BY <3>1 DEF DoneTyped
      <3> QED
        BY <3>1, <3>2 DEF LevelsOK
    <2> QED
      BY <1>1, <2>1, <2>2
  <1>5. "asked" \in Asking
    BY DEF Asking
  <1>6. \A k \in Handlers : handler'[k].at = "asked" /\ handler'[k].answer # NoRow => AddsUp(handler'[k].answer)
    BY <1>3, <1>5 DEF LevelsOK
  <1>7. \A k \in Handlers : handler'[k].at \in Asking => handler'[k].day <= day'
    BY <1>3 DEF LevelsOK
  <1>8. row' # NoRow => AddsUp(row)'
    BY DEF LevelsOK, AddsUp
  <1> QED
    BY <1>2, <1>4, <1>6, <1>7, <1>8 DEF LevelsOK, AddsUp

\* No object and no deed changes, and no handler is given a row.
LEMMA ObjectsStay ==
    ASSUME LevelsOK, HandlersTyped, UNCHANGED <<table, objects, done, day>>, row' = row \/ (row' # NoRow => AddsUp(row')),
           NEW h \in Handlers, NEW x, handler' = [handler EXCEPT ![h] = x],
           table = "user_levels" /\ x.at = "asked" /\ x.answer # NoRow => AddsUp(x.answer),
           table = "user_levels" /\ x.at \in Asking => x.day <= day
    PROVE  LevelsOK'
  <1> SUFFICES ASSUME table = "user_levels"
               PROVE  /\ row' # NoRow => AddsUp(row')
                      /\ \A k \in Handlers : handler'[k].at = "asked" /\ handler'[k].answer # NoRow
                           => AddsUp(handler'[k].answer)
                      /\ \A k \in Handlers : handler'[k].at \in Asking => handler'[k].day <= day
    BY DEF LevelsOK, AddsUp
  <1>1. handler'[h] = x /\ \A k \in Handlers \ {h} : handler'[k] = handler[k]
    BY DEF HandlersTyped
  <1>2. row' # NoRow => AddsUp(row')
    BY DEF LevelsOK
  <1> HIDE DEF AddsUp
  <1> QED
    BY <1>1, <1>2 DEF LevelsOK

LEMMA LevelKinds == ASSUME SharedTyped, table = "user_levels"
                    PROVE  Values = Levels /\ HandlersOf[table] = {"level"} /\ objects \in Seq(Levels)
  BY TableKinds DEF SharedTyped, ObjectsTyped

LEMMA FreshAdds == ASSUME NEW d \in Nat, table = "user_levels" PROVE AddsUp(Fresh(d)) /\ Fresh(d) \in Levels
  <1>1. Fresh(d) = [xp |-> 0, level |-> 0, total |-> 0, daily |-> 0, date |-> d]
    BY DEF Fresh
  <1>2. Cost[0] = 0 /\ 0 < XpForLevel(0 + 1)
    BY CostStep, CostsTyped
  <1> HIDE DEF Cost, XpForLevel
  <1> QED
    BY <1>1, <1>2 DEF AddsUp, Levels

LEMMA LevelGets ==
    ASSUME SharedTyped, LevelsOK, table = "user_levels", NEW h \in Handlers, Gets(h)
    PROVE  /\ UNCHANGED <<table, row, day, torn>> /\ handler[h].at = "asked"
           /\ handler[h].day \in Nat /\ handler[h].day <= day
           /\ \E objs \in Seq(Levels) :
                 /\ Len(objs) = Len(objects) + 1 /\ \A o \in DOMAIN objs : AddsUp(objs[o])
                 /\ LevelWorked(h, Len(objs), objs, handler[h].day)
                 /\ cached' \in {cached, Len(objs)}
  <1>1. UNCHANGED <<table, row, day, torn>> /\ handler[h].at = "asked"
    BY DEF Gets
  <1>2. /\ handler[h].does \in HandlersOf[table] /\ handler[h].day \in Nat /\ handler[h].day <= day
        /\ handler[h].answer \in Values \cup {NoRow}
    BY <1>1, WasOK DEF HandlerOK, Asking, LevelsOK
  <1>3. handler[h].does = "level"
    BY <1>2, LevelKinds
  <1> DEFINE value == IF handler[h].answer = NoRow THEN Fresh(handler[h].day) ELSE handler[h].answer
             objs == Append(objects, value)
  <1>4. value \in Levels /\ AddsUp(value)
    <2>1. CASE handler[h].answer = NoRow
      <3>1. PICK d \in Nat : d = handler[h].day
        BY <1>2
      <3> QED
        BY <2>1, <3>1, FreshAdds
    <2>2. CASE handler[h].answer # NoRow
      BY <1>1, <1>2, <2>2, LevelKinds DEF LevelsOK
    <2> QED
      BY <2>1, <2>2
  <1>5. Proceed(h, "level", Len(objs), objs, handler[h].day) /\ cached' \in {cached, Len(objs)}
    BY <1>3 DEF Gets, MakesObject
  <1> HIDE DEF value
  <1>6. objs \in Seq(Levels) /\ Len(objs) = Len(objects) + 1 /\ Len(objs) \in 1 .. Len(objs)
        /\ objs[Len(objs)] = value
        /\ \A o \in DOMAIN objs : (o \in DOMAIN objects /\ objs[o] = objects[o]) \/ objs[o] = value
    BY <1>4, LevelKinds
  <1>7. \A o \in DOMAIN objs : AddsUp(objs[o])
    <2> HIDE DEF AddsUp, objs
    <2> QED
      BY <1>4, <1>6 DEF LevelsOK
  <1>8. PICK s : s = objs
    OBVIOUS
  <1>9. PICK d \in Nat : d = handler[h].day
    BY <1>2
  <1>10. AddsUp(s[Len(s)]) /\ s \in Seq(Levels) /\ Len(s) \in 1 .. Len(s) /\ Proceed(h, "level", Len(s), s, d)
    BY <1>4, <1>5, <1>6, <1>8, <1>9
  <1>11. LevelWorked(h, Len(s), s, d)
    BY <1>10, ProceedLevels
  <1> HIDE DEF objs
  <1> QED
    BY <1>1, <1>2, <1>5, <1>6, <1>7, <1>8, <1>9, <1>11

LEMMA LevelStarts ==
    ASSUME SharedTyped, LevelsOK, table = "user_levels", NEW h \in Handlers,
           NEW does \in HandlersOf[table], Starts(h, does), cached # 0
    PROVE  /\ LevelWorked(h, cached, objects, day) /\ UNCHANGED <<table, row, day, cached, torn>>
           /\ objects \in Seq(Levels) /\ cached \in 1 .. Len(objects)
  <1>1. Proceed(h, "level", cached, objects, day) /\ UNCHANGED <<table, row, day, cached, torn>>
    BY LevelKinds DEF Starts
  <1>2. objects \in Seq(Levels) /\ cached \in 1 .. Len(objects) /\ day \in Nat /\ AddsUp(objects[cached])
    BY WasOK, LevelKinds DEF LevelsOK
  <1>3. PICK s, c, d : s = objects /\ c = cached /\ d = day
    OBVIOUS
  <1>4. s \in Seq(Levels) /\ c \in 1 .. Len(s) /\ d \in Nat /\ AddsUp(s[c]) /\ Proceed(h, "level", c, s, d)
    BY <1>1, <1>2, <1>3
  <1>5. LevelWorked(h, c, s, d)
    BY <1>4, ProceedLevels
  <1> QED
    BY <1>1, <1>2, <1>3, <1>5

LEMMA LevelsStep == ASSUME SharedTyped, LevelsOK, [SharedNext]_rowVars PROVE LevelsOK'
  <1> SUFFICES ASSUME table = "user_levels" PROVE LevelsOK'
    <2>1. table' = table
      BY DEF SharedNext, rowVars, Starts, Answers, Gets, Counts, Stores, Saves, Sanctions, Fails, NextDay, LooksUp
    <2> QED
      BY <2>1 DEF LevelsOK
  <1>0. HandlersTyped /\ DoneTyped /\ objects \in Seq(Levels)
    BY LevelKinds DEF SharedTyped
  <1>1. ASSUME NEW h \in Handlers, NEW does \in HandlersOf[table], Starts(h, does) PROVE LevelsOK'
    <2>1. CASE cached # 0
      <3>1. /\ LevelWorked(h, cached, objects, day) /\ UNCHANGED <<table, row, day>>
            /\ objects \in Seq(Levels) /\ cached \in 1 .. Len(objects) /\ day \in Nat
        BY <1>1, <2>1, LevelStarts, WasOK
      <3>2. \A o \in DOMAIN objects : AddsUp(objects[o])
        BY DEF LevelsOK
      <3>3. PICK s, c, d : s = objects /\ c = cached /\ d = day
        OBVIOUS
      <3>4. /\ s \in Seq(Levels) /\ c \in 1 .. Len(s) /\ d \in Nat /\ LevelWorked(h, c, s, d)
            /\ \A o \in DOMAIN s : AddsUp(s[o])
        BY <3>1, <3>2, <3>3
      <3> QED
        BY <1>0, <3>1, <3>4, ObjectsWorked
    <2>2. CASE cached = 0
      <3> DEFINE x == [at |-> "asking", does |-> does, day |-> day]
      <3>1. /\ UNCHANGED <<table, row, objects, done, day>> /\ handler' = [handler EXCEPT ![h] = x]
        BY <1>1, <2>2 DEF Starts, Becomes
      <3>2. x.at # "asked" /\ x.day <= day
        BY WasOK
      <3> HIDE DEF x
      <3> QED
        BY <1>0, <3>1, <3>2, ObjectsStay
    <2> QED
      BY <2>1, <2>2
  <1>2. ASSUME NEW h \in Handlers, Answers(h) PROVE LevelsOK'
    <2> DEFINE x == [at |-> "asked", does |-> handler[h].does, day |-> handler[h].day, answer |-> row]
    <2>1. /\ UNCHANGED <<table, row, objects, done, day>> /\ handler' = [handler EXCEPT ![h] = x]
          /\ handler[h].at = "asking"
      BY <1>2 DEF Answers, Becomes
    <2>2. (x.answer # NoRow => AddsUp(x.answer)) /\ x.day <= day
      BY <2>1 DEF LevelsOK, Asking
    <2> HIDE DEF x
    <2> QED
      BY <1>0, <2>1, <2>2, ObjectsStay
  <1>3. ASSUME NEW h \in Handlers, Gets(h) PROVE LevelsOK'
    <2>1. PICK objs \in Seq(Levels) :
             /\ Len(objs) = Len(objects) + 1 /\ \A o \in DOMAIN objs : AddsUp(objs[o])
             /\ LevelWorked(h, Len(objs), objs, handler[h].day)
      BY <1>3, LevelGets
    <2>2. UNCHANGED <<table, row, day>> /\ handler[h].day \in Nat /\ Len(objs) \in 1 .. Len(objs)
      BY <1>3, <2>1, LevelGets, WasOK
    <2>3. PICK d \in Nat : d = handler[h].day
      BY <2>2
    <2> QED
      BY <1>0, <2>1, <2>2, <2>3, ObjectsWorked
  <1>4. ASSUME NEW h \in Handlers, Counts(h) PROVE LevelsOK'
    BY <1>4, CountsMoves, LevelKinds
  <1>5. ASSUME NEW h \in Handlers, Stores(h) PROVE LevelsOK'
    <2>1. PICK x : handler' = [handler EXCEPT ![h] = x] /\ x.at = "saving"
      BY <1>5, StoresMoves
    <2>2. UNCHANGED <<table, row, objects, done, day>> /\ x.at # "asked" /\ x.at \notin Asking
      BY <1>5, <2>1, StoresMoves DEF Asking
    <2> QED
      BY <1>0, <2>1, <2>2, ObjectsStay
  <1>6. ASSUME NEW h \in Handlers, Saves(h) PROVE LevelsOK'
    <2>1. PICK x : handler' = [handler EXCEPT ![h] = x] /\ x.at \in {"idle", "sanctioning"}
      BY <1>6, SavesMoves DEF Idle
    <2>2. UNCHANGED <<table, objects, done, day>> /\ x.at # "asked" /\ x.at \notin Asking
      BY <1>6, <2>1, SavesMoves DEF Asking
    <2>3. row' \in {row, objects[handler[h].obj]} /\ handler[h].obj \in 1 .. Len(objects)
      BY <1>6, SavesMoves DEF Saves
    <2>4. AddsUp(objects[handler[h].obj])
      BY <1>0, <2>3 DEF LevelsOK
    <2>5. row' = row \/ (row' # NoRow => AddsUp(row'))
      <3> HIDE DEF AddsUp
      <3> QED
        BY <2>3, <2>4
    <2> QED
      BY <1>0, <2>1, <2>2, <2>5, ObjectsStay
  <1>7. ASSUME NEW h \in Handlers, Sanctions(h) \/ Fails(h) PROVE LevelsOK'
    <2>1. UNCHANGED <<table, row, objects, done, day>> /\ handler' = [handler EXCEPT ![h] = Idle]
      BY <1>7, SanctionsMoves, FailsMoves
    <2>2. Idle.at # "asked" /\ Idle.at \notin Asking
      BY DEF Idle, Asking
    <2> QED
      BY <1>0, <2>1, <2>2, ObjectsStay
  <1>8. CASE NextDay
    <2>1. UNCHANGED <<table, row, objects, handler, done>> /\ day' = day + 1
      BY <1>8 DEF NextDay
    <2>2. \A h \in Handlers : handler[h].at \in Asking => handler[h].day \in Nat /\ handler[h].day <= day
      BY WasOK DEF HandlerOK, LevelsOK
    <2>3. \A h \in Handlers : handler[h].at \in Asking => handler[h].day <= day'
      BY <2>1, <2>2, WasOK
    <2> QED
      BY <2>1, <2>3 DEF LevelsOK, AddsUp
  <1>9. CASE LooksUp \/ UNCHANGED rowVars
    BY <1>9 DEF LooksUp, rowVars, LevelsOK, AddsUp
  <1> QED
    BY <1>1, <1>2, <1>3, <1>4, <1>5, <1>6, <1>7, <1>8, <1>9 DEF SharedNext

LEMMA DailyStep ==
    ASSUME SharedTyped, SharedTyped', CountsOK, LevelsOK, DailyOK, [SharedNext]_rowVars
    PROVE  DailyOK'
  <1>0. table' = table /\ (torn => torn')
    <2>1. ASSUME NEW h \in Handlers, NEW does \in HandlersOf[table], Starts(h, does)
          PROVE  table' = table /\ (torn => torn')
      BY <2>1, StartsMoves
    <2>2. ASSUME NEW h \in Handlers, Fails(h) PROVE table' = table /\ (torn => torn')
      BY <2>2, FailsMoves
    <2>3. ASSUME NEW h \in Handlers, Answers(h) \/ Gets(h) \/ Counts(h) \/ Stores(h) \/ Saves(h) \/ Sanctions(h)
          PROVE  table' = table /\ torn' = torn
      BY <2>3 DEF Answers, Gets, Counts, Stores, Saves, Sanctions
    <2>4. NextDay \/ LooksUp \/ UNCHANGED rowVars => table' = table /\ torn' = torn
      BY DEF NextDay, LooksUp, rowVars
    <2> QED
      BY <2>1, <2>2, <2>3, <2>4 DEF SharedNext
  <1> SUFFICES ASSUME table = "user_levels", ~torn, ~torn' PROVE DailyOK'
    BY <1>0 DEF DailyOK
  <1>10. OneObject /\ ObjectsTyped /\ ObjectsTyped' /\ day \in Nat
    BY DEF CountsOK, SharedTyped, ObjectsTyped
  <1>11. \A d \in Nat : MessagesOf(d) <= DailyLimit
    BY DEF DailyOK
  <1>12. ASSUME UNCHANGED <<objects, done>>, day' = day, \A o \in DOMAIN objects : InUse(o)' => InUse(o) PROVE DailyOK'
    BY <1>0, <1>10, <1>12, DailyStays
  <1>1. ASSUME NEW h \in Handlers, NEW does \in HandlersOf[table], Starts(h, does) PROVE DailyOK'
    <2>1. CASE cached # 0
      <3>1. /\ LevelWorked(h, cached, objects, day) /\ UNCHANGED <<table, row, day, cached>>
            /\ objects \in Seq(Levels) /\ cached \in 1 .. Len(objects)
        BY <1>1, <2>1, LevelStarts
      <3>2. PICK s, c, d : s = objects /\ c = cached /\ d = day
        OBVIOUS
      <3>3. s \in Seq(Levels) /\ c \in 1 .. Len(s) /\ d \in Nat /\ LevelWorked(h, c, s, d) /\ d <= day
        BY <1>10, <3>1, <3>2
      <3>4. \A o : InUse(o)' => o = c
        BY <2>1, <3>1, <3>2 DEF InUse
      <3>5. /\ objects[cached].date <= day
            /\ \A i \in DOMAIN done : done[i].day <= objects[cached].date
            /\ MessagesOf(objects[cached].date) <= objects[cached].daily
        BY <2>1, <3>1 DEF DailyOK, InUse
      <3>6. s[c] \in Levels /\ s[c] = objects[cached]
        BY <3>2, <3>3
      <3>7. s[c].date \in Nat /\ s[c].daily \in Nat
        BY <3>6 DEF Levels
      <3>8. \A i \in DOMAIN done : done[i].day \in Nat
        BY DEF LevelsOK
      <3>9. \A i \in DOMAIN done : done[i].day <= d
        BY <3>2, <3>3, <3>5, <3>6, <3>7, <3>8
      <3>10. MessagesOf(d) <= OfDay(s[c], d).daily
        <4>1. CASE s[c].date = d
          <5>1. OfDay(s[c], d).daily = s[c].daily
            BY <3>3, <3>6, <4>1, OfDayTyped
          <5>2. MessagesOf(d) = MessagesOf(objects[cached].date)
            BY <3>6, <4>1
          <5> QED
            BY <3>5, <3>6, <5>1, <5>2
        <4>2. CASE s[c].date # d
          <5>1. OfDay(s[c], d).daily = 0
            BY <3>3, <3>6, <4>2, OfDayTyped
          <5>2. s[c].date < d
            BY <3>2, <3>3, <3>5, <3>6, <3>7, <4>2
          <5>3. \A i \in DOMAIN done : done[i].day # d
            BY <3>3, <3>5, <3>6, <3>7, <3>8, <5>2
          <5>4. {i \in DOMAIN done : done[i].did = "level" /\ done[i].day = d} = {}
            BY <5>3
          <5>5. MessagesOf(d) = 0
            BY <5>4, FS_EmptySet DEF MessagesOf
          <5> QED
            BY <5>1, <5>5
        <4> QED
          BY <4>1, <4>2
      <3> QED
        BY <1>11, <3>1, <3>3, <3>4, <3>9, <3>10, WorkedDaily
    <2>2. CASE cached = 0
      <3>1. PICK x : handler' = [handler EXCEPT ![h] = x] /\ x.at = "asking"
        BY <1>1, <2>2, StartsMoves
      <3>2. UNCHANGED <<objects, done, day, cached>>
        BY <1>1, <2>2, StartsMoves
      <3>3. handler'[h].at = "asking" /\ \A k \in Handlers \ {h} : handler'[k] = handler[k]
        BY <3>1, OthersStay
      <3>4. \A o \in DOMAIN objects : InUse(o)' => InUse(o)
        BY <3>2, <3>3 DEF InUse, Has
      <3> QED
        BY <1>12, <3>2, <3>4
    <2> QED
      BY <2>1, <2>2
  <1>2. ASSUME NEW h \in Handlers, Answers(h) PROVE DailyOK'
    <2>1. PICK x : handler' = [handler EXCEPT ![h] = x] /\ x.at = "asked"
      BY <1>2, AnswersMoves
    <2>2. UNCHANGED <<objects, done, day, cached>>
      BY <1>2, AnswersMoves
    <2>3. handler'[h].at = "asked" /\ \A k \in Handlers \ {h} : handler'[k] = handler[k]
      BY <2>1, OthersStay
    <2>4. \A o \in DOMAIN objects : InUse(o)' => InUse(o)
      BY <2>2, <2>3 DEF InUse, Has
    <2> QED
      BY <1>12, <2>2, <2>4
  <1>3. ASSUME NEW h \in Handlers, Gets(h) PROVE DailyOK'
    <2>1. PICK objs \in Seq(Levels) :
             /\ Len(objs) = Len(objects) + 1
             /\ LevelWorked(h, Len(objs), objs, handler[h].day)
             /\ cached' \in {cached, Len(objs)}
      BY <1>3, LevelGets
    <2>2. /\ day' = day /\ handler[h].day \in Nat /\ handler[h].day <= day /\ Len(objs) \in 1 .. Len(objs)
          /\ handler[h].at = "asked"
      BY <1>3, <2>1, LevelGets, WasOK
    <2>3. PICK d \in Nat : d = handler[h].day
      BY <2>2
    <2>4. /\ cached = 0 /\ handler[h] # Idle /\ \A k \in Handlers \ {h} : handler[k] = Idle
      BY <1>10, <2>2 DEF OneObject, Asking, Idle
    <2>5. done = <<>>
      <3>1. \A k \in Handlers : handler[k].at \notin Has
        BY <2>2, <2>4 DEF Idle, Has
      <3> QED
        BY <1>10, <2>4, <3>1 DEF OneObject
    <2>6. \A o : InUse(o)' => o = Len(objs)
      <3>1. CASE cached' # 0
        BY <2>1, <2>4, <3>1 DEF InUse
      <3>2. CASE cached' = 0
        <4>1. PICK x : handler' = [handler EXCEPT ![h] = x] /\ (x = Idle \/ x.obj = Len(objs))
          BY <2>1 DEF LevelWorked
        <4>2. handler'[h] = x /\ \A k \in Handlers \ {h} : handler'[k] = Idle
          BY <2>4, <4>1, OthersStay
        <4> QED
          BY <3>2, <4>1, <4>2 DEF InUse, Idle, Has
      <3> QED
        BY <3>1, <3>2
    <2>7. objs[Len(objs)] \in Levels
      BY <2>1, <2>2
    <2>8. MessagesOf(d) <= OfDay(objs[Len(objs)], d).daily
      <3>1. {i \in DOMAIN done : done[i].did = "level" /\ done[i].day = d} = {}
        BY <2>5
      <3>2. MessagesOf(d) = 0
        BY <3>1, FS_EmptySet DEF MessagesOf
      <3>3. OfDay(objs[Len(objs)], d).daily \in Nat
        BY <2>7, OfDayTyped DEF Levels
      <3> QED
        BY <3>2, <3>3
    <2>9. \A i \in DOMAIN done : done[i].day <= d
      BY <2>5
    <2> QED
      BY <1>11, <2>1, <2>2, <2>3, <2>6, <2>8, <2>9, WorkedDaily
  <1>4. ASSUME NEW h \in Handlers, Counts(h) PROVE DailyOK'
    BY <1>4, CountsMoves, LevelKinds
  <1>5. ASSUME NEW h \in Handlers, Stores(h) PROVE DailyOK'
    <2>1. PICK x : handler' = [handler EXCEPT ![h] = x] /\ x.at = "saving" /\ x.obj = handler[h].obj
      BY <1>5, StoresMoves
    <2>2. UNCHANGED <<objects, done, day, cached>> /\ handler[h].at = "storing"
      BY <1>5, StoresMoves
    <2>3. handler'[h].at = "saving" /\ handler'[h].obj = handler[h].obj
          /\ \A k \in Handlers \ {h} : handler'[k] = handler[k]
      BY <2>1, OthersStay
    <2>4. \A o \in DOMAIN objects : InUse(o)' => InUse(o)
      BY <2>2, <2>3 DEF InUse, Has
    <2> QED
      BY <1>12, <2>2, <2>4
  <1>6. ASSUME NEW h \in Handlers, Saves(h) PROVE DailyOK'
    <2>1. UNCHANGED <<objects, done, day>> /\ handler[h].at = "saving" /\ cached' = handler[h].obj
          /\ handler[h].obj \in 1 .. Len(objects)
      BY <1>6, SavesMoves
    <2>2. InUse(cached')
      BY <1>10, <2>1 DEF InUse, OneObject, Using, Has
    <2>3. \A o \in DOMAIN objects : InUse(o)' => InUse(o)
      BY <2>1, <2>2 DEF InUse
    <2> QED
      BY <1>12, <2>1, <2>3
  <1>7. ASSUME NEW h \in Handlers, Sanctions(h) \/ Fails(h) PROVE DailyOK'
    <2>1. UNCHANGED <<objects, done, day, cached>> /\ handler' = [handler EXCEPT ![h] = Idle]
      BY <1>7, SanctionsMoves, FailsMoves
    <2>2. handler'[h] = Idle /\ \A k \in Handlers \ {h} : handler'[k] = handler[k]
      BY <2>1, OthersStay
    <2>3. \A o \in DOMAIN objects : InUse(o)' => InUse(o)
      BY <2>1, <2>2 DEF InUse, Idle, Has
    <2> QED
      BY <1>12, <2>1, <2>3
  <1>8. CASE NextDay
    <2>1. UNCHANGED <<table, cached, objects, handler, done>> /\ day' = day + 1
      BY <1>8 DEF NextDay
    <2>2. \A o \in DOMAIN objects : InUse(o)' => InUse(o)
      BY <2>1 DEF InUse
    <2>3. day' \in Nat /\ day <= day'
      BY <1>10, <2>1
    <2> QED
      BY <1>10, <2>1, <2>2, <2>3, DailyStays
  <1>9. CASE LooksUp \/ UNCHANGED rowVars
    <2>1. UNCHANGED <<cached, objects, handler, done, day>>
      BY <1>9 DEF LooksUp, rowVars
    <2>2. \A o \in DOMAIN objects : InUse(o)' => InUse(o)
      BY <2>1 DEF InUse
    <2> QED
      BY <1>12, <2>1, <2>2
  <1> QED
    BY <1>1, <1>2, <1>3, <1>4, <1>5, <1>6, <1>7, <1>8, <1>9 DEF SharedNext

LEMMA LevelsInit == SharedInit => LevelsInv
  <1> SUFFICES ASSUME SharedInit PROVE LevelsInv
    OBVIOUS
  <1>1. /\ objects = <<>> /\ done = <<>> /\ handler = [h \in Handlers |-> Idle] /\ row \in {NoRow, Stored}
    BY DEF SharedInit
  <1>2. table = "user_levels" /\ row # NoRow => AddsUp(row)
    BY <1>1, SharedAssumption DEF Stored
  <1>3. LevelsOK
    BY <1>1, <1>2 DEF LevelsOK, Idle, Asking
  <1>4. ASSUME NEW d PROVE MessagesOf(d) = 0
    <2>1. {i \in DOMAIN done : done[i].did = "level" /\ done[i].day = d} = {}
      BY <1>1
    <2> QED
      BY <2>1, FS_EmptySet DEF MessagesOf
  <1>5. DailyOK
    BY <1>1, <1>4, SharedAssumption DEF DailyOK
  <1> QED
    BY <1>3, <1>5 DEF LevelsInv

\* However handlers overlap and fail and whenever midnight falls, no more messages of a
\* day count than the limit says, and in every object and the row the points spent on
\* levels and those left make all the points given: for any limit and gains.
THEOREM LevelsAddUp == SharedSpec => []LevelsKept
  <1>1. SharedInv /\ SharedInv' /\ LevelsInv /\ [SharedNext]_rowVars => LevelsInv'
    BY LevelsStep, DailyStep DEF SharedInv, LevelsInv
  <1>2. LevelsInv => LevelsKept
    BY DEF LevelsInv, LevelsOK, DailyOK, LevelsKept
  <1> QED
    BY <1>1, <1>2, LevelsInit, SharedInductive, PTL DEF SharedSpec

-----------------------------------------------------------------------------
(* Clock: times that are noted as they come *)

Ordered(times) == \A i, j \in DOMAIN times : i <= j => times[i] <= times[j]

\* Of times in order, those that are younger than an age are the last.
LEMMA YoungerIsTail ==
    ASSUME NEW times \in Seq(Nat), Ordered(times), NEW age \in Nat, now \in Nat
    PROVE  \E m \in 0 .. Len(times) :
             /\ \A i \in 1 .. m : times[i] + age <= now
             /\ \A i \in m + 1 .. Len(times) : times[i] + age > now
             /\ Younger(times, age) \in Seq(Nat) /\ Len(Younger(times, age)) = Len(times) - m
             /\ \A i \in 1 .. Len(times) - m : Younger(times, age)[i] = times[m + i]
             /\ Recent(times, age) = Len(times) - m
  <1> DEFINE N == Len(times)
             young == {i \in DOMAIN times : times[i] + age > now}
             old == {i \in DOMAIN times : times[i] + age <= now}
  <1>1. N \in Nat /\ DOMAIN times = 1 .. N /\ \A i \in 1 .. N : times[i] \in Nat
    OBVIOUS
  <1>2. PICK m \in 0 .. N : young = m + 1 .. N /\ old = 1 .. m
    <2>1. CASE young = {}
      <3>1. old = 1 .. N
        BY <1>1, <2>1
      <3>2. young = N + 1 .. N
        BY <1>1, <2>1
      <3>3. N \in 0 .. N
        BY <1>1
      <3> HIDE DEF N, young, old
      <3> QED
        BY <3>1, <3>2, <3>3
    <2>2. CASE young # {}
      <3>1. young \in SUBSET Nat
        BY <1>1
      <3>2. PICK n \in young : \A k \in young : n <= k
        BY <2>2, <3>1, Smallest
      <3>3. n \in 1 .. N /\ times[n] + age > now
        BY <1>1, <3>2
      <3>4. \A i \in n .. N : times[i] + age > now
        BY <1>1, <3>3 DEF Ordered
      <3>5. \A i \in 1 .. n - 1 : times[i] + age <= now
        <4> SUFFICES ASSUME NEW i \in 1 .. n - 1, times[i] + age > now PROVE FALSE
          BY <1>1, <3>3
        <4>1. i \in young /\ i < n
          BY <1>1, <3>3
        <4> QED
          BY <1>1, <3>2, <3>3, <4>1
      <3>6. young = n - 1 + 1 .. N
        <4>1. \A i \in young : i \in n - 1 + 1 .. N
          BY <1>1, <3>2, <3>3
        <4>2. \A i \in n - 1 + 1 .. N : i \in young
          BY <1>1, <3>3, <3>4
        <4> QED
          BY <4>1, <4>2
      <3>7. old = 1 .. n - 1
        <4>1. \A i \in old : i \in 1 .. n - 1
          <5> SUFFICES ASSUME NEW i \in old PROVE i < n
            BY <1>1, <3>3
          <5>1. i \in 1 .. N /\ times[i] + age <= now
            BY <1>1
          <5> QED
            BY <1>1, <3>3, <3>4, <5>1
        <4>2. \A i \in 1 .. n - 1 : i \in old
          BY <1>1, <3>3, <3>5
        <4> QED
          BY <4>1, <4>2
      <3>8. n - 1 \in 0 .. N
        BY <1>1, <3>3
      <3> HIDE DEF N, young, old
      <3> QED
        BY <3>6, <3>7, <3>8
    <2> QED
      BY <2>1, <2>2
  <1>3. Cardinality(old) = m /\ Cardinality(young) = N - m
    <2> HIDE DEF N, young, old
    <2>0. 1 \in Int /\ m \in Int /\ m + 1 \in Int /\ N \in Int
      BY <1>1
    <2>1. Cardinality(1 .. m) = IF 1 > m THEN 0 ELSE m - 1 + 1
      BY <2>0, FS_Interval
    <2>2. Cardinality(m + 1 .. N) = IF m + 1 > N THEN 0 ELSE N - (m + 1) + 1
      BY <2>0, FS_Interval
    <2> QED
      BY <1>1, <1>2, <2>1, <2>2
  <1>4. Younger(times, age) = SubSeq(times, m + 1, N) /\ Recent(times, age) = N - m
    BY <1>3 DEF Younger, Recent
  <1>5. /\ \A i \in 1 .. m : times[i] + age <= now
        /\ \A i \in m + 1 .. N : times[i] + age > now
    BY <1>2
  <1> HIDE DEF N, young, old
  <1>6. /\ SubSeq(times, m + 1, N) \in Seq(Nat) /\ Len(SubSeq(times, m + 1, N)) = N - m
        /\ \A i \in 1 .. N - m : SubSeq(times, m + 1, N)[i] = times[m + i]
    <2>1. m + 1 \in Int /\ N \in Int /\ \A i \in m + 1 .. N : times[i] \in Nat
      BY <1>1
    <2>2. /\ SubSeq(times, m + 1, N) \in Seq(Nat)
          /\ Len(SubSeq(times, m + 1, N)) = IF m + 1 <= N THEN N - (m + 1) + 1 ELSE 0
          /\ \A i \in 1 .. N - (m + 1) + 1 : SubSeq(times, m + 1, N)[i] = times[m + 1 + i - 1]
      BY <2>1, SubSeqProperties
    <2>3. N - (m + 1) + 1 = N - m /\ \A i \in 1 .. N - m : m + 1 + i - 1 = m + i
      BY <1>1
    <2> QED
      BY <1>1, <2>2, <2>3
  <1> QED
    BY <1>4, <1>5, <1>6 DEF N

\* Whole is all times there were, and s those of them that some clean-up has left: none
\* that is younger than the age is missing.
Covers(s, whole, age, time) ==
    /\ s \in Seq(Nat) /\ whole \in Seq(Nat) /\ Ordered(whole)
    /\ \A i \in DOMAIN whole : whole[i] <= time
    /\ \E k \in 0 .. Len(whole) :
          /\ Len(s) = Len(whole) - k
          /\ \A i \in 1 .. Len(s) : s[i] = whole[k + i]
          /\ \A i \in 1 .. k : whole[i] + age <= time

LEMMA CoversLater ==
    ASSUME NEW s, NEW whole, NEW age \in Nat, NEW t \in Nat, NEW u \in Nat, t <= u, Covers(s, whole, age, t)
    PROVE  Covers(s, whole, age, u)
  <1>1. PICK k \in 0 .. Len(whole) :
          /\ Len(s) = Len(whole) - k
          /\ \A i \in 1 .. Len(s) : s[i] = whole[k + i]
          /\ \A i \in 1 .. k : whole[i] + age <= t
    BY DEF Covers
  <1>2. s \in Seq(Nat) /\ whole \in Seq(Nat) /\ Ordered(whole) /\ \A i \in DOMAIN whole : whole[i] <= t
    BY DEF Covers
  <1>3. Len(whole) \in Nat /\ DOMAIN whole = 1 .. Len(whole) /\ \A i \in DOMAIN whole : whole[i] \in Nat
    BY <1>2
  <1>4. \A i \in DOMAIN whole : whole[i] <= u
    BY <1>2, <1>3
  <1>5. \A i \in 1 .. k : whole[i] + age <= u
    BY <1>1, <1>3
  <1> QED
    BY <1>1, <1>2, <1>4, <1>5 DEF Covers

\* What is left is in order.
LEMMA CoversOrdered == ASSUME NEW s, NEW whole, NEW age, NEW t, Covers(s, whole, age, t) PROVE Ordered(s)
  <1>1. PICK k \in 0 .. Len(whole) : Len(s) = Len(whole) - k /\ \A i \in 1 .. Len(s) : s[i] = whole[k + i]
    BY DEF Covers
  <1>2. s \in Seq(Nat) /\ whole \in Seq(Nat) /\ Ordered(whole)
    BY DEF Covers
  <1>3. SUFFICES ASSUME NEW i \in 1 .. Len(s), NEW j \in 1 .. Len(s), i <= j PROVE s[i] <= s[j]
    <2>1. DOMAIN s = 1 .. Len(s)
      BY <1>2
    <2> QED
      BY <2>1 DEF Ordered
  <1>4. Len(s) \in Nat /\ Len(whole) \in Nat /\ DOMAIN whole = 1 .. Len(whole)
    BY <1>2
  <1>5. k + i \in 1 .. Len(whole) /\ k + j \in 1 .. Len(whole) /\ k + i <= k + j
    BY <1>1, <1>3, <1>4
  <1>6. whole[k + i] <= whole[k + j]
    BY <1>2, <1>4, <1>5 DEF Ordered
  <1> QED
    BY <1>1, <1>6

LEMMA CoversAppend ==
    ASSUME NEW s, NEW whole, NEW age \in Nat, NEW t \in Nat, Covers(s, whole, age, t)
    PROVE  Covers(Append(s, t), Append(whole, t), age, t)
  <1>1. PICK k \in 0 .. Len(whole) :
          /\ Len(s) = Len(whole) - k
          /\ \A i \in 1 .. Len(s) : s[i] = whole[k + i]
          /\ \A i \in 1 .. k : whole[i] + age <= t
    BY DEF Covers
  <1>2. s \in Seq(Nat) /\ whole \in Seq(Nat) /\ Ordered(whole) /\ \A i \in DOMAIN whole : whole[i] <= t
    BY DEF Covers
  <1> DEFINE a == Append(s, t)
             w == Append(whole, t)
  <1>3. /\ a \in Seq(Nat) /\ Len(a) = Len(s) + 1 /\ \A i \in 1 .. Len(s) : a[i] = s[i]
        /\ a[Len(s) + 1] = t /\ Len(s) \in Nat
    BY <1>2
  <1>4. /\ w \in Seq(Nat) /\ Len(w) = Len(whole) + 1 /\ \A i \in 1 .. Len(whole) : w[i] = whole[i]
        /\ w[Len(whole) + 1] = t /\ Len(whole) \in Nat /\ DOMAIN w = 1 .. Len(whole) + 1
        /\ DOMAIN whole = 1 .. Len(whole)
    BY <1>2
  <1> HIDE DEF a, w
  <1>5. \A i \in DOMAIN w : w[i] <= t
    <2> SUFFICES ASSUME NEW i \in DOMAIN w PROVE w[i] <= t
      OBVIOUS
    <2>1. i = Len(whole) + 1 \/ i \in 1 .. Len(whole)
      BY <1>4
    <2> QED
      BY <1>2, <1>4, <2>1
  <1>6. Ordered(w)
    <2> SUFFICES ASSUME NEW i \in DOMAIN w, NEW j \in DOMAIN w, i <= j PROVE w[i] <= w[j]
      BY DEF Ordered
    <2>1. CASE j = Len(whole) + 1
      BY <1>4, <1>5, <2>1
    <2>2. CASE j \in 1 .. Len(whole)
      <3>1. i \in 1 .. Len(whole)
        BY <1>4, <2>2
      <3>2. whole[i] <= whole[j]
        BY <1>2, <1>4, <2>2, <3>1 DEF Ordered
      <3> QED
        BY <1>4, <2>2, <3>1, <3>2
    <2> QED
      BY <1>4, <2>1, <2>2
  <1>7. Len(a) = Len(w) - k /\ k \in 0 .. Len(w)
    BY <1>1, <1>3, <1>4
  <1>8. \A i \in 1 .. Len(a) : a[i] = w[k + i]
    <2> SUFFICES ASSUME NEW i \in 1 .. Len(a) PROVE a[i] = w[k + i]
      OBVIOUS
    <2>1. CASE i = Len(s) + 1
      BY <1>1, <1>3, <1>4, <2>1
    <2>2. CASE i \in 1 .. Len(s)
      BY <1>1, <1>3, <1>4, <2>2
    <2> QED
      BY <1>3, <2>1, <2>2
  <1>9. \A i \in 1 .. k : w[i] + age <= t
    BY <1>1, <1>4
  <1> QED
    BY <1>3, <1>4, <1>5, <1>6, <1>7, <1>8, <1>9 DEF Covers, a, w

\* A clean-up of what is older than the age, or older still.
LEMMA CoversYounger ==
    ASSUME NEW s, NEW whole, NEW age \in Nat, NEW memory \in Nat, age <= memory, now \in Nat,
           Covers(s, whole, age, now)
    PROVE  Covers(Younger(s, memory), whole, age, now)
  <1>1. PICK k \in 0 .. Len(whole) :
          /\ Len(s) = Len(whole) - k
          /\ \A i \in 1 .. Len(s) : s[i] = whole[k + i]
          /\ \A i \in 1 .. k : whole[i] + age <= now
    BY DEF Covers
  <1>2. s \in Seq(Nat) /\ whole \in Seq(Nat) /\ Ordered(whole) /\ \A i \in DOMAIN whole : whole[i] <= now
    BY DEF Covers
  <1>3. Len(s) \in Nat /\ Len(whole) \in Nat /\ \A i \in 1 .. Len(whole) : whole[i] \in Nat
    BY <1>2
  <1> DEFINE y == Younger(s, memory)
  <1>4. PICK m \in 0 .. Len(s) :
          /\ \A i \in 1 .. m : s[i] + memory <= now
          /\ y \in Seq(Nat) /\ Len(y) = Len(s) - m
          /\ \A i \in 1 .. Len(s) - m : y[i] = s[m + i]
    BY <1>2, CoversOrdered, YoungerIsTail
  <1> HIDE DEF y
  <1>5. k + m \in 0 .. Len(whole) /\ Len(y) = Len(whole) - (k + m)
    BY <1>1, <1>3, <1>4
  <1>6. ASSUME NEW i \in 1 .. Len(y) PROVE y[i] = whole[k + m + i]
    <2>1. i \in 1 .. Len(s) - m /\ m + i \in 1 .. Len(s) /\ k + (m + i) = k + m + i
      BY <1>1, <1>3, <1>4
    <2> QED
      BY <1>1, <1>4, <2>1
  <1>7. ASSUME NEW i \in 1 .. k + m PROVE whole[i] + age <= now
    <2>1. CASE i \in 1 .. k
      BY <1>1, <2>1
    <2>2. CASE i \notin 1 .. k
      <3>1. i - k \in 1 .. m /\ k + (i - k) = i /\ i - k \in 1 .. Len(s) /\ i \in 1 .. Len(whole)
        BY <1>1, <1>3, <2>2
      <3>2. s[i - k] = whole[i] /\ s[i - k] + memory <= now
        BY <1>1, <1>4, <3>1
      <3> QED
        BY <1>3, <3>1, <3>2
    <2> QED
      BY <2>1, <2>2
  <1> QED
    BY <1>2, <1>4, <1>5, <1>6, <1>7 DEF Covers, y

\* As many are younger than the age in what is left as there were.
LEMMA CoversRecent ==
    ASSUME NEW s, NEW whole, NEW age \in Nat, now \in Nat, Covers(s, whole, age, now)
    PROVE  Recent(whole, age) = Recent(s, age) /\ Recent(s, age) = Len(Younger(s, age))
  <1>1. PICK k \in 0 .. Len(whole) :
          /\ Len(s) = Len(whole) - k
          /\ \A i \in 1 .. Len(s) : s[i] = whole[k + i]
          /\ \A i \in 1 .. k : whole[i] + age <= now
    BY DEF Covers
  <1>2. s \in Seq(Nat) /\ whole \in Seq(Nat) /\ Ordered(whole)
    BY DEF Covers
  <1>3. Len(s) \in Nat /\ Len(whole) \in Nat /\ \A i \in 1 .. Len(whole) : whole[i] \in Nat
    BY <1>2
  <1>4. PICK m \in 0 .. Len(s) :
          /\ \A i \in 1 .. m : s[i] + age <= now
          /\ \A i \in m + 1 .. Len(s) : s[i] + age > now
          /\ Len(Younger(s, age)) = Len(s) - m /\ Recent(s, age) = Len(s) - m
    BY <1>2, CoversOrdered, YoungerIsTail
  <1>5. PICK n \in 0 .. Len(whole) :
          /\ \A i \in 1 .. n : whole[i] + age <= now
          /\ \A i \in n + 1 .. Len(whole) : whole[i] + age > now
          /\ Recent(whole, age) = Len(whole) - n
    BY <1>2, YoungerIsTail
  <1>6. ~(n < k)
    <2> SUFFICES ASSUME n < k PROVE FALSE
      OBVIOUS
    <2>1. k \in 1 .. k /\ k \in n + 1 .. Len(whole)
      BY <1>1, <1>3
    <2>2. whole[k] \in Nat
      BY <1>3, <2>1
    <2> QED
      BY <1>1, <1>5, <2>1, <2>2
  <1>7. ~(n < k + m)
    <2> SUFFICES ASSUME n < k + m PROVE FALSE
      OBVIOUS
    <2>1. m \in 1 .. m /\ m \in 1 .. Len(s) /\ k + m \in n + 1 .. Len(whole)
      BY <1>1, <1>3, <1>6
    <2>2. s[m] = whole[k + m] /\ whole[k + m] \in Nat
      BY <1>1, <1>3, <2>1
    <2> QED
      BY <1>4, <1>5, <2>1, <2>2
  <1>8. ~(k + m < n)
    <2> SUFFICES ASSUME k + m < n PROVE FALSE
      OBVIOUS
    <2>1. m + 1 \in m + 1 .. Len(s) /\ m + 1 \in 1 .. Len(s) /\ k + (m + 1) \in 1 .. n
      BY <1>1, <1>3, <1>5
    <2>2. s[m + 1] = whole[k + (m + 1)]
      BY <1>1, <2>1
    <2>3. whole[k + (m + 1)] \in Nat
      BY <1>2, <1>5, <2>1
    <2> QED
      BY <1>4, <1>5, <2>1, <2>2, <2>3
  <1> QED
    <2>1. n = k + m
      BY <1>1, <1>3, <1>4, <1>5, <1>7, <1>8
    <2>2. Len(whole) - n = Len(s) - m
      BY <1>1, <1>3, <1>4, <2>1
    <2> QED
      BY <1>4, <1>5, <2>2

\* A clean-up that leaves what is younger than an age leaves what is younger still.
LEMMA CoversLess ==
    ASSUME NEW s, NEW whole, NEW age \in Nat, NEW less \in Nat, less <= age, NEW t \in Nat, Covers(s, whole, age, t)
    PROVE  Covers(s, whole, less, t)
  <1>1. PICK k \in 0 .. Len(whole) :
          /\ Len(s) = Len(whole) - k
          /\ \A i \in 1 .. Len(s) : s[i] = whole[k + i]
          /\ \A i \in 1 .. k : whole[i] + age <= t
    BY DEF Covers
  <1>2. s \in Seq(Nat) /\ whole \in Seq(Nat) /\ Ordered(whole) /\ \A i \in DOMAIN whole : whole[i] <= t
    BY DEF Covers
  <1>3. Len(whole) \in Nat /\ \A i \in 1 .. Len(whole) : whole[i] \in Nat
    BY <1>2
  <1>4. \A i \in 1 .. k : whole[i] + less <= t
    BY <1>1, <1>3
  <1> QED
    BY <1>1, <1>2, <1>4 DEF Covers

\* A longer interval has no fewer messages.
LEMMA RecentMore ==
    ASSUME NEW times \in Seq(Nat), NEW less \in Nat, NEW age \in Nat, less <= age, now \in Nat
    PROVE  Recent(times, less) <= Recent(times, age) /\ Recent(times, less) \in Nat /\ Recent(times, age) \in Nat
  <1> DEFINE young(a) == {i \in DOMAIN times : times[i] + a > now}
  <1>1. IsFiniteSet(1 .. Len(times))
    <2>1. 1 \in Int /\ Len(times) \in Int
      OBVIOUS
    <2> QED
      BY <2>1, FS_Interval
  <1>2. young(less) \subseteq young(age) /\ young(age) \subseteq 1 .. Len(times)
    BY DEF young
  <1>3. Recent(times, less) = Cardinality(young(less)) /\ Recent(times, age) = Cardinality(young(age))
    BY DEF Recent
  <1> HIDE DEF young
  <1>4. IsFiniteSet(young(age))
    BY <1>1, <1>2, FS_Subset
  <1> QED
    BY <1>2, <1>3, <1>4, FS_Subset, FS_CardinalityType

\* In whatever order they are, a clean-up leaves no more than there were.
LEMMA YoungerShorter ==
    ASSUME NEW times \in Seq(Nat), NEW age \in Nat, now \in Nat
    PROVE  Younger(times, age) \in Seq(Nat) /\ Len(Younger(times, age)) <= Len(times)
  <1> DEFINE old == {i \in DOMAIN times : times[i] + age <= now}
             c == Cardinality(old)
  <1>1. c \in Nat
    <2>1. old \subseteq 1 .. Len(times) /\ Len(times) \in Nat
      OBVIOUS
    <2>2. IsFiniteSet(1 .. Len(times))
      <3>1. 1 \in Int /\ Len(times) \in Int
        BY <2>1
      <3> QED
        BY <3>1, FS_Interval
    <2> HIDE DEF old
    <2> QED
      BY <2>1, <2>2, FS_Subset, FS_CardinalityType
  <1>2. Younger(times, age) = SubSeq(times, c + 1, Len(times))
    BY DEF Younger
  <1> HIDE DEF c
  <1>3. c + 1 \in Int /\ Len(times) \in Int /\ \A i \in c + 1 .. Len(times) : times[i] \in Nat
    BY <1>1
  <1>4. /\ SubSeq(times, c + 1, Len(times)) \in Seq(Nat)
        /\ Len(SubSeq(times, c + 1, Len(times))) = IF c + 1 <= Len(times) THEN Len(times) - (c + 1) + 1 ELSE 0
    BY <1>3, SubSeqProperties
  <1> QED
    BY <1>1, <1>2, <1>3, <1>4

-----------------------------------------------------------------------------
(* AntiRaid *)

LockdownsTyped ==
    /\ now \in Nat \ {0} /\ lockdown \in [RaidGuilds -> Nat]
    /\ DOMAIN waiting = RaidTasks
    /\ \A t \in RaidTasks : waiting[t] # NoHandler => waiting[t].guild \in RaidGuilds

\* The cache lacks no join that is as young as the interval.
JoinsCovered ==
    /\ DOMAIN joinCache = RaidGuilds /\ DOMAIN counted = RaidGuilds
    /\ \A g \in RaidGuilds : Covers(joinCache[g], counted[g], JoinInterval, now)

RaidInv == LockdownsTyped /\ JoinsCovered

LEMMA CoversNothing == ASSUME NEW age, NEW t PROVE Covers(<<>>, <<>>, age, t)
  BY DEF Covers, Ordered

\* A member who joins: one of one guild.
LEMMA JoinsMoves ==
    ASSUME RaidInv, NEW g \in RaidGuilds, Joins(g)
    PROVE  /\ lockdown' \in [RaidGuilds -> Nat]
           /\ \A h \in RaidGuilds : Locked(h) => lockdown'[h] # 0
           /\ DOMAIN joinCache' = RaidGuilds /\ DOMAIN counted' = RaidGuilds
           /\ \A h \in RaidGuilds : Covers(joinCache'[h], counted'[h], JoinInterval, now)
           /\ \A h \in RaidGuilds : counted'[h] # counted[h] /\ Recent(counted'[h], JoinInterval) >= JoinThreshold
                                      => lockdown'[h] # 0
  <1>1. CASE UNCHANGED <<joinCache, lockdown, counted>>
    BY <1>1 DEF RaidInv, LockdownsTyped, JoinsCovered, Locked
  <1>2. CASE ~UNCHANGED <<joinCache, lockdown, counted>>
    <2> DEFINE left == Younger(joinCache[g], JoinInterval)
               recent == Append(left, now)
               all == Append(counted[g], now)
    <2>1. /\ joinCache' = [joinCache EXCEPT ![g] = recent]
          /\ counted' = [counted EXCEPT ![g] = all]
          /\ lockdown' = IF Len(recent) >= JoinThreshold
                         THEN [lockdown EXCEPT ![g] = now + LockdownDuration] ELSE lockdown
      BY <1>2 DEF Joins
    <2>2. Covers(joinCache[g], counted[g], JoinInterval, now) /\ now \in Nat /\ now # 0
      BY DEF RaidInv, JoinsCovered, LockdownsTyped
    <2>3. JoinInterval \in Nat /\ JoinThreshold \in Nat /\ LockdownDuration \in Nat
      BY AntiRaidAssumption
    <2>4. Covers(left, counted[g], JoinInterval, now)
      BY <2>2, <2>3, CoversYounger
    <2>5. Covers(recent, all, JoinInterval, now)
      BY <2>2, <2>3, <2>4, CoversAppend
    <2>6. /\ recent \in Seq(Nat) /\ Ordered(recent)
          /\ Recent(all, JoinInterval) = Recent(recent, JoinInterval)
      BY <2>2, <2>3, <2>5, CoversRecent, CoversOrdered DEF Covers
    <2> HIDE DEF recent, all
    <2>7. PICK m \in 0 .. Len(recent) : Recent(recent, JoinInterval) = Len(recent) - m
      BY <2>2, <2>3, <2>6, YoungerIsTail
    <2>8. Recent(all, JoinInterval) <= Len(recent)
      BY <2>6, <2>7
    <2>9. now + LockdownDuration \in Nat /\ now + LockdownDuration # 0
      BY <2>2, <2>3
    <2>10. lockdown \in [RaidGuilds -> Nat] /\ DOMAIN joinCache = RaidGuilds /\ DOMAIN counted = RaidGuilds
      BY DEF RaidInv, JoinsCovered, LockdownsTyped
    <2>11. lockdown' \in [RaidGuilds -> Nat] /\ \A h \in RaidGuilds : lockdown[h] # 0 => lockdown'[h] # 0
      BY <2>1, <2>9, <2>10
    <2>12. /\ DOMAIN joinCache' = RaidGuilds /\ DOMAIN counted' = RaidGuilds
           /\ joinCache'[g] = recent /\ counted'[g] = all
           /\ \A h \in RaidGuilds \ {g} : joinCache'[h] = joinCache[h] /\ counted'[h] = counted[h]
      BY <2>1, <2>10
    <2>13. \A h \in RaidGuilds : Covers(joinCache'[h], counted'[h], JoinInterval, now)
      BY <2>5, <2>12 DEF RaidInv, JoinsCovered, recent, all
    <2>14. Recent(all, JoinInterval) >= JoinThreshold => lockdown'[g] # 0
      <3>1. Len(recent) \in Nat /\ Recent(all, JoinInterval) \in Int
        BY <2>6, <2>7
      <3> QED
        BY <2>1, <2>3, <2>8, <2>9, <2>10, <3>1
    <2> QED
      BY <2>11, <2>12, <2>13, <2>14 DEF RaidInv, Locked
  <1> QED
    BY <1>1, <1>2

\* The loop ends what has expired.
LEMMA SweepMoves ==
    ASSUME RaidInv, NEW todo, SweepOver(todo)
    PROVE  /\ lockdown' \in [RaidGuilds -> Nat]
           /\ \A h \in RaidGuilds : Locked(h) /\ lockdown'[h] = 0 => Expired(h)
  <1>1. lockdown \in [RaidGuilds -> Nat]
    BY DEF RaidInv, LockdownsTyped
  <1>2. lockdown' = lockdown \/ \E g \in todo : Expired(g) /\ lockdown' = [lockdown EXCEPT ![g] = 0]
    BY DEF SweepOver
  <1> QED
    BY <1>1, <1>2 DEF Locked

\* What may end, and start, a lockdown: the two promises, for a step of the cog.
RaidStep ==
    /\ \A g \in RaidGuilds : Locked(g) /\ lockdown'[g] = 0 => Expired(g) \/ LockdownEnd(g)
    /\ \A g \in RaidGuilds :
         counted'[g] # counted[g] /\ Recent(counted'[g], JoinInterval) >= JoinThreshold => lockdown'[g] # 0

LEMMA RaidKept == ASSUME RaidInv, [RaidNext]_raidVars PROVE RaidInv' /\ RaidStep
  <1>1. ASSUME UNCHANGED <<joinCache, counted, waiting>>, now' \in Nat, now <= now',
               lockdown' \in [RaidGuilds -> Nat],
               \A g \in RaidGuilds : Locked(g) /\ lockdown'[g] = 0 => Expired(g) \/ LockdownEnd(g)
        PROVE  RaidInv' /\ RaidStep
    <2>1. now \in Nat /\ now # 0 /\ JoinInterval \in Nat
      BY AntiRaidAssumption DEF RaidInv, LockdownsTyped
    <2>2. \A g \in RaidGuilds : Covers(joinCache[g], counted[g], JoinInterval, now')
      BY <1>1, <2>1, CoversLater DEF RaidInv, JoinsCovered
    <2>3. JoinsCovered'
      BY <1>1, <2>2 DEF RaidInv, JoinsCovered, Covers, Ordered
    <2>4. LockdownsTyped'
      BY <1>1, <2>1 DEF RaidInv, LockdownsTyped, NoHandler
    <2> QED
      BY <1>1, <2>3, <2>4 DEF RaidInv, RaidStep
  <1>2. ASSUME UNCHANGED <<now, joinCache, counted>>, lockdown' = lockdown, DOMAIN waiting' = RaidTasks,
               \A t \in RaidTasks : waiting'[t] # NoHandler => waiting'[t].guild \in RaidGuilds
        PROVE  RaidInv' /\ RaidStep
    BY <1>2 DEF RaidInv, LockdownsTyped, JoinsCovered, Covers, Ordered, NoHandler, RaidStep, Locked
  <1>3. ASSUME NEW g \in RaidGuilds, Joins(g), now' = now, DOMAIN waiting' = RaidTasks,
               \A t \in RaidTasks : waiting'[t] = waiting[t] \/ waiting'[t] = NoHandler
        PROVE  RaidInv' /\ RaidStep
    <2>1. JoinsCovered'
      BY <1>3, JoinsMoves DEF JoinsCovered, Covers, Ordered
    <2>2. LockdownsTyped'
      BY <1>3, JoinsMoves DEF RaidInv, LockdownsTyped, NoHandler
    <2>3. RaidStep
      BY <1>3, JoinsMoves DEF RaidStep
    <2> QED
      BY <2>1, <2>2, <2>3 DEF RaidInv
  <1>4. ASSUME NEW g \in RaidGuilds, StartsLockdown(g), now' = now, DOMAIN waiting' = RaidTasks,
               \A t \in RaidTasks : waiting'[t] = waiting[t] \/ waiting'[t] = NoHandler
        PROVE  RaidInv' /\ RaidStep
    <2>1. /\ lockdown' = [lockdown EXCEPT ![g] = now + LockdownDuration] /\ UNCHANGED <<joinCache, counted>>
          /\ lockdown \in [RaidGuilds -> Nat] /\ now + LockdownDuration \in Nat \ {0}
      BY <1>4, AntiRaidAssumption DEF StartsLockdown, RaidInv, LockdownsTyped
    <2>2. lockdown' \in [RaidGuilds -> Nat] /\ \A h \in RaidGuilds : lockdown[h] # 0 => lockdown'[h] # 0
      BY <2>1
    <2>3. RaidStep
      BY <2>1, <2>2 DEF RaidStep, Locked
    <2>4. JoinsCovered'
      BY <1>4, <2>1 DEF RaidInv, JoinsCovered, Covers, Ordered
    <2>5. LockdownsTyped'
      BY <1>4, <2>2 DEF RaidInv, LockdownsTyped, NoHandler
    <2> QED
      BY <2>3, <2>4, <2>5 DEF RaidInv
  <1>5. now \in Nat /\ now + 1 \in Nat /\ now <= now + 1 /\ lockdown \in [RaidGuilds -> Nat]
        /\ DOMAIN waiting = RaidTasks
    BY DEF RaidInv, LockdownsTyped
  <1>6. ASSUME NEW g \in RaidGuilds, LockdownEnd(g) PROVE RaidInv' /\ RaidStep
    <2>1. /\ lockdown' = [lockdown EXCEPT ![g] = 0] /\ UNCHANGED <<now, joinCache, counted, waiting>>
      BY <1>6 DEF LockdownEnd
    <2>2. lockdown' \in [RaidGuilds -> Nat] /\ \A h \in RaidGuilds \ {g} : lockdown'[h] = lockdown[h]
      BY <1>5, <2>1
    <2>3. \A h \in RaidGuilds : Locked(h) /\ lockdown'[h] = 0 => Expired(h) \/ LockdownEnd(h)
      BY <1>6, <2>2 DEF Locked
    <2> QED
      BY <1>1, <1>5, <2>1, <2>2, <2>3
  <1>7. ASSUME NEW t \in RaidTasks, NEW g \in RaidGuilds, Asks(t, g) PROVE RaidInv' /\ RaidStep
    <2>1. /\ UNCHANGED <<now, joinCache, counted>> /\ lockdown' = lockdown
          /\ \E does : waiting' = [waiting EXCEPT ![t] = [does |-> does, guild |-> g]]
      BY <1>7 DEF Asks
    <2>2. /\ DOMAIN waiting' = RaidTasks
          /\ \A u \in RaidTasks : waiting'[u] # NoHandler => waiting'[u].guild \in RaidGuilds
      BY <1>5, <2>1 DEF RaidInv, LockdownsTyped
    <2> QED
      BY <1>2, <2>1, <2>2
  <1>8. ASSUME NEW t \in RaidTasks, HasConfig(t) PROVE RaidInv' /\ RaidStep
    <2>1. waiting[t].guild \in RaidGuilds /\ now' = now /\ waiting' = [waiting EXCEPT ![t] = NoHandler]
      BY <1>8 DEF HasConfig, RaidInv, LockdownsTyped
    <2>2. /\ DOMAIN waiting' = RaidTasks
          /\ \A u \in RaidTasks : waiting'[u] = waiting[u] \/ waiting'[u] = NoHandler
      BY <1>5, <2>1
    <2> QED
      BY <1>3, <1>4, <1>8, <2>1, <2>2 DEF HasConfig
  <1>9. ASSUME Sweeps PROVE RaidInv' /\ RaidStep
    <2>1. /\ joinCache' = [g \in RaidGuilds |-> Younger(joinCache[g], JoinMemory)]
          /\ UNCHANGED <<now, waiting, counted>>
          /\ lockdown' \in [RaidGuilds -> Nat]
          /\ \A h \in RaidGuilds : Locked(h) /\ lockdown'[h] = 0 => Expired(h)
      BY <1>9, SweepMoves DEF Sweeps
    <2>2. \A g \in RaidGuilds : Covers(joinCache'[g], counted[g], JoinInterval, now)
      BY <1>5, <2>1, AntiRaidAssumption, CoversYounger DEF RaidInv, JoinsCovered
    <2>3. JoinsCovered'
      BY <2>1, <2>2 DEF RaidInv, JoinsCovered, Covers, Ordered
    <2>4. LockdownsTyped'
      BY <2>1 DEF RaidInv, LockdownsTyped, NoHandler
    <2> QED
      BY <2>1, <2>3, <2>4 DEF RaidInv, RaidStep
  <1>10. ASSUME SweepGoesOn PROVE RaidInv' /\ RaidStep
    BY <1>1, <1>5, <1>10, SweepMoves DEF SweepGoesOn
  <1>11. ASSUME NEW g \in RaidGuilds, OnMemberJoin(g) \/ LockdownStart(g) PROVE RaidInv' /\ RaidStep
    BY <1>3, <1>4, <1>5, <1>11 DEF OnMemberJoin, LockdownStart
  <1>12. ASSUME UNCHANGED <<joinCache, counted, waiting, lockdown>>, now' \in {now, now + 1}
         PROVE  RaidInv' /\ RaidStep
    <2>1. \A g \in RaidGuilds : ~(Locked(g) /\ lockdown'[g] = 0)
      BY <1>12 DEF Locked
    <2> QED
      BY <1>1, <1>5, <1>12, <2>1
  <1>13. ASSUME (\E g \in RaidGuilds : SetEnabled(g)) \/ RaidTick \/ UNCHANGED raidVars PROVE RaidInv' /\ RaidStep
    BY <1>12, <1>13 DEF SetEnabled, RaidTick, Tick, raidVars
  <1> QED
    BY <1>6, <1>7, <1>8, <1>9, <1>10, <1>11, <1>13 DEF RaidNext

LEMMA RaidInductive == RaidSpec => []RaidInv
  <1>1. RaidInit => RaidInv
    BY CoversNothing DEF RaidInit, RaidInv, LockdownsTyped, JoinsCovered
  <1>2. RaidInv /\ [RaidNext]_raidVars => RaidInv'
    BY RaidKept
  <1> QED
    BY <1>1, <1>2, PTL DEF RaidSpec

\* No lockdown ends before its time but by hand, however the loop's alerts and new
\* lockdowns overlap.
THEOREM LockdownsLast == RaidSpec => LockdownNotCutShort
  <1>1. RaidInv /\ [RaidNext]_raidVars =>
          [\A g \in RaidGuilds : Locked(g) /\ lockdown'[g] = 0 => Expired(g) \/ LockdownEnd(g)]_raidVars
    BY RaidKept DEF RaidStep
  <1> QED
    BY <1>1, RaidInductive, PTL DEF RaidSpec, LockdownNotCutShort

\* The join that makes it too many starts a lockdown, whatever was cleaned up.
THEOREM RaidsNoticed == RaidSpec => RaidNoticed
  <1>1. RaidInv /\ [RaidNext]_raidVars =>
          [\A g \in RaidGuilds :
             counted'[g] # counted[g] /\ Recent(counted'[g], JoinInterval) >= JoinThreshold
               => lockdown'[g] # 0]_raidVars
    BY RaidKept DEF RaidStep
  <1> QED
    BY <1>1, RaidInductive, PTL DEF RaidSpec, RaidNoticed

-----------------------------------------------------------------------------
(* AutoMod: the invariant *)

\* Who has only read a message has read no violations; who times the member out has
\* read enough.
WatchersTyped ==
    /\ DOMAIN watcher = Watchers
    /\ \A w \in Watchers :
         /\ watcher[w].count \in Nat
         /\ watcher[w].at \in {"watching", "deleting"} => watcher[w].count = 0
         /\ watcher[w].at = "muting" => watcher[w].count >= MuteThreshold

ModTyped == violations \in Nat /\ offences \in Nat /\ timeouts \in Nat /\ WatchersTyped

LeftOver == spared \/ violations < MuteThreshold + Cardinality(Acted)

\* While no violation was counted behind a handler's back, one handler at most acts, on
\* enough violations, and no violation has been used twice.
PaidFor ==
    doubled \/ /\ \A x, y \in Acted : x = y
               /\ Acted # {} => violations >= MuteThreshold
               /\ timeouts * MuteThreshold + violations <= offences

ModInv == ModTyped /\ LeftOver /\ PaidFor

LEMMA ThresholdTyped == MuteThreshold \in Nat /\ MuteThreshold >= 1 /\ IsFiniteSet(Watchers)
  BY AutoModAssumption

LEMMA ActedFinite ==
    /\ IsFiniteSet(Acted) /\ Cardinality(Acted) \in Nat /\ Acted \subseteq Watchers
  <1>1. Acted \subseteq Watchers
    BY DEF Acted
  <1> QED
    BY <1>1, ThresholdTyped, FS_Subset, FS_CardinalityType

\* A handler moves: it acts if it has read enough violations, and nobody else begins
\* or stops acting.
LEMMA WatcherMoves ==
    ASSUME ModTyped, NEW w \in Watchers, NEW at, NEW count \in Nat, Turn(w, at, count),
           at \in {"watching", "deleting"} => count = 0, at = "muting" => count >= MuteThreshold
    PROVE  /\ WatchersTyped'
           /\ count >= MuteThreshold => Acted' = Acted \cup {w}
           /\ ~(count >= MuteThreshold) => Acted' = Acted \ {w}
  <1>1. /\ DOMAIN watcher' = Watchers /\ \A x \in Watchers \ {w} : watcher'[x] = watcher[x]
        /\ watcher'[w] = [at |-> at, count |-> count]
    BY DEF Turn, ModTyped, WatchersTyped
  <1>2. watcher'[w].at = at /\ watcher'[w].count = count
    BY <1>1
  <1>3. WatchersTyped'
    <2>1. ASSUME NEW x \in Watchers
          PROVE  /\ watcher'[x].count \in Nat
                 /\ watcher'[x].at \in {"watching", "deleting"} => watcher'[x].count = 0
                 /\ watcher'[x].at = "muting" => watcher'[x].count >= MuteThreshold
      BY <1>1, <1>2 DEF ModTyped, WatchersTyped
    <2> QED
      BY <1>1, <2>1 DEF WatchersTyped
  <1>4. \A x \in Watchers \ {w} : x \in Acted' <=> x \in Acted
    BY <1>1 DEF Acted
  <1>5. w \in Acted' <=> count >= MuteThreshold
    BY <1>2 DEF Acted
  <1>6. Acted \subseteq Watchers /\ Acted' \subseteq Watchers
    BY DEF Acted
  <1> QED
    BY <1>3, <1>4, <1>5, <1>6

\* A handler is through, or has only read a message.
LEMMA WatcherRests ==
    ASSUME ModInv, NEW w \in Watchers, NEW at \in {"watching", "deleting"}, Turn(w, at, 0),
           UNCHANGED <<violations, offences, timeouts, doubled>>,
           spared => spared',
           watcher[w].count >= MuteThreshold => spared'
    PROVE  ModInv'
  <1>1. WatchersTyped' /\ Acted' = Acted \ {w}
    BY WatcherMoves, ThresholdTyped DEF ModInv
  <1>2. w \in Acted => watcher[w].count >= MuteThreshold
    BY DEF Acted
  <1>3. LeftOver'
    <2>1. CASE w \in Acted
      BY <1>2, <2>1 DEF LeftOver
    <2>2. CASE w \notin Acted
      BY <1>1, <2>2 DEF ModInv, LeftOver
    <2> QED
      BY <2>1, <2>2
  <1>4. PaidFor'
    BY <1>1 DEF ModInv, PaidFor
  <1> QED
    BY <1>1, <1>3, <1>4 DEF ModInv, ModTyped

\* The handler that has read the violations it made: it goes on with them, or is through.
LEMMA WatcherActs ==
    ASSUME ModTyped, LeftOver, PaidFor, NEW w \in Watchers, NEW at \in {"warning", "muting"},
           NEW count \in Nat, Turn(w, at, count), at = "muting" => count >= MuteThreshold,
           count = watcher[w].count, UNCHANGED <<violations, offences, timeouts, doubled, spared>>
    PROVE  ModInv'
  <1>1. WatchersTyped' /\ Acted' = Acted
    <2>1. w \in Acted <=> count >= MuteThreshold
      BY DEF Acted
    <2>2. /\ WatchersTyped'
          /\ count >= MuteThreshold => Acted' = Acted \cup {w}
          /\ ~(count >= MuteThreshold) => Acted' = Acted \ {w}
      BY WatcherMoves
    <2> QED
      BY <2>1, <2>2
  <1> QED
    BY <1>1 DEF ModInv, ModTyped, LeftOver, PaidFor

\* What is decided of the violations that were read.
LEMMA DecidesMoves ==
    ASSUME NEW w, NEW count, Decides(w, count)
    PROVE  \/ Turn(w, "muting", count) /\ spared' = spared /\ count >= MuteThreshold
           \/ Turn(w, "watching", 0) /\ (spared => spared') /\ (count >= MuteThreshold => spared')
  <1>1. CASE "mute_on_repeated" \in settings /\ Repeated(count)
    BY <1>1 DEF Decides, Repeated
  <1>2. CASE ~("mute_on_repeated" \in settings /\ Repeated(count))
    <2>1. Turn(w, "watching", 0)
      BY <1>2 DEF Decides, Turn, Watching
    <2>2. spared' = (spared \/ ("mute_on_repeated" \notin settings /\ count >= MuteThreshold))
      BY <1>2 DEF Decides
    <2>3. (spared => spared') /\ (count >= MuteThreshold => spared')
      BY <1>2, <2>2, Zenon DEF Repeated
    <2> QED
      BY <2>1, <2>3
  <1> QED
    BY <1>1, <1>2

\* A violation more leaves those that have been used used once.
LEMMA PaidOneMore ==
    ASSUME ModInv, violations' = violations + 1, offences' = offences + 1, timeouts' = timeouts,
           doubled' = (doubled \/ Acted # {}), Acted' = Acted
    PROVE  PaidFor'
  <1> SUFFICES ASSUME ~doubled' PROVE PaidFor'
    BY DEF PaidFor
  <1>1. ~doubled /\ Acted = {}
    OBVIOUS
  <1>2. timeouts * MuteThreshold + violations <= offences
    BY <1>1 DEF ModInv, PaidFor
  <1>3. violations \in Nat /\ offences \in Nat /\ timeouts * MuteThreshold \in Nat
    BY ThresholdTyped DEF ModInv, ModTyped
  <1>4. timeouts' * MuteThreshold + violations' <= offences'
    BY <1>2, <1>3
  <1> QED
    BY <1>1, <1>4 DEF PaidFor

\* The violation is counted, and read.
LEMMA ViolationCounted ==
    ASSUME ModInv, NEW w \in Watchers, CountsViolation(w) PROVE ModInv'
  <1>1. /\ watcher[w].at = "deleting" /\ violations' = violations + 1 /\ offences' = offences + 1
        /\ doubled' = (doubled \/ Acted # {}) /\ timeouts' = timeouts
    BY DEF CountsViolation
  <1>2. violations \in Nat /\ offences \in Nat /\ timeouts \in Nat /\ violations + 1 \in Nat
    BY DEF ModInv, ModTyped
  <1>3. w \notin Acted
    BY <1>1, ThresholdTyped DEF ModInv, ModTyped, WatchersTyped, Acted
  <1>4. timeouts * MuteThreshold \in Nat
    BY <1>2, ThresholdTyped
  <1>5. \/ \E at \in {"warning", "muting"} :
             Turn(w, at, violations + 1) /\ spared' = spared /\ (at = "muting" => violations + 1 >= MuteThreshold)
        \/ Turn(w, "watching", 0) /\ (spared => spared') /\ (violations + 1 >= MuteThreshold => spared')
    BY DecidesMoves DEF CountsViolation
  <1>6. CASE \E at \in {"warning", "muting"} :
             Turn(w, at, violations + 1) /\ spared' = spared /\ (at = "muting" => violations + 1 >= MuteThreshold)
    <2>1. /\ WatchersTyped'
          /\ violations + 1 >= MuteThreshold => Acted' = Acted \cup {w}
          /\ ~(violations + 1 >= MuteThreshold) => Acted' = Acted \ {w}
      BY <1>2, <1>6, WatcherMoves DEF ModInv
    <2>2. CASE violations + 1 >= MuteThreshold
      <3>1. Cardinality(Acted') = Cardinality(Acted) + 1
        BY <1>3, <2>1, <2>2, ActedFinite, FS_AddElement
      <3>2. LeftOver'
        BY <1>1, <1>2, <1>6, <3>1, ActedFinite, ThresholdTyped DEF ModInv, LeftOver
      <3>3. PaidFor'
        <4> SUFFICES ASSUME ~doubled' PROVE PaidFor'
          BY DEF PaidFor
        <4>1. Acted = {} /\ timeouts * MuteThreshold + violations <= offences
          BY <1>1 DEF ModInv, PaidFor
        <4>2. Acted' = {w}
          BY <2>1, <2>2, <4>1
        <4>3. timeouts' * MuteThreshold + violations' <= offences'
          BY <1>1, <1>2, <1>4, <4>1
        <4> QED
          BY <1>1, <2>2, <4>2, <4>3 DEF PaidFor
      <3> QED
        BY <1>1, <1>2, <2>1, <3>2, <3>3 DEF ModInv, ModTyped
    <2>3. CASE ~(violations + 1 >= MuteThreshold)
      <3>1. Acted' = Acted
        BY <1>3, <2>1, <2>3
      <3>2. LeftOver'
        BY <1>1, <1>2, <2>3, <3>1, ActedFinite, ThresholdTyped DEF LeftOver
      <3>3. PaidFor'
        BY <1>1, <3>1, PaidOneMore
      <3> QED
        BY <1>1, <1>2, <2>1, <3>2, <3>3 DEF ModInv, ModTyped
    <2> QED
      BY <2>2, <2>3
  <1>7. CASE Turn(w, "watching", 0) /\ (spared => spared') /\ (violations + 1 >= MuteThreshold => spared')
    <2>1. WatchersTyped' /\ Acted' = Acted
      BY <1>3, <1>7, WatcherMoves, ThresholdTyped DEF ModInv
    <2>2. LeftOver'
      BY <1>1, <1>2, <1>7, <2>1, ActedFinite, ThresholdTyped DEF LeftOver
    <2>3. PaidFor'
      BY <1>1, <2>1, PaidOneMore
    <2> QED
      BY <1>1, <1>2, <2>1, <2>2, <2>3 DEF ModInv, ModTyped
  <1> QED
    BY <1>5, <1>6, <1>7

\* The member is timed out.
LEMMA TimedOut == ASSUME ModInv, NEW w \in Watchers, TimesMemberOut(w) PROVE ModInv'
  <1>1. /\ watcher[w].at = "muting" /\ violations' = 0 /\ timeouts' = timeouts + 1
        /\ Turn(w, "watching", 0) /\ UNCHANGED <<offences, spared, doubled>>
    BY DEF TimesMemberOut, Turn, Watching
  <1>2. WatchersTyped' /\ Acted' = Acted \ {w} /\ w \in Acted
    BY <1>1, WatcherMoves, ThresholdTyped DEF ModInv, ModTyped, WatchersTyped, Acted
  <1>3. LeftOver'
    <2>1. Cardinality(Acted') \in Nat
      BY <1>2, ActedFinite, FS_Subset, FS_CardinalityType
    <2> QED
      BY <1>1, <2>1, ThresholdTyped DEF LeftOver
  <1>4. PaidFor'
    <2> SUFFICES ASSUME ~doubled PROVE PaidFor'
      BY <1>1 DEF PaidFor
    <2>1. violations >= MuteThreshold /\ timeouts * MuteThreshold + violations <= offences /\ Acted' = {}
      BY <1>2 DEF ModInv, PaidFor
    <2>2. (timeouts + 1) * MuteThreshold = timeouts * MuteThreshold + MuteThreshold
          /\ timeouts * MuteThreshold \in Nat
      BY ThresholdTyped DEF ModInv, ModTyped
    <2>3. violations \in Nat /\ offences \in Nat
      BY DEF ModInv, ModTyped
    <2>4. timeouts' * MuteThreshold + violations' <= offences'
      BY <1>1, <2>1, <2>2, <2>3, ThresholdTyped
    <2> QED
      BY <2>1, <2>4 DEF PaidFor
  <1> QED
    BY <1>1, <1>2, <1>3, <1>4 DEF ModInv, ModTyped

LEMMA ModStep == ASSUME ModInv, [ModNext]_modVars PROVE ModInv'
  <1>1. ASSUME NEW w \in Watchers, NEW offends \in BOOLEAN, OnMessage(w, offends) PROVE ModInv'
    <2>1. /\ watcher[w] = Watching /\ UNCHANGED <<violations, offences, timeouts, spared, doubled>>
          /\ \E at \in {"watching", "deleting"} : Turn(w, at, 0)
      BY <1>1 DEF OnMessage
    <2>2. ~(watcher[w].count >= MuteThreshold)
      BY <2>1, ThresholdTyped DEF Watching
    <2> QED
      BY <2>1, <2>2, WatcherRests
  <1>2. ASSUME NEW w \in Watchers, Warned(w) PROVE ModInv'
    <2>1. /\ watcher[w].at = "warning" /\ UNCHANGED <<violations, offences, timeouts, doubled>>
          /\ \/ /\ Turn(w, "muting", watcher[w].count) /\ spared' = spared
                /\ watcher[w].count >= MuteThreshold
             \/ /\ Turn(w, "watching", 0) /\ (spared => spared')
                /\ watcher[w].count >= MuteThreshold => spared'
      BY <1>2, DecidesMoves DEF Warned
    <2>2. watcher[w].count \in Nat
      BY DEF ModInv, ModTyped, WatchersTyped
    <2> QED
      BY <2>1, <2>2, WatcherActs, WatcherRests DEF ModInv
  <1>3. ASSUME NEW w \in Watchers, Breaks(w) PROVE ModInv'
    <2>1. /\ UNCHANGED <<violations, offences, timeouts, doubled>> /\ Turn(w, "watching", 0)
          /\ spared' = (spared \/ watcher[w].count >= MuteThreshold)
      BY <1>3 DEF Breaks, Turn, Watching
    <2> QED
      BY <2>1, WatcherRests
  <1>4. ASSUME UNCHANGED <<violations, watcher, offences, timeouts, spared, doubled>> PROVE ModInv'
    BY <1>4 DEF ModInv, ModTyped, WatchersTyped, LeftOver, PaidFor, Acted
  <1> QED
    BY <1>1, <1>2, <1>3, <1>4, ViolationCounted, TimedOut DEF ModNext, Toggle, SetsInterval, Forgets, ModTick, modVars

\* Enough violations time the member out, and each time-out has its own, for any number
\* of handlers of a guild's messages that overlap, fail, or are reconfigured meanwhile.
THEOREM MutedOnTime == ModSpec => []MutedInTime
  <1>1. ModInit => ModInv
    <2> SUFFICES ASSUME ModInit PROVE ModInv
      OBVIOUS
    <2>1. Acted = {}
      BY ThresholdTyped DEF ModInit, Watching, Acted
    <2>2. 0 < MuteThreshold + Cardinality(Acted) /\ 0 * MuteThreshold + 0 <= 0
      BY ThresholdTyped, ActedFinite
    <2> QED
      BY <2>1, <2>2 DEF ModInit, Watching, ModInv, ModTyped, WatchersTyped, LeftOver, PaidFor
  <1>2. ModInv => MutedInTime
    <2> SUFFICES ASSUME ModInv PROVE MutedInTime
      OBVIOUS
    <2>1. timeouts * MuteThreshold \in Nat
      BY ThresholdTyped DEF ModInv, ModTyped
    <2> QED
      BY <2>1 DEF ModInv, ModTyped, LeftOver, PaidFor, MutedInTime
  <1>3. ModInv /\ [ModNext]_modVars => ModInv'
    BY ModStep
  <1> QED
    BY <1>1, <1>2, <1>3, PTL DEF ModSpec

-----------------------------------------------------------------------------
(* AutoMod: the messages *)

\* The tracker lacks no message that is younger than what it remembers.
MessagesCovered ==
    /\ now \in Nat /\ interval \in SpamIntervals /\ DOMAIN watcher = Watchers
    /\ Covers(tracked, sent, SpamMemory, now)

\* A message that is one too many has its handler delete it.
SpamStep ==
    sent' # sent /\ Spam(sent', Remembered) =>
      \E w \in Watchers : watcher[w] = Watching /\ watcher'[w].at = "deleting"

LEMMA MessagesKept == ASSUME MessagesCovered, [ModNext]_modVars PROVE MessagesCovered' /\ SpamStep
  <1>1. /\ now \in Nat /\ interval \in Nat /\ SpamMemory \in Nat /\ SpamThreshold \in Nat
        /\ Remembered \in Nat /\ Remembered <= interval /\ Remembered <= SpamMemory
    BY AutoModAssumption DEF MessagesCovered, Remembered
  <1>2. ASSUME NEW w \in Watchers, NEW offends \in BOOLEAN, OnMessage(w, offends) PROVE MessagesCovered' /\ SpamStep
    <2>1. watcher[w] = Watching /\ UNCHANGED <<now, interval>> /\ DOMAIN watcher' = Watchers
      BY <1>2 DEF OnMessage, Turn, MessagesCovered
    <2>2. CASE "anti_spam" \in settings
      <3> DEFINE recent == Append(tracked, now)
                 all == Append(sent, now)
      <3>1. tracked \in Seq(Nat) /\ recent # tracked
        <4>1. tracked \in Seq(Nat)
          BY DEF MessagesCovered, Covers
        <4>2. Len(recent) = Len(tracked) + 1 /\ Len(tracked) \in Nat
          BY <4>1
        <4> QED
          BY <4>1, <4>2
      <3>2. /\ tracked' = recent /\ sent' = all
            /\ Turn(w, IF (recent # tracked /\ Spam(recent, interval)) \/ offends THEN "deleting" ELSE "watching", 0)
        BY <1>2, <2>2, <3>1 DEF OnMessage
      <3>3. Covers(recent, all, SpamMemory, now)
        BY <1>1, CoversAppend DEF MessagesCovered
      <3>4. Spam(all, Remembered) => Spam(recent, interval)
        <4>1. Covers(recent, all, Remembered, now) /\ recent \in Seq(Nat)
          BY <1>1, <3>3, CoversLess DEF Covers
        <4>2. Recent(all, Remembered) = Recent(recent, Remembered)
          BY <1>1, <4>1, CoversRecent
        <4>3. /\ Recent(recent, Remembered) <= Recent(recent, interval)
              /\ Recent(recent, Remembered) \in Nat /\ Recent(recent, interval) \in Nat
          BY <1>1, <4>1, RecentMore
        <4> QED
          BY <1>1, <4>2, <4>3 DEF Spam
      <3> HIDE DEF recent, all
      <3>5. Spam(all, Remembered) => watcher'[w].at = "deleting"
        BY <3>1, <3>2, <3>4 DEF Turn, MessagesCovered
      <3>6. SpamStep
        BY <2>1, <3>2, <3>5 DEF SpamStep
      <3>7. MessagesCovered'
        BY <1>1, <2>1, <3>2, <3>3 DEF MessagesCovered, Covers, Ordered
      <3> QED
        BY <3>6, <3>7
    <2>3. CASE "anti_spam" \notin settings
      <3>1. UNCHANGED <<tracked, sent>>
        BY <1>2, <2>3 DEF OnMessage
      <3> QED
        BY <2>1, <3>1 DEF MessagesCovered, Covers, Ordered, SpamStep
    <2> QED
      BY <2>2, <2>3
  <1>3. ASSUME UNCHANGED <<now, sent>>, interval' \in SpamIntervals, Covers(tracked', sent, SpamMemory, now), DOMAIN watcher' = Watchers
        PROVE  MessagesCovered' /\ SpamStep
    BY <1>3 DEF MessagesCovered, Covers, Ordered, SpamStep
  <1>4. ASSUME NEW w \in Watchers, CountsViolation(w) \/ Warned(w) \/ TimesMemberOut(w) \/ Breaks(w)
        PROVE  MessagesCovered' /\ SpamStep
    <2>1. UNCHANGED <<now, interval, tracked, sent>>
      BY <1>4 DEF CountsViolation, Warned, TimesMemberOut, Breaks
    <2>2. DOMAIN watcher' = Watchers
      BY <1>4 DEF CountsViolation, Warned, TimesMemberOut, Breaks, Decides, Turn, MessagesCovered
    <2> QED
      BY <1>3, <2>1, <2>2 DEF MessagesCovered
  <1>5. CASE Forgets
    <2>1. Covers(tracked', sent, SpamMemory, now)
      BY <1>1, <1>5, CoversYounger DEF Forgets, MessagesCovered
    <2> QED
      BY <1>3, <1>5, <2>1 DEF Forgets, MessagesCovered
  <1>6. CASE ModTick
    <2>1. now' = now + 1 /\ UNCHANGED <<interval, tracked, sent, watcher>>
      BY <1>6 DEF ModTick, Tick
    <2>2. Covers(tracked, sent, SpamMemory, now + 1)
      BY <1>1, CoversLater DEF MessagesCovered
    <2>3. now + 1 \in Nat
      BY <1>1
    <2>4. MessagesCovered'
      BY <2>1, <2>2, <2>3 DEF MessagesCovered, Covers, Ordered
    <2> QED
      BY <2>1, <2>4 DEF SpamStep
  <1>7. CASE \/ \E feature \in Features : Toggle(feature)
             \/ \E length \in SpamIntervals : SetsInterval(length)
             \/ UNCHANGED modVars
    BY <1>3, <1>7 DEF Toggle, SetsInterval, modVars, MessagesCovered
  <1> QED
    BY <1>2, <1>4, <1>5, <1>6, <1>7 DEF ModNext

\* The message that makes it too many in the interval is acted on, whatever was forgotten,
\* as far as the tracker remembers the interval.
THEOREM SpamActedOn == ModSpec => SpamNoticed
  <1>1. ModInit => MessagesCovered
    BY CoversNothing DEF ModInit, MessagesCovered
  <1>2. MessagesCovered /\ [ModNext]_modVars =>
          MessagesCovered' /\ [sent' # sent /\ Spam(sent', Remembered) =>
              \E w \in Watchers : watcher[w] = Watching /\ watcher'[w].at = "deleting"]_modVars
    BY MessagesKept DEF SpamStep
  <1> QED
    BY <1>1, <1>2, PTL DEF ModSpec, SpamNoticed

-----------------------------------------------------------------------------
(* AntiNuke *)

\* Of what cannot happen to one target twice: the i-th entry has target i, and its event
\* waits for a handler at most once.
Waiting(u) == {i \in ActsOf(u) : events[i] = 1}

Targeted ==
    /\ Len(audit) \in Nat /\ DOMAIN audit = 1 .. Len(audit)
    /\ \A i \in DOMAIN audit : audit[i].target = i /\ audit[i].by \in NukeUsers /\ i \in Targets
    /\ events \in [Targets -> {0, 1}]
    /\ \A x \in Targets : events[x] = 1 => x \in DOMAIN audit

\* Nobody has more actions counted than entries whose event has been handled, and who
\* is punished has entries enough.
Counted ==
    /\ DOMAIN actions = NukeUsers
    /\ \A u \in NukeUsers : actions[u] \in Seq(Nat)
    /\ \A u \in NukeUsers : Len(actions[u]) + Cardinality(Waiting(u)) <= Cardinality(ActsOf(u))
    /\ \A u \in punished : Cardinality(ActsOf(u)) >= ActThreshold
    /\ now \in Nat

NukeInv == kind \in OneTarget => Targeted /\ Counted

LEMMA ActsFinite ==
    ASSUME Targeted, NEW u
    PROVE  /\ IsFiniteSet(ActsOf(u)) /\ Cardinality(ActsOf(u)) \in Nat /\ ActsOf(u) \subseteq DOMAIN audit
           /\ IsFiniteSet(Waiting(u)) /\ Cardinality(Waiting(u)) \in Nat
  <1>1. ActsOf(u) \subseteq 1 .. Len(audit) /\ Waiting(u) \subseteq 1 .. Len(audit)
    BY DEF Targeted, ActsOf, Waiting
  <1>2. IsFiniteSet(1 .. Len(audit))
    BY FS_Interval DEF Targeted
  <1>3. IsFiniteSet(ActsOf(u)) /\ IsFiniteSet(Waiting(u))
    BY <1>1, <1>2, FS_Subset
  <1> QED
    BY <1>1, <1>3, FS_CardinalityType DEF Targeted

\* A moderator acts on a new target.
LEMMA ActsStep == ASSUME NukeInv, kind \in OneTarget, NEW u \in NukeUsers, Acts(u) PROVE Targeted' /\ Counted'
  <1> DEFINE n == Len(audit) + 1
  <1>1. Targeted /\ Counted
    BY DEF NukeInv
  <1>2. PICK target \in Targets :
          /\ target > Len(audit) /\ target <= Len(audit) + 1
          /\ audit' = Append(audit, [by |-> u, at |-> now, target |-> target])
          /\ events' = [events EXCEPT ![target] = @ + 1]
          /\ UNCHANGED <<now, kind, actions, trusted, punished>>
    <2>1. Targets \subseteq Nat /\ Len(audit) \in Nat
      BY <1>1, AntiNukeAssumption DEF Targets, Targeted
    <2>2. PICK target \in Targets :
            /\ target <= Len(audit) => kind \notin OneTarget
            /\ target <= Len(audit) + 1
            /\ audit' = Append(audit, [by |-> u, at |-> now, target |-> target])
            /\ events' = [events EXCEPT ![target] = @ + 1]
      BY DEF Acts
    <2>3. UNCHANGED <<now, kind, actions, trusted, punished>>
      BY DEF Acts
    <2>4. target > Len(audit)
      BY <2>1, <2>2
    <2> QED
      BY <2>2, <2>3, <2>4
  <1>3. target = n /\ n \in Nat /\ Len(audit) \in Nat /\ n \in Targets
    <2>1. target \in Nat /\ Len(audit) \in Nat
      BY <1>1, AntiNukeAssumption DEF Targets, Targeted
    <2> QED
      BY <1>2, <2>1
  <1>4. /\ Len(audit') = n /\ DOMAIN audit' = 1 .. n
        /\ \A i \in DOMAIN audit : audit'[i] = audit[i]
        /\ audit'[n] = [by |-> u, at |-> now, target |-> n]
    BY <1>1, <1>2, <1>3 DEF Targeted
  <1>5. n \notin DOMAIN audit /\ DOMAIN audit' = DOMAIN audit \cup {n} /\ events[n] = 0
    BY <1>1, <1>3, <1>4 DEF Targeted
  <1> HIDE DEF n
  <1>6. events' \in [Targets -> {0, 1}] /\ events'[n] = 1 /\ \A x \in Targets \ {n} : events'[x] = events[x]
    BY <1>1, <1>2, <1>3, <1>5 DEF Targeted
  <1>7. Targeted'
    <2>1. ASSUME NEW i \in DOMAIN audit'
          PROVE  audit'[i].target = i /\ audit'[i].by \in NukeUsers /\ i \in Targets
      <3>1. CASE i \in DOMAIN audit
        BY <1>1, <1>4, <3>1 DEF Targeted
      <3>2. CASE i = n
        BY <1>3, <1>4, <3>2
      <3> QED
        BY <1>5, <3>1, <3>2
    <2>2. \A x \in Targets : events'[x] = 1 => x \in DOMAIN audit'
      BY <1>1, <1>5, <1>6 DEF Targeted
    <2> QED
      BY <1>3, <1>4, <1>6, <2>1, <2>2 DEF Targeted, Targets
  <1>8. ASSUME NEW v PROVE /\ v # u => ActsOf(v)' = ActsOf(v) /\ Waiting(v)' = Waiting(v)
                           /\ v = u => ActsOf(v)' = ActsOf(v) \cup {n} /\ Waiting(v)' = Waiting(v) \cup {n}
    <2>1. \A i \in DOMAIN audit : audit'[i].by = audit[i].by /\ (events'[i] = 1 <=> events[i] = 1)
      BY <1>1, <1>4, <1>5, <1>6 DEF Targeted
    <2>2. audit'[n].by = u /\ events'[n] = 1
      BY <1>4, <1>6
    <2>3. /\ v # u => ActsOf(v)' = ActsOf(v)
          /\ v = u => ActsOf(v)' = ActsOf(v) \cup {n}
      BY <1>5, <2>1, <2>2 DEF ActsOf
    <2>4. ActsOf(v) \subseteq DOMAIN audit
      BY DEF ActsOf
    <2> QED
      BY <1>5, <2>1, <2>2, <2>3, <2>4 DEF Waiting
  <1>9. ASSUME NEW v
        PROVE  /\ Cardinality(ActsOf(v)') = Cardinality(ActsOf(v)) + (IF v = u THEN 1 ELSE 0)
               /\ Cardinality(Waiting(v)') = Cardinality(Waiting(v)) + (IF v = u THEN 1 ELSE 0)
    <2>1. n \notin ActsOf(v) /\ n \notin Waiting(v)
      BY <1>5 DEF ActsOf, Waiting
    <2>2. CASE v = u
      BY <1>1, <1>8, <2>1, <2>2, ActsFinite, FS_AddElement
    <2>3. CASE v # u
      <3>1. Cardinality(ActsOf(v)) \in Nat /\ Cardinality(Waiting(v)) \in Nat
        BY <1>1, ActsFinite
      <3> QED
        BY <1>8, <2>3, <3>1
    <2> QED
      BY <2>2, <2>3
  <1>10. \A v \in NukeUsers : Len(actions'[v]) + Cardinality(Waiting(v)') <= Cardinality(ActsOf(v)')
    <2> SUFFICES ASSUME NEW v \in NukeUsers
                 PROVE  Len(actions[v]) + Cardinality(Waiting(v)') <= Cardinality(ActsOf(v)')
      BY <1>2
    <2>1. /\ Len(actions[v]) + Cardinality(Waiting(v)) <= Cardinality(ActsOf(v)) /\ Len(actions[v]) \in Nat
      BY <1>1 DEF Counted
    <2>2. Cardinality(ActsOf(v)) \in Nat /\ Cardinality(Waiting(v)) \in Nat
      BY <1>1, ActsFinite
    <2> QED
      BY <1>9, <2>1, <2>2
  <1>11. \A v \in punished' : Cardinality(ActsOf(v)') >= ActThreshold
    <2> SUFFICES ASSUME NEW v \in punished PROVE Cardinality(ActsOf(v)') >= ActThreshold
      BY <1>2
    <2>1. Cardinality(ActsOf(v)) \in Nat /\ Cardinality(ActsOf(v)) >= ActThreshold
      BY <1>1, ActsFinite DEF Counted
    <2> QED
      BY <1>9, <2>1, AntiNukeAssumption
  <1>12. Counted'
    BY <1>1, <1>2, <1>10, <1>11 DEF Counted
  <1> QED
    BY <1>7, <1>12

\* A handler asks the log: at most its own event's entry counts, and for it alone.
LEMMA HandlesStep == ASSUME NukeInv, kind \in OneTarget, Handles PROVE Targeted' /\ Counted'
  <1>1. Targeted /\ Counted
    BY DEF NukeInv
  <1>2. PICK target \in Targets, newest \in 0 .. Len(audit) :
          /\ events[target] > 0
          /\ events' = [events EXCEPT ![target] = @ - 1]
          /\ IF newest # 0 /\ Matches(audit[newest], target)
             THEN LET u == audit[newest].by
                      times == Append(actions[u], now)
                  IN  /\ actions' = [actions EXCEPT ![u] = times]
                      /\ \/ Punishes(u, times) /\ punished' = punished \cup {u}
                         \/ UNCHANGED punished
             ELSE UNCHANGED <<actions, punished>>
          /\ UNCHANGED <<now, kind, audit, trusted>>
    BY DEF Handles
  <1>3. events[target] = 1 /\ target \in DOMAIN audit
    BY <1>1, <1>2 DEF Targeted
  <1>4. events' \in [Targets -> {0, 1}] /\ events'[target] = 0 /\ \A x \in Targets \ {target} : events'[x] = events[x]
    BY <1>1, <1>2, <1>3 DEF Targeted
  <1>5. Targeted'
    BY <1>1, <1>2, <1>4 DEF Targeted, Targets
  <1>6. \A v : ActsOf(v)' = ActsOf(v) /\ Waiting(v)' = Waiting(v) \ {target}
    <2>1. \A v : ActsOf(v)' = ActsOf(v)
      BY <1>2 DEF ActsOf
    <2>2. \A v : ActsOf(v) \subseteq Targets
      BY <1>1 DEF ActsOf, Targeted
    <2> QED
      BY <1>4, <2>1, <2>2 DEF Waiting
  <1>7. \A v : /\ Cardinality(Waiting(v)') = Cardinality(Waiting(v)) - (IF target \in Waiting(v) THEN 1 ELSE 0)
               /\ Cardinality(Waiting(v)) \in Nat /\ Cardinality(ActsOf(v)) \in Nat
    BY <1>1, <1>6, ActsFinite, FS_RemoveElement
  <1>8. CASE newest # 0 /\ Matches(audit[newest], target)
    <2>1. newest = target
      BY <1>1, <1>8 DEF Matches, ChecksTarget, OneTarget, Targeted
    <2>2. PICK u : u = audit[target].by
      OBVIOUS
    <2>3. /\ actions' = [actions EXCEPT ![u] = Append(actions[u], now)]
          /\ \/ Punishes(u, Append(actions[u], now)) /\ punished' = punished \cup {u}
             \/ punished' = punished
      BY <1>2, <1>8, <2>1, <2>2
    <2>4. target \in Waiting(u)
      BY <1>3, <2>2 DEF Waiting, ActsOf
    <2>5. CASE u \in NukeUsers
      <3>1. actions[u] \in Seq(Nat) /\ now \in Nat /\ DOMAIN actions = NukeUsers
        BY <1>1, <2>5 DEF Counted
      <3> DEFINE times == Append(actions[u], now)
      <3>2. times \in Seq(Nat) /\ Len(times) = Len(actions[u]) + 1 /\ Len(actions[u]) \in Nat
        BY <3>1
      <3>3. Len(times) + Cardinality(Waiting(u)') <= Cardinality(ActsOf(u))
        <4>1. Len(actions[u]) + Cardinality(Waiting(u)) <= Cardinality(ActsOf(u))
          BY <1>1, <2>5 DEF Counted
        <4> QED
          BY <1>7, <2>4, <3>2, <4>1
      <3>4. Recent(times, ActWindow) <= Len(times) /\ Recent(times, ActWindow) \in Nat
        <4>1. {i \in DOMAIN times : times[i] + ActWindow > now} \subseteq 1 .. Len(times)
          BY <3>2
        <4>2. IsFiniteSet(1 .. Len(times)) /\ Cardinality(1 .. Len(times)) = Len(times)
          <5> HIDE DEF times
          <5>1. 1 \in Int /\ Len(times) \in Int /\ Len(times) \in Nat
            BY <3>2
          <5>2. /\ IsFiniteSet(1 .. Len(times))
                /\ Cardinality(1 .. Len(times)) = IF 1 > Len(times) THEN 0 ELSE Len(times) - 1 + 1
            BY <5>1, FS_Interval
          <5> QED
            BY <5>1, <5>2
        <4> QED
          BY <4>1, <4>2, FS_Subset, FS_CardinalityType DEF Recent
      <3> HIDE DEF times
      <3>5. Recent(times, ActWindow) >= ActThreshold => Cardinality(ActsOf(u)) >= ActThreshold
        <4>1. Cardinality(Waiting(u)') \in Nat
          BY <1>7, <2>4, <1>5, ActsFinite, <1>1, <1>6, FS_RemoveElement, FS_CardinalityType
        <4> QED
          BY <1>7, <3>2, <3>3, <3>4, <4>1, AntiNukeAssumption
      <3>6. \A v \in punished' : Cardinality(ActsOf(v)) >= ActThreshold
        BY <1>1, <2>3, <3>5 DEF Counted, Punishes, times
      <3>7. /\ DOMAIN actions' = NukeUsers /\ actions'[u] = times
            /\ \A v \in NukeUsers \ {u} : actions'[v] = actions[v]
        BY <2>3, <2>5, <3>1 DEF times
      <3>8. \A v \in NukeUsers : /\ actions'[v] \in Seq(Nat)
                                 /\ Len(actions'[v]) + Cardinality(Waiting(v)') <= Cardinality(ActsOf(v)')
        <4> SUFFICES ASSUME NEW v \in NukeUsers, v # u
                     PROVE  /\ actions'[v] \in Seq(Nat)
                            /\ Len(actions'[v]) + Cardinality(Waiting(v)') <= Cardinality(ActsOf(v)')
          BY <1>6, <3>2, <3>3, <3>7
        <4>1. /\ actions'[v] = actions[v] /\ actions[v] \in Seq(Nat)
              /\ Len(actions[v]) + Cardinality(Waiting(v)) <= Cardinality(ActsOf(v)) /\ Len(actions[v]) \in Nat
          BY <1>1, <3>7 DEF Counted
        <4> QED
          BY <1>6, <1>7, <4>1
      <3> QED
        BY <1>1, <1>2, <1>5, <1>6, <3>6, <3>7, <3>8 DEF Counted
    <2>6. CASE u \notin NukeUsers
      BY <1>1, <1>3, <2>2, <2>6 DEF Targeted
    <2> QED
      BY <2>5, <2>6
  <1>9. CASE ~(newest # 0 /\ Matches(audit[newest], target))
    <2>1. UNCHANGED <<actions, punished>>
      BY <1>2, <1>9
    <2>2. \A v \in NukeUsers : Len(actions[v]) + Cardinality(Waiting(v)') <= Cardinality(ActsOf(v))
      <3> SUFFICES ASSUME NEW v \in NukeUsers
                   PROVE  Len(actions[v]) + Cardinality(Waiting(v)') <= Cardinality(ActsOf(v))
        OBVIOUS
      <3>1. Len(actions[v]) + Cardinality(Waiting(v)) <= Cardinality(ActsOf(v)) /\ Len(actions[v]) \in Nat
        BY <1>1 DEF Counted
      <3> QED
        BY <1>7, <3>1
    <2> QED
      BY <1>1, <1>2, <1>5, <1>6, <2>1, <2>2 DEF Counted
  <1> QED
    BY <1>8, <1>9

LEMMA NukeChange ==
    ASSUME NukeInv, [NukeNext]_nukeVars
    PROVE  NukeInv'
  <1>1. kind' = kind
    BY DEF NukeNext, nukeVars, Acts, Trusts, Leaves, Handles, CleansUp, NukeTick
  <1>2. SUFFICES ASSUME kind \in OneTarget PROVE Targeted' /\ Counted'
    BY <1>1 DEF NukeInv, OneTarget
  <1>3. Targeted /\ Counted
    BY <1>2 DEF NukeInv
  <1>4. ASSUME NEW u \in NukeUsers, Acts(u) PROVE Targeted' /\ Counted'
    BY <1>2, <1>4, ActsStep
  <1>5. CASE Handles
    BY <1>2, <1>5, HandlesStep
  <1>6. ASSUME UNCHANGED <<kind, audit, events, punished>>, now' \in Nat, DOMAIN actions' = NukeUsers,
               \A u \in NukeUsers : actions'[u] \in Seq(Nat) /\ Len(actions'[u]) <= Len(actions[u])
        PROVE  Targeted' /\ Counted'
    <2>1. Targeted'
      BY <1>3, <1>6 DEF Targeted, Targets
    <2>2. \A u : ActsOf(u)' = ActsOf(u) /\ Waiting(u)' = Waiting(u)
      BY <1>6 DEF ActsOf, Waiting
    <2>3. ASSUME NEW u \in NukeUsers
          PROVE  Len(actions'[u]) + Cardinality(Waiting(u)) <= Cardinality(ActsOf(u))
      <3>1. Len(actions[u]) \in Nat /\ Len(actions'[u]) \in Nat
        BY <1>3, <1>6 DEF Counted
      <3>2. Cardinality(Waiting(u)) \in Nat /\ Cardinality(ActsOf(u)) \in Nat
        BY <1>3, ActsFinite
      <3>3. Len(actions[u]) + Cardinality(Waiting(u)) <= Cardinality(ActsOf(u))
        BY <1>3 DEF Counted
      <3> QED
        BY <1>6, <3>1, <3>2, <3>3
    <2> QED
      BY <1>3, <1>6, <2>1, <2>2, <2>3 DEF Counted
  <1>7. CASE CleansUp
    <2>1. ASSUME NEW u \in NukeUsers
          PROVE  Younger(actions[u], ActMemory) \in Seq(Nat) /\ Len(Younger(actions[u], ActMemory)) <= Len(actions[u])
      BY <1>3, YoungerShorter, AntiNukeAssumption DEF Counted
    <2>2. /\ UNCHANGED <<now, kind, audit, events, punished>>
          /\ actions' = [u \in NukeUsers |-> Younger(actions[u], ActMemory)]
      BY <1>7 DEF CleansUp
    <2>3. now' \in Nat
      BY <1>3, <2>2 DEF Counted
    <2> QED
      BY <1>6, <2>1, <2>2, <2>3
  <1>8. CASE Leaves
    BY <1>2, <1>8 DEF Leaves, OneTarget
  <1>9. CASE (\E u \in NukeUsers : Trusts(u)) \/ NukeTick \/ UNCHANGED nukeVars
    <2>1. UNCHANGED <<kind, audit, events, punished, actions>>
      BY <1>9 DEF Trusts, NukeTick, nukeVars
    <2>2. now' \in Nat
      BY <1>3, <1>9 DEF Trusts, NukeTick, Tick, nukeVars, Counted
    <2>3. \A u \in NukeUsers : actions[u] \in Seq(Nat) /\ Len(actions[u]) <= Len(actions[u])
      BY <1>3 DEF Counted
    <2> QED
      BY <1>3, <1>6, <2>1, <2>2, <2>3 DEF Counted
  <1> QED
    BY <1>4, <1>5, <1>7, <1>8, <1>9 DEF NukeNext

\* Who is punished, for what cannot happen to one target twice, has done it as often as
\* the limit says: no handler counts an entry that is not its own event's, nor counts it
\* twice, however late it asks.
THEOREM PunishedJustly == NukeSpec => []PunishedForOwnActs
  <1>1. NukeInit => NukeInv
    <2> SUFFICES ASSUME NukeInit PROVE Targeted /\ Counted
      BY DEF NukeInv
    <2>1. Targeted
      BY DEF NukeInit, Targeted
    <2>2. \A u \in NukeUsers : ActsOf(u) = {} /\ Waiting(u) = {} /\ actions[u] = <<>>
      BY DEF NukeInit, ActsOf, Waiting
    <2>3. <<>> \in Seq(Nat) /\ Len(<<>>) = 0 /\ Cardinality({}) = 0
      BY FS_EmptySet
    <2>4. \A u \in NukeUsers : Len(actions[u]) + Cardinality(Waiting(u)) <= Cardinality(ActsOf(u))
      BY <2>2, <2>3
    <2> QED
      BY <2>1, <2>2, <2>3, <2>4 DEF NukeInit, Counted
  <1>2. NukeInv /\ [NukeNext]_nukeVars => NukeInv'
    BY NukeChange
  <1>3. NukeInv => PunishedForOwnActs
    BY DEF NukeInv, Counted, PunishedForOwnActs
  <1> QED
    BY <1>1, <1>2, <1>3, PTL DEF NukeSpec

-----------------------------------------------------------------------------
(* Cooldown: the arithmetic of the bucket *)

\* What flows in, and what so many uses take.
Flow(time) == time * BucketRate
Parts(n)   == n * BucketPer

LEMMA FlowFacts ==
    /\ BucketPer \in Nat /\ BucketPer >= 1 /\ Full \in Nat /\ Full >= BucketPer
    /\ \A d \in Nat : Flow(d) \in Nat /\ Parts(d) \in Nat
    /\ \A d, e \in Nat : Flow(d + e) = Flow(d) + Flow(e)
    /\ \A n \in Nat : Parts(n + 1) = Parts(n) + BucketPer
    /\ Flow(BucketPer) = Full /\ Flow(0) = 0 /\ Parts(0) = 0
  <1>1. BucketRate \in Nat /\ BucketPer \in Nat /\ BucketRate >= 1 /\ BucketPer >= 1
    BY CooldownAssumption
  <1>2. \A d \in Nat : d * BucketRate \in Nat /\ d * BucketPer \in Nat
    BY <1>1
  <1>3. \A d, e \in Nat : (d + e) * BucketRate = d * BucketRate + e * BucketRate
    BY <1>1
  <1>4. \A n \in Nat : (n + 1) * BucketPer = n * BucketPer + BucketPer
    BY <1>1
  <1>5. BucketPer * BucketRate = Full /\ Full \in Nat
    BY <1>1 DEF Full
  <1>6. Full >= BucketPer
    <2>1. PICK r \in Nat : BucketRate = r + 1
      <3>1. BucketRate - 1 \in Nat /\ BucketRate = (BucketRate - 1) + 1
        BY <1>1
      <3> QED
        BY <3>1
    <2>2. Full = r * BucketPer + BucketPer /\ r * BucketPer \in Nat
      BY <1>1, <1>4, <1>2, <2>1 DEF Full
    <2> QED
      BY <1>1, <2>2
  <1>7. 0 * BucketRate = 0 /\ 0 * BucketPer = 0
    BY <1>1
  <1> QED
    BY <1>1, <1>2, <1>3, <1>4, <1>5, <1>6, <1>7 DEF Flow, Parts

\* Less time, less in the bucket; more uses, more taken.
LEMMA FlowGrows ==
    ASSUME NEW d \in Nat, NEW e \in Nat, d <= e
    PROVE  Flow(d) \in Nat /\ Flow(e) \in Nat /\ Flow(d) <= Flow(e)
  <1>1. e - d \in Nat /\ e = d + (e - d)
    OBVIOUS
  <1>2. Flow(d + (e - d)) = Flow(d) + Flow(e - d) /\ Flow(e - d) \in Nat /\ Flow(d) \in Nat
    BY <1>1, FlowFacts
  <1> QED
    BY <1>1, <1>2

LEMMA PartsGrow ==
    ASSUME NEW d \in Nat, NEW e \in Nat, d <= e
    PROVE  Parts(d) \in Nat /\ Parts(e) \in Nat /\ Parts(d) <= Parts(e)
  <1>1. e - d \in Nat /\ e = d + (e - d) /\ BucketPer \in Nat
    BY FlowFacts
  <1>2. (d + (e - d)) * BucketPer = d * BucketPer + (e - d) * BucketPer
    BY <1>1
  <1>3. Parts(e) = Parts(d) + Parts(e - d)
    BY <1>1, <1>2 DEF Parts
  <1>4. Parts(d) \in Nat /\ Parts(e - d) \in Nat
    BY <1>1, FlowFacts
  <1> QED
    BY <1>3, <1>4

-----------------------------------------------------------------------------
(* Cooldown: the buckets *)

BucketTyped ==
    /\ now \in Nat /\ now >= 1
    /\ uses \in Seq(Nat) /\ Ordered(uses) /\ \A i \in DOMAIN uses : uses[i] <= now
    /\ bucket \in [tokens : Nat, last : Nat] /\ bucket.tokens <= Full /\ bucket.last <= now

\* What the uses since one of them have taken and what is left in the bucket came from a
\* full bucket and what has flowed in since.
LeftInBucket ==
    bucket # NoBucket =>
        \A i \in DOMAIN uses :
            /\ uses[i] <= bucket.last
            /\ Parts(Len(uses) - i + 1) + bucket.tokens <= Full + Flow(bucket.last - uses[i])

\* A bucket is dropped no sooner than it is full.
DroppedFull ==
    bucket = NoBucket => \A i \in DOMAIN uses : Parts(Len(uses) - i + 1) <= Flow(now - uses[i])

UsesPaid ==
    \A i, j \in DOMAIN uses : i <= j => Parts(j - i + 1) <= Full + Flow(uses[j] - uses[i])

BucketInv == BucketTyped /\ LeftInBucket /\ DroppedFull /\ UsesPaid

LEMMA UsesTyped ==
    ASSUME BucketTyped
    PROVE  /\ DOMAIN uses = 1 .. Len(uses) /\ Len(uses) \in Nat
           /\ \A i \in DOMAIN uses : /\ uses[i] \in Nat /\ now - uses[i] \in Nat
                                     /\ Len(uses) - i + 1 \in Nat
           /\ NoBucket \in [tokens : Nat, last : Nat]
  BY DEF BucketTyped, NoBucket

\* A look, or the bucket a check begins with.
Looked == Refilled(IF bucket = NoBucket THEN [tokens |-> Full, last |-> now] ELSE bucket)

LEMMA LookPays ==
    ASSUME BucketInv
    PROVE  /\ Looked \in [tokens : Nat, last : Nat] /\ Looked.tokens <= Full /\ Looked.last = now
           /\ \A i \in DOMAIN uses :
                 Parts(Len(uses) - i + 1) + Looked.tokens <= Full + Flow(now - uses[i])
  <1> DEFINE b == IF bucket = NoBucket THEN [tokens |-> Full, last |-> now] ELSE bucket
             level == b.tokens + Flow(now - b.last)
  <1>1. BucketTyped
    BY DEF BucketInv
  <1>2. b \in [tokens : Nat, last : Nat] /\ b.tokens <= Full /\ b.last <= now
    BY <1>1, FlowFacts DEF BucketTyped
  <1>3. now \in Nat /\ b.tokens \in Nat /\ b.last \in Nat /\ now - b.last \in Nat
    BY <1>1, <1>2 DEF BucketTyped
  <1>4. Looked = [tokens |-> AtMost(Full, level), last |-> now]
    BY DEF Looked, Refilled, Flow
  <1> HIDE DEF b
  <1>5. level \in Nat
    <2>1. Flow(now - b.last) \in Nat
      BY <1>3, FlowFacts
    <2> QED
      BY <1>3, <2>1
  <1>6. AtMost(Full, level) \in Nat /\ AtMost(Full, level) <= Full /\ AtMost(Full, level) <= level
    <2> HIDE DEF level
    <2>1. Full \in Nat
      BY FlowFacts
    <2> QED
      BY <1>5, <2>1 DEF AtMost
  <1>7. ASSUME NEW i \in DOMAIN uses
        PROVE  Parts(Len(uses) - i + 1) + AtMost(Full, level) <= Full + Flow(now - uses[i])
    <2>1. /\ Parts(Len(uses) - i + 1) \in Nat /\ Flow(now - uses[i]) \in Nat /\ Full \in Nat
          /\ uses[i] \in Nat
      BY <1>1, UsesTyped, FlowFacts
    <2>2. CASE bucket = NoBucket
      <3>1. Parts(Len(uses) - i + 1) <= Flow(now - uses[i])
        BY <2>2 DEF BucketInv, DroppedFull
      <3> HIDE DEF level
      <3> QED
        BY <1>6, <2>1, <3>1
    <2>3. CASE bucket # NoBucket
      <3>1. b = bucket
        BY <2>3 DEF b
      <3>2. /\ uses[i] <= b.last
            /\ Parts(Len(uses) - i + 1) + b.tokens <= Full + Flow(b.last - uses[i])
        BY <2>3, <3>1 DEF BucketInv, LeftInBucket
      <3>3. b.last - uses[i] \in Nat /\ now - uses[i] = (b.last - uses[i]) + (now - b.last)
        BY <1>3, <2>1, <3>2
      <3>4. /\ Flow(now - uses[i]) = Flow(b.last - uses[i]) + Flow(now - b.last)
            /\ Flow(b.last - uses[i]) \in Nat /\ Flow(now - b.last) \in Nat
        <4> DEFINE d == b.last - uses[i]
                   e == now - b.last
        <4>1. d \in Nat /\ e \in Nat /\ now - uses[i] = d + e
          BY <1>3, <3>3
        <4> HIDE DEF d, e
        <4>2. Flow(d + e) = Flow(d) + Flow(e) /\ Flow(d) \in Nat /\ Flow(e) \in Nat
          BY <4>1, FlowFacts
        <4> QED
          BY <4>1, <4>2 DEF d, e
      <3>5. AtMost(Full, level) <= b.tokens + Flow(now - b.last)
        BY <1>6
      <3> DEFINE f == Flow(b.last - uses[i])
                 g == Flow(now - b.last)
                 r == Parts(Len(uses) - i + 1)
                 a == AtMost(Full, level)
                 t == b.tokens
      <3>6. /\ f \in Nat /\ g \in Nat /\ r \in Nat /\ a \in Nat /\ t \in Nat /\ Full \in Nat
            /\ r + t <= Full + f /\ a <= t + g /\ Flow(now - uses[i]) = f + g
        BY <1>3, <1>6, <2>1, <3>2, <3>4, <3>5
      <3> HIDE DEF f, g, r, a, t
      <3>7. r + a <= Full + (f + g)
        BY <3>6
      <3> QED
        BY <3>6, <3>7 DEF r, a
    <2> QED
      BY <2>2, <2>3
  <1> HIDE DEF level
  <1>8. Looked.tokens = AtMost(Full, level) /\ Looked.last = now
    BY <1>4
  <1> QED
    BY <1>3, <1>4, <1>6, <1>7, <1>8

\* A bucket nobody has taken from yet.
LEMMA LookKept == ASSUME BucketInv, bucket' = Looked, UNCHANGED <<now, uses>> PROVE BucketInv'
  <1>1. /\ bucket' \in [tokens : Nat, last : Nat] /\ bucket'.tokens <= Full /\ bucket'.last = now
        /\ \A i \in DOMAIN uses : Parts(Len(uses) - i + 1) + bucket'.tokens <= Full + Flow(now - uses[i])
    BY LookPays
  <1>2. now \in Nat /\ now >= 1 /\ BucketTyped
    BY DEF BucketInv, BucketTyped
  <1>3. BucketTyped'
    BY <1>1, <1>2 DEF BucketTyped, Full, Ordered
  <1>4. bucket' # NoBucket
    BY <1>1, <1>2 DEF NoBucket
  <1>5. LeftInBucket'
    BY <1>1, <1>2, <1>4 DEF LeftInBucket, BucketTyped, Parts, Flow, Full, NoBucket
  <1>6. DroppedFull'
    BY <1>4 DEF DroppedFull, NoBucket
  <1>7. UsesPaid'
    BY DEF BucketInv, UsesPaid, Parts, Flow, Full
  <1> QED
    BY <1>3, <1>5, <1>6, <1>7 DEF BucketInv

\* A use takes a token.
LEMMA UseKept ==
    ASSUME BucketInv, Looked.tokens >= BucketPer, uses' = Append(uses, now), now' = now,
           bucket' = [tokens |-> Looked.tokens - BucketPer, last |-> now]
    PROVE  BucketInv'
  <1> DEFINE n == Len(uses) + 1
             all == Append(uses, now)
             t == Looked.tokens
  <1>1. /\ t \in Nat /\ t <= Full /\ Full \in Nat /\ BucketPer \in Nat
        /\ \A i \in DOMAIN uses : Parts(Len(uses) - i + 1) + t <= Full + Flow(now - uses[i])
    BY LookPays, FlowFacts
  <1>2. BucketTyped /\ now \in Nat /\ now >= 1 /\ DOMAIN uses = 1 .. Len(uses) /\ Len(uses) \in Nat
    BY UsesTyped DEF BucketInv, BucketTyped
  <1>3. /\ all \in Seq(Nat) /\ Len(all) = n /\ DOMAIN all = 1 .. n /\ all[n] = now
        /\ \A i \in DOMAIN uses : all[i] = uses[i]
    BY <1>2 DEF BucketTyped
  <1>4. n \in Nat /\ DOMAIN all = DOMAIN uses \cup {n}
    BY <1>2, <1>3
  <1> HIDE DEF n, all, t
  <1>5. /\ bucket' \in [tokens : Nat, last : Nat] /\ bucket'.tokens = t - BucketPer /\ bucket'.last = now
        /\ bucket' # NoBucket
    <2>1. t - BucketPer \in Nat
      BY <1>1 DEF t
    <2> QED
      BY <1>2, <2>1 DEF NoBucket, t
  <1>6. ASSUME NEW i \in DOMAIN all PROVE all[i] \in Nat /\ all[i] <= now /\ now - all[i] \in Nat
    <2>1. CASE i \in DOMAIN uses
      BY <1>2, <1>3, <2>1, UsesTyped DEF BucketTyped
    <2>2. CASE i = n
      BY <1>2, <1>3, <2>2
    <2> QED
      BY <1>4, <2>1, <2>2
  <1>7. Ordered(all)
    <2> SUFFICES ASSUME NEW i \in DOMAIN all, NEW j \in DOMAIN all, i <= j PROVE all[i] <= all[j]
      BY DEF Ordered
    <2>1. CASE j = n
      BY <1>3, <1>6, <2>1
    <2>2. CASE j # n
      <3>1. i \in DOMAIN uses /\ j \in DOMAIN uses
        BY <1>2, <1>3, <1>4, <2>2 DEF n
      <3> QED
        BY <1>2, <1>3, <3>1 DEF BucketTyped, Ordered
    <2> QED
      BY <2>1, <2>2
  \* What the uses since i take is what they took, and one token.
  <1>8. ASSUME NEW i \in DOMAIN all
        PROVE  Parts(n - i + 1) + (t - BucketPer) <= Full + Flow(now - all[i])
    <2>1. CASE i = n
      <3>1. n - i + 1 = 1 /\ now - all[i] = 0 /\ 0 + 1 = 1
        BY <1>2, <1>3, <1>4, <2>1
      <3>2. Parts(0 + 1) = Parts(0) + BucketPer /\ Parts(0) = 0 /\ Flow(0) = 0
        BY FlowFacts
      <3>3. Parts(n - i + 1) = BucketPer /\ Flow(now - all[i]) = 0
        BY <1>1, <3>1, <3>2
      <3> QED
        BY <1>1, <3>3
    <2>2. CASE i \in DOMAIN uses
      <3>1. Len(uses) - i + 1 \in Nat /\ n - i + 1 = (Len(uses) - i + 1) + 1
        BY <1>2, <2>2 DEF n
      <3>2. /\ Parts((Len(uses) - i + 1) + 1) = Parts(Len(uses) - i + 1) + BucketPer
            /\ Parts(Len(uses) - i + 1) \in Nat
        BY <3>1, FlowFacts
      <3>3. Parts(Len(uses) - i + 1) + t <= Full + Flow(now - all[i])
        BY <1>1, <1>3, <2>2
      <3>4. Flow(now - all[i]) \in Nat
        BY <1>6, FlowFacts
      <3>5. Parts(n - i + 1) = Parts(Len(uses) - i + 1) + BucketPer
        BY <3>1, <3>2
      <3> QED
        BY <1>1, <3>2, <3>3, <3>4, <3>5
    <2> QED
      BY <1>4, <2>1, <2>2
  <1>9. ASSUME NEW i \in DOMAIN all, NEW j \in DOMAIN all, i <= j
        PROVE  Parts(j - i + 1) <= Full + Flow(all[j] - all[i])
    <2>1. CASE j = n
      <3>1. /\ Parts(n - i + 1) + (t - BucketPer) <= Full + Flow(now - all[i])
            /\ t - BucketPer \in Nat /\ all[j] = now /\ n - i + 1 \in Nat
        BY <1>1, <1>3, <1>4, <1>8, <2>1 DEF t
      <3>2. Parts(n - i + 1) \in Nat /\ Flow(now - all[i]) \in Nat
        BY <1>6, <3>1, FlowFacts
      <3> QED
        BY <1>1, <2>1, <3>1, <3>2
    <2>2. CASE j # n
      <3>1. i \in DOMAIN uses /\ j \in DOMAIN uses
        BY <1>2, <1>3, <1>4, <1>9, <2>2 DEF n
      <3> QED
        BY <1>3, <1>9, <3>1 DEF BucketInv, UsesPaid
    <2> QED
      BY <2>1, <2>2
  <1>10. uses' = all /\ now' = now
    BY DEF all
  <1>11. BucketTyped'
    BY <1>1, <1>2, <1>3, <1>5, <1>6, <1>7, <1>10 DEF BucketTyped, Full, Ordered
  <1>12. LeftInBucket'
    <2> SUFFICES ASSUME NEW i \in DOMAIN all
                 PROVE  /\ all[i] <= bucket'.last
                        /\ Parts(Len(all) - i + 1) + bucket'.tokens <= Full + Flow(bucket'.last - all[i])
      BY <1>10 DEF LeftInBucket, Parts, Flow, Full
    <2> QED
      BY <1>3, <1>5, <1>6, <1>8
  <1>13. DroppedFull'
    BY <1>5 DEF DroppedFull, NoBucket
  <1>14. UsesPaid'
    BY <1>9, <1>10 DEF UsesPaid, Parts, Flow, Full
  <1> QED
    BY <1>11, <1>12, <1>13, <1>14 DEF BucketInv

\* The clean-up drops what nobody has looked at for longer than it takes to fill.
LEMMA CleanKept == ASSUME BucketInv, CleansBuckets PROVE BucketInv'
  <1>1. UNCHANGED <<now, uses>>
    BY DEF CleansBuckets
  <1>2. CASE bucket' = bucket
    BY <1>1, <1>2 DEF BucketInv, BucketTyped, LeftInBucket, DroppedFull, UsesPaid, Parts, Flow, Full, NoBucket, Ordered
  <1>3. CASE bucket # NoBucket /\ now - bucket.last > 2 * BucketPer /\ bucket' = NoBucket
    <2>1. BucketTyped /\ now \in Nat /\ bucket.last \in Nat /\ bucket.tokens \in Nat /\ bucket.last <= now
      BY DEF BucketInv, BucketTyped
    <2>2. NoBucket.tokens = 0 /\ NoBucket.last = 0 /\ NoBucket \in [tokens : Nat, last : Nat]
      BY DEF NoBucket
    <2>3. BucketTyped'
      <3>1. Full \in Nat
        BY FlowFacts
      <3> QED
        BY <1>1, <1>3, <2>1, <2>2, <3>1 DEF BucketTyped, Full, Ordered
    <2>4. ASSUME NEW i \in DOMAIN uses PROVE Parts(Len(uses) - i + 1) <= Flow(now - uses[i])
      <3> DEFINE d == bucket.last - uses[i]
                 e == now - bucket.last
      <3>1. /\ uses[i] <= bucket.last /\ uses[i] \in Nat
            /\ Parts(Len(uses) - i + 1) + bucket.tokens <= Full + Flow(d)
        BY <1>3, <2>1, UsesTyped DEF BucketInv, LeftInBucket
      <3>2. Parts(Len(uses) - i + 1) \in Nat /\ Full \in Nat /\ BucketPer \in Nat
        BY <2>1, UsesTyped, FlowFacts
      <3>3. d \in Nat /\ e \in Nat /\ now - uses[i] = d + e /\ BucketPer <= e
        <4>1. \A u \in Nat : u <= bucket.last => /\ bucket.last - u \in Nat /\ now - bucket.last \in Nat
                                                /\ now - u = (bucket.last - u) + (now - bucket.last)
          BY <2>1
        <4>2. now - bucket.last > 2 * BucketPer => BucketPer <= now - bucket.last
          BY <2>1, <3>2
        <4> QED
          BY <1>3, <3>1, <3>2, <4>1, <4>2
      <3> HIDE DEF d, e
      <3>4. Flow(d + e) = Flow(d) + Flow(e) /\ Flow(d) \in Nat /\ Flow(BucketPer) = Full
        BY <3>3, FlowFacts
      <3>5. Flow(BucketPer) <= Flow(e) /\ Flow(e) \in Nat
        BY <3>2, <3>3, FlowGrows
      <3> QED
        BY <2>1, <3>1, <3>2, <3>3, <3>4, <3>5
    <2>5. DroppedFull'
      BY <1>1, <2>4 DEF DroppedFull, Parts, Flow
    <2>6. LeftInBucket'
      BY <1>3 DEF LeftInBucket, NoBucket
    <2>7. UsesPaid'
      BY <1>1 DEF BucketInv, UsesPaid, Parts, Flow, Full
    <2> QED
      BY <2>3, <2>5, <2>6, <2>7 DEF BucketInv
  <1> QED
    BY <1>2, <1>3 DEF CleansBuckets

LEMMA BucketKept == ASSUME BucketInv, [CoolNext]_coolVars PROVE BucketInv'
  <1>1. BucketTyped /\ now \in Nat /\ now >= 1
    BY DEF BucketInv, BucketTyped
  <1>2. CASE Checks
    <2> DEFINE b == Refilled(IF bucket = NoBucket THEN [tokens |-> Full, last |-> now] ELSE bucket)
    <2>1. b = Looked
      BY DEF Looked
    <2>2. /\ UNCHANGED now
          /\ IF b.tokens >= BucketPer
             THEN bucket' = [b EXCEPT !.tokens = b.tokens - BucketPer] /\ uses' = Append(uses, now)
             ELSE bucket' = b /\ UNCHANGED uses
      BY <1>2 DEF Checks
    <2> HIDE DEF b
    <2>3. Looked \in [tokens : Nat, last : Nat] /\ Looked.last = now
      BY LookPays
    <2>4. CASE b.tokens >= BucketPer
      <3>1. bucket' = [tokens |-> Looked.tokens - BucketPer, last |-> now]
        BY <2>1, <2>2, <2>3, <2>4
      <3> QED
        BY <2>1, <2>2, <2>4, <3>1, UseKept
    <2>5. CASE ~(b.tokens >= BucketPer)
      BY <2>1, <2>2, <2>5, LookKept
    <2> QED
      BY <2>4, <2>5
  <1>3. CASE Looks
    BY <1>3, LookKept DEF Looks, Looked
  <1>4. CASE Resets
    <2>1. now' = now /\ uses' = <<>> /\ bucket' \in {NoBucket, [tokens |-> Full, last |-> now]}
      BY <1>4 DEF Resets
    <2>2. Full \in Nat
      BY FlowFacts
    <2>3. bucket' \in [tokens : Nat, last : Nat] /\ bucket'.tokens <= Full /\ bucket'.last <= now
      BY <1>1, <2>1, <2>2 DEF NoBucket
    <2> QED
      BY <1>1, <2>1, <2>3 DEF BucketInv, BucketTyped, LeftInBucket, DroppedFull, UsesPaid, Ordered, Full
  <1>5. CASE CleansBuckets
    BY <1>5, CleanKept
  <1>6. CASE now' = now + 1 /\ UNCHANGED <<bucket, uses>>
    <2>1. BucketTyped'
      BY <1>1, <1>6 DEF BucketTyped, Ordered, Full
    <2>2. LeftInBucket' /\ UsesPaid'
      BY <1>6 DEF BucketInv, LeftInBucket, UsesPaid, Parts, Flow, Full, NoBucket
    <2>3. ASSUME bucket = NoBucket, NEW i \in DOMAIN uses
          PROVE  Parts(Len(uses) - i + 1) <= Flow(now' - uses[i])
      <3>0. uses[i] \in Nat /\ now - uses[i] \in Nat /\ Len(uses) - i + 1 \in Nat
        BY <1>1, UsesTyped
      <3>1. /\ now' - uses[i] \in Nat /\ now - uses[i] <= now' - uses[i]
            /\ Parts(Len(uses) - i + 1) \in Nat
        <4>1. \A u \in Nat : now - u \in Nat => now' - u \in Nat /\ now - u <= now' - u
          BY <1>1, <1>6
        <4> QED
          BY <3>0, <4>1, FlowFacts
      <3>2. Parts(Len(uses) - i + 1) <= Flow(now - uses[i])
        BY <2>3 DEF BucketInv, DroppedFull
      <3>3. Flow(now - uses[i]) <= Flow(now' - uses[i]) /\ Flow(now - uses[i]) \in Nat /\ Flow(now' - uses[i]) \in Nat
        BY <3>0, <3>1, FlowGrows
      <3> QED
        BY <3>1, <3>2, <3>3
    <2>4. DroppedFull'
      BY <1>6, <2>3 DEF DroppedFull, Parts, Flow, NoBucket
    <2> QED
      BY <2>1, <2>2, <2>4 DEF BucketInv
  <1>7. CASE UNCHANGED <<now, bucket, uses>>
    BY <1>7 DEF BucketInv, BucketTyped, LeftInBucket, DroppedFull, UsesPaid, Parts, Flow, Full, NoBucket, Ordered
  <1> QED
    BY <1>2, <1>3, <1>4, <1>5, <1>6, <1>7
    DEF CoolNext, coolVars, IsAllowed, ResetWindow, CleansWindow, CoolTick, Tick

-----------------------------------------------------------------------------
(* Cooldown: the window *)

\* No request is missing that is as young as the window, and whoever comes as many places
\* after another as the window takes comes a whole window later.
Spaced(times) ==
    \A i \in DOMAIN times : i + WindowMax \in DOMAIN times => times[i] + WindowLength <= times[i + WindowMax]

WindowInv == now \in Nat /\ Covers(requests, granted, WindowLength, now) /\ Spaced(granted)

LEMMA AllowedKept == ASSUME WindowInv, IsAllowed PROVE WindowInv'
  <1> DEFINE recent == Younger(requests, WindowLength)
             all == Append(granted, now)
  <1>1. now \in Nat /\ WindowLength \in Nat /\ WindowMax \in Nat /\ Covers(requests, granted, WindowLength, now)
    BY CooldownAssumption DEF WindowInv
  <1>2. Covers(recent, granted, WindowLength, now)
    <2>1. WindowLength <= WindowLength
      BY <1>1
    <2> QED
      BY <1>1, <2>1, CoversYounger
  <1>3. Recent(granted, WindowLength) = Len(recent)
    BY <1>1, CoversRecent
  <1>4. /\ UNCHANGED now
        /\ IF Len(recent) < WindowMax
           THEN requests' = Append(recent, now) /\ granted' = all
           ELSE requests' = recent /\ UNCHANGED granted
    BY DEF IsAllowed
  <1> HIDE DEF recent
  <1>5. CASE ~(Len(recent) < WindowMax)
    BY <1>1, <1>2, <1>4, <1>5 DEF WindowInv, Spaced, Covers, Ordered
  <1>6. CASE Len(recent) < WindowMax
    <2>1. Covers(Append(recent, now), all, WindowLength, now)
      BY <1>1, <1>2, CoversAppend
    <2>2. granted \in Seq(Nat) /\ Ordered(granted) /\ recent \in Seq(Nat)
      BY <1>1, <1>2 DEF Covers
    <2>3. PICK m \in 0 .. Len(granted) :
            /\ \A i \in 1 .. m : granted[i] + WindowLength <= now
            /\ Recent(granted, WindowLength) = Len(granted) - m
      BY <1>1, <2>2, YoungerIsTail
    <2>4. /\ Len(granted) \in Nat /\ DOMAIN granted = 1 .. Len(granted)
          /\ DOMAIN all = 1 .. Len(granted) + 1 /\ all[Len(granted) + 1] = now
          /\ \A i \in 1 .. Len(granted) : all[i] = granted[i]
      BY <2>2
    <2> HIDE DEF all
    <2>5. Spaced(all)
      <3> SUFFICES ASSUME NEW i \in DOMAIN all, i + WindowMax \in DOMAIN all
                   PROVE  all[i] + WindowLength <= all[i + WindowMax]
        BY DEF Spaced
      <3>1. Len(recent) = Len(granted) - m /\ Len(recent) \in Nat
        BY <1>3, <2>2, <2>3
      <3>2. CASE i + WindowMax = Len(granted) + 1
        <4>1. i \in 1 .. m /\ i \in 1 .. Len(granted)
          BY <1>1, <1>6, <2>3, <2>4, <3>1, <3>2
        <4> QED
          BY <2>3, <2>4, <3>2, <4>1
      <3>3. CASE i + WindowMax # Len(granted) + 1
        <4>1. i \in 1 .. Len(granted) /\ i + WindowMax \in 1 .. Len(granted)
          BY <1>1, <2>4, <3>3
        <4> QED
          BY <2>4, <4>1 DEF WindowInv, Spaced
      <3> QED
        BY <3>2, <3>3
    <2>6. requests' = Append(recent, now) /\ granted' = all /\ now' = now
      BY <1>4, <1>6
    <2> QED
      BY <1>1, <2>1, <2>5, <2>6 DEF WindowInv, Spaced, Covers, Ordered
  <1> QED
    BY <1>5, <1>6

LEMMA WindowKept == ASSUME WindowInv, [CoolNext]_coolVars PROVE WindowInv'
  <1>1. now \in Nat /\ WindowLength \in Nat /\ Covers(requests, granted, WindowLength, now)
    BY CooldownAssumption DEF WindowInv
  <1>2. CASE IsAllowed
    BY <1>2, AllowedKept
  <1>3. CASE ResetWindow
    BY <1>1, <1>3 DEF ResetWindow, WindowInv, Spaced, Covers, Ordered
  <1>4. CASE CleansWindow
    <2>1. UNCHANGED <<now, granted>> /\ requests' = Younger(requests, WindowLength) /\ WindowLength <= WindowLength
      BY <1>1, <1>4 DEF CleansWindow
    <2>2. Covers(Younger(requests, WindowLength), granted, WindowLength, now)
      BY <1>1, <2>1, CoversYounger
    <2> QED
      BY <1>1, <2>1, <2>2 DEF WindowInv, Spaced, Covers, Ordered
  <1>5. CASE now' = now + 1 /\ UNCHANGED <<requests, granted>>
    <2>1. now + 1 \in Nat /\ now <= now + 1
      BY <1>1
    <2>2. Covers(requests, granted, WindowLength, now + 1)
      BY <1>1, <2>1, CoversLater
    <2> QED
      BY <1>5, <2>1, <2>2 DEF WindowInv, Spaced, Covers, Ordered
  <1>6. CASE UNCHANGED <<now, requests, granted>>
    BY <1>6 DEF WindowInv, Spaced, Covers, Ordered
  <1> QED
    BY <1>2, <1>3, <1>4, <1>5, <1>6
    DEF CoolNext, coolVars, Checks, Looks, Resets, CleansBuckets, CoolTick, Tick

-----------------------------------------------------------------------------
(* Cooldown: counting what was let through *)

\* Between two moments there is nothing, or no more than from one time to another.
LEMMA WithinSpan ==
    ASSUME NEW times \in Seq(Nat), NEW from \in Nat, NEW to \in Nat
    PROVE  \/ Within(times, from, to) = 0
           \/ \E i, j \in DOMAIN times :
                 /\ i <= j /\ from <= times[i] /\ times[j] <= to
                 /\ Within(times, from, to) \in Nat /\ Within(times, from, to) <= j - i + 1
  <1> DEFINE N == Len(times)
             S == {i \in DOMAIN times : from <= times[i] /\ times[i] <= to}
  <1>1. N \in Nat /\ DOMAIN times = 1 .. N /\ S \in SUBSET Nat /\ S \subseteq 1 .. N
    OBVIOUS
  <1>2. Within(times, from, to) = Cardinality(S)
    BY DEF Within
  <1>3. \A i \in S : from <= times[i] /\ times[i] <= to /\ i \in DOMAIN times
    OBVIOUS
  <1> HIDE DEF N, S
  <1>4. CASE S = {}
    BY <1>2, <1>4, FS_EmptySet
  <1>5. CASE S # {}
    <2>1. PICK i \in S : \A k \in S : i <= k
      BY <1>1, <1>5, Smallest
    <2> DEFINE mirror == {N - k : k \in S}
    <2>2. mirror \in SUBSET Nat /\ mirror # {}
      BY <1>1, <1>5
    <2>3. PICK low \in mirror : \A k \in mirror : low <= k
      BY <2>2, Smallest
    <2>4. PICK j \in S : low = N - j
      BY <2>3
    <2>5. \A k \in S : k <= j
      <3> SUFFICES ASSUME NEW k \in S PROVE k <= j
        OBVIOUS
      <3>1. N - k \in mirror
        OBVIOUS
      <3>2. N - j <= N - k
        BY <2>3, <2>4, <3>1
      <3>3. j \in 1 .. N /\ k \in 1 .. N
        BY <1>1
      <3> QED
        BY <1>1, <3>2, <3>3
    <2>6. S \subseteq i .. j /\ i \in Nat /\ j \in Nat /\ i <= j
      BY <1>1, <2>1, <2>5
    <2>7. IsFiniteSet(i .. j) /\ Cardinality(i .. j) = j - i + 1
      <3>1. i \in Int /\ j \in Int
        BY <2>6
      <3>2. IsFiniteSet(i .. j) /\ Cardinality(i .. j) = IF i > j THEN 0 ELSE j - i + 1
        BY <3>1, FS_Interval
      <3> QED
        BY <2>6, <3>2
    <2>8. Cardinality(S) \in Nat /\ Cardinality(S) <= j - i + 1
      BY <2>6, <2>7, FS_Subset, FS_CardinalityType
    <2> QED
      BY <1>2, <1>3, <2>6, <2>8
  <1> QED
    BY <1>4, <1>5

LEMMA UsesWithin ==
    ASSUME BucketInv, NEW from \in Nat, NEW to \in Nat, from <= to
    PROVE  Within(uses, from, to) * BucketPer <= Full + (to - from) * BucketRate
  <1>1. to - from \in Nat /\ BucketTyped /\ uses \in Seq(Nat)
    BY DEF BucketInv, BucketTyped
  <1>2. Flow(to - from) \in Nat /\ Full \in Nat /\ Parts(0) = 0
    BY <1>1, FlowFacts
  <1>3. Parts(Within(uses, from, to)) <= Full + Flow(to - from)
    <2>1. CASE Within(uses, from, to) = 0
      BY <1>2, <2>1
    <2>2. ASSUME NEW i \in DOMAIN uses, NEW j \in DOMAIN uses,
                 i <= j, from <= uses[i], uses[j] <= to,
                 Within(uses, from, to) \in Nat, Within(uses, from, to) <= j - i + 1
          PROVE  Parts(Within(uses, from, to)) <= Full + Flow(to - from)
      <3>1. i \in Nat /\ j \in Nat /\ uses[i] \in Nat /\ uses[j] \in Nat
        BY <1>1
      <3>2. j - i + 1 \in Nat
        BY <2>2, <3>1
      <3>3. uses[i] <= uses[j]
        BY <1>1, <2>2 DEF BucketTyped, Ordered
      <3>4. uses[j] - uses[i] \in Nat /\ uses[j] - uses[i] <= to - from
        BY <2>2, <3>1, <3>3
      <3>5. /\ Parts(Within(uses, from, to)) <= Parts(j - i + 1)
            /\ Parts(j - i + 1) \in Nat /\ Parts(Within(uses, from, to)) \in Nat
        BY <2>2, <3>2, PartsGrow
      <3>6. Parts(j - i + 1) <= Full + Flow(uses[j] - uses[i])
        BY <2>2 DEF BucketInv, UsesPaid
      <3>7. Flow(uses[j] - uses[i]) <= Flow(to - from) /\ Flow(uses[j] - uses[i]) \in Nat
        BY <1>1, <3>4, FlowGrows
      <3> QED
        BY <1>2, <3>5, <3>6, <3>7
    <2> QED
      BY <1>1, <2>1, <2>2, WithinSpan
  <1> QED
    BY <1>3 DEF Parts, Flow

LEMMA GrantedWithin ==
    ASSUME WindowInv, NEW from \in Nat, NEW to \in Nat, from <= to, to - from < WindowLength
    PROVE  Within(granted, from, to) <= WindowMax
  <1>1. granted \in Seq(Nat) /\ Ordered(granted) /\ Spaced(granted)
    BY DEF WindowInv, Covers
  <1>2. WindowMax \in Nat /\ WindowLength \in Nat
    BY CooldownAssumption
  <1>3. CASE Within(granted, from, to) = 0
    BY <1>2, <1>3
  <1>4. ASSUME NEW i \in DOMAIN granted, NEW j \in DOMAIN granted,
               i <= j, from <= granted[i], granted[j] <= to,
               Within(granted, from, to) \in Nat, Within(granted, from, to) <= j - i + 1
        PROVE  Within(granted, from, to) <= WindowMax
    <2>1. DOMAIN granted = 1 .. Len(granted) /\ Len(granted) \in Nat /\ granted[i] \in Nat /\ granted[j] \in Nat
      BY <1>1
    <2>2. ASSUME i + WindowMax <= j PROVE FALSE
      <3>1. i + WindowMax \in DOMAIN granted
        BY <1>2, <2>1, <2>2
      <3>2. granted[i] + WindowLength <= granted[i + WindowMax] /\ granted[i + WindowMax] \in Nat
        BY <1>1, <2>1, <3>1 DEF Spaced
      <3>3. granted[i + WindowMax] <= granted[j]
        BY <1>1, <2>2, <3>1 DEF Ordered
      <3> QED
        BY <1>2, <1>4, <2>1, <3>2, <3>3
    <2>3. i \in Nat /\ j \in Nat
      BY <2>1
    <2> QED
      BY <1>2, <1>4, <2>2, <2>3
  <1> QED
    BY <1>1, <1>3, <1>4, WithinSpan

\* From any moment to any later one a bucket lets through at most its size and what
\* flows in between, and a window at most its number, however checks, looks and
\* clean-ups alternate.
THEOREM RatesAlwaysKept == CoolSpec => []RatesKept
  <1>1. CoolInit => BucketInv /\ WindowInv
    <2> SUFFICES ASSUME CoolInit PROVE BucketInv /\ WindowInv
      OBVIOUS
    <2>1. now = 1 /\ bucket = NoBucket /\ uses = <<>> /\ requests = <<>> /\ granted = <<>>
      BY DEF CoolInit
    <2>2. NoBucket.tokens = 0 /\ NoBucket.last = 0 /\ NoBucket \in [tokens : Nat, last : Nat]
      BY DEF NoBucket
    <2>3. Full \in Nat
      BY FlowFacts
    <2>4. BucketInv
      BY <2>1, <2>2, <2>3 DEF BucketInv, BucketTyped, LeftInBucket, DroppedFull, UsesPaid, Ordered
    <2>5. WindowInv
      BY <2>1, CoversNothing DEF WindowInv, Spaced
    <2> QED
      BY <2>4, <2>5
  <1>2. BucketInv /\ WindowInv /\ [CoolNext]_coolVars => BucketInv' /\ WindowInv'
    BY BucketKept, WindowKept
  <1>3. BucketInv /\ WindowInv => RatesKept
    <2> SUFFICES ASSUME BucketInv, WindowInv, NEW from \in 1 .. now, NEW to \in 1 .. now, from <= to
                 PROVE  /\ Within(uses, from, to) * BucketPer <= Full + (to - from) * BucketRate
                        /\ to - from < WindowLength => Within(granted, from, to) <= WindowMax
      BY DEF RatesKept
    <2>1. from \in Nat /\ to \in Nat
      BY DEF WindowInv
    <2> QED
      BY <2>1, UsesWithin, GrantedWithin
  <1> QED
    BY <1>1, <1>2, <1>3, PTL DEF CoolSpec
=============================================================================
