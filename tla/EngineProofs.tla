----------------------------- MODULE EngineProofs -----------------------------------
(***************************************************************************)
(* The safety of ClusterReads, ClusterRing, FanOut, ColumnarDB,            *)
(* Transactions and Query, for any callers, keys, nodes, guilds, clusters, *)
(* weights, times, tries, tasks, rows, transactions, calls, incidents and  *)
(* conditions.                                                             *)
(*                                                                         *)
(* A write may be handled once for each try; what makes a reported one     *)
(* single is that only the first try's answer can arrive, and IInv counts  *)
(* how often each try so far can have been handled.                        *)
(*                                                                         *)
(* A read asks who owns the key when it is called, who has the current     *)
(* version then.  FreshInv bounds what has come between since by how long  *)
(* the call has waited, the answer's lag by the time-outs, and an entry's  *)
(* by its age.                                                             *)
(*                                                                         *)
(* RingInv relates how long a peer has been silent to what its record      *)
(* says, and to when the clean-up last looked at it.  FanInv says what a   *)
(* fan-out that has not returned has seen, and that what it returned       *)
(* stands, since nobody runs any more.                                     *)
(*                                                                         *)
(* SaveInv says of ColumnarDB, as long as no change is lost, who has still *)
(* to bring the table into its file.                                       *)
(*                                                                         *)
(* LogInv says what the log has of a transaction that goes on, and of one  *)
(* whose commit its caller was told of; that its operations are in the     *)
(* order of their numbers; and what a commit in the log came from.         *)
(*                                                                         *)
(* BuilderInv says of a query's groups that, whatever rows the one that is *)
(* being filled had, the others would have rows too, and that those open   *)
(* would then have what the calls mean: a step fills in the one it knows.  *)
(***************************************************************************)
EXTENDS ClusterRing, ClusterReads, FanOut, ColumnarDB, Transactions, Query, FiniteSetTheorems, SequenceTheorems, WellFoundedInduction, TLAPS

-----------------------------------------------------------------------------
(* The writes of ClusterReads. *)

Shape(call) ==
    call = [at |-> call.at, op |-> call.op, key |-> call.key, node |-> call.node, try |-> call.try,
            since |-> call.since, answer |-> call.answer, doomed |-> call.doomed, done |-> call.done]

Places == {"new", "connecting", "pausing", "sent", "answered"}

\* Of a write: it was not handled before it was sent, and in its first try once at most.
HandledOnce(call) ==
    /\ call.answer \in {Unanswered, Current}
    /\ call.try = 1 /\ call.at \in {"new", "connecting"} => call.done = 0 /\ call.answer = Unanswered
    /\ call.try = 1 /\ call.at = "sent" => call.done = IF call.answer = Unanswered THEN 0 ELSE 1
    /\ call.at = "answered" => call.done = 1

Sound(call) ==
    \/ call = Idle
    \/ /\ Shape(call) /\ call.at \in Places /\ call.op \in {"read", "write"} /\ call.try \in Nat \ {0}
       /\ call.op = "write" => HandledOnce(call)

IInv == caller = [c \in Callers |-> caller[c]] /\ \A c \in Callers : Sound(caller[c])

-----------------------------------------------------------------------------
\* A coroutine without a call.
LEMMA IdleSound == Sound(Idle) /\ Idle.at = "idle"
  BY DEF Sound, Idle

\* A call that is not idle.
LEMMA Busy ==
    ASSUME NEW call, Sound(call), call.at # "idle"
    PROVE  /\ Shape(call) /\ call.at \in Places /\ call.op \in {"read", "write"} /\ call.try \in Nat \ {0}
           /\ call.op = "write" => HandledOnce(call)
  BY DEF Sound, Idle

\* The next try is not the first.
LEMMA RetriesSound ==
    ASSUME NEW call, Shape(call), call.op \in {"read", "write"}, call.try \in Nat \ {0}
    PROVE  Sound(Retries(call))
  <1>n. PICK next : next = [call EXCEPT !.at = "pausing", !.since = 0, !.answer = Unanswered]
    OBVIOUS
  <1>1. /\ Shape(next) /\ next.at = "pausing" /\ next.op = call.op /\ next.try = call.try
        /\ next.answer = Unanswered
    BY <1>n DEF Shape
  <1>2. Sound(next)
    BY <1>1 DEF Sound, HandledOnce, Places
  <1> QED
    BY <1>n, <1>2, IdleSound DEF Retries

\* A try, of a call that is new or has paused after another.
LEMMA TriesSound ==
    ASSUME NEW call, Sound(call), call.at \in {"new", "pausing"}, call.at = "pausing" => call.try # 1
    PROVE  Sound(Tries(call))
  <1>1. Shape(call) /\ call.op \in {"read", "write"} /\ call.try \in Nat \ {0}
        /\ (call.op = "write" => HandledOnce(call))
    BY Busy
  <1>n. PICK next : next = [call EXCEPT !.at = "connecting"]
    OBVIOUS
  <1>2. /\ Shape(next) /\ next.at = "connecting" /\ next.op = call.op /\ next.try = call.try
        /\ next.answer = call.answer /\ next.done = call.done
    BY <1>n, <1>1 DEF Shape
  <1>3. Sound(next)
    BY <1>1, <1>2 DEF Sound, HandledOnce, Places
  <1> QED
    BY <1>n, <1>1, <1>3, RetriesSound, IdleSound DEF Tries

\* A call that has not begun.
LEMMA CallSound ==
    ASSUME NEW op \in {"read", "write"}, NEW k PROVE Sound(Call(op, k)) /\ Call(op, k).at = "new"
  BY DEF Call, Sound, Shape, HandledOnce, Places, Unanswered, Current

\* A new version changes no more of a caller than the answer of a read.
LEMMA NewVersionsSound ==
    ASSUME NEW keys, NEW callers, NEW entries, NewVersions(keys, callers, entries),
           \A c \in Callers : Sound(callers[c])
    PROVE  IInv'
  <1>1. caller' = [c \in Callers |-> IF callers[c] # Idle /\ callers[c].op = "read" /\ callers[c].key \in keys
                                     THEN [callers[c] EXCEPT !.answer = Replaced(@)] ELSE callers[c]]
    BY DEF NewVersions
  <1>2. ASSUME NEW call, Sound(call), call # Idle, call.op = "read", NEW lag
        PROVE  Sound([call EXCEPT !.answer = lag])
    <2>n. PICK next : next = [call EXCEPT !.answer = lag]
      OBVIOUS
    <2>1. Shape(call) /\ call.at \in Places /\ call.try \in Nat \ {0}
      BY <1>2 DEF Sound
    <2>2. Shape(next) /\ next.at = call.at /\ next.op = "read" /\ next.try = call.try
      BY <2>n, <1>2, <2>1 DEF Shape
    <2> QED
      BY <2>n, <2>1, <2>2 DEF Sound
  <1>3. ASSUME NEW c \in Callers PROVE Sound(caller'[c])
    <2>1. CASE callers[c] # Idle /\ callers[c].op = "read" /\ callers[c].key \in keys
      BY <1>1, <1>2, <2>1
    <2>2. CASE ~(callers[c] # Idle /\ callers[c].op = "read" /\ callers[c].key \in keys)
      BY <1>1, <2>2
    <2> QED
      BY <2>1, <2>2
  <1> QED
    BY <1>1, <1>3 DEF IInv

\* One caller takes a step.
LEMMA OneCaller ==
    ASSUME IInv, NEW c \in Callers, NEW call, Sound(call), caller' = [caller EXCEPT ![c] = call]
    PROVE  IInv'
  BY DEF IInv

\* What a coroutine does, tries and is answered.
LEMMA CallerStep ==
    ASSUME IInv, NEW c \in Callers,
           TriesAgain(c) \/ Connects(c) \/ NotConnected(c) \/ Handled(c) \/ Answers(c) \/ Refuses(c) \/ TimesOut(c)
           \/ Resumes(c) \/ \E k \in Keys : GetData(c, k) \/ WriteData(c, k)
    PROVE  IInv'
  <1> DEFINE call == caller[c]
  <1>0. Sound(call)
    BY DEF IInv
  <1>1. CASE TriesAgain(c)
    <2>n. PICK next : next = [call EXCEPT !.try = @ + 1]
      OBVIOUS
    <2>1. call.at = "pausing" /\ caller' = [caller EXCEPT ![c] = Tries(next)]
      BY <2>n, <1>1 DEF TriesAgain
    <2>2. Shape(call) /\ call.op \in {"read", "write"} /\ call.try \in Nat \ {0}
          /\ (call.op = "write" => HandledOnce(call))
      BY <1>0, <2>1, Busy
    <2>3. /\ Shape(next) /\ next.at = "pausing" /\ next.op = call.op /\ next.try = call.try + 1
          /\ next.answer = call.answer
      BY <2>n, <2>1, <2>2 DEF Shape
    <2>4. Sound(next) /\ next.try # 1
      BY <2>2, <2>3 DEF Sound, HandledOnce, Places
    <2>5. Sound(Tries(next))
      BY <2>3, <2>4, TriesSound
    <2> QED
      BY <2>1, <2>5, OneCaller
  <1>2. CASE Connects(c)
    <2>n. PICK next : next = [call EXCEPT !.at = "sent", !.since = 0]
      OBVIOUS
    <2>1. call.at = "connecting" /\ caller' = [caller EXCEPT ![c] = IF call.doomed THEN Idle ELSE next]
      BY <2>n, <1>2 DEF Connects
    <2>2. Shape(call) /\ call.op \in {"read", "write"} /\ call.try \in Nat \ {0}
          /\ (call.op = "write" => HandledOnce(call))
      BY <1>0, <2>1, Busy
    <2>3. /\ Shape(next) /\ next.at = "sent" /\ next.op = call.op /\ next.try = call.try
          /\ next.answer = call.answer /\ next.done = call.done
      BY <2>n, <2>2 DEF Shape
    <2>4. Sound(next)
      BY <2>1, <2>2, <2>3 DEF Sound, HandledOnce, Places
    <2> QED
      BY <2>1, <2>4, IdleSound, OneCaller
  <1>3. CASE NotConnected(c)
    BY <1>3, IdleSound, OneCaller DEF NotConnected
  <1>4. CASE Handled(c)
    <2>1. call.at = "sent" /\ call.answer = Unanswered
      BY <1>4 DEF Handled
    <2>2. Shape(call) /\ call.op \in {"read", "write"} /\ call.try \in Nat \ {0}
          /\ (call.op = "write" => HandledOnce(call))
      BY <1>0, <2>1, Busy
    <2>3. CASE call.op = "read"
      <3>n. PICK next : next = [call EXCEPT !.answer = behind[call.node][call.key]]
        OBVIOUS
      <3>1. caller' = [caller EXCEPT ![c] = next]
        BY <3>n, <1>4, <2>3 DEF Handled, IInv
      <3>2. Shape(next) /\ next.at = "sent" /\ next.op = "read" /\ next.try = call.try
        BY <3>n, <2>1, <2>2, <2>3 DEF Shape
      <3>3. Sound(next)
        BY <2>2, <3>2 DEF Sound, Places
      <3> QED
        BY <3>1, <3>3, OneCaller
    <2>4. CASE call.op = "write"
      <3> DEFINE callers == [caller EXCEPT ![c].answer = Current, ![c].done = @ + 1]
      <3>n. PICK next : next = [call EXCEPT !.answer = Current, !.done = @ + 1]
        OBVIOUS
      <3>1. NewVersions({call.key} \cap {k \in Keys : owner[k] = call.node}, callers, cache)
        BY <1>4, <2>4 DEF Handled
      <3>2. callers = [caller EXCEPT ![c] = next]
        BY <3>n DEF IInv
      <3>3. /\ Shape(next) /\ next.at = "sent" /\ next.op = "write" /\ next.try = call.try
            /\ next.answer = Current /\ next.done = call.done + 1
        BY <3>n, <2>1, <2>2, <2>4 DEF Shape
      <3>4. Sound(next)
        BY <2>1, <2>2, <2>4, <3>3 DEF Sound, HandledOnce, Places, Unanswered, Current
      <3>5. \A d \in Callers : Sound(callers[d])
        BY <3>2, <3>4 DEF IInv
      <3> QED
        BY <3>1, <3>5, NewVersionsSound
    <2> QED
      BY <2>2, <2>3, <2>4
  <1>5. CASE Answers(c)
    <2>n. PICK next : next = [call EXCEPT !.at = "answered"]
      OBVIOUS
    <2>1. call.at = "sent" /\ call.answer # Unanswered /\ call.try = 1 /\ caller' = [caller EXCEPT ![c] = next]
      BY <2>n, <1>5 DEF Answers, Expected, IInv
    <2>2. Shape(call) /\ call.op \in {"read", "write"} /\ (call.op = "write" => HandledOnce(call))
      BY <1>0, <2>1, Busy
    <2>3. /\ Shape(next) /\ next.at = "answered" /\ next.op = call.op /\ next.try = 1
          /\ next.answer = call.answer /\ next.done = call.done
      BY <2>n, <2>1, <2>2 DEF Shape
    <2>4. Sound(next)
      BY <2>1, <2>2, <2>3 DEF Sound, HandledOnce, Places
    <2> QED
      BY <2>1, <2>4, OneCaller
  <1>6. CASE Refuses(c) \/ TimesOut(c)
    <2>1. call.at = "sent" /\ caller' = [caller EXCEPT ![c] = Retries(call)]
      BY <1>6 DEF Refuses, TimesOut
    <2>2. Sound(Retries(call))
      BY <1>0, <2>1, Busy, RetriesSound
    <2> QED
      BY <2>1, <2>2, OneCaller
  <1>7. CASE Resumes(c)
    BY <1>7, IdleSound, OneCaller DEF Resumes
  <1>8. ASSUME NEW k \in Keys, GetData(c, k) \/ WriteData(c, k) PROVE IInv'
    <2>1. Sound(Tries(Call("read", k))) /\ Sound(Tries(Call("write", k)))
      BY CallSound, TriesSound
    <2>2. \/ caller' = caller
          \/ caller' = [caller EXCEPT ![c] = Tries(Call("read", k))]
          \/ caller' = [caller EXCEPT ![c] = Tries(Call("write", k))]
      BY <1>8 DEF GetData, WriteData
    <2>3. CASE caller' = caller
      BY <2>3 DEF IInv
    <2> QED
      BY <2>1, <2>2, <2>3, OneCaller
  <1> QED
    BY <1>1, <1>2, <1>3, <1>4, <1>5, <1>6, <1>7, <1>8

\* The end of a connection ends requests and begins none.
LEMMA ClosesStep ==
    ASSUME IInv, NEW n, Closes(n) PROVE IInv'
  <1>1. caller' = [c \in Callers |-> CASE caller[c].at = "connecting" -> [caller[c] EXCEPT !.doomed = TRUE]
                                       [] caller[c].at = "sent" -> Idle
                                       [] OTHER -> caller[c]]
    BY DEF Closes
  <1>2. ASSUME NEW c \in Callers PROVE Sound(caller'[c])
    <2>0. Sound(caller[c])
      BY DEF IInv
    <2>1. CASE caller[c].at = "connecting"
      <3> DEFINE call == caller[c]
      <3>n. PICK next : next = [call EXCEPT !.doomed = TRUE]
        OBVIOUS
      <3>1. caller'[c] = next
        BY <3>n, <1>1, <2>1
      <3>2. Shape(call) /\ call.op \in {"read", "write"} /\ call.try \in Nat \ {0}
            /\ (call.op = "write" => HandledOnce(call))
        BY <2>0, <2>1, Busy
      <3>3. /\ Shape(next) /\ next.at = "connecting" /\ next.op = call.op /\ next.try = call.try
            /\ next.answer = call.answer /\ next.done = call.done
        BY <3>n, <2>1, <3>2 DEF Shape
      <3> QED
        BY <2>1, <3>1, <3>2, <3>3 DEF Sound, HandledOnce, Places
    <2>2. CASE caller[c].at = "sent"
      BY <1>1, <2>2, IdleSound
    <2>3. CASE caller[c].at \notin {"connecting", "sent"}
      BY <1>1, <2>0, <2>3
    <2> QED
      BY <2>1, <2>2, <2>3
  <1> QED
    BY <1>1, <1>2 DEF IInv

\* Of the answers of writes, time changes none.
LEMMA TimeStep ==
    ASSUME IInv, TimeGoesOn PROVE IInv'
  <1>1. caller' = [c \in Callers |-> IF caller[c].at \in {"sent", "connecting"}
                                     THEN [caller[c] EXCEPT !.since = @ + 1, !.answer = Later(@)] ELSE caller[c]]
    BY DEF TimeGoesOn
  <1>2. ASSUME NEW c \in Callers PROVE Sound(caller'[c])
    <2>0. Sound(caller[c])
      BY DEF IInv
    <2>1. CASE caller[c].at \in {"sent", "connecting"}
      <3> DEFINE call == caller[c]
      <3>n. PICK next : next = [call EXCEPT !.since = @ + 1, !.answer = Later(@)]
        OBVIOUS
      <3>1. caller'[c] = next
        BY <3>n, <1>1, <2>1
      <3>2. Shape(call) /\ call.op \in {"read", "write"} /\ call.try \in Nat \ {0}
            /\ (call.op = "write" => HandledOnce(call))
        BY <2>0, <2>1, Busy
      <3>3. /\ Shape(next) /\ next.at = call.at /\ next.op = call.op /\ next.try = call.try
            /\ next.answer = Later(call.answer) /\ next.done = call.done
        BY <3>n, <3>2 DEF Shape
      <3>4. call.op = "write" => next.answer = call.answer
        BY <3>2, <3>3 DEF HandledOnce, Later, Unanswered, Current
      <3>5. call.at \in Places
        BY <2>1 DEF Places
      <3> QED
        BY <3>1, <3>2, <3>3, <3>4, <3>5 DEF Sound, HandledOnce
    <2>2. CASE caller[c].at \notin {"sent", "connecting"}
      BY <1>1, <2>0, <2>2
    <2> QED
      BY <2>1, <2>2
  <1> QED
    BY <1>1, <1>2 DEF IInv

-----------------------------------------------------------------------------
\* What a caller asks for and is answered is sound throughout.
LEMMA AlwaysSound == ReadsSpec => []IInv
  <1>1. ReadsInit => IInv
    BY IdleSound DEF ReadsInit, IInv
  <1>2. IInv /\ [ReadsNext]_readVars => IInv'
    <2> SUFFICES ASSUME IInv, [ReadsNext]_readVars PROVE IInv'
      OBVIOUS
    <2>0. \A c \in Callers : Sound(caller[c])
      BY DEF IInv
    <2>1. ASSUME NEW n \in Remotes, Closes(n) PROVE IInv'
      BY <2>1, ClosesStep
    <2>2. ASSUME NEW n \in Remotes, MemberLeaves(n) PROVE IInv'
      BY <2>0, <2>2, NewVersionsSound DEF MemberLeaves
    <2>3. ASSUME NEW n \in Remotes, MemberJoins(n) PROVE IInv'
      BY <2>0, <2>3, NewVersionsSound DEF MemberJoins
    <2>4. ASSUME NEW k \in Keys, OwnerWrites(k) PROVE IInv'
      BY <2>0, <2>4, NewVersionsSound DEF OwnerWrites
    <2>5. CASE TimeGoesOn
      BY <2>5, TimeStep
    <2>6. CASE CleansCache \/ UNCHANGED readVars
      BY <2>6 DEF CleansCache, readVars, IInv
    <2>7. ASSUME NEW c \in Callers,
                 TriesAgain(c) \/ Connects(c) \/ NotConnected(c) \/ Handled(c) \/ Answers(c) \/ Refuses(c)
                 \/ TimesOut(c) \/ Resumes(c) \/ \E k \in Keys : GetData(c, k) \/ WriteData(c, k)
          PROVE  IInv'
      BY <2>7, CallerStep
    <2> QED
      BY <2>1, <2>2, <2>3, <2>4, <2>5, <2>6, <2>7 DEF ReadsNext
  <1> QED
    BY <1>1, <1>2, PTL DEF ReadsSpec

\* A remote write that is reported as done was done exactly once, however often
\* NodeClient sends a request again and whoever owns the key by then.
THEOREM ReportedWritesDoneOnce == ReadsSpec => []WritesDoneOnce
  <1>1. IInv => WritesDoneOnce
    BY Busy DEF IInv, WritesDoneOnce, HandledOnce
  <1> QED
    BY <1>1, AlwaysSound, PTL

-----------------------------------------------------------------------------
(* How old what is read can be. *)

\* How long a request has waited for its connection, and then for its answer, bounds
\* the lag of what it is to be answered, while its first try lasts.
Timely(call, lags) ==
    call # Idle =>
        /\ call.node \in Remotes /\ call.key \in Keys /\ call.since \in Nat /\ call.answer \in Int
        /\ call.at = "pausing" => call.since = 0 /\ call.answer = Unanswered
        /\ call.at = "connecting" => call.since <= ConnectTime
        /\ call.at = "sent" => call.since <= RequestTimeout
        /\ call.op = "read" /\ call.try = 1 /\ call.at = "connecting" =>
             call.answer = Unanswered /\ lags[call.node][call.key] <= call.since
        /\ call.op = "read" /\ call.try = 1 /\ call.at = "sent" =>
             IF call.answer = Unanswered THEN lags[call.node][call.key] <= ConnectTime + call.since
                                         ELSE call.answer <= ConnectTime + call.since
        /\ call.at = "answered" => call.answer <= ConnectTime + RequestTimeout

Lags == [Remotes -> [Keys -> Int]]

\* The owner of a key has its current version.
OwnersCurrent ==
    /\ owner \in [Keys -> Remotes \cup {Self}] /\ members \subseteq Remotes /\ behind \in Lags
    /\ \A k \in Keys : owner[k] \in Remotes => behind[owner[k]][k] = Current

\* What is kept was of that age when it came.
EntryOK(entry) ==
    /\ entry = [lag |-> entry.lag, from |-> entry.from, age |-> entry.age]
    /\ entry.lag \in Int /\ entry.age \in Nat
    /\ entry.age <= Ttl => entry.lag <= entry.age + RequestTimeout + ConnectTime

EntriesOK(entries) == /\ entries = [k \in Keys |-> entries[k]]
                      /\ \A k \in Keys : entries[k] # NoEntry => EntryOK(entries[k])

FreshInv == /\ IInv /\ OwnersCurrent /\ EntriesOK(cache)
            /\ \A c \in Callers : Timely(caller[c], behind)

\* Times are natural numbers.
LEMMA Times == Ttl \in Nat /\ RequestTimeout \in Nat /\ ConnectTime \in Nat
  BY ReadsAssumption

\* The lesser of two numbers.
LEMMA MinOfTwo ==
    ASSUME NEW a \in Int, NEW b \in Int
    PROVE  Min({a, b}) \in {a, b} /\ Min({a, b}) <= a /\ Min({a, b}) <= b
  BY DEF Min

\* A lag grows with time, and by one at most.
LEMMA LaterLag ==
    ASSUME NEW lag \in Int
    PROVE  /\ Later(lag) \in Int /\ Later(lag) <= lag + 1
           /\ lag < 0 => Later(lag) = lag
           /\ lag >= 0 => Later(lag) >= 0
  <1>1. LongestLag + 1 \in Int /\ LongestLag + 1 >= 0
    BY Times DEF LongestLag
  <1>2. CASE lag < 0
    BY <1>2 DEF Later
  <1>3. CASE lag >= 0
    <2>1. Later(lag) = Min({lag + 1, LongestLag + 1})
      BY <1>3 DEF Later
    <2> HIDE DEF LongestLag
    <2>2. /\ Min({lag + 1, LongestLag + 1}) \in {lag + 1, LongestLag + 1}
          /\ Min({lag + 1, LongestLag + 1}) <= lag + 1
      BY <1>1, MinOfTwo
    <2> QED
      BY <1>1, <1>3, <2>1, <2>2
  <1> QED
    BY <1>2, <1>3

\* A call outlives what makes nothing older than it was, or just replaced.
LEMMA TimelyKept ==
    ASSUME NEW call, NEW lags \in Lags, NEW next \in Lags, Timely(call, lags),
           \A n \in Remotes, k \in Keys : next[n][k] <= lags[n][k] \/ next[n][k] <= 0
    PROVE  Timely(call, next)
  <1> SUFFICES ASSUME call # Idle
               PROVE  Timely(call, next)
    BY DEF Timely
  <1>1. call.node \in Remotes /\ call.key \in Keys /\ call.since \in Nat /\ call.answer \in Int
    BY DEF Timely
  <1>2. /\ lags[call.node][call.key] \in Int /\ next[call.node][call.key] \in Int
        /\ next[call.node][call.key] <= lags[call.node][call.key] \/ next[call.node][call.key] <= 0
    BY <1>1 DEF Lags
  <1>3. \A bound \in Nat : lags[call.node][call.key] <= bound => next[call.node][call.key] <= bound
    BY <1>2
  <1>4. call.since \in Nat /\ ConnectTime + call.since \in Nat
    BY <1>1, Times
  <1> QED
    BY <1>1, <1>3, <1>4 DEF Timely

\* Retrying begins anew, in a try whose answer nobody expects.
LEMMA RetriesTimely ==
    ASSUME NEW call, Shape(call), NEW lags, call.node \in Remotes, call.key \in Keys
    PROVE  Timely(Retries(call), lags)
  <1>n. PICK next : next = [call EXCEPT !.at = "pausing", !.since = 0, !.answer = Unanswered]
    OBVIOUS
  <1>1. /\ next.at = "pausing" /\ next.node = call.node /\ next.key = call.key /\ next.since = 0
        /\ next.answer = Unanswered
    BY <1>n DEF Shape
  <1>2. Timely(next, lags)
    BY <1>1 DEF Timely, Unanswered
  <1>3. Timely(Idle, lags)
    BY DEF Timely
  <1> QED
    BY <1>n, <1>2, <1>3 DEF Retries

\* A try of a call that is about to be made.
LEMMA TriesTimely ==
    ASSUME NEW call, Shape(call), NEW lags, call.node \in Remotes, call.key \in Keys, call.since = 0,
           call.answer = Unanswered,
           call.op = "read" /\ call.try = 1 => lags[call.node][call.key] <= 0
    PROVE  Timely(Tries(call), lags)
  <1>n. PICK next : next = [call EXCEPT !.at = "connecting"]
    OBVIOUS
  <1>1. /\ next.at = "connecting" /\ next.node = call.node /\ next.key = call.key /\ next.since = 0
        /\ next.answer = Unanswered /\ next.op = call.op /\ next.try = call.try
    BY <1>n DEF Shape
  <1>2. Timely(next, lags)
    BY <1>1, Times DEF Timely, Unanswered
  <1>3. Timely(Idle, lags)
    BY DEF Timely
  <1> QED
    BY <1>n, <1>2, <1>3, RetriesTimely DEF Tries

\* Entries stay what they are when their versions are replaced.
LEMMA ReplacedEntries ==
    ASSUME NEW keys, NEW entries, EntriesOK(entries)
    PROVE  EntriesOK([k \in Keys |-> IF k \in keys /\ entries[k] # NoEntry
                                     THEN [entries[k] EXCEPT !.lag = Replaced(@)] ELSE entries[k]])
  <1> DEFINE later == [k \in Keys |-> IF k \in keys /\ entries[k] # NoEntry
                                     THEN [entries[k] EXCEPT !.lag = Replaced(@)] ELSE entries[k]]
  <1>1. ASSUME NEW entry, EntryOK(entry)
        PROVE  EntryOK([entry EXCEPT !.lag = Replaced(@)])
    <2>n. PICK next : next = [entry EXCEPT !.lag = Replaced(@)]
      OBVIOUS
    <2>1. /\ next = [lag |-> Replaced(entry.lag), from |-> entry.from, age |-> entry.age]
          /\ entry.lag \in Int /\ entry.age \in Nat
          /\ entry.age <= Ttl => entry.lag <= entry.age + RequestTimeout + ConnectTime
      BY <1>1, <2>n DEF EntryOK
    <2>2. Replaced(entry.lag) \in Int /\ (Replaced(entry.lag) = entry.lag \/ Replaced(entry.lag) = 0)
      BY <2>1 DEF Replaced
    <2>3. next.lag = Replaced(entry.lag) /\ next.from = entry.from /\ next.age = entry.age
      BY <2>1
    <2>4. entry.age <= Ttl => Replaced(entry.lag) <= entry.age + RequestTimeout + ConnectTime
      BY <2>1, <2>2, Times
    <2> QED
      BY <2>n, <2>1, <2>2, <2>3, <2>4 DEF EntryOK
  <1>2. ASSUME NEW k \in Keys, later[k] # NoEntry
        PROVE  EntryOK(later[k])
    <2>1. CASE k \in keys /\ entries[k] # NoEntry
      BY <1>1, <2>1 DEF EntriesOK
    <2>2. CASE ~(k \in keys /\ entries[k] # NoEntry)
      BY <1>2, <2>2 DEF EntriesOK
    <2> QED
      BY <2>1, <2>2
  <1> QED
    BY <1>2 DEF EntriesOK

\* New versions make nothing older than it was, or just replaced.
LEMMA NewVersionsFresh ==
    ASSUME FreshInv, NEW keys \in SUBSET Keys, NEW callers, NEW entries, NewVersions(keys, callers, entries),
           \A c \in Callers : Sound(callers[c]) /\ Timely(callers[c], behind), EntriesOK(entries),
           owner' \in [Keys -> Remotes \cup {Self}], members' \subseteq Remotes,
           \A k \in Keys \ keys : owner'[k] = owner[k]
    PROVE  FreshInv'
  <1>1. /\ behind' = [n \in Remotes |-> [k \in Keys |-> IF k \notin keys THEN behind[n][k]
                                                     ELSE IF n = owner'[k] THEN Current ELSE Replaced(behind[n][k])]]
        /\ cache' = [k \in Keys |-> IF k \in keys /\ entries[k] # NoEntry
                                    THEN [entries[k] EXCEPT !.lag = Replaced(@)] ELSE entries[k]]
        /\ caller' = [c \in Callers |-> IF callers[c] # Idle /\ callers[c].op = "read" /\ callers[c].key \in keys
                                        THEN [callers[c] EXCEPT !.answer = Replaced(@)] ELSE callers[c]]
    BY DEF NewVersions
  <1>2. IInv'
    BY NewVersionsSound
  <1>3. EntriesOK(cache')
    BY <1>1, ReplacedEntries
  <1>4. \A n \in Remotes, k \in Keys :
           behind[n][k] \in Int /\ behind'[n][k] \in Int
           /\ (behind'[n][k] <= behind[n][k] \/ behind'[n][k] <= 0)
    BY <1>1 DEF FreshInv, OwnersCurrent, Lags, Replaced, Current
  <1>5. behind \in Lags /\ behind' \in Lags
    BY <1>1, <1>4 DEF FreshInv, OwnersCurrent, Lags
  <1>6. OwnersCurrent'
    <2>1. ASSUME NEW k \in Keys, owner'[k] \in Remotes
          PROVE  behind'[owner'[k]][k] = Current
      BY <1>1, <2>1 DEF FreshInv, OwnersCurrent
    <2> QED
      BY <1>5, <2>1 DEF OwnersCurrent
  <1>7. ASSUME NEW c \in Callers
        PROVE  Timely(caller'[c], behind')
    <2>1. Timely(callers[c], behind')
      BY <1>4, <1>5, TimelyKept
    <2>2. CASE callers[c] # Idle /\ callers[c].op = "read" /\ callers[c].key \in keys
      <3>n. PICK call : call = callers[c]
        OBVIOUS
      <3>m. PICK next : next = [call EXCEPT !.answer = Replaced(@)]
        OBVIOUS
      <3>1. caller'[c] = next /\ Shape(call) /\ call # Idle /\ Timely(call, behind')
        BY <1>1, <2>1, <2>2, <3>n, <3>m DEF Sound
      <3>2. /\ next.at = call.at /\ next.op = call.op /\ next.key = call.key /\ next.node = call.node
            /\ next.try = call.try /\ next.since = call.since /\ next.answer = Replaced(call.answer)
        BY <3>m, <3>1 DEF Shape
      <3>3. call.answer \in Int /\ call.since \in Nat
        BY <3>1 DEF Timely
      <3>4. /\ Replaced(call.answer) \in Int
            /\ Replaced(call.answer) = Unanswered <=> call.answer = Unanswered
            /\ \A bound \in Nat : call.answer <= bound => Replaced(call.answer) <= bound
        BY <3>3 DEF Replaced, Unanswered, Current
      <3>5. ConnectTime + call.since \in Nat /\ ConnectTime + RequestTimeout \in Nat
        BY <3>3, Times
      <3>6. Timely(next, behind')
        BY <3>1, <3>2, <3>4, <3>5 DEF Timely
      <3> QED
        BY <3>1, <3>6
    <2>3. CASE ~(callers[c] # Idle /\ callers[c].op = "read" /\ callers[c].key \in keys)
      BY <1>1, <2>1, <2>3
    <2> QED
      BY <2>2, <2>3
  <1> QED
    BY <1>2, <1>3, <1>6, <1>7 DEF FreshInv

\* One caller takes a step, and puts no more into the cache than entries.
LEMMA OneFresh ==
    ASSUME FreshInv, IInv', NEW c \in Callers, NEW call, Timely(call, behind),
           caller' = [caller EXCEPT ![c] = call], UNCHANGED ringSide, EntriesOK(cache')
    PROVE  FreshInv'
  <1>1. OwnersCurrent' /\ behind' = behind
    BY DEF FreshInv, OwnersCurrent, ringSide
  <1>2. \A d \in Callers : Timely(caller'[d], behind')
    BY <1>1 DEF FreshInv, IInv
  <1> QED
    BY <1>1, <1>2 DEF FreshInv

\* A caller makes no call, and a call ends.
LEMMA IdleTimely == \A lags : Timely(Idle, lags)
  BY DEF Timely

\* A caller tries again, is connected, or is not.
LEMMA ConnectingFresh ==
    ASSUME FreshInv, IInv', NEW c \in Callers, TriesAgain(c) \/ Connects(c) \/ NotConnected(c)
    PROVE  FreshInv'
  <1> DEFINE call == caller[c]
  <1>0. Sound(call) /\ Timely(call, behind) /\ EntriesOK(cache)
    BY DEF FreshInv, IInv
  <1>1. CASE TriesAgain(c)
    <2>n. PICK next : next = [call EXCEPT !.try = @ + 1]
      OBVIOUS
    <2>1. call.at = "pausing" /\ caller' = [caller EXCEPT ![c] = Tries(next)] /\ UNCHANGED ringSide /\ cache' = cache
      BY <2>n, <1>1 DEF TriesAgain
    <2>2. Shape(call) /\ call.try \in Nat \ {0} /\ call # Idle
      BY <1>0, <2>1, Busy, IdleSound
    <2>3. call.node \in Remotes /\ call.key \in Keys /\ call.since = 0 /\ call.answer = Unanswered
      BY <1>0, <2>1, <2>2 DEF Timely
    <2>4. /\ Shape(next) /\ next.node = call.node /\ next.key = call.key /\ next.since = call.since
          /\ next.answer = call.answer /\ next.try = call.try + 1
      BY <2>n, <2>2 DEF Shape
    <2>5. Timely(Tries(next), behind)
      BY <2>2, <2>3, <2>4, TriesTimely
    <2> QED
      BY <1>0, <2>1, <2>5, OneFresh
  <1>2. CASE Connects(c)
    <2>n. PICK next : next = [call EXCEPT !.at = "sent", !.since = 0]
      OBVIOUS
    <2>1. /\ call.at = "connecting" /\ caller' = [caller EXCEPT ![c] = IF call.doomed THEN Idle ELSE next]
          /\ UNCHANGED ringSide /\ cache' = cache
      BY <2>n, <1>2 DEF Connects
    <2>2. Shape(call) /\ call # Idle
      BY <1>0, <2>1, Busy, IdleSound
    <2>3. /\ next.at = "sent" /\ next.op = call.op /\ next.key = call.key /\ next.node = call.node
          /\ next.try = call.try /\ next.since = 0 /\ next.answer = call.answer
      BY <2>n, <2>2 DEF Shape
    <2>4. /\ call.node \in Remotes /\ call.key \in Keys /\ call.since \in Nat /\ call.answer \in Int
          /\ call.since <= ConnectTime
          /\ call.op = "read" /\ call.try = 1 =>
               call.answer = Unanswered /\ behind[call.node][call.key] <= call.since
      BY <1>0, <2>1, <2>2 DEF Timely
    <2>5. behind[call.node][call.key] \in Int
      BY <2>4 DEF FreshInv, OwnersCurrent, Lags
    <2>6. Timely(next, behind)
      BY <2>3, <2>4, <2>5, Times DEF Timely
    <2> QED
      BY <1>0, <2>1, <2>6, IdleTimely, OneFresh
  <1>3. CASE NotConnected(c)
    BY <1>0, <1>3, IdleTimely, OneFresh DEF NotConnected
  <1> QED
    BY <1>1, <1>2, <1>3

\* The node handles a request.
LEMMA HandledFresh ==
    ASSUME FreshInv, IInv', NEW c \in Callers, Handled(c)
    PROVE  FreshInv'
  <1> DEFINE call == caller[c]
  <1>0. Sound(call) /\ Timely(call, behind) /\ EntriesOK(cache)
    BY DEF FreshInv, IInv
  <1>1. call.at = "sent" /\ call.answer = Unanswered /\ owner' = owner /\ members' = members
    BY DEF Handled
  <1>2. Shape(call) /\ call.op \in {"read", "write"} /\ call.try \in Nat \ {0} /\ call # Idle
        /\ (call.op = "write" => HandledOnce(call))
    BY <1>0, <1>1, Busy, IdleSound
  <1>3. /\ call.node \in Remotes /\ call.key \in Keys /\ call.since \in Nat /\ call.since <= RequestTimeout
        /\ call.op = "read" /\ call.try = 1 => behind[call.node][call.key] <= ConnectTime + call.since
    BY <1>0, <1>1, <1>2 DEF Timely
  <1>4. behind[call.node][call.key] \in Int
    BY <1>3 DEF FreshInv, OwnersCurrent, Lags
  <1>5. CASE call.op = "read"
    <2>n. PICK next : next = [call EXCEPT !.answer = behind[call.node][call.key]]
      OBVIOUS
    <2>1. caller' = [caller EXCEPT ![c] = next] /\ UNCHANGED ringSide /\ cache' = cache
      BY <2>n, <1>5 DEF Handled, FreshInv, IInv, ringSide
    <2>2. /\ next.at = "sent" /\ next.op = "read" /\ next.key = call.key /\ next.node = call.node
          /\ next.try = call.try /\ next.since = call.since /\ next.answer = behind[call.node][call.key]
      BY <2>n, <1>1, <1>2, <1>5 DEF Shape
    <2>3. Timely(next, behind)
      BY <2>2, <1>3, <1>4, <1>5 DEF Timely
    <2> QED
      BY <1>0, <2>1, <2>3, OneFresh
  <1>6. CASE call.op = "write"
    <2> DEFINE callers == [caller EXCEPT ![c].answer = Current, ![c].done = @ + 1]
               passed == {call.key} \cap {k \in Keys : owner[k] = call.node}
    <2>n. PICK next : next = [call EXCEPT !.answer = Current, !.done = @ + 1]
      OBVIOUS
    <2>1. NewVersions(passed, callers, cache)
      BY <1>6 DEF Handled
    <2>2. callers = [caller EXCEPT ![c] = next]
      BY <2>n DEF FreshInv, IInv
    <2>3. /\ Shape(next) /\ next.at = "sent" /\ next.op = "write" /\ next.try = call.try
          /\ next.answer = Current /\ next.done = call.done + 1
          /\ next.key = call.key /\ next.node = call.node /\ next.since = call.since
      BY <2>n, <1>1, <1>2, <1>6 DEF Shape
    <2>4. Sound(next)
      BY <1>1, <1>2, <1>6, <2>3 DEF Sound, HandledOnce, Places, Unanswered, Current
    <2>5. Timely(next, behind)
      BY <1>3, <2>3 DEF Timely, Current
    <2>6. \A d \in Callers : Sound(callers[d]) /\ Timely(callers[d], behind)
      BY <2>2, <2>4, <2>5 DEF FreshInv, IInv
    <2>7. passed \in SUBSET Keys /\ owner' \in [Keys -> Remotes \cup {Self}] /\ members' \subseteq Remotes
          /\ \A k \in Keys \ passed : owner'[k] = owner[k]
      BY <1>1 DEF FreshInv, OwnersCurrent
    <2> HIDE DEF callers, passed
    <2> QED
      BY <1>0, <2>1, <2>6, <2>7, NewVersionsFresh
  <1> QED
    BY <1>2, <1>5, <1>6

\* The caller is answered, refused, or waits too long.
LEMMA AnswersFresh ==
    ASSUME FreshInv, IInv', NEW c \in Callers, Answers(c) \/ Refuses(c) \/ TimesOut(c)
    PROVE  FreshInv'
  <1> DEFINE call == caller[c]
  <1>0. Sound(call) /\ Timely(call, behind) /\ EntriesOK(cache)
    BY DEF FreshInv, IInv
  <1>1. call.at = "sent" /\ UNCHANGED ringSide /\ cache' = cache
    BY DEF Answers, Refuses, TimesOut
  <1>2. Shape(call) /\ call.op \in {"read", "write"} /\ call # Idle /\ (call.op = "write" => HandledOnce(call))
    BY <1>0, <1>1, Busy, IdleSound
  <1>3. /\ call.node \in Remotes /\ call.key \in Keys /\ call.since \in Nat /\ call.since <= RequestTimeout
        /\ call.answer \in Int
        /\ call.op = "read" /\ call.try = 1 /\ call.answer # Unanswered => call.answer <= ConnectTime + call.since
    BY <1>0, <1>1, <1>2 DEF Timely
  <1>4. CASE Answers(c)
    <2>n. PICK next : next = [call EXCEPT !.at = "answered"]
      OBVIOUS
    <2>1. call.answer # Unanswered /\ call.try = 1 /\ caller' = [caller EXCEPT ![c] = next]
      BY <2>n, <1>4 DEF Answers, Expected, FreshInv, IInv
    <2>2. /\ next.at = "answered" /\ next.op = call.op /\ next.node = call.node /\ next.key = call.key
          /\ next.since = call.since /\ next.answer = call.answer
      BY <2>n, <1>2 DEF Shape
    <2>3. call.answer <= ConnectTime + RequestTimeout
      <3>1. CASE call.op = "read"
        BY <3>1, <1>3, <2>1, Times
      <3>2. CASE call.op = "write"
        BY <3>2, <1>2, Times DEF HandledOnce, Unanswered, Current
      <3> QED
        BY <1>2, <3>1, <3>2
    <2>4. Timely(next, behind)
      BY <1>3, <2>2, <2>3 DEF Timely
    <2> QED
      BY <1>0, <1>1, <2>1, <2>4, OneFresh
  <1>5. CASE Refuses(c) \/ TimesOut(c)
    <2>1. caller' = [caller EXCEPT ![c] = Retries(call)]
      BY <1>5 DEF Refuses, TimesOut
    <2>2. Timely(Retries(call), behind)
      BY <1>2, <1>3, RetriesTimely
    <2> QED
      BY <1>0, <1>1, <2>1, <2>2, OneFresh
  <1> QED
    BY <1>4, <1>5

\* What was read enters the cache as it is.
LEMMA ResumesFresh ==
    ASSUME FreshInv, IInv', NEW c \in Callers, Resumes(c)
    PROVE  FreshInv'
  <1> DEFINE call == caller[c]
  <1>0. Sound(call) /\ Timely(call, behind) /\ EntriesOK(cache)
    BY DEF FreshInv, IInv
  <1>1. call.at = "answered" /\ caller' = [caller EXCEPT ![c] = Idle] /\ UNCHANGED ringSide
    BY DEF Resumes
  <1>2. call # Idle
    BY <1>1, IdleSound
  <1>3. call.answer \in Int /\ call.answer <= ConnectTime + RequestTimeout
    BY <1>0, <1>1, <1>2 DEF Timely
  <1>4. EntriesOK(cache')
    <2>1. CASE cache' = cache
      BY <1>0, <2>1
    <2>2. ASSUME NEW gone, cache' = [k \in Keys |-> IF k = call.key THEN [lag |-> call.answer, from |-> call.node, age |-> 0]
                                                    ELSE IF k \in gone THEN NoEntry ELSE cache[k]]
          PROVE  EntriesOK(cache')
      <3>e. PICK entry : entry = [lag |-> call.answer, from |-> call.node, age |-> 0]
        OBVIOUS
      <3>1. EntryOK(entry)
        BY <3>e, <1>3, Times DEF EntryOK
      <3>2. \A k \in Keys : cache'[k] \in {entry, NoEntry, cache[k]}
        BY <2>2, <3>e
      <3>3. cache' = [k \in Keys |-> cache'[k]]
        BY <2>2
      <3> QED
        BY <1>0, <3>1, <3>2, <3>3 DEF EntriesOK
    <2> QED
      BY <2>1, <2>2 DEF Resumes
  <1> QED
    BY <1>1, <1>4, IdleTimely, OneFresh

\* A caller asks the owner of now, who has the current version.
LEMMA CallsFresh ==
    ASSUME FreshInv, IInv', NEW c \in Callers, NEW k \in Keys, GetData(c, k) \/ WriteData(c, k)
    PROVE  FreshInv'
  <1>1. UNCHANGED ringSide
    BY DEF GetData, WriteData
  <1>2. EntriesOK(cache')
    <2>1. cache' = cache \/ cache' = [cache EXCEPT ![k] = NoEntry]
      BY DEF GetData, WriteData
    <2> QED
      BY <2>1 DEF FreshInv, EntriesOK
  <1>3. ASSUME NEW op \in {"read", "write"}, owner[k] # Self
        PROVE  Timely(Tries(Call(op, k)), behind)
    <2>1. owner[k] \in Remotes /\ behind[owner[k]][k] = Current
      BY <1>3 DEF FreshInv, OwnersCurrent
    <2>2. PICK call : call = Call(op, k)
      OBVIOUS
    <2>3. /\ Shape(call) /\ call.node = owner[k] /\ call.key = k /\ call.since = 0 /\ call.answer = Unanswered
      BY <2>2 DEF Call, Shape
    <2>4. behind[call.node][call.key] <= 0
      BY <2>1, <2>3 DEF Current
    <2> QED
      BY <2>1, <2>2, <2>3, <2>4, TriesTimely
  <1>4. CASE caller' = caller
    <2>1. caller' = [caller EXCEPT ![c] = caller[c]] /\ Timely(caller[c], behind)
      BY <1>4 DEF FreshInv, IInv
    <2> QED
      BY <1>1, <1>2, <2>1, OneFresh
  <1>5. ASSUME NEW op \in {"read", "write"}, owner[k] # Self, caller' = [caller EXCEPT ![c] = Tries(Call(op, k))]
        PROVE  FreshInv'
    BY <1>1, <1>2, <1>3, <1>5, OneFresh
  <1> QED
    BY <1>4, <1>5 DEF GetData, WriteData

\* The end of a connection dooms the calls that wait for one.
LEMMA ClosesFresh ==
    ASSUME FreshInv, IInv', NEW n, Closes(n)
    PROVE  FreshInv'
  <1>1. /\ caller' = [c \in Callers |-> CASE caller[c].at = "connecting" -> [caller[c] EXCEPT !.doomed = TRUE]
                                          [] caller[c].at = "sent" -> Idle
                                          [] OTHER -> caller[c]]
        /\ UNCHANGED ringSide /\ cache' = cache
    BY DEF Closes
  <1>2. ASSUME NEW c \in Callers PROVE Timely(caller'[c], behind)
    <2>0. Sound(caller[c]) /\ Timely(caller[c], behind)
      BY DEF FreshInv, IInv
    <2>1. CASE caller[c].at = "connecting"
      <3> DEFINE call == caller[c]
      <3>n. PICK next : next = [call EXCEPT !.doomed = TRUE]
        OBVIOUS
      <3>1. caller'[c] = next
        BY <3>n, <1>1, <2>1
      <3>2. Shape(call) /\ call # Idle
        BY <2>0, <2>1, Busy, IdleSound
      <3>3. /\ next.at = call.at /\ next.op = call.op /\ next.key = call.key /\ next.node = call.node
            /\ next.try = call.try /\ next.since = call.since /\ next.answer = call.answer
        BY <3>n, <3>2 DEF Shape
      <3> QED
        BY <2>0, <3>1, <3>2, <3>3 DEF Timely
    <2>2. CASE caller[c].at = "sent"
      BY <1>1, <2>2, IdleTimely
    <2>3. CASE caller[c].at \notin {"connecting", "sent"}
      BY <1>1, <2>0, <2>3
    <2> QED
      BY <2>1, <2>2, <2>3
  <1>3. OwnersCurrent' /\ behind' = behind
    BY <1>1 DEF FreshInv, OwnersCurrent, ringSide
  <1> QED
    BY <1>1, <1>2, <1>3 DEF FreshInv

\* A second passes: nobody who is due is passed over, and nothing gets older by more.
LEMMA TimeFresh ==
    ASSUME FreshInv, IInv', TimeGoesOn
    PROVE  FreshInv'
  <1>1. /\ \A c \in Callers : /\ caller[c].at = "sent" => caller[c].since < RequestTimeout
                              /\ caller[c].at = "connecting" => caller[c].since < ConnectTime
        /\ caller' = [c \in Callers |-> IF caller[c].at \in {"sent", "connecting"}
                                        THEN [caller[c] EXCEPT !.since = @ + 1, !.answer = Later(@)] ELSE caller[c]]
        /\ behind' = [n \in Remotes |-> [k \in Keys |-> Later(behind[n][k])]]
        /\ cache' = [k \in Keys |-> IF k \in Cached THEN [cache[k] EXCEPT !.age = Min({@ + 1, 2 * Ttl + 1}), !.lag = Later(@)]
                                                    ELSE NoEntry]
        /\ owner' = owner /\ members' = members
    BY DEF TimeGoesOn
  <1>2. \A n \in Remotes, k \in Keys : behind[n][k] \in Int
    BY DEF FreshInv, OwnersCurrent, Lags
  <1>3. \A n \in Remotes, k \in Keys : /\ behind'[n][k] = Later(behind[n][k]) /\ behind'[n][k] \in Int
                                       /\ behind'[n][k] <= behind[n][k] + 1
    BY <1>1, <1>2, LaterLag
  <1>4. OwnersCurrent'
    <2>1. behind' \in Lags
      BY <1>1, <1>3 DEF Lags
    <2>2. Later(Current) = Current
      BY DEF Later, Current
    <2>3. \A k \in Keys : owner[k] \in Remotes => behind'[owner[k]][k] = Current
      BY <1>3, <2>2 DEF FreshInv, OwnersCurrent
    <2> QED
      BY <1>1, <2>1, <2>3 DEF FreshInv, OwnersCurrent
  <1>5. EntriesOK(cache')
    <2>1. ASSUME NEW entry, EntryOK(entry)
          PROVE  EntryOK([entry EXCEPT !.age = Min({@ + 1, 2 * Ttl + 1}), !.lag = Later(@)])
      <3>n. PICK next : next = [entry EXCEPT !.age = Min({@ + 1, 2 * Ttl + 1}), !.lag = Later(@)]
        OBVIOUS
      <3>1. /\ entry = [lag |-> entry.lag, from |-> entry.from, age |-> entry.age]
            /\ entry.lag \in Int /\ entry.age \in Nat
            /\ entry.age <= Ttl => entry.lag <= entry.age + RequestTimeout + ConnectTime
        BY <2>1 DEF EntryOK
      <3>a. PICK a : a = Min({entry.age + 1, 2 * Ttl + 1})
        OBVIOUS
      <3>2. a \in {entry.age + 1, 2 * Ttl + 1} /\ a \in Nat
        <4>1. entry.age + 1 \in Nat /\ 2 * Ttl + 1 \in Nat
          BY <3>1, Times
        <4>2. \A m, t \in Nat : Min({m, t}) \in {m, t}
          <5> TAKE m, t \in Nat
          <5>1. m \in Int /\ t \in Int
            OBVIOUS
          <5> QED
            BY <5>1, MinOfTwo, Zenon
        <4>3. a \in {entry.age + 1, 2 * Ttl + 1}
          BY <3>a, <4>1, <4>2, Zenon
        <4> QED
          BY <4>1, <4>3
      <3>l. PICK l : l = Later(entry.lag)
        OBVIOUS
      <3>3. l \in Int /\ l <= entry.lag + 1
        BY <3>l, <3>1, LaterLag
      <3>4. next = [lag |-> l, from |-> entry.from, age |-> a]
        BY <3>n, <3>1, <3>a, <3>l
      <3>5. a <= Ttl => l <= a + RequestTimeout + ConnectTime
        BY <3>1, <3>2, <3>3, Times
      <3>6. next.lag = l /\ next.from = entry.from /\ next.age = a
        BY <3>4
      <3> QED
        BY <3>n, <3>2, <3>3, <3>4, <3>5, <3>6 DEF EntryOK
    <2>2. ASSUME NEW k \in Keys, cache'[k] # NoEntry
          PROVE  EntryOK(cache'[k])
      <3>1. k \in Cached
        BY <1>1, <2>2
      <3>2. EntryOK(cache[k])
        BY <3>1 DEF Cached, FreshInv, EntriesOK
      <3>3. cache'[k] = [cache[k] EXCEPT !.age = Min({@ + 1, 2 * Ttl + 1}), !.lag = Later(@)]
        BY <1>1, <3>1
      <3> QED
        BY <2>1, <3>2, <3>3
    <2>3. cache' = [k \in Keys |-> cache'[k]]
      BY <1>1
    <2> QED
      BY <2>2, <2>3 DEF EntriesOK
  <1>6. ASSUME NEW c \in Callers PROVE Timely(caller'[c], behind')
    <2> DEFINE call == caller[c]
    <2>0. Sound(call) /\ Timely(call, behind)
      BY DEF FreshInv, IInv
    <2>1. CASE call.at \in {"sent", "connecting"}
      <3>n. PICK next : next = [call EXCEPT !.since = @ + 1, !.answer = Later(@)]
        OBVIOUS
      <3>1. caller'[c] = next
        BY <3>n, <1>1, <2>1
      <3>2. Shape(call) /\ call # Idle
        BY <2>0, <2>1, Busy, IdleSound
      <3>3. /\ next.at = call.at /\ next.op = call.op /\ next.key = call.key /\ next.node = call.node
            /\ next.try = call.try /\ next.since = call.since + 1 /\ next.answer = Later(call.answer)
        BY <3>n, <3>2 DEF Shape
      <3>4. call.node \in Remotes /\ call.key \in Keys /\ call.since \in Nat /\ call.answer \in Int
        BY <2>0, <3>2 DEF Timely
      <3>5. /\ Later(call.answer) \in Int /\ Later(call.answer) <= call.answer + 1
            /\ Later(call.answer) = Unanswered <=> call.answer = Unanswered
        BY <3>4, LaterLag DEF Unanswered
      <3>6. /\ behind[call.node][call.key] \in Int /\ behind'[call.node][call.key] \in Int
            /\ behind'[call.node][call.key] <= behind[call.node][call.key] + 1
        BY <1>2, <1>3, <3>4
      <3>7. CASE call.at = "connecting"
        <4>1. /\ call.since < ConnectTime
              /\ call.op = "read" /\ call.try = 1 =>
                   call.answer = Unanswered /\ behind[call.node][call.key] <= call.since
          BY <1>1, <2>0, <3>2, <3>7 DEF Timely
        <4>2. call.since + 1 \in Nat /\ call.since + 1 <= ConnectTime
          BY <3>4, <4>1, Times
        <4>3. call.op = "read" /\ call.try = 1 =>
                Later(call.answer) = Unanswered /\ behind'[call.node][call.key] <= call.since + 1
          BY <3>4, <3>5, <3>6, <4>1
        <4> QED
          BY <3>1, <3>3, <3>4, <3>5, <3>7, <4>2, <4>3 DEF Timely
      <3>8. CASE call.at = "sent"
        <4>1. /\ call.since < RequestTimeout
              /\ call.op = "read" /\ call.try = 1 =>
                   IF call.answer = Unanswered THEN behind[call.node][call.key] <= ConnectTime + call.since
                                               ELSE call.answer <= ConnectTime + call.since
          BY <1>1, <2>0, <3>2, <3>8 DEF Timely
        <4>2. call.since + 1 \in Nat /\ call.since + 1 <= RequestTimeout
          BY <3>4, <4>1, Times
        <4>3. call.op = "read" /\ call.try = 1 =>
                IF Later(call.answer) = Unanswered
                THEN behind'[call.node][call.key] <= ConnectTime + (call.since + 1)
                ELSE Later(call.answer) <= ConnectTime + (call.since + 1)
          BY <3>4, <3>5, <3>6, <4>1, Times
        <4> QED
          BY <3>1, <3>3, <3>4, <3>5, <3>8, <4>2, <4>3 DEF Timely
      <3> QED
        BY <2>1, <3>7, <3>8
    <2>2. CASE call.at \notin {"sent", "connecting"}
      BY <1>1, <2>0, <2>2 DEF Timely
    <2> QED
      BY <2>1, <2>2
  <1> QED
    BY <1>4, <1>5, <1>6 DEF FreshInv

\* A member leaves and its entries are dropped, or one joins.
LEMMA MembersFresh ==
    ASSUME FreshInv, NEW n \in Remotes, MemberLeaves(n) \/ MemberJoins(n)
    PROVE  FreshInv'
  <1>0. /\ \A c \in Callers : Sound(caller[c]) /\ Timely(caller[c], behind)
        /\ EntriesOK(cache) /\ owner \in [Keys -> Remotes \cup {Self}] /\ members \subseteq Remotes
    BY DEF FreshInv, IInv, OwnersCurrent
  <1>1. CASE MemberLeaves(n)
    <2> DEFINE passed == {k \in Keys : owner[k] = n}
    <2>1. PICK to \in [passed -> members' \cup {Self}] :
             owner' = [k \in Keys |-> IF k \in passed THEN to[k] ELSE owner[k]]
      BY <1>1 DEF MemberLeaves
    <2>2. members' = members \ {n} /\ NewVersions(passed, caller, Invalidated(n))
      BY <1>1 DEF MemberLeaves
    <2>3. /\ owner' \in [Keys -> Remotes \cup {Self}] /\ members' \subseteq Remotes
          /\ \A k \in Keys \ passed : owner'[k] = owner[k]
      <3>1. \A k \in passed : to[k] \in Remotes \cup {Self}
        BY <1>0, <2>1, <2>2
      <3> HIDE DEF passed
      <3> QED
        BY <1>0, <2>1, <2>2, <3>1
    <2>4. EntriesOK(Invalidated(n))
      BY <1>0 DEF EntriesOK, Invalidated
    <2>5. passed \in SUBSET Keys
      OBVIOUS
    <2> HIDE DEF passed
    <2> QED
      BY <1>0, <2>2, <2>3, <2>4, <2>5, NewVersionsFresh
  <1>2. CASE MemberJoins(n)
    <2>1. PICK moved \in SUBSET Keys : /\ owner' = [k \in Keys |-> IF k \in moved THEN n ELSE owner[k]]
                                       /\ NewVersions(moved, caller, cache)
      BY <1>2 DEF MemberJoins
    <2>2. members' = members \cup {n}
      BY <1>2 DEF MemberJoins
    <2>3. /\ owner' \in [Keys -> Remotes \cup {Self}] /\ members' \subseteq Remotes
          /\ \A k \in Keys \ moved : owner'[k] = owner[k]
      BY <1>0, <2>1, <2>2
    <2> QED
      BY <1>0, <2>1, <2>3, NewVersionsFresh
  <1> QED
    BY <1>1, <1>2

\* The owner writes a key.
LEMMA OwnerWritesFresh ==
    ASSUME FreshInv, NEW k \in Keys, OwnerWrites(k)
    PROVE  FreshInv'
  <1>1. /\ \A c \in Callers : Sound(caller[c]) /\ Timely(caller[c], behind)
        /\ EntriesOK(cache) /\ NewVersions({k}, caller, cache)
        /\ owner' \in [Keys -> Remotes \cup {Self}] /\ members' \subseteq Remotes
        /\ \A l \in Keys \ {k} : owner'[l] = owner[l]
    BY DEF OwnerWrites, FreshInv, IInv, OwnersCurrent
  <1>2. {k} \in SUBSET Keys
    OBVIOUS
  <1> QED
    BY <1>1, <1>2, NewVersionsFresh

\* What a read is served, by the cache or by an owner, had been the current version no
\* longer ago than the cache keeps an entry, a request waits for its answer and a
\* connection takes to be made together, whoever owns the key by then and whatever
\* answers, invalidations and members overtake each other.
THEOREM ReadsServedFresh == ReadsSpec => []ServedFresh
  <1>1. ReadsInit => FreshInv
    <2> SUFFICES ASSUME ReadsInit PROVE FreshInv
      OBVIOUS
    <2>1. IInv /\ \A c \in Callers : Timely(caller[c], behind)
      BY IdleSound, IdleTimely DEF ReadsInit, IInv
    <2>2. EntriesOK(cache)
      BY DEF ReadsInit, EntriesOK
    <2>3. LongestLag + 1 \in Int /\ Current \in Int
      BY Times DEF LongestLag, Current
    <2>4. OwnersCurrent
      BY <2>3 DEF ReadsInit, OwnersCurrent, Lags
    <2> QED
      BY <2>1, <2>2, <2>4 DEF FreshInv
  <1>2. FreshInv /\ [ReadsNext]_readVars /\ IInv' => FreshInv'
    <2> SUFFICES ASSUME FreshInv, [ReadsNext]_readVars, IInv' PROVE FreshInv'
      OBVIOUS
    <2>1. ASSUME NEW c \in Callers, TriesAgain(c) \/ Connects(c) \/ NotConnected(c) PROVE FreshInv'
      BY <2>1, ConnectingFresh
    <2>2. ASSUME NEW c \in Callers, Handled(c) PROVE FreshInv'
      BY <2>2, HandledFresh
    <2>3. ASSUME NEW c \in Callers, Answers(c) \/ Refuses(c) \/ TimesOut(c) PROVE FreshInv'
      BY <2>3, AnswersFresh
    <2>4. ASSUME NEW c \in Callers, Resumes(c) PROVE FreshInv'
      BY <2>4, ResumesFresh
    <2>5. ASSUME NEW c \in Callers, NEW k \in Keys, GetData(c, k) \/ WriteData(c, k) PROVE FreshInv'
      BY <2>5, CallsFresh
    <2>6. ASSUME NEW n \in Remotes, Closes(n) PROVE FreshInv'
      BY <2>6, ClosesFresh
    <2>7. ASSUME NEW n \in Remotes, MemberLeaves(n) \/ MemberJoins(n) PROVE FreshInv'
      BY <2>7, MembersFresh
    <2>8. ASSUME NEW k \in Keys, OwnerWrites(k) PROVE FreshInv'
      BY <2>8, OwnerWritesFresh
    <2>9. CASE TimeGoesOn
      BY <2>9, TimeFresh
    <2>10. CASE CleansCache
      <3>1. UNCHANGED <<owner, behind, members, caller>> /\ EntriesOK(cache')
        BY <2>10 DEF CleansCache, ringSide, FreshInv, EntriesOK
      <3> QED
        BY <3>1 DEF FreshInv, OwnersCurrent
    <2>11. CASE UNCHANGED readVars
      BY <2>11 DEF readVars, ringSide, FreshInv, OwnersCurrent
    <2> QED
      BY <2>1, <2>2, <2>3, <2>4, <2>5, <2>6, <2>7, <2>8, <2>9, <2>10, <2>11 DEF ReadsNext
  <1>3. FreshInv => ServedFresh
    <2> SUFFICES ASSUME FreshInv PROVE ServedFresh
      OBVIOUS
    <2>1. ASSUME NEW k \in Cached, ~Expired(cache[k]) PROVE cache[k].lag <= LongestLag
      <3>1. EntryOK(cache[k])
        BY DEF Cached, FreshInv, EntriesOK
      <3> QED
        BY <2>1, <3>1, Times DEF EntryOK, Expired, LongestLag
    <2>2. ASSUME NEW c \in Callers, caller[c].at = "answered" PROVE caller[c].answer <= RequestTimeout + ConnectTime
      <3>1. caller[c] # Idle
        BY <2>2, IdleSound
      <3>2. caller[c].answer \in Int /\ caller[c].answer <= ConnectTime + RequestTimeout
        BY <2>2, <3>1 DEF FreshInv, Timely
      <3> QED
        BY <3>2, Times
    <2> QED
      BY <2>1, <2>2 DEF ServedFresh
  <1>4. ReadsSpec => []IInv
    BY AlwaysSound
  <1> QED
    BY <1>1, <1>2, <1>3, <1>4, PTL DEF ReadsSpec

-----------------------------------------------------------------------------
(* The owner in the ring. *)

\* Of any natural numbers, one is the least.
LEMMA LeastOfNats ==
    ASSUME NEW S \in SUBSET Nat, S # {}
    PROVE  \E m \in S : \A k \in S : m <= k
  <1>1. PICK m \in S : \A k \in S : ~(<<k, m>> \in OpToRel(<, Nat))
    BY NatLessThanWellFounded, WFMin
  <1>2. \A k \in S : ~(k < m)
    BY <1>1 DEF OpToRel
  <1> QED
    BY <1>2

\* The least of natural numbers is one of them.
LEMMA MinOfNats ==
    ASSUME NEW S \in SUBSET Nat, S # {}
    PROVE  Min(S) \in S /\ \A k \in S : Min(S) <= k
  BY LeastOfNats DEF Min

\* How many virtual nodes a node can have.
VnodeCounts == {0} \cup {VnodeCount(w) : w \in Weights}

RingTypeOK ==
    /\ layout \in Layouts /\ vnodes \in [RingNodes -> VnodeCounts]
    /\ age \in [Peers -> Int] /\ quiet \in [Peers -> Int] /\ sinceSweep \in 0..CleanupInterval

\* A peer is in the ring if it is known, and the local node always is.
KnownInRing == vnodes[Me] # 0 /\ \A n \in Peers : vnodes[n] # 0 => age[n] # Unknown

\* Since the last clean-up nobody known had been silent for longer than the time-out, as
\* far as the clock of whoever told of them can be trusted.
SweptLately ==
    \A n \in Peers : age[n] # Unknown =>
        /\ age[n] >= -Skew /\ quiet[n] >= 0
        /\ quiet[n] <= age[n] + Skew
        /\ quiet[n] <= HeartbeatTimeout + Skew + sinceSweep

RingInv == RingTypeOK /\ KnownInRing /\ SweptLately

\* Every weight is good for one virtual node at least.
LEMMA VnodesOfWeight ==
    ASSUME NEW w \in Weights PROVE VnodeCount(w) \in Nat /\ VnodeCount(w) >= 1
  <1>1. PICK x \in Nat : x = (VirtualNodes * w) \div 2
    <2>1. VirtualNodes * w \in Nat
      BY RingAssumption
    <2> QED
      BY <2>1
  <1>2. Max({1, x}) \in Nat /\ Max({1, x}) >= 1
    BY DEF Max
  <1> QED
    BY <1>1, <1>2 DEF VnodeCount

\* The ring for given virtual nodes.
RingOf(v) == {n \in RingNodes : v[n] > 0}

Far(l, v, g, n) == Min({(l[<<n, i>>] - GuildHash[g]) % HashSpace : i \in 1..v[n]})

\* The node nearest to a guild.
Near(l, v, g, n) == n \in RingOf(v) /\ \A m \in RingOf(v) : Far(l, v, g, n) <= Far(l, v, g, m)

Rings == [RingNodes -> VnodeCounts]

\* Numbers with the same rest are a multiple apart.
LEMMA SameRest ==
    ASSUME NEW H \in Nat \ {0}, NEW x \in Int, NEW y \in Int, x % H = y % H
    PROVE  \E k \in Int : x - y = H * k
  <1>1. /\ x = H * (x \div H) + (x % H) /\ y = H * (y \div H) + (y % H)
        /\ x \div H \in Int /\ y \div H \in Int /\ x % H \in Int
    BY SMT
  <1>2. PICK q \in Int, r \in Int, c \in Int : q = x \div H /\ r = y \div H /\ c = x % H
    BY <1>1
  <1>3. PICK a \in Int, b \in Int : a = H * q /\ b = H * r
    OBVIOUS
  <1>4. x = a + c /\ y = b + c
    BY <1>1, <1>2, <1>3
  <1>5. x - y = a - b
    BY <1>4
  <1>6. H * q - H * r = H * (q - r)
    BY SMT
  <1>7. x - y = H * (q - r) /\ q - r \in Int
    BY <1>3, <1>5, <1>6
  <1> QED
    BY <1>7

\* Positions that differ are not as far from a guild.
LEMMA WaysDiffer ==
    ASSUME NEW H \in Nat \ {0}, NEW h \in Int, NEW a \in 0..H - 1, NEW b \in 0..H - 1,
           (a - h) % H = (b - h) % H
    PROVE  a = b
  <1>0. PICK x \in Int, y \in Int : x = a - h /\ y = b - h
    OBVIOUS
  <1>1. PICK k \in Int : x - y = H * k
    <2>1. x % H = y % H
      BY <1>0
    <2> QED
      BY <2>1, SameRest
  <1>2. PICK d \in Int : d = H * k /\ a - b = d
    BY <1>0, <1>1
  <1>3. d < H /\ -H < d
    BY <1>2
  <1>4. k >= 1 => H * k >= H
    BY SMT
  <1>5. k <= -1 => H * k <= -H
    BY SMT
  <1>6. k = 0
    BY <1>2, <1>3, <1>4, <1>5
  <1> QED
    BY <1>2, <1>6

\* The virtual nodes of a node of the ring, and how far each is from a guild.
LEMMA SpotOfNode ==
    ASSUME NEW l \in Layouts, NEW v \in Rings, NEW g \in RingGuilds, NEW n \in RingOf(v), NEW i \in 1..v[n]
    PROVE  /\ <<n, i>> \in Spots /\ l[<<n, i>>] \in 0..HashSpace - 1
           /\ (l[<<n, i>>] - GuildHash[g]) % HashSpace \in Nat
  <1>1. n \in RingNodes /\ v[n] \in VnodeCounts /\ v[n] > 0
    BY DEF RingOf, Rings
  <1>2. PICK w \in Weights : v[n] = VnodeCount(w)
    BY <1>1 DEF VnodeCounts
  <1>3. <<n, i>> \in Spots
    BY <1>1, <1>2 DEF Spots
  <1>4. l[<<n, i>>] \in 0..HashSpace - 1 /\ GuildHash[g] \in Int /\ HashSpace \in Nat \ {0}
    BY <1>3, RingAssumption
  <1>5. \A x \in Int : x % HashSpace \in Nat
    BY <1>4
  <1> QED
    BY <1>3, <1>4, <1>5

LEMMA FarFound ==
    ASSUME NEW l \in Layouts, NEW v \in Rings, NEW g \in RingGuilds, NEW n \in RingOf(v)
    PROVE  /\ Far(l, v, g, n) \in Nat /\ v[n] \in Nat
           /\ \E i \in 1..v[n] : Far(l, v, g, n) = (l[<<n, i>>] - GuildHash[g]) % HashSpace
           /\ \A i \in 1..v[n] : Far(l, v, g, n) <= (l[<<n, i>>] - GuildHash[g]) % HashSpace
  <1> DEFINE ways == {(l[<<n, i>>] - GuildHash[g]) % HashSpace : i \in 1..v[n]}
  <1>1. v[n] \in Nat /\ 1 \in 1..v[n]
    <2>1. v[n] \in VnodeCounts /\ v[n] > 0
      BY DEF RingOf, Rings
    <2> QED
      BY <2>1, VnodesOfWeight DEF VnodeCounts
  <1>2. ways \in SUBSET Nat /\ ways # {}
    BY <1>1, SpotOfNode
  <1>3. Min(ways) \in ways /\ \A k \in ways : Min(ways) <= k
    <2> HIDE DEF ways
    <2> QED
      BY <1>2, MinOfNats
  <1>4. Far(l, v, g, n) = Min(ways)
    BY DEF Far
  <1> QED
    BY <1>1, <1>2, <1>3, <1>4

\* No two nodes are as far from a guild.
LEMMA FarsDiffer ==
    ASSUME NEW l \in Layouts, NEW v \in Rings, NEW g \in RingGuilds, NEW n \in RingOf(v), NEW m \in RingOf(v),
           Far(l, v, g, n) = Far(l, v, g, m)
    PROVE  n = m
  <1>1. PICK i \in 1..v[n] : Far(l, v, g, n) = (l[<<n, i>>] - GuildHash[g]) % HashSpace
    BY FarFound
  <1>2. PICK j \in 1..v[m] : Far(l, v, g, m) = (l[<<m, j>>] - GuildHash[g]) % HashSpace
    BY FarFound
  <1>3. PICK a, b : a = <<n, i>> /\ b = <<m, j>>
    OBVIOUS
  <1>4. a \in Spots /\ b \in Spots /\ l[a] \in 0..HashSpace - 1 /\ l[b] \in 0..HashSpace - 1
    BY <1>3, SpotOfNode
  <1>5. (l[a] - GuildHash[g]) % HashSpace = (l[b] - GuildHash[g]) % HashSpace
    BY <1>1, <1>2, <1>3
  <1>6. l[a] = l[b]
    BY <1>4, <1>5, WaysDiffer, RingAssumption
  <1>7. a = b
    BY <1>4, <1>6, RingAssumption
  <1> QED
    BY <1>3, <1>7

\* With more virtual nodes a node is no farther.
LEMMA MoreIsNearer ==
    ASSUME NEW l \in Layouts, NEW v \in Rings, NEW u \in Rings, NEW g \in RingGuilds, NEW n \in RingOf(v),
           n \in RingOf(u), v[n] <= u[n]
    PROVE  Far(l, u, g, n) <= Far(l, v, g, n)
  <1>1. PICK i \in 1..v[n] : Far(l, v, g, n) = (l[<<n, i>>] - GuildHash[g]) % HashSpace
    BY FarFound
  <1>2. i \in 1..u[n]
    BY FarFound
  <1> QED
    BY <1>1, <1>2, FarFound

\* A node is nearest in one ring and another in the other: the other one has gained
\* virtual nodes, or the one has lost some, or all.
LEMMA NearestMoves ==
    ASSUME NEW l \in Layouts, NEW v \in Rings, NEW u \in Rings, NEW g \in RingGuilds, NEW was, NEW is,
           Near(l, v, g, was), Near(l, u, g, is), was # is, ~(u[is] > v[is]), was \in RingOf(u)
    PROVE  u[was] < v[was]
  <1>1. /\ was \in RingNodes /\ is \in RingNodes /\ was \in RingOf(v) /\ is \in RingOf(u)
    BY DEF Near, RingOf
  <1>2. u[is] \in Nat /\ v[is] \in Nat /\ u[was] \in Nat /\ v[was] \in Nat
    <2>1. \A w \in Weights : VnodeCount(w) \in Nat
      BY VnodesOfWeight
    <2> QED
      BY <1>1, <2>1 DEF Rings, VnodeCounts
  <1>3. is \in RingOf(v) /\ u[is] <= v[is]
    BY <1>1, <1>2 DEF RingOf
  <1> SUFFICES ASSUME v[was] <= u[was] PROVE FALSE
    BY <1>2
  <1>4. Far(l, u, g, was) <= Far(l, v, g, was)
    BY <1>1, MoreIsNearer
  <1>5. Far(l, v, g, was) <= Far(l, v, g, is) /\ Far(l, v, g, was) # Far(l, v, g, is)
    BY <1>1, <1>3, FarsDiffer DEF Near
  <1>6. Far(l, v, g, is) <= Far(l, u, g, is)
    BY <1>1, <1>3, MoreIsNearer
  <1>7. Far(l, u, g, is) <= Far(l, u, g, was)
    BY DEF Near
  <1>8. Far(l, u, g, was) \in Nat /\ Far(l, v, g, was) \in Nat /\ Far(l, v, g, is) \in Nat /\ Far(l, u, g, is) \in Nat
    BY <1>1, <1>3, FarFound
  <1> QED
    BY <1>4, <1>5, <1>6, <1>7, <1>8

\* Those that are gone were some of the ring's, and none of the others changed.
LEMMA NearestLeaves ==
    ASSUME NEW l \in Layouts, NEW v \in Rings, NEW u \in Rings, NEW g \in RingGuilds, NEW was, NEW is,
           Near(l, v, g, was), Near(l, u, g, is), was \notin RingOf(u), \A n \in RingOf(u) : u[n] = v[n]
    PROVE  /\ is \in RingOf(v) /\ was \in RingOf(v) /\ Far(l, v, g, was) < Far(l, v, g, is)
           /\ \A m \in RingOf(u) : m \in RingOf(v) /\ ~(Far(l, v, g, m) < Far(l, v, g, is))
  <1>1. \A n \in RingOf(u) : n \in RingOf(v) /\ Far(l, v, g, n) = Far(l, u, g, n)
    BY DEF RingOf, Far
  <1>2. is \in RingOf(u) /\ was \in RingOf(v) /\ is # was
    BY DEF Near
  <1>3. is \in RingOf(v)
    BY <1>1, <1>2
  <1>4. Far(l, v, g, was) \in Nat /\ Far(l, v, g, is) \in Nat /\ \A m \in RingOf(v) : Far(l, v, g, m) \in Nat
    BY <1>2, <1>3, FarFound
  <1>5. Far(l, v, g, was) <= Far(l, v, g, is) /\ Far(l, v, g, was) # Far(l, v, g, is)
    BY <1>2, <1>3, FarsDiffer DEF Near
  <1>6. \A m \in RingOf(u) : Far(l, v, g, is) <= Far(l, v, g, m)
    BY <1>1, <1>2 DEF Near
  <1> QED
    BY <1>1, <1>2, <1>3, <1>4, <1>5, <1>6

\* A member's next virtual node is some way ahead of the guild.
LEMMA DistanceOfMember ==
    ASSUME RingTypeOK, NEW g \in RingGuilds, NEW n \in Members
    PROVE  Distance(g, n) \in Nat
  <1>1. layout \in Layouts /\ vnodes \in Rings /\ n \in RingOf(vnodes) /\ Distance(g, n) = Far(layout, vnodes, g, n)
    BY DEF RingTypeOK, Rings, Members, RingOf, Distance, Far
  <1> QED
    BY <1>1, FarFound

\* The owner of a guild is in the ring.
LEMMA OwnerInRing ==
    ASSUME RingInv, NEW g \in RingGuilds
    PROVE  Owner(g) \in Members
  <1>1. Me \in Members
    <2>1. vnodes[Me] \in VnodeCounts /\ vnodes[Me] # 0 /\ Me \in RingNodes
      BY RingAssumption DEF RingInv, RingTypeOK, KnownInRing
    <2> QED
      BY <2>1, VnodesOfWeight DEF Members, VnodeCounts
  <1> DEFINE far == {Distance(g, n) : n \in Members}
  <1>2. far \in SUBSET Nat /\ far # {}
    BY <1>1, DistanceOfMember DEF RingInv
  <1>3. PICK d \in far : \A k \in far : d <= k
    BY <1>2, LeastOfNats
  <1>4. \E n \in Members : \A m \in Members : Distance(g, n) <= Distance(g, m)
    BY <1>3
  <1>5. Nearest(g) \in Members
    BY <1>4 DEF Nearest
  <1> QED
    BY <1>5 DEF Owner

\* A node that has virtual nodes is a member.
LEMMA MemberHasVnodes ==
    ASSUME RingTypeOK, NEW n \in RingNodes
    PROVE  n \in Members <=> vnodes[n] # 0
  <1>1. vnodes[n] \in VnodeCounts
    BY DEF RingTypeOK
  <1> QED
    BY <1>1, VnodesOfWeight DEF Members, VnodeCounts

\* Those who are removed are unknown, and the others stay as they are.
LEMMA RemovePeersKeeps ==
    ASSUME RingInv, NEW gone \in SUBSET Peers, RemovePeers(gone), layout' = layout, sinceSweep' \in {0, sinceSweep}
    PROVE  RingTypeOK' /\ KnownInRing' /\ (sinceSweep' = sinceSweep => RingInv')
  <1>0. Me \in RingNodes /\ Me \notin Peers /\ Peers \subseteq RingNodes /\ CleanupInterval \in Nat /\ Unknown \in Int
    BY RingAssumption DEF Peers, Unknown
  <1>1. /\ vnodes' = [n \in RingNodes |-> IF n \in gone THEN 0 ELSE vnodes[n]]
        /\ age' = [n \in Peers |-> IF n \in gone THEN Unknown ELSE age[n]]
        /\ quiet' = [n \in Peers |-> IF n \in gone THEN 0 ELSE quiet[n]]
    BY DEF RemovePeers, RemoveNodes
  <1>2. RingTypeOK'
    BY <1>0, <1>1 DEF RingInv, RingTypeOK, VnodeCounts
  <1>3. KnownInRing'
    BY <1>0, <1>1 DEF RingInv, KnownInRing
  <1>4. sinceSweep' = sinceSweep => SweptLately'
    BY <1>1 DEF RingInv, SweptLately
  <1> QED
    BY <1>2, <1>3, <1>4 DEF RingInv

\* The lesser of two numbers is the one or the other.
LEMMA LesserOfTwo ==
    ASSUME NEW a \in Int, NEW b \in Int
    PROVE  Min({a, b}) = IF a <= b THEN a ELSE b
  BY MinOfTwo

\* Peers register again or for the first time, are heard of, and leave.
LEMMA PeerStep ==
    ASSUME RingInv, NEW n \in Peers,
           (\E weight \in Weights, claim \in Claims : AddPeer(n, weight, claim)) \/ Heartbeat(n) \/ Leaves(n)
    PROVE  RingInv'
  <1>0. /\ n \in RingNodes /\ n # Me /\ Me \in RingNodes /\ Me \notin Peers /\ Peers \subseteq RingNodes
        /\ HeartbeatTimeout \in Nat /\ Skew \in Nat /\ CleanupInterval \in Nat
    BY RingAssumption DEF Peers
  <1>1. ASSUME NEW weight \in Weights, NEW claim \in Claims, AddPeer(n, weight, claim)
        PROVE  RingInv'
    <2>1. /\ vnodes' = [vnodes EXCEPT ![n] = VnodeCount(weight)] \/ vnodes' = vnodes
          /\ age' = [age EXCEPT ![n] = claim] /\ quiet' = [quiet EXCEPT ![n] = 0]
          /\ layout' = layout /\ sinceSweep' = sinceSweep
      BY <1>1 DEF AddPeer, AddNode
    <2>2. claim \in Int /\ claim >= -Skew /\ claim # Unknown
      BY <1>0, RingAssumption DEF Unknown
    <2>3. VnodeCount(weight) \in VnodeCounts
      BY DEF VnodeCounts
    <2>4. RingTypeOK'
      BY <1>0, <2>1, <2>2, <2>3 DEF RingInv, RingTypeOK
    <2>5. KnownInRing'
      BY <1>0, <2>1, <2>2 DEF RingInv, RingTypeOK, KnownInRing
    <2>6. SweptLately'
      BY <1>0, <2>1, <2>2 DEF RingInv, RingTypeOK, SweptLately
    <2> QED
      BY <2>4, <2>5, <2>6 DEF RingInv
  <1>2. CASE Heartbeat(n)
    <2>1. /\ age' = [age EXCEPT ![n] = 0] /\ quiet' = [quiet EXCEPT ![n] = 0]
          /\ UNCHANGED <<layout, vnodes, guildCache, sinceSweep>>
      BY <1>2 DEF Heartbeat
    <2>2. Unknown # 0
      BY <1>0 DEF Unknown
    <2>3. RingTypeOK'
      BY <1>0, <2>1 DEF RingInv, RingTypeOK
    <2>4. KnownInRing'
      BY <1>0, <2>1, <2>2 DEF RingInv, RingTypeOK, KnownInRing
    <2>5. SweptLately'
      BY <1>0, <2>1, <2>2 DEF RingInv, RingTypeOK, SweptLately
    <2> QED
      BY <2>3, <2>4, <2>5 DEF RingInv
  <1>3. CASE Leaves(n)
    <2>1. RemovePeers({n}) /\ layout' = layout /\ sinceSweep' = sinceSweep
      BY <1>3 DEF Leaves
    <2> QED
      BY <1>0, <2>1, RemovePeersKeeps
  <1> QED
    BY <1>1, <1>2, <1>3

\* The clean-up, and the clock between two of them.
LEMMA ClockStep ==
    ASSUME RingInv, CleanUp \/ TimePasses
    PROVE  RingInv'
  <1>0. /\ Me \in RingNodes /\ Me \notin Peers /\ Peers \subseteq RingNodes
        /\ HeartbeatTimeout \in Nat /\ Skew \in Nat /\ CleanupInterval \in Nat
    BY RingAssumption DEF Peers
  <1>1. CASE CleanUp
    <2>1. RemovePeers(Late) /\ layout' = layout /\ sinceSweep' = 0
      BY <1>1 DEF CleanUp
    <2>2. Late \subseteq Peers
      BY DEF Late
    <2>3. RingTypeOK' /\ KnownInRing'
      BY <1>0, <2>1, <2>2, RemovePeersKeeps
    <2>4. ASSUME NEW n \in Peers, age'[n] # Unknown
          PROVE  /\ age'[n] >= -Skew /\ quiet'[n] >= 0 /\ quiet'[n] <= age'[n] + Skew
                 /\ quiet'[n] <= HeartbeatTimeout + Skew + sinceSweep'
      <3>1. age'[n] = age[n] /\ quiet'[n] = quiet[n] /\ n \notin Late
        BY <2>1, <2>4 DEF RemovePeers
      <3>2. age[n] \in Int /\ quiet[n] \in Int /\ age[n] <= HeartbeatTimeout
        BY <1>0, <3>1 DEF RingInv, RingTypeOK, Late
      <3> QED
        BY <1>0, <2>1, <2>4, <3>1, <3>2 DEF RingInv, SweptLately
    <2> QED
      BY <2>3, <2>4 DEF RingInv, SweptLately
  <1>2. CASE TimePasses
    <2>1. /\ sinceSweep < CleanupInterval /\ sinceSweep' = sinceSweep + 1
          /\ age' = [n \in Peers |-> Aged(age[n], Longest + 1)]
          /\ quiet' = [n \in Peers |-> IF age[n] = Unknown THEN 0 ELSE Aged(quiet[n], Longest + 1)]
          /\ layout' = layout /\ vnodes' = vnodes
      BY <1>2 DEF TimePasses
    <2>2. Longest \in Nat /\ Unknown \in Int /\ Unknown < -Skew /\ Unknown < 0
      BY <1>0 DEF Longest, Unknown
    <2>3. ASSUME NEW n \in Peers
          PROVE  /\ age'[n] \in Int /\ quiet'[n] \in Int
                 /\ age[n] = Unknown => age'[n] = Unknown
                 /\ age[n] # Unknown => /\ age'[n] # Unknown
                                        /\ age'[n] >= -Skew /\ quiet'[n] >= 0
                                        /\ quiet'[n] <= age'[n] + Skew
                                        /\ quiet'[n] <= HeartbeatTimeout + Skew + sinceSweep'
      <3>1. age[n] \in Int /\ quiet[n] \in Int /\ sinceSweep \in Nat
        BY DEF RingInv, RingTypeOK
      <3>2. CASE age[n] = Unknown
        BY <2>1, <2>2, <3>2 DEF Aged
      <3>3. CASE age[n] # Unknown
        <4>1. /\ age[n] >= -Skew /\ quiet[n] >= 0
              /\ quiet[n] <= age[n] + Skew
              /\ quiet[n] <= HeartbeatTimeout + Skew + sinceSweep
          BY <3>3 DEF RingInv, SweptLately
        <4>2. PICK cap \in Int, a \in Int, q \in Int : cap = Longest + 1 /\ a = age[n] + 1 /\ q = quiet[n] + 1
          BY <2>2, <3>1
        <4>3. age'[n] = Min({a, cap}) /\ quiet'[n] = Min({q, cap})
          BY <2>1, <2>2, <3>3, <4>1, <4>2 DEF Aged
        <4>4. /\ Min({a, cap}) = (IF a <= cap THEN a ELSE cap)
              /\ Min({q, cap}) = (IF q <= cap THEN q ELSE cap)
          BY LesserOfTwo
        <4> QED
          BY <1>0, <2>1, <2>2, <3>1, <3>3, <4>1, <4>2, <4>3, <4>4
      <3> QED
        BY <3>2, <3>3
    <2>4. RingTypeOK'
      BY <1>0, <2>1, <2>3 DEF RingInv, RingTypeOK
    <2>5. KnownInRing'
      BY <1>0, <2>1, <2>3 DEF RingInv, RingTypeOK, KnownInRing
    <2>6. SweptLately'
      BY <2>3 DEF RingInv, SweptLately
    <2> QED
      BY <2>4, <2>5, <2>6 DEF RingInv
  <1> QED
    BY <1>1, <1>2

LEMMA RingInitInv == RingInit => RingInv
  <1> SUFFICES ASSUME RingInit PROVE RingInv
    OBVIOUS
  <1>0. /\ Me \in RingNodes /\ Me \notin Peers /\ Peers \subseteq RingNodes /\ 0 \in 0..CleanupInterval
        /\ Unknown \in Int
    BY RingAssumption DEF Peers, Unknown
  <1>1. PICK weight \in Weights : vnodes = [n \in RingNodes |-> IF n = Me THEN VnodeCount(weight) ELSE 0]
    BY DEF RingInit
  <1>2. VnodeCount(weight) # 0 /\ VnodeCount(weight) \in VnodeCounts /\ 0 \in VnodeCounts
    BY VnodesOfWeight DEF VnodeCounts
  <1>3. RingTypeOK
    BY <1>0, <1>1, <1>2 DEF RingInit, RingTypeOK
  <1>4. KnownInRing /\ SweptLately
    BY <1>0, <1>1, <1>2 DEF RingInit, KnownInRing, SweptLately
  <1> QED
    BY <1>3, <1>4 DEF RingInv

LEMMA RingStep == RingInv /\ [RingNext]_ringVars => RingInv'
  <1> SUFFICES ASSUME RingInv, [RingNext]_ringVars PROVE RingInv'
    OBVIOUS
  <1>1. ASSUME NEW n \in RingNodes, NEW weight \in Weights, UpdateNodeWeight(n, weight) PROVE RingInv'
    <2>1. /\ n \in Members /\ vnodes' = [vnodes EXCEPT ![n] = VnodeCount(weight)]
          /\ UNCHANGED <<layout, age, quiet, sinceSweep>>
      BY <1>1 DEF UpdateNodeWeight
    <2>2. VnodeCount(weight) # 0 /\ VnodeCount(weight) \in VnodeCounts
      BY VnodesOfWeight DEF VnodeCounts
    <2>3. RingTypeOK' /\ SweptLately'
      BY <2>1, <2>2 DEF RingInv, RingTypeOK, SweptLately
    <2>4. vnodes[n] # 0
      BY <2>1, MemberHasVnodes DEF RingInv
    <2>5. KnownInRing'
      BY <2>1, <2>2, <2>4, RingAssumption DEF RingInv, RingTypeOK, KnownInRing, Peers
    <2> QED
      BY <2>3, <2>5 DEF RingInv
  <1>2. ASSUME NEW g \in RingGuilds, LooksUp(g) PROVE RingInv'
    BY <1>2 DEF LooksUp, RingInv, RingTypeOK, KnownInRing, SweptLately
  <1>3. CASE UNCHANGED ringVars
    BY <1>3 DEF ringVars, RingInv, RingTypeOK, KnownInRing, SweptLately
  <1> QED
    BY <1>1, <1>2, <1>3, PeerStep, ClockStep DEF RingNext

LEMMA RingInductive == RingSpec => []RingInv
  BY RingInitInv, RingStep, PTL DEF RingSpec

\* Whether it is remembered or looked up, the owner of a guild is the local node or a peer
\* that was heard of no longer ago than the time-out, the clean-up's period and the skew
\* of clocks together.
THEOREM OwnersAreLive == RingSpec => []OwnerIsLive
  <1>1. RingInv => OwnerIsLive
    <2> SUFFICES ASSUME RingInv, NEW g \in RingGuilds, Owner(g) # Me
                 PROVE  age[Owner(g)] # Unknown /\ quiet[Owner(g)] <= Longest
      BY DEF OwnerIsLive
    <2>n. PICK n : n = Owner(g)
      OBVIOUS
    <2>1. n \in Members /\ n \in RingNodes /\ n \in Peers
      BY <2>n, OwnerInRing DEF Members, Peers
    <2>2. age[n] # Unknown
      BY <2>1, MemberHasVnodes DEF RingInv, KnownInRing
    <2>3. /\ quiet[n] \in Int /\ sinceSweep \in 0..CleanupInterval
          /\ quiet[n] <= HeartbeatTimeout + Skew + sinceSweep
      BY <2>1, <2>2 DEF RingInv, RingTypeOK, SweptLately
    <2>4. quiet[n] <= Longest
      BY <2>3, RingAssumption DEF Longest
    <2> QED
      BY <2>n, <2>2, <2>4
  <1> QED
    BY <1>1, RingInductive, PTL

\* A lookup is remembered while the ring stays as it is.
CacheIsNearest == \A g \in RingGuilds : guildCache[g] \in Members => guildCache[g] = Nearest(g)

OwnersInv == RingInv /\ guildCache \in [RingGuilds -> RingNodes \cup {Unset}] /\ CacheIsNearest

LEMMA RingNow ==
    ASSUME RingTypeOK
    PROVE  /\ layout \in Layouts /\ vnodes \in Rings /\ Members = RingOf(vnodes)
           /\ \A g, n : Distance(g, n) = Far(layout, vnodes, g, n)
  BY DEF RingTypeOK, Rings, Members, RingOf, Distance, Far

LEMMA RingThen ==
    ASSUME RingTypeOK'
    PROVE  /\ layout' \in Layouts /\ vnodes' \in Rings /\ Members' = RingOf(vnodes')
           /\ \A g, n : Distance(g, n)' = Far(layout', vnodes', g, n)
  BY DEF RingTypeOK, Rings, Members, RingOf, Distance, Far

\* The nearest node there is, in a ring that has one.
LEMMA SomeNearest ==
    ASSUME NEW l \in Layouts, NEW v \in Rings, NEW g \in RingGuilds, RingOf(v) # {}
    PROVE  \E n : Near(l, v, g, n)
  <1> DEFINE far == {Far(l, v, g, n) : n \in RingOf(v)}
  <1>1. far \in SUBSET Nat /\ far # {}
    BY FarFound
  <1>2. PICK d \in far : \A k \in far : d <= k
    BY <1>1, LeastOfNats
  <1> QED
    BY <1>2 DEF Near

LEMMA NearestChosen ==
    ASSUME NEW l \in Layouts, NEW v \in Rings, NEW g \in RingGuilds, RingOf(v) # {}
    PROVE  Near(l, v, g, CHOOSE n \in RingOf(v) : \A m \in RingOf(v) : Far(l, v, g, n) <= Far(l, v, g, m))
  <1>1. \E n \in RingOf(v) : \A m \in RingOf(v) : Far(l, v, g, n) <= Far(l, v, g, m)
    BY SomeNearest DEF Near
  <1> QED
    BY <1>1 DEF Near

\* The owner of a guild is the nearest node, remembered or not.
LEMMA OwnerNow ==
    ASSUME OwnersInv, NEW g \in RingGuilds
    PROVE  Owner(g) = Nearest(g) /\ Near(layout, vnodes, g, Owner(g))
  <1>1. Owner(g) = Nearest(g)
    BY DEF OwnersInv, CacheIsNearest, Owner
  <1>2. Owner(g) \in Members
    BY OwnerInRing DEF OwnersInv
  <1>3. /\ layout \in Layouts /\ vnodes \in Rings /\ RingOf(vnodes) # {} /\ Members = RingOf(vnodes)
        /\ \A n : Distance(g, n) = Far(layout, vnodes, g, n)
    BY <1>2, RingNow DEF OwnersInv, RingInv
  <1>4. Nearest(g) = CHOOSE n \in RingOf(vnodes) :
                       \A m \in RingOf(vnodes) : Far(layout, vnodes, g, n) <= Far(layout, vnodes, g, m)
    BY <1>3 DEF Nearest
  <1> QED
    BY <1>1, <1>3, <1>4, NearestChosen

LEMMA OwnerThen ==
    ASSUME OwnersInv', NEW g \in RingGuilds
    PROVE  Near(layout', vnodes', g, Owner(g)')
  <1>1. Owner(g)' = Nearest(g)'
    BY DEF OwnersInv, CacheIsNearest, Owner
  <1>2. /\ layout' \in Layouts /\ vnodes' \in Rings /\ Members' = RingOf(vnodes')
        /\ \A n : Distance(g, n)' = Far(layout', vnodes', g, n)
    BY RingThen DEF OwnersInv, RingInv
  <1>3. RingOf(vnodes') # {}
    <2>1. vnodes'[Me] # 0 /\ Me \in RingNodes /\ vnodes'[Me] \in VnodeCounts
      BY <1>2, RingAssumption DEF OwnersInv, RingInv, KnownInRing, Rings
    <2> QED
      BY <2>1, VnodesOfWeight DEF RingOf, VnodeCounts
  <1>4. Nearest(g)' = CHOOSE n \in RingOf(vnodes') :
                        \A m \in RingOf(vnodes') : Far(layout', vnodes', g, n) <= Far(layout', vnodes', g, m)
    BY <1>2 DEF Nearest
  <1> QED
    BY <1>1, <1>2, <1>3, <1>4, NearestChosen

\* What a step does to the ring and to what is remembered.
LEMMA RingChanges ==
    ASSUME OwnersInv, [RingNext]_ringVars
    PROVE  /\ layout' = layout
           /\ \/ vnodes' = vnodes /\ guildCache' = guildCache
              \/ vnodes' = vnodes /\ \E g \in RingGuilds : guildCache' = [guildCache EXCEPT ![g] = Owner(g)]
              \/ /\ guildCache' = Uncached
                 /\ \/ \E n \in RingNodes, w \in Weights : vnodes' = [vnodes EXCEPT ![n] = VnodeCount(w)]
                    \/ \E gone : vnodes' = [n \in RingNodes |-> IF n \in gone THEN 0 ELSE vnodes[n]]
  <1>0. Peers \subseteq RingNodes /\ vnodes \in [RingNodes -> VnodeCounts]
    BY DEF Peers, OwnersInv, RingInv, RingTypeOK
  <1>1. ASSUME NEW gone, RemoveNodes(gone)
        PROVE  \/ vnodes' = vnodes /\ guildCache' = guildCache
               \/ /\ guildCache' = Uncached
                  /\ \E left : vnodes' = [n \in RingNodes |-> IF n \in left THEN 0 ELSE vnodes[n]]
    <2>1. CASE gone \cap Members = {}
      <3>1. \A n \in RingNodes : n \in gone => vnodes[n] = 0
        BY <2>1, MemberHasVnodes DEF OwnersInv, RingInv
      <3>2. vnodes' = vnodes
        BY <1>0, <1>1, <3>1 DEF RemoveNodes
      <3> QED
        BY <1>1, <2>1, <3>2 DEF RemoveNodes
    <2>2. CASE gone \cap Members # {}
      BY <1>1, <2>2 DEF RemoveNodes
    <2> QED
      BY <2>1, <2>2
  <1>2. ASSUME NEW g \in RingGuilds, LooksUp(g)
        PROVE  /\ layout' = layout /\ vnodes' = vnodes
               /\ guildCache' = [guildCache EXCEPT ![g] = Owner(g)]
    BY <1>2 DEF LooksUp
  <1>3. ASSUME NEW n \in RingNodes, NEW w \in Weights, UpdateNodeWeight(n, w)
        PROVE  /\ layout' = layout /\ guildCache' = Uncached
               /\ vnodes' = [vnodes EXCEPT ![n] = VnodeCount(w)]
    BY <1>3 DEF UpdateNodeWeight
  <1>4. ASSUME NEW n \in Peers, NEW w \in Weights, NEW claim \in Claims, AddPeer(n, w, claim)
        PROVE  /\ layout' = layout
               /\ \/ vnodes' = vnodes /\ guildCache' = guildCache
                  \/ guildCache' = Uncached /\ vnodes' = [vnodes EXCEPT ![n] = VnodeCount(w)]
    BY <1>4 DEF AddPeer, AddNode
  <1>5. ASSUME NEW n \in Peers, Heartbeat(n)
        PROVE  layout' = layout /\ vnodes' = vnodes /\ guildCache' = guildCache
    BY <1>5 DEF Heartbeat
  <1>6. ASSUME NEW n \in Peers, Leaves(n)
        PROVE  layout' = layout /\ \E gone : RemoveNodes(gone)
    BY <1>6 DEF Leaves, RemovePeers
  <1>7. ASSUME CleanUp PROVE layout' = layout /\ \E gone : RemoveNodes(gone)
    BY <1>7 DEF CleanUp, RemovePeers
  <1>8. ASSUME TimePasses \/ UNCHANGED ringVars
        PROVE  layout' = layout /\ vnodes' = vnodes /\ guildCache' = guildCache
    BY <1>8 DEF TimePasses, ringVars
  <1> QED
    BY <1>0, <1>1, <1>2, <1>3, <1>4, <1>5, <1>6, <1>7, <1>8 DEF RingNext

LEMMA OwnersStep == ASSUME OwnersInv, RingInv', [RingNext]_ringVars PROVE OwnersInv'
  <1>1. guildCache' \in [RingGuilds -> RingNodes \cup {Unset}]
    <2>1. \A g \in RingGuilds : Owner(g) \in RingNodes
      BY OwnerInRing DEF OwnersInv, Members
    <2>2. Uncached \in [RingGuilds -> RingNodes \cup {Unset}]
      BY DEF Uncached
    <2>3. guildCache \in [RingGuilds -> RingNodes \cup {Unset}]
      BY DEF OwnersInv
    <2> QED
      BY <2>1, <2>2, <2>3, RingChanges
  <1>2. ASSUME vnodes' = vnodes, layout' = layout, NEW g \in RingGuilds PROVE Nearest(g)' = Nearest(g) /\ Members' = Members
    BY <1>2 DEF Nearest, Members, Distance
  <1>3. CASE vnodes' = vnodes /\ layout' = layout /\ guildCache' = guildCache
    <2>1. CacheIsNearest'
      BY <1>2, <1>3 DEF OwnersInv, CacheIsNearest
    <2> QED
      BY <1>1, <2>1 DEF OwnersInv
  <1>4. ASSUME vnodes' = vnodes, layout' = layout, NEW g \in RingGuilds,
               guildCache' = [guildCache EXCEPT ![g] = Owner(g)]
        PROVE  OwnersInv'
    <2>1. Owner(g) = Nearest(g)
      BY OwnerNow
    <2>2. \A k \in RingGuilds : guildCache'[k] = IF k = g THEN Nearest(g) ELSE guildCache[k]
      BY <1>4, <2>1 DEF OwnersInv
    <2>3. CacheIsNearest'
      BY <1>2, <1>4, <2>2 DEF OwnersInv, CacheIsNearest
    <2> QED
      BY <1>1, <2>3 DEF OwnersInv
  <1>5. CASE guildCache' = Uncached
    <2>1. Unset \notin Members'
      BY RingAssumption DEF Members
    <2>2. CacheIsNearest'
      BY <1>5, <2>1 DEF Uncached, CacheIsNearest
    <2> QED
      BY <1>1, <2>2 DEF OwnersInv
  <1> QED
    BY <1>3, <1>4, <1>5, RingChanges

LEMMA OwnerMoveStep == ASSUME OwnersInv, OwnersInv', [RingNext]_ringVars PROVE OwnerMove
  <1> SUFFICES ASSUME NEW g \in RingGuilds
               PROVE  LET was == Owner(g)
                          is  == Owner(g)'
                          staying == Replicas(g, Cardinality(RingNodes)) \cap Members'
                      IN  \/ was = is
                          \/ vnodes'[is] > vnodes[is]
                          \/ vnodes'[was] > 0 /\ vnodes'[was] < vnodes[was]
                          \/ vnodes'[was] = 0 /\ is \in staying /\ Ahead(g, is) \cap staying = {}
    BY DEF OwnerMove
  <1>1. PICK l, v, u, was, is : l = layout /\ v = vnodes /\ u = vnodes' /\ was = Owner(g) /\ is = Owner(g)'
    OBVIOUS
  <1>2. /\ l \in Layouts /\ v \in Rings /\ u \in Rings /\ layout' = l
        /\ Members = RingOf(v) /\ Members' = RingOf(u) /\ \A n : Distance(g, n) = Far(l, v, g, n)
    BY <1>1, RingChanges, RingNow, RingThen DEF OwnersInv, RingInv
  <1>3. Near(l, v, g, was) /\ Near(l, u, g, is)
    BY <1>1, <1>2, OwnerNow, OwnerThen
  <1>4. was \in RingOf(v) /\ is \in RingOf(u) /\ was \in RingNodes /\ is \in RingNodes
    BY <1>3 DEF Near, RingOf
  <1>5. CASE was = is \/ u[is] > v[is]
    BY <1>1, <1>5
  <1>6. CASE was # is /\ ~(u[is] > v[is]) /\ was \in RingOf(u)
    <2>1. u[was] < v[was] /\ u[was] > 0
      BY <1>2, <1>3, <1>6, NearestMoves DEF RingOf
    <2> QED
      BY <1>1, <2>1
  <1>7. CASE was # is /\ was \notin RingOf(u)
    <2>1. \A n \in RingOf(u) : u[n] = v[n]
      <3>1. CASE \E gone : u = [n \in RingNodes |-> IF n \in gone THEN 0 ELSE v[n]]
        BY <3>1 DEF RingOf
      <3>2. ASSUME NEW n \in RingNodes, NEW w \in Weights, u = [v EXCEPT ![n] = VnodeCount(w)]
            PROVE  FALSE
        <4>1. u[was] > 0
          BY <1>2, <1>4, <3>2, VnodesOfWeight DEF RingOf, Rings
        <4> QED
          BY <1>4, <1>7, <4>1 DEF RingOf
      <3>3. CASE u = v
        BY <1>4, <1>7, <3>3
      <3> QED
        BY <1>1, <3>1, <3>2, <3>3, RingChanges
    <2>2. /\ is \in RingOf(v) /\ was \in RingOf(v) /\ Far(l, v, g, was) < Far(l, v, g, is)
          /\ \A m \in RingOf(u) : m \in RingOf(v) /\ ~(Far(l, v, g, m) < Far(l, v, g, is))
      BY <1>2, <1>3, <1>7, <2>1, NearestLeaves
    <2>3. u[was] = 0
      <3>1. u[was] \in VnodeCounts /\ ~(u[was] > 0)
        BY <1>2, <1>4, <1>7 DEF RingOf, Rings
      <3> QED
        BY <3>1, VnodesOfWeight DEF VnodeCounts
    <2>4. Ahead(g, is) = {m \in RingOf(v) : Far(l, v, g, m) < Far(l, v, g, is)}
      BY <1>2 DEF Ahead
    <2>5. Cardinality(Ahead(g, is)) \in 1..Cardinality(RingNodes)
      <3>1. Ahead(g, is) \subseteq RingNodes /\ was \in Ahead(g, is)
        BY <2>2, <2>4 DEF RingOf
      <3>2. IsFiniteSet(RingNodes) /\ IsFiniteSet(Ahead(g, is))
        BY <3>1, RingAssumption, FS_Subset
      <3>3. Cardinality(Ahead(g, is)) \in Nat /\ Cardinality(RingNodes) \in Nat
            /\ Cardinality(Ahead(g, is)) <= Cardinality(RingNodes)
        BY <3>1, <3>2, RingAssumption, FS_Subset, FS_CardinalityType
      <3>4. Cardinality(Ahead(g, is)) # 0
        BY <3>1, <3>2, FS_EmptySet
      <3> QED
        BY <3>3, <3>4
    <2>6. is \in Replicas(g, Cardinality(RingNodes))
      BY <1>2, <2>2, <2>5 DEF Replicas
    <2>7. Ahead(g, is) \cap Members' = {}
      BY <1>2, <2>2, <2>4
    <2> QED
      BY <1>1, <1>2, <1>4, <2>3, <2>6, <2>7
  <1> QED
    BY <1>5, <1>6, <1>7

\* A guild moves only to a node that joins or gains weight, or from one that leaves or
\* loses weight; and when its owner leaves, alone or with others, it moves to the first of
\* its replicas that stays: for any nodes, weights and positions that do not collide.
THEOREM OwnersMoveRightly == RingSpec => OwnerMoves
  <1>1. RingInit => OwnersInv
    <2> SUFFICES ASSUME RingInit PROVE OwnersInv
      OBVIOUS
    <2>1. guildCache = [g \in RingGuilds |-> Unset]
      BY DEF RingInit, Uncached
    <2>2. guildCache \in [RingGuilds -> RingNodes \cup {Unset}] /\ CacheIsNearest
      BY <2>1, RingAssumption DEF CacheIsNearest, Members
    <2> QED
      BY <2>2, RingInitInv DEF OwnersInv
  <1>2. OwnersInv /\ RingInv' /\ [RingNext]_ringVars => OwnersInv'
    BY OwnersStep
  <1>3. OwnersInv /\ OwnersInv' /\ [RingNext]_ringVars => [OwnerMove]_ringVars
    BY OwnerMoveStep
  <1> QED
    BY <1>1, <1>2, <1>3, RingInductive, PTL DEF RingSpec, OwnerMoves

-----------------------------------------------------------------------------
(* One answer of those of all clusters. *)

\* Whoever is asked is a peer, or the local reader, who is asked first.
TasksOK(tasks) ==
    /\ tasks \in Seq(Nodes \cup {LocalReader}) /\ tasks # <<>> /\ tasks[1] = LocalReader
    /\ \A c \in Clusters : \A node, other \in Group(c) \cap ToSet(tasks) : node = other

AskedOK == TasksOK(asked)

\* Who was not heard of has no rows.
OutcomeOK ==
    /\ outcome \in [ToSet(asked) -> [is : {"running", "answered", "failed", "cancelled"}, keys : SUBSET RowKeys]]
    /\ \A who \in ToSet(asked) : outcome[who].is # "answered" => KeysFrom(who) = {}

\* A call that has seen answers and not returned has seen no rows.
SeenOK == seen \subseteq ToSet(asked) \ Running /\ (~answer.returned => \A who \in seen : KeysFrom(who) = {})

\* What was returned stands, since nobody is running any more.
ReturnedOK ==
    answer.returned =>
        /\ Running = {}
        /\ how \in {"union", "query"} => answer.rows = Merged
        /\ how \in {"first_positive", "fastest"} =>
             answer.rows = {} \/ \E who \in DOMAIN outcome : KeysFrom(who) # {} /\ answer.rows = RowsFrom(who)
        /\ how = "first_positive" /\ answer.rows = {} => \A who \in DOMAIN outcome : KeysFrom(who) = {}

FanInv ==
    /\ how = "none" => answer = NoAnswer /\ outcome = <<>> /\ seen = {} /\ asked = <<>>
    /\ how # "none" => how \in Strategies /\ AskedOK /\ OutcomeOK /\ SeenOK /\ ReturnedOK

\* A cluster's first peer has a place in the registry.
LEMMA FirstPlace ==
    ASSUME NEW c \in Clusters PROVE FirstPeer(c) \in Nat /\ FanPeers[FirstPeer(c)].cluster = c
  <1>1. FanPeers \in Seq(ToSet(FanPeers)) /\ DOMAIN FanPeers = 1..Len(FanPeers) /\ Len(FanPeers) \in Nat
    BY FanAssumption
  <1> DEFINE places == {i \in DOMAIN FanPeers : FanPeers[i].cluster = c}
  <1>2. places \in SUBSET Nat /\ places # {}
    <2>1. PICK peer \in ToSet(FanPeers) : peer.cluster = c
      BY DEF Clusters
    <2>2. PICK i \in DOMAIN FanPeers : FanPeers[i] = peer
      BY DEF ToSet
    <2> QED
      BY <1>1, <2>1, <2>2
  <1>3. PICK i \in places : \A k \in places : i <= k
    BY <1>2, LeastOfNats
  <1>4. i \in Nat /\ i \in DOMAIN FanPeers /\ FanPeers[i].cluster = c
    BY <1>2, <1>3
  <1>5. ASSUME NEW k \in 1..i - 1, FanPeers[k].cluster = c PROVE FALSE
    <2>1. k \in 1..Len(FanPeers) /\ k < i
      BY <1>1, <1>4
    <2> QED
      BY <1>1, <1>3, <1>4, <1>5, <2>1
  <1>6. \E j \in DOMAIN FanPeers : FanPeers[j].cluster = c /\ \A k \in 1..j - 1 : FanPeers[k].cluster # c
    BY <1>4, <1>5
  <1>7. FirstPeer(c) \in DOMAIN FanPeers /\ FanPeers[FirstPeer(c)].cluster = c
    BY <1>6 DEF FirstPeer
  <1> QED
    BY <1>1, <1>7

\* A node is in one cluster.
LEMMA OneCluster ==
    ASSUME NEW c, NEW d, NEW node, node \in Group(c), node \in Group(d) PROVE c = d
  BY FanAssumption DEF Group

\* The clusters are finitely many.
LEMMA ClustersFinite == IsFiniteSet(Clusters)
  <1>1. DOMAIN FanPeers = 1..Len(FanPeers) /\ Len(FanPeers) \in Nat
    BY FanAssumption
  <1>2. IsFiniteSet(DOMAIN FanPeers)
    BY <1>1, FS_Interval
  <1> DEFINE places == DOMAIN FanPeers
             cluster == [i \in places |-> FanPeers[i].cluster]
             image == {cluster[i] : i \in places}
  <1>3. image = Clusters
    BY DEF Clusters, ToSet
  <1>4. cluster \in Surjection(places, image)
    BY DEF Surjection
  <1> HIDE DEF cluster
  <1>5. IsFiniteSet(image)
    BY <1>2, <1>4, FS_Surjection
  <1> QED
    BY <1>3, <1>5

\* The local reader and one node each of some clusters are asked.
LEMMA SelectionOK ==
    ASSUME NEW healthy \in SUBSET Nodes, NEW choice \in Selections(healthy), NEW tasks, tasks = <<LocalReader>> \o choice
    PROVE  TasksOK(tasks)
  <1> DEFINE ready == {c \in Clusters : Group(c) \cap healthy # {}}
             many == Cardinality(ready)
  <1>1. many \in Nat
    BY ClustersFinite, FS_Subset, FS_CardinalityType
  <1>2. choice \in [1..many -> healthy] /\ \E order \in [1..many -> ready] :
           InOrder(order) /\ \A i \in 1..many : choice[i] \in Group(order[i])
    BY DEF Selections
  <1>3. PICK order \in [1..many -> ready] : InOrder(order) /\ \A i \in 1..many : choice[i] \in Group(order[i])
    BY <1>2
  <1> HIDE DEF ready, many
  <1>4. choice \in Seq(Nodes) /\ Len(choice) = many /\ DOMAIN choice = 1..many
    BY <1>1, <1>2
  <1>5. tasks \in Seq(Nodes \cup {LocalReader}) /\ tasks # <<>> /\ tasks[1] = LocalReader
    BY <1>4
  <1>6. \A who \in ToSet(tasks) : who = LocalReader \/ \E i \in 1..many : who = choice[i]
    <2>1. Len(tasks) = many + 1 /\ DOMAIN tasks = 1..many + 1
      BY <1>1, <1>4
    <2>2. ASSUME NEW i \in 1..many + 1
          PROVE  tasks[i] = LocalReader \/ \E j \in 1..many : tasks[i] = choice[j]
      <3>1. CASE i = 1
        BY <1>5, <3>1
      <3>2. CASE i # 1
        <4>1. i - 1 \in 1..many /\ tasks[i] = choice[i - 1]
          BY <1>1, <1>4, <2>2, <3>2
        <4> QED
          BY <4>1
      <3> QED
        BY <3>1, <3>2
    <2> QED
      BY <2>1, <2>2 DEF ToSet
  <1>7. ASSUME NEW c \in Clusters, NEW node \in Group(c) \cap ToSet(tasks), NEW other \in Group(c) \cap ToSet(tasks)
        PROVE  node = other
    <2>1. node # LocalReader /\ other # LocalReader
      BY FanAssumption DEF Group, Nodes
    <2>2. PICK i \in 1..many, j \in 1..many : node = choice[i] /\ other = choice[j]
      BY <1>6, <2>1
    <2>3. order[i] = c /\ order[j] = c
      BY <1>3, <2>2, OneCluster
    <2>4. ~(i < j) /\ ~(j < i)
      <3>1. FirstPeer(c) \in Nat
        BY FirstPlace
      <3>2. DOMAIN order = 1..many
        BY <1>3
      <3> QED
        BY <1>3, <2>3, <3>1, <3>2 DEF InOrder
    <2>5. i = j
      BY <1>1, <2>4
    <2> QED
      BY <2>2, <2>5
  <1> QED
    BY <1>5, <1>7 DEF TasksOK

\* Merging in the order of the tasks: a key has one row, every key that was answered has
\* one, and the first in the order keeps its own.
LEMMA MergedWhole ==
    ASSUME AskedOK, OutcomeOK
    PROVE  /\ \A row, other \in Merged : row.key = other.key => row = other
           /\ \A who \in DOMAIN outcome : KeysFrom(who) \subseteq {row.key : row \in Merged}
           /\ RowsFrom(LocalReader) \subseteq Merged
  <1>1. DOMAIN asked = 1..Len(asked) /\ Len(asked) \in Nat /\ Len(asked) >= 1
    BY DEF AskedOK, TasksOK
  <1>2. \A row : row \in Merged <=>
                   \E i \in 1..Len(asked) : row \in RowsFrom(asked[i]) /\ \A j \in 1..i - 1 : row.key \notin KeysFrom(asked[j])
    BY <1>1 DEF Merged, MergedBy
  <1>3. \A who, row : row \in RowsFrom(who) <=> \E k \in KeysFrom(who) : row = [key |-> k, by |-> who]
    BY DEF RowsFrom
  <1>4. ASSUME NEW row \in Merged, NEW other \in Merged, row.key = other.key PROVE row = other
    <2>1. PICK i \in 1..Len(asked) : row \in RowsFrom(asked[i]) /\ \A k \in 1..i - 1 : row.key \notin KeysFrom(asked[k])
      BY <1>2
    <2>2. PICK j \in 1..Len(asked) : other \in RowsFrom(asked[j]) /\ \A k \in 1..j - 1 : other.key \notin KeysFrom(asked[k])
      BY <1>2
    <2>3. /\ row.key \in KeysFrom(asked[i]) /\ row = [key |-> row.key, by |-> asked[i]]
          /\ other.key \in KeysFrom(asked[j]) /\ other = [key |-> other.key, by |-> asked[j]]
      BY <1>3, <2>1, <2>2
    <2>4. ~(i < j)
      <3>1. i < j => i \in 1..j - 1
        BY <1>1
      <3> QED
        BY <1>4, <2>2, <2>3, <3>1
    <2>5. ~(j < i)
      <3>1. j < i => j \in 1..i - 1
        BY <1>1
      <3> QED
        BY <1>4, <2>1, <2>3, <3>1
    <2>6. i = j
      BY <1>1, <2>4, <2>5
    <2> QED
      BY <1>4, <2>3, <2>6
  <1>5. ASSUME NEW who \in DOMAIN outcome, NEW k \in KeysFrom(who) PROVE \E row \in Merged : row.key = k
    <2> DEFINE givers == {i \in 1..Len(asked) : k \in KeysFrom(asked[i])}
    <2>1. PICK i \in 1..Len(asked) : asked[i] = who
      BY <1>1 DEF OutcomeOK, ToSet
    <2>2. givers \in SUBSET Nat /\ givers # {}
      BY <1>1, <1>5, <2>1
    <2>3. PICK first \in givers : \A j \in givers : first <= j
      BY <2>2, LeastOfNats
    <2>4. first \in 1..Len(asked) /\ k \in KeysFrom(asked[first])
      BY <2>3
    <2>5. ASSUME NEW j \in 1..first - 1 PROVE k \notin KeysFrom(asked[j])
      <3>1. j \in 1..Len(asked) /\ ~(first <= j)
        BY <1>1, <2>4
      <3> QED
        BY <2>3, <3>1
    <2>6. PICK row : row = [key |-> k, by |-> asked[first]]
      OBVIOUS
    <2>7. row.key = k /\ row \in RowsFrom(asked[first])
      BY <1>3, <2>4, <2>6
    <2>8. row \in Merged
      BY <1>2, <2>4, <2>5, <2>7
    <2> QED
      BY <2>7, <2>8
  <1>6. ASSUME NEW row \in RowsFrom(LocalReader) PROVE row \in Merged
    <2>1. 1 \in 1..Len(asked) /\ asked[1] = LocalReader /\ \A j \in 1..1 - 1 : FALSE
      BY <1>1 DEF AskedOK, TasksOK
    <2> QED
      BY <1>2, <2>1
  <1> QED
    BY <1>4, <1>5, <1>6

\* What became of the tasks is typed, and theirs alone.
LEMMA OutcomeTyped ==
    ASSUME OutcomeOK
    PROVE  /\ DOMAIN outcome = ToSet(asked) /\ Running \subseteq ToSet(asked)
           /\ \A who \in ToSet(asked) : /\ outcome[who] = [is |-> outcome[who].is, keys |-> outcome[who].keys]
                                        /\ outcome[who].keys \in SUBSET RowKeys
           /\ \A who \in Running : KeysFrom(who) = {}
  BY DEF OutcomeOK, Running

\* A task that ends was running, so the call has not returned.
LEMMA EndsStep ==
    ASSUME FanInv, NEW who \in Running, NEW what, Ends(who, what),
           what \in [is : {"answered", "failed"}, keys : SUBSET RowKeys],
           what.is # "answered" => what.keys = {}
    PROVE  FanInv'
  <1>1. /\ outcome' = [outcome EXCEPT ![who] = what]
        /\ UNCHANGED <<how, asked, seen, answer>>
    BY DEF Ends
  <1>2. how # "none"
    <2>1. outcome # <<>>
      BY DEF Running
    <2> QED
      BY <2>1 DEF FanInv
  <1>3. how \in Strategies /\ AskedOK /\ OutcomeOK /\ SeenOK /\ ReturnedOK
    BY <1>2 DEF FanInv
  <1>4. /\ DOMAIN outcome = ToSet(asked) /\ who \in ToSet(asked) /\ outcome[who].is = "running"
    BY <1>3, OutcomeTyped DEF Running
  <1>5. /\ DOMAIN outcome' = ToSet(asked) /\ outcome'[who] = what
        /\ \A one \in ToSet(asked) \ {who} : outcome'[one] = outcome[one]
    BY <1>1, <1>4
  <1>6. ToSet(asked') = ToSet(asked)
    BY <1>1
  <1>7. OutcomeOK'
    <2>1. outcome' \in [ToSet(asked) -> [is : {"running", "answered", "failed", "cancelled"}, keys : SUBSET RowKeys]]
      <3>1. what \in [is : {"running", "answered", "failed", "cancelled"}, keys : SUBSET RowKeys]
        OBVIOUS
      <3> QED
        BY <1>1, <1>3, <3>1 DEF OutcomeOK
    <2>2. \A one \in ToSet(asked) : outcome'[one].is # "answered" => outcome'[one].keys = {}
      BY <1>3, <1>5 DEF OutcomeOK, KeysFrom
    <2> QED
      BY <1>6, <2>1, <2>2 DEF OutcomeOK, KeysFrom
  <1>8. Running' = Running \ {who}
    BY <1>4, <1>5 DEF Running
  <1>9. SeenOK'
    <2>1. who \notin seen
      BY <1>3 DEF SeenOK
    <2> QED
      BY <1>1, <1>3, <1>5, <1>6, <1>8, <2>1 DEF SeenOK, KeysFrom
  <1>10. ReturnedOK'
    BY <1>1, <1>3 DEF ReturnedOK
  <1>11. AskedOK'
    BY <1>1, <1>3 DEF AskedOK
  <1> QED
    BY <1>1, <1>2, <1>3, <1>7, <1>9, <1>10, <1>11 DEF FanInv

\* The call begins.
LEMMA FansOutStep ==
    ASSUME FanInv, NEW strategy \in Strategies, NEW healthy \in SUBSET Nodes, FansOut(strategy, healthy)
    PROVE  FanInv'
  <1>1. PICK choice \in Selections(healthy) : asked' = <<LocalReader>> \o choice
    BY DEF FansOut
  <1>2. /\ how = "none" /\ how' = strategy /\ seen' = seen /\ answer' = answer
        /\ outcome' = [who \in ToSet(asked') |-> Outcome("running", {})]
    BY DEF FansOut
  <1>3. answer = NoAnswer /\ seen = {}
    BY <1>2 DEF FanInv
  <1>4. AskedOK'
    <2>1. PICK tasks : tasks = <<LocalReader>> \o choice
      OBVIOUS
    <2>2. TasksOK(tasks)
      BY <2>1, SelectionOK
    <2> QED
      BY <1>1, <2>1, <2>2 DEF AskedOK
  <1>5. OutcomeOK'
    BY <1>2 DEF OutcomeOK, Outcome, KeysFrom
  <1>6. SeenOK' /\ ReturnedOK'
    BY <1>2, <1>3 DEF SeenOK, ReturnedOK, NoAnswer
  <1>7. "none" \notin Strategies
    BY DEF Strategies
  <1> QED
    BY <1>2, <1>4, <1>5, <1>6, <1>7 DEF FanInv

\* Whoever is cancelled had no rows yet.
LEMMA CancelsKeepsRows ==
    ASSUME OutcomeOK, CancelsRest, asked' = asked
    PROVE  /\ OutcomeOK' /\ Running' = {} /\ DOMAIN outcome' = DOMAIN outcome
           /\ \A who \in DOMAIN outcome : KeysFrom(who)' = KeysFrom(who)
  <1>1. outcome' = [who \in DOMAIN outcome |-> IF who \in Running THEN Outcome("cancelled", {}) ELSE outcome[who]]
    BY DEF CancelsRest
  <1>2. DOMAIN outcome = ToSet(asked) /\ \A who \in Running : KeysFrom(who) = {}
    BY OutcomeTyped
  <1>3. DOMAIN outcome' = DOMAIN outcome /\ Running' = {}
    BY <1>1 DEF Running, Outcome
  <1>4. \A who \in DOMAIN outcome : outcome'[who].keys = outcome[who].keys
    BY <1>1, <1>2 DEF Outcome, KeysFrom
  <1>5. OutcomeOK'
    <2>1. ToSet(asked') = ToSet(asked)
      OBVIOUS
    <2>2. Outcome("cancelled", {}) \in [is : {"running", "answered", "failed", "cancelled"}, keys : SUBSET RowKeys]
      BY DEF Outcome
    <2>3. outcome' \in [ToSet(asked) -> [is : {"running", "answered", "failed", "cancelled"}, keys : SUBSET RowKeys]]
      BY <1>1, <1>2, <2>2 DEF OutcomeOK
    <2>4. \A who \in ToSet(asked) : outcome'[who].is # "answered" => outcome'[who].keys = {}
      BY <1>1, <1>2 DEF OutcomeOK, Outcome, KeysFrom
    <2> QED
      BY <2>1, <2>3, <2>4 DEF OutcomeOK, KeysFrom
  <1> QED
    BY <1>3, <1>4, <1>5 DEF KeysFrom

\* The call returns.
LEMMA ReturnsStep ==
    ASSUME FanInv, Gathers \/ TakesFirstPositive \/ TakesFastest
    PROVE  FanInv'
  <1>0. how # "none" /\ asked' = asked /\ how' = how /\ ~answer.returned
    BY DEF Gathers, TakesFirstPositive, TakesFastest
  <1>1. how \in Strategies /\ AskedOK /\ OutcomeOK /\ SeenOK /\ AskedOK'
    BY <1>0 DEF FanInv, AskedOK
  <1>2. DOMAIN outcome = ToSet(asked) /\ Running \subseteq ToSet(asked) /\ \A who \in Running : KeysFrom(who) = {}
    BY <1>1, OutcomeTyped
  <1>a. \A rows : Answer(rows).returned /\ Answer(rows).rows = rows
    BY DEF Answer
  <1>3. CASE Gathers
    <2>1. /\ how \in {"union", "query"} /\ Running = {} /\ answer' = Answer(Merged)
          /\ outcome' = outcome /\ seen' = seen
      BY <1>3 DEF Gathers
    <2>2. OutcomeOK' /\ Running' = {} /\ Merged' = Merged
      BY <1>0, <1>1, <2>1 DEF OutcomeOK, Running, Merged, MergedBy, RowsFrom, KeysFrom
    <2>3. SeenOK'
      BY <1>0, <1>1, <1>a, <2>1, <2>2 DEF SeenOK
    <2>4. ReturnedOK'
      BY <1>0, <1>a, <2>1, <2>2 DEF ReturnedOK
    <2> QED
      BY <1>0, <1>1, <2>2, <2>3, <2>4 DEF FanInv
  <1>4. CASE TakesFirstPositive
    <2>0. how = "first_positive" /\ seen' = seen \cup Done /\ Done \subseteq ToSet(asked) \ Running
      BY <1>2, <1>4 DEF TakesFirstPositive, Done
    <2>1. CASE \E who \in Done : KeysFrom(who) # {}
      <3>1. CancelsRest
        BY <1>4, <2>1 DEF TakesFirstPositive
      <3>2. PICK who \in Done : KeysFrom(who) # {} /\ answer' = Answer(RowsFrom(who))
        BY <1>4, <2>1 DEF TakesFirstPositive
      <3>3. /\ OutcomeOK' /\ Running' = {} /\ DOMAIN outcome' = DOMAIN outcome
            /\ \A one \in DOMAIN outcome : KeysFrom(one)' = KeysFrom(one)
        BY <1>0, <1>1, <3>1, CancelsKeepsRows
      <3>4. SeenOK'
        BY <1>0, <1>1, <1>a, <2>0, <3>2, <3>3 DEF SeenOK
      <3>5. who \in DOMAIN outcome' /\ KeysFrom(who)' # {} /\ answer'.rows = RowsFrom(who)' /\ answer'.rows # {}
        <4>1. who \in DOMAIN outcome
          BY <1>2, <2>0, <3>2
        <4>2. KeysFrom(who)' = KeysFrom(who)
          BY <3>3, <4>1
        <4>3. RowsFrom(who)' = RowsFrom(who)
          BY <4>2 DEF RowsFrom
        <4>4. RowsFrom(who) # {}
          BY <3>2 DEF RowsFrom
        <4> QED
          BY <1>a, <3>2, <3>3, <4>1, <4>2, <4>3, <4>4
      <3>6. ReturnedOK'
        BY <1>0, <2>0, <3>3, <3>5 DEF ReturnedOK
      <3> QED
        BY <1>0, <1>1, <3>3, <3>4, <3>6 DEF FanInv
    <2>2. CASE \A who \in Done : KeysFrom(who) = {}
      <3>1. outcome' = outcome /\ answer' = IF Running = {} THEN Answer({}) ELSE answer
        BY <1>4, <2>2 DEF TakesFirstPositive
      <3>2. OutcomeOK' /\ Running' = Running /\ \A who : KeysFrom(who)' = KeysFrom(who)
        BY <1>0, <1>1, <3>1 DEF OutcomeOK, Running, KeysFrom
      <3>3. SeenOK'
        BY <1>0, <1>1, <2>0, <2>2, <3>2 DEF SeenOK
      <3>4. ASSUME Running = {} PROVE \A who \in DOMAIN outcome : KeysFrom(who) = {}
        <4>1. DOMAIN outcome = Done \cup seen
          BY <1>1, <1>2, <3>4 DEF Done, SeenOK
        <4> QED
          BY <1>0, <1>1, <2>2, <4>1 DEF SeenOK
      <3>5. ReturnedOK'
        <4>1. CASE Running = {}
          BY <1>0, <1>a, <2>0, <3>1, <3>2, <3>4, <4>1 DEF ReturnedOK
        <4>2. CASE Running # {}
          BY <1>0, <3>1, <4>2 DEF ReturnedOK
        <4> QED
          BY <4>1, <4>2
      <3> QED
        BY <1>0, <1>1, <3>2, <3>3, <3>5 DEF FanInv
    <2> QED
      BY <2>1, <2>2
  <1>5. CASE TakesFastest
    <2>0. how = "fastest" /\ seen' = seen \cup Done /\ CancelsRest /\ Done \subseteq ToSet(asked) \ Running
      BY <1>2, <1>5 DEF TakesFastest, Done
    <2>1. PICK who \in Done : answer' = Answer(RowsFrom(who))
      BY <1>5 DEF TakesFastest
    <2>2. /\ OutcomeOK' /\ Running' = {} /\ DOMAIN outcome' = DOMAIN outcome
          /\ \A one \in DOMAIN outcome : KeysFrom(one)' = KeysFrom(one)
      BY <1>0, <1>1, <2>0, CancelsKeepsRows
    <2>3. SeenOK'
      BY <1>0, <1>1, <1>a, <2>0, <2>1, <2>2 DEF SeenOK
    <2>4. who \in DOMAIN outcome' /\ KeysFrom(who)' = KeysFrom(who) /\ answer'.rows = RowsFrom(who)
      BY <1>2, <1>a, <2>0, <2>1, <2>2
    <2>5. RowsFrom(who)' = RowsFrom(who) /\ (KeysFrom(who) = {} => RowsFrom(who) = {})
      BY <2>4 DEF RowsFrom
    <2>6. ReturnedOK'
      BY <1>0, <2>0, <2>2, <2>4, <2>5 DEF ReturnedOK
    <2> QED
      BY <1>0, <1>1, <2>2, <2>3, <2>6 DEF FanInv
  <1> QED
    BY <1>3, <1>4, <1>5

\* A fan-out returns one answer, whatever the strategy, whoever replies in whatever order,
\* and whoever fails: merged, each key once and none missing, with the local reader's
\* versions; or one positive answer whole, and none only if nobody has rows; or the fastest.
THEOREM AnswersAreWhole == FanSpec => []AnswerIsWhole
  <1>1. FanInit => FanInv
    BY DEF FanInit, FanInv
  <1>2. FanInv /\ [FanNext]_fanVars => FanInv'
    <2> SUFFICES ASSUME FanInv, [FanNext]_fanVars PROVE FanInv'
      OBVIOUS
    <2>1. ASSUME NEW who \in Running, FailsToReply(who) PROVE FanInv'
      <3>1. Ends(who, Outcome("failed", {})) /\ Outcome("failed", {}) \in [is : {"answered", "failed"}, keys : SUBSET RowKeys]
            /\ Outcome("failed", {}).keys = {}
        BY <2>1 DEF FailsToReply, Outcome
      <3> QED
        BY <3>1, EndsStep
    <2>2. ASSUME NEW who \in Running, NEW keys \in SUBSET RowKeys, Replies(who, keys) PROVE FanInv'
      <3>1. Ends(who, Outcome("answered", keys))
            /\ Outcome("answered", keys) \in [is : {"answered", "failed"}, keys : SUBSET RowKeys]
            /\ Outcome("answered", keys).is = "answered"
        BY <2>2 DEF Replies, Outcome
      <3> QED
        BY <3>1, EndsStep
    <2>3. CASE UNCHANGED fanVars
      BY <2>3 DEF fanVars, FanInv, AskedOK, OutcomeOK, SeenOK, ReturnedOK, Running, KeysFrom, RowsFrom, Merged, MergedBy
    <2> QED
      BY <2>1, <2>2, <2>3, FansOutStep, ReturnsStep DEF FanNext
  <1>3. FanInv => AnswerIsWhole
    <2> SUFFICES ASSUME FanInv, answer.returned
                 PROVE  AnswerIsWhole
      BY DEF AnswerIsWhole
    <2>1. how \in Strategies /\ AskedOK /\ OutcomeOK /\ ReturnedOK
      BY DEF FanInv, NoAnswer
    <2>2. \A who : \A row, other \in RowsFrom(who) : row.key = other.key => row = other
      BY DEF RowsFrom
    <2>3. CASE how \in {"union", "query"}
      <3>1. answer.rows = Merged /\ how \notin {"first_positive", "fastest"}
        BY <2>1, <2>3 DEF ReturnedOK
      <3> QED
        BY <2>1, <3>1, MergedWhole DEF AnswerIsWhole, AskedOK, TasksOK
    <2>4. CASE how \in {"first_positive", "fastest"}
      <3>1. how \notin {"union", "query"}
        BY <2>4
      <3>2. /\ Running = {}
            /\ answer.rows = {} \/ \E who \in DOMAIN outcome : KeysFrom(who) # {} /\ answer.rows = RowsFrom(who)
            /\ how = "first_positive" /\ answer.rows = {} => \A who \in DOMAIN outcome : KeysFrom(who) = {}
        BY <2>1, <2>4 DEF ReturnedOK
      <3> QED
        BY <2>1, <2>2, <3>1, <3>2 DEF AnswerIsWhole, AskedOK, TasksOK
    <2> QED
      BY <2>1, <2>3, <2>4 DEF Strategies
  <1> QED
    BY <1>1, <1>2, <1>3, PTL DEF FanSpec

-----------------------------------------------------------------------------
(* The file of ColumnarDB. *)

IsTable(object) == object = [there |-> object.there, rows |-> object.rows] /\ object.there \in BOOLEAN

\* Only who has the table's lock writes, and what it writes is known.
WriterHasLock == \A t \in DbTasks : task[t].at = "writing" => storage = t

\* A task that waits will save the table of then, unless that is dropped first.
ToSave == {t \in DbTasks : task[t].at = "waiting" /\ ~task[t].dropped}

Writers == {t \in DbTasks : task[t].at = "writing"}

\* If there are no changes that are lost, the table is in the file, is being written to it,
\* or is to be.
SavedOrToBe ==
    ~unsaved => \/ ToSave # {}
                \/ \E t \in Writers : Table(task[t].rows) = table
                \/ Writers = {} /\ file = table

SaveInv ==
    /\ IsTable(table) /\ IsTable(file) /\ task = [t \in DbTasks |-> task[t]]
    /\ WriterHasLock /\ SavedOrToBe

\* A step that changes a task that does not write into another that does not, and neither
\* the table, the file, nor who is to save it.
LEMMA QuietStep ==
    ASSUME SaveInv, NEW t \in DbTasks, NEW next, task' = [task EXCEPT ![t] = next],
           task[t].at \notin {"writing", "waiting"}, next.at \notin {"writing", "waiting"},
           UNCHANGED <<table, file, storage>>, unsaved' \in {unsaved, TRUE}
    PROVE  SaveInv'
  <1>1. task' = [u \in DbTasks |-> task'[u]] /\ task'[t] = next /\ \A u \in DbTasks \ {t} : task'[u] = task[u]
    BY DEF SaveInv
  <1>2. ToSave' = ToSave /\ Writers' = Writers
    BY <1>1 DEF ToSave, Writers
  <1>3. \A u \in Writers : task'[u] = task[u]
    BY <1>1 DEF Writers
  <1>4. WriterHasLock'
    BY <1>1 DEF SaveInv, WriterHasLock
  <1>5. SavedOrToBe'
    BY <1>2, <1>3 DEF SaveInv, SavedOrToBe
  <1> QED
    BY <1>1, <1>4, <1>5 DEF SaveInv, IsTable

\* A step that changes the table, in memory and nowhere else.
LEMMA LostStep ==
    ASSUME SaveInv, IsTable(table'), unsaved' = TRUE, file' = file, storage' = storage,
           task' = task \/ \E t \in DbTasks : \E next : task' = [task EXCEPT ![t] = next] /\ next.at # "writing"
    PROVE  SaveInv'
  <1>1. task' = [u \in DbTasks |-> task'[u]] /\ \A u \in DbTasks : task'[u] = task[u] \/ task'[u].at # "writing"
    BY DEF SaveInv
  <1>2. WriterHasLock' /\ SavedOrToBe'
    BY <1>1 DEF SaveInv, WriterHasLock, SavedOrToBe
  <1> QED
    BY <1>1, <1>2 DEF SaveInv, IsTable

\* The table, or one that was dropped, is encoded, by a task that then writes, or does not.
LEMMA EncodesStep ==
    ASSUME SaveInv, NEW t \in DbTasks, NEW object, NEW left, Encodes(t, object, left), IsTable(object),
           IsTable(table'), file' = file, storage = Nobody
    PROVE  SaveInv'
  <1>1. Writers = {} /\ Nobody \notin DbTasks
    BY ColumnarAssumption DEF SaveInv, WriterHasLock, Writers
  <1>2. CASE Encodable(object.rows)
    <2>n. PICK next : next = [at |-> "writing", rows |-> object.rows, left |-> left]
      OBVIOUS
    <2>1. storage' = t /\ unsaved' = (~object.there \/ table' # object) /\ task' = [task EXCEPT ![t] = next]
      BY <1>2, <2>n DEF Encodes
    <2>2. next.at = "writing" /\ next.rows = object.rows
      BY <2>n
    <2>3. task' = [u \in DbTasks |-> task'[u]] /\ task'[t] = next /\ \A u \in DbTasks \ {t} : task'[u] = task[u]
      BY <2>1 DEF SaveInv
    <2>4. WriterHasLock'
      BY <1>1, <2>1, <2>3 DEF WriterHasLock, Writers
    <2>5. t \in Writers'
      BY <2>2, <2>3 DEF Writers
    <2>6. ~unsaved' => Table(task'[t].rows) = table'
      BY <2>1, <2>2, <2>3 DEF IsTable, Table
    <2>7. SavedOrToBe'
      BY <2>5, <2>6 DEF SavedOrToBe
    <2> QED
      BY <2>3, <2>4, <2>7 DEF SaveInv, IsTable
  <1>3. CASE ~Encodable(object.rows)
    <2>n. PICK next : next = [at |-> "saved", left |-> left]
      OBVIOUS
    <2>1. storage' = storage /\ unsaved' = TRUE /\ task' = [task EXCEPT ![t] = next] /\ next.at # "writing"
      BY <1>3, <2>n DEF Encodes
    <2> QED
      BY <2>1, LostStep
  <1> QED
    BY <1>2, <1>3

\* A save of the table as it is after the step.
LEMMA SavesStep ==
    ASSUME SaveInv, NEW t \in DbTasks, NEW left, Saves(t, left), IsTable(table'), file' = file,
           task[t].at # "writing"
    PROVE  SaveInv'
  <1>1. CASE storage = Nobody /\ Waiting = {}
    <2>1. PICK object : object = table'
      OBVIOUS
    <2>2. Encodes(t, object, left)
      BY <1>1, <2>1 DEF Saves
    <2>3. IsTable(object)
      BY <2>1
    <2> QED
      BY <1>1, <2>2, <2>3, EncodesStep
  <1>2. CASE ~(storage = Nobody /\ Waiting = {})
    <2>n. PICK next : next = [at |-> "waiting", dropped |-> FALSE, left |-> left]
      OBVIOUS
    <2>1. task' = [task EXCEPT ![t] = next] /\ storage' = storage /\ unsaved' = unsaved
      BY <1>2, <2>n DEF Saves
    <2>2. next.at = "waiting" /\ ~next.dropped
      BY <2>n
    <2>3. task' = [u \in DbTasks |-> task'[u]] /\ task'[t] = next /\ \A u \in DbTasks \ {t} : task'[u] = task[u]
      BY <2>1 DEF SaveInv
    <2>4. WriterHasLock'
      BY <2>1, <2>2, <2>3 DEF SaveInv, WriterHasLock
    <2>5. t \in ToSave'
      BY <2>2, <2>3 DEF ToSave
    <2>6. SavedOrToBe'
      BY <2>5 DEF SavedOrToBe
    <2> QED
      BY <2>3, <2>4, <2>6 DEF SaveInv, IsTable
  <1> QED
    BY <1>1, <1>2

\* The end of a change of the table.
LEMMA ConcludesStep ==
    ASSUME SaveInv, NEW t \in DbTasks, NEW inTxn, Concludes(t, inTxn), task[t] = Free, IsTable(table'), file' = file
    PROVE  SaveInv'
  <1>1. task[t].at # "writing"
    BY DEF Free
  <1>2. CASE ~inTxn
    <2>1. Saves(t, 0)
      BY <1>2 DEF Concludes
    <2> QED
      BY <1>1, <2>1, SavesStep
  <1>3. CASE inTxn
    <2>n. PICK next : next = [at |-> "logging"]
      OBVIOUS
    <2>1. unsaved' = TRUE /\ storage' = storage /\ (task' = task \/ task' = [task EXCEPT ![t] = next])
      BY <1>3, <2>n DEF Concludes
    <2>2. next.at # "writing"
      BY <2>n
    <2> QED
      BY <2>1, <2>2, LostStep
  <1> QED
    BY <1>2, <1>3

\* The calls that change the table and save it.
LEMMA ChangeStep ==
    ASSUME SaveInv, NEW t \in DbTasks, NEW inTxn,
           \/ \E id, value : Insert(t, id, value, inTxn)
           \/ \E id, column, new : Update(t, id, column, new, inTxn)
           \/ \E id : Delete(t, id, inTxn)
           \/ CreateTable(t) \/ Vacuum(t)
    PROVE  SaveInv'
  <1>0. \A rows : IsTable(Table(rows))
    BY DEF IsTable, Table
  <1>1. Begins(t) /\ file' = file
    BY DEF Insert, Update, Delete, CreateTable, Vacuum
  <1>2. task[t] = Free
    BY <1>1 DEF Begins
  <1>3. task[t].at # "writing"
    BY <1>2 DEF Free
  <1>4. ASSUME NEW id, NEW value, Insert(t, id, value, inTxn) PROVE SaveInv'
    <2>1. IsTable(table') /\ Concludes(t, inTxn)
      BY <1>0, <1>4 DEF Insert
    <2> QED
      BY <1>1, <1>2, <1>3, <2>1, ConcludesStep
  <1>5. ASSUME NEW id, NEW column, NEW new, Update(t, id, column, new, inTxn) PROVE SaveInv'
    <2>1. IsTable(table') /\ Concludes(t, inTxn)
      BY <1>0, <1>5 DEF Update
    <2> QED
      BY <1>1, <1>2, <1>3, <2>1, ConcludesStep
  <1>6. ASSUME NEW id, Delete(t, id, inTxn) PROVE SaveInv'
    <2>1. IsTable(table') /\ Concludes(t, inTxn)
      BY <1>0, <1>6 DEF Delete
    <2> QED
      BY <1>1, <1>2, <1>3, <2>1, ConcludesStep
  <1>7. CASE CreateTable(t)
    <2>1. IsTable(table') /\ Saves(t, 0)
      BY <1>0, <1>7 DEF CreateTable
    <2> QED
      BY <1>1, <1>2, <1>3, <2>1, SavesStep
  <1>8. CASE Vacuum(t)
    <2>1. IsTable(table') /\ Saves(t, 0)
      BY <1>8 DEF Vacuum, SaveInv, IsTable
    <2> QED
      BY <1>1, <1>2, <1>3, <2>1, SavesStep
  <1> QED
    BY <1>4, <1>5, <1>6, <1>7, <1>8

\* A task gets the table's lock, has written or not, and goes on.
LEMMA StorageStep ==
    ASSUME SaveInv, NEW t \in DbTasks, GetsLock(t) \/ Written(t) \/ NotWritten(t) \/ SaveReturns(t)
    PROVE  SaveInv'
  <1>1. CASE GetsLock(t)
    <2>1. PICK object : object = IF task[t].dropped THEN Dropped(task[t].rows) ELSE table
      OBVIOUS
    <2>2. Encodes(t, object, task[t].left) /\ storage = Nobody /\ table' = table /\ file' = file
      BY <1>1, <2>1 DEF GetsLock
    <2>3. IsTable(object) /\ IsTable(table')
      BY <2>1, <2>2 DEF SaveInv, IsTable, Dropped
    <2> QED
      BY <2>2, <2>3, EncodesStep
  <1>2. CASE Written(t) \/ NotWritten(t)
    <2>n. PICK next : next = [at |-> "saved", left |-> task[t].left]
      OBVIOUS
    <2>1. task[t].at = "writing" /\ storage' = Nobody /\ table' = table /\ task' = [task EXCEPT ![t] = next]
      BY <1>2, <2>n DEF Written, NotWritten, SaveInv
    <2>2. next.at = "saved"
      BY <2>n
    <2>3. task' = [u \in DbTasks |-> task'[u]] /\ task'[t] = next /\ \A u \in DbTasks \ {t} : task'[u] = task[u]
      BY <2>1 DEF SaveInv
    <2>4. Writers = {t} /\ Writers' = {} /\ ToSave' = ToSave
      BY <2>1, <2>2, <2>3 DEF SaveInv, WriterHasLock, Writers, ToSave
    <2>5. WriterHasLock'
      BY <2>4 DEF WriterHasLock, Writers
    <2>6. IsTable(file') /\ SavedOrToBe'
      <3>1. CASE Written(t)
        <4>1. file' = Table(task[t].rows) /\ unsaved' = unsaved
          BY <3>1 DEF Written
        <4>2. IsTable(file')
          BY <4>1 DEF IsTable, Table
        <4>3. SavedOrToBe'
          BY <2>1, <2>4, <4>1 DEF SaveInv, SavedOrToBe
        <4> QED
          BY <4>2, <4>3
      <3>2. CASE NotWritten(t)
        BY <3>2 DEF NotWritten, SaveInv, SavedOrToBe, IsTable
      <3> QED
        BY <1>2, <3>1, <3>2
    <2> QED
      BY <2>1, <2>3, <2>5, <2>6 DEF SaveInv, IsTable
  <1>3. CASE SaveReturns(t)
    <2>0. task[t].at = "saved" /\ table' = table /\ file' = file
      BY <1>3 DEF SaveReturns
    <2>1. CASE task[t].left > 0 /\ table.there
      <3>1. Saves(t, task[t].left - 1)
        BY <1>3, <2>1 DEF SaveReturns
      <3>2. IsTable(table')
        BY <2>0 DEF SaveInv, IsTable
      <3> QED
        BY <2>0, <3>1, <3>2, SavesStep
    <2>2. CASE ~(task[t].left > 0 /\ table.there)
      <3>1. task' = [task EXCEPT ![t] = Free] /\ storage' = storage /\ unsaved' = unsaved
        BY <1>3, <2>2 DEF SaveReturns
      <3>2. Free.at = "idle"
        BY DEF Free
      <3> QED
        BY <2>0, <3>1, <3>2, QuietStep
    <2> QED
      BY <2>1, <2>2
  <1> QED
    BY <1>1, <1>2, <1>3

\* A table is dropped: who waits to save it keeps what was dropped.
LEMMA DropStep ==
    ASSUME SaveInv, NEW t \in DbTasks, DropTable(t)
    PROVE  SaveInv'
  <1>1. /\ table' = NoTable /\ file' = NoTable /\ storage = Nobody /\ storage' = storage
        /\ task' = [u \in DbTasks |-> IF task[u].at = "waiting" /\ ~task[u].dropped
                                      THEN [at |-> "waiting", dropped |-> TRUE, left |-> task[u].left, rows |-> table.rows]
                                      ELSE task[u]]
    BY DEF DropTable
  <1>2. Writers = {}
    BY <1>1, ColumnarAssumption DEF SaveInv, WriterHasLock, Writers
  <1>3. \A u \in DbTasks : task'[u].at = "writing" => task[u].at = "writing"
    BY <1>1
  <1>4. Writers' = {} /\ WriterHasLock'
    BY <1>2, <1>3 DEF Writers, WriterHasLock
  <1>5. IsTable(NoTable)
    BY DEF IsTable, NoTable
  <1> QED
    BY <1>1, <1>4, <1>5 DEF SaveInv, SavedOrToBe, IsTable

\* Transactions.
LEMMA TransactionStep ==
    ASSUME SaveInv, NEW t \in DbTasks,
           \/ Logged(t) \/ BeginTransaction(t) \/ Commits(t) \/ RollsBack(t)
           \/ Finishes(t, "committing") \/ Finishes(t, "aborting")
    PROVE  SaveInv'
  <1>f. Free.at = "idle"
    BY DEF Free
  <1>1. CASE Logged(t) \/ RollsBack(t)
    <2>1. /\ task[t].at \in {"logging", "aborting"} /\ task' = [task EXCEPT ![t] = Free]
          /\ UNCHANGED <<table, file, storage>> /\ unsaved' = unsaved
      BY <1>1 DEF Logged, RollsBack
    <2> QED
      BY <1>f, <2>1, QuietStep
  <1>2. CASE BeginTransaction(t)
    BY <1>2 DEF BeginTransaction, SaveInv, IsTable, WriterHasLock, SavedOrToBe, ToSave, Writers
  <1>3. CASE Commits(t)
    <2>0. task[t].at = "committing" /\ table' = table /\ file' = file
      BY <1>3 DEF Commits
    <2>1. CASE table.there /\ txn.ops > 0
      <3>1. Saves(t, txn.ops - 1)
        BY <1>3, <2>1 DEF Commits
      <3>2. IsTable(table')
        BY <2>0 DEF SaveInv, IsTable
      <3> QED
        BY <2>0, <3>1, <3>2, SavesStep
    <2>2. CASE ~(table.there /\ txn.ops > 0)
      <3>1. task' = [task EXCEPT ![t] = Free] /\ storage' = storage /\ unsaved' = unsaved
        BY <1>3, <2>2 DEF Commits
      <3> QED
        BY <1>f, <2>0, <3>1, QuietStep
    <2> QED
      BY <2>1, <2>2
  <1>4. ASSUME NEW goal \in {"committing", "aborting"}, Finishes(t, goal) PROVE SaveInv'
    <2>n. PICK next : next = [at |-> goal]
      OBVIOUS
    <2>1. /\ task[t] = Free /\ task' = [task EXCEPT ![t] = next]
          /\ UNCHANGED <<table, file, storage>> /\ unsaved' = unsaved
      BY <1>4, <2>n DEF Finishes, Begins
    <2>2. next.at = goal /\ goal \notin {"writing", "waiting"} /\ task[t].at \notin {"writing", "waiting"}
      BY <1>f, <2>1, <2>n
    <2> QED
      BY <2>1, <2>2, QuietStep
  <1> QED
    BY <1>1, <1>2, <1>3, <1>4

\* The process dies, and the file is loaded.
LEMMA RestartStep ==
    ASSUME SaveInv, DbRestarts
    PROVE  SaveInv'
  <1>1. table' = file /\ file' = file /\ task' = [t \in DbTasks |-> Free]
    BY DEF DbRestarts
  <1>2. Writers' = {} /\ WriterHasLock'
    BY <1>1 DEF Writers, WriterHasLock, Free
  <1> QED
    BY <1>1, <1>2 DEF SaveInv, SavedOrToBe, IsTable

\* Whenever no call of the legacy engine is under way, and no save failed, was made of a
\* dropped table or is still owed by a transaction, the file holds the table, in whatever
\* order calls saved it, with the database's lock or without.
THEOREM FileAlwaysTable == DbSpec => []FileIsTable
  <1>1. DbInit => SaveInv
    BY DEF DbInit, SaveInv, IsTable, NoTable, WriterHasLock, SavedOrToBe, Writers, Free
  <1>2. SaveInv /\ [DbNext]_dbVars => SaveInv'
    <2> SUFFICES ASSUME SaveInv, [DbNext]_dbVars PROVE SaveInv'
      OBVIOUS
    <2>1. CASE UNCHANGED dbVars
      BY <2>1 DEF dbVars, SaveInv, IsTable, WriterHasLock, SavedOrToBe, ToSave, Writers
    <2> QED
      BY <2>1, ChangeStep, StorageStep, DropStep, TransactionStep, RestartStep DEF DbNext
  <1>3. SaveInv => FileIsTable
    BY DEF SaveInv, SavedOrToBe, ToSave, Writers, FileIsTable, Free
  <1> QED
    BY <1>1, <1>2, <1>3, PTL DEF DbSpec

-----------------------------------------------------------------------------
(* The log of Transactions. *)

Records == {Record(t, "OP", n) : t \in Txns, n \in Nat} \cup {Record(t, type, 0) : t \in Txns, type \in {"COMMIT", "ABORT"}}
LogRecords == Records \cup {Torn}

\* Whether a record is in one of some files.
In(files, record) == \E f \in DOMAIN files : \E i \in DOMAIN files[f] : files[f][i] = record

\* Operations are numbered in the order they are in.
Ascending(files) ==
    \A f, g \in DOMAIN files : \A i \in DOMAIN files[f], j \in DOMAIN files[g] :
        files[f][i].type = "OP" /\ files[g][j].type = "OP" /\ (f < g \/ (f = g /\ i < j)) => files[f][i].op < files[g][j].op

Increasing(ops) == \A i, j \in DOMAIN ops : i < j => ops[i] < ops[j]

LEMMA RecordFields ==
    ASSUME NEW record \in Records
    PROVE  /\ record.txn \in Txns /\ record.type \in {"OP", "COMMIT", "ABORT"} /\ record.op \in Nat
           /\ record = Record(record.txn, record.type, record.op) /\ (record.type # "OP" => record.op = 0)
           /\ record # Torn
  BY DEF Records, Record, Torn

LEMMA RecordMade ==
    ASSUME NEW t \in Txns, NEW n \in Nat
    PROVE  /\ Record(t, "OP", n) \in Records /\ Record(t, "COMMIT", 0) \in Records /\ Record(t, "ABORT", 0) \in Records
           /\ Record(t, "OP", n).type = "OP" /\ Record(t, "OP", n).txn = t /\ Record(t, "OP", n).op = n
           /\ Record(t, "COMMIT", 0).type = "COMMIT" /\ Record(t, "COMMIT", 0).txn = t
           /\ Record(t, "ABORT", 0).type = "ABORT" /\ Record(t, "ABORT", 0).txn = t
  BY DEF Records, Record

LEMMA TornType == Torn.type = "torn" /\ Torn \in LogRecords
  BY DEF Torn, LogRecords

\* A number behind smaller ones.
LEMMA NumberAppended ==
    ASSUME NEW ops \in Seq(Nat), NEW n \in Nat, Increasing(ops), \A i \in DOMAIN ops : ops[i] < n
    PROVE  /\ Append(ops, n) \in Seq(Nat) /\ Increasing(Append(ops, n))
           /\ \A k : k \in Range(Append(ops, n)) <=> k \in Range(ops) \/ k = n
  <1>1. PICK more : more = Append(ops, n)
    OBVIOUS
  <1>2. /\ more \in Seq(Nat) /\ Len(ops) \in Nat /\ DOMAIN ops = 1 .. Len(ops) /\ DOMAIN more = 1 .. Len(ops) + 1
        /\ more[Len(ops) + 1] = n /\ \A i \in DOMAIN ops : more[i] = ops[i] /\ ops[i] \in Nat
    BY <1>1
  <1>3. Increasing(more)
    <2>1. SUFFICES ASSUME NEW i \in DOMAIN more, NEW j \in DOMAIN more, i < j PROVE more[i] < more[j]
      BY DEF Increasing
    <2>2. i \in DOMAIN ops /\ (j \in DOMAIN ops \/ j = Len(ops) + 1)
      BY <1>2, <2>1
    <2> QED
      BY <1>2, <2>1, <2>2 DEF Increasing
  <1>4. ASSUME NEW k PROVE k \in Range(more) <=> k \in Range(ops) \/ k = n
    <2>1. k \in Range(more) <=> \E i \in DOMAIN more : more[i] = k
      BY DEF Range
    <2>2. k \in Range(ops) <=> \E i \in DOMAIN ops : ops[i] = k
      BY DEF Range
    <2>3. \A i : i \in DOMAIN more <=> i \in DOMAIN ops \/ i = Len(ops) + 1
      BY <1>2
    <2> QED
      BY <1>2, <2>1, <2>2, <2>3
  <1> QED
    BY <1>1, <1>2, <1>3, <1>4

\* A record at the end of the last file, or in a new one.
LEMMA WithRecord ==
    ASSUME wal \in Seq(Seq(LogRecords)), mine \in BOOLEAN, mine => wal # <<>>, NEW record \in LogRecords
    PROVE  /\ With(record) \in Seq(Seq(LogRecords)) /\ With(record) # <<>>
           /\ \A other : In(With(record), other) <=> In(wal, other) \/ other = record
           /\ Ascending(wal) /\ (record.type = "OP" => \A other \in LogRecords : In(wal, other) /\ other.type = "OP" => other.op < record.op)
              => Ascending(With(record))
  <1>1. PICK more : more = With(record)
    OBVIOUS
  <1>2. PICK S : S = LogRecords
    OBVIOUS
  <1>3. /\ Len(wal) \in Nat /\ DOMAIN wal = 1 .. Len(wal)
        /\ \A f \in DOMAIN wal : wal[f] \in Seq(S) /\ Len(wal[f]) \in Nat /\ DOMAIN wal[f] = 1 .. Len(wal[f])
    BY <1>2
  <1>4. record \in S
    BY <1>2
  <1>5. \E last \in Nat, place \in Nat :
           /\ more \in Seq(Seq(S)) /\ last \in DOMAIN more /\ place \in DOMAIN more[last] /\ more[last][place] = record
           /\ DOMAIN wal \subseteq DOMAIN more /\ \A f \in DOMAIN more : f <= last
           /\ \A f \in DOMAIN wal : DOMAIN wal[f] \subseteq DOMAIN more[f] /\ \A i \in DOMAIN wal[f] : more[f][i] = wal[f][i]
           /\ \A f \in DOMAIN more : \A i \in DOMAIN more[f] : (f = last /\ i = place) \/ (f \in DOMAIN wal /\ i \in DOMAIN wal[f])
           /\ \A i \in DOMAIN more[last] : i <= place
    <2>1. CASE mine
      <3>1. PICK n : n = Len(wal)
        OBVIOUS
      <3>2. PICK part : part = Append(wal[n], record)
        OBVIOUS
      <3>3. n \in DOMAIN wal /\ n \in Nat
        BY <1>3, <2>1, <3>1
      <3>4. more = [wal EXCEPT ![n] = part]
        BY <1>1, <2>1, <3>1, <3>2 DEF With
      <3>5. /\ part \in Seq(S) /\ DOMAIN part = 1 .. Len(wal[n]) + 1 /\ part[Len(wal[n]) + 1] = record
            /\ \A i \in DOMAIN wal[n] : part[i] = wal[n][i]
        BY <1>3, <1>4, <3>2, <3>3
      <3>6. more \in Seq(Seq(S)) /\ DOMAIN more = DOMAIN wal /\ more[n] = part /\ \A f \in DOMAIN wal \ {n} : more[f] = wal[f]
        BY <1>2, <1>3, <3>3, <3>4, <3>5
      <3>7. \A i \in DOMAIN more[n] : i <= Len(wal[n]) + 1 /\ (i = Len(wal[n]) + 1 \/ i \in DOMAIN wal[n])
        BY <1>3, <3>3, <3>5, <3>6
      <3>8. Len(wal[n]) + 1 \in DOMAIN more[n] /\ Len(wal[n]) + 1 \in Nat /\ DOMAIN wal[n] \subseteq DOMAIN more[n]
        BY <1>3, <3>3, <3>5, <3>6
      <3>9. \A f \in DOMAIN more : f <= n
        BY <1>3, <3>1, <3>6
      <3>10. more[n][Len(wal[n]) + 1] = record
        BY <3>5, <3>6
      <3>11. \A f \in DOMAIN wal : DOMAIN wal[f] \subseteq DOMAIN more[f] /\ \A i \in DOMAIN wal[f] : more[f][i] = wal[f][i]
        BY <3>5, <3>6, <3>8
      <3>12. \A f \in DOMAIN more : \A i \in DOMAIN more[f] : (f = n /\ i = Len(wal[n]) + 1) \/ (f \in DOMAIN wal /\ i \in DOMAIN wal[f])
        BY <3>6, <3>7
      <3> HIDE DEF LogRecords
      <3> QED
        BY <3>3, <3>6, <3>7, <3>8, <3>9, <3>10, <3>11, <3>12
    <2>2. CASE ~mine
      <3>1. PICK n : n = Len(wal) + 1
        OBVIOUS
      <3>2. PICK part : part = <<record>>
        OBVIOUS
      <3>3. n \in Nat /\ more = Append(wal, part)
        BY <1>1, <1>3, <2>2, <3>1, <3>2 DEF With
      <3>4. part \in Seq(S) /\ DOMAIN part = 1 .. 1 /\ part[1] = record
        BY <1>4, <3>2
      <3>5. more \in Seq(Seq(S)) /\ DOMAIN more = 1 .. n /\ more[n] = part /\ \A f \in DOMAIN wal : more[f] = wal[f]
        BY <1>2, <1>3, <3>1, <3>3, <3>4
      <3>6. n \in DOMAIN more /\ DOMAIN wal \subseteq DOMAIN more /\ \A f \in DOMAIN more : f <= n /\ (f = n \/ f \in DOMAIN wal)
        BY <1>3, <3>1, <3>3, <3>5
      <3>7. 1 \in DOMAIN more[n] /\ more[n][1] = record /\ \A i \in DOMAIN more[n] : i = 1
        BY <3>4, <3>5
      <3>8. \A f \in DOMAIN wal : DOMAIN wal[f] \subseteq DOMAIN more[f] /\ \A i \in DOMAIN wal[f] : more[f][i] = wal[f][i]
        BY <3>5
      <3>9. \A f \in DOMAIN more : \A i \in DOMAIN more[f] : (f = n /\ i = 1) \/ (f \in DOMAIN wal /\ i \in DOMAIN wal[f])
        BY <3>5, <3>6, <3>7
      <3>10. more \in Seq(Seq(S)) /\ n \in DOMAIN more /\ \A i \in DOMAIN more[n] : i <= 1
        BY <3>5, <3>6, <3>7
      <3> QED
        BY <3>3, <3>6, <3>7, <3>8, <3>9, <3>10
    <2> QED
      BY <2>1, <2>2
  <1>6. PICK last \in Nat, place \in Nat :
           /\ more \in Seq(Seq(S)) /\ last \in DOMAIN more /\ place \in DOMAIN more[last] /\ more[last][place] = record
           /\ DOMAIN wal \subseteq DOMAIN more /\ \A f \in DOMAIN more : f <= last
           /\ \A f \in DOMAIN wal : DOMAIN wal[f] \subseteq DOMAIN more[f] /\ \A i \in DOMAIN wal[f] : more[f][i] = wal[f][i]
           /\ \A f \in DOMAIN more : \A i \in DOMAIN more[f] : (f = last /\ i = place) \/ (f \in DOMAIN wal /\ i \in DOMAIN wal[f])
           /\ \A i \in DOMAIN more[last] : i <= place
    BY <1>5
  <1>7. more # <<>>
    BY <1>6
  <1>8. \A other : In(more, other) <=> In(wal, other) \/ other = record
    BY <1>6 DEF In
  <1>9. ASSUME Ascending(wal), record.type = "OP" => \A other \in LogRecords : In(wal, other) /\ other.type = "OP" => other.op < record.op
        PROVE  Ascending(more)
    <2>1. SUFFICES ASSUME NEW f \in DOMAIN more, NEW g \in DOMAIN more, NEW i \in DOMAIN more[f], NEW j \in DOMAIN more[g],
                          more[f][i].type = "OP", more[g][j].type = "OP", f < g \/ (f = g /\ i < j)
                   PROVE  more[f][i].op < more[g][j].op
      BY DEF Ascending
    <2>2. Len(more) \in Nat /\ DOMAIN more = 1 .. Len(more) /\ \A h \in DOMAIN more : more[h] \in Seq(S) /\ DOMAIN more[h] = 1 .. Len(more[h]) /\ Len(more[h]) \in Nat
      BY <1>6
    <2>3. f \in Nat /\ g \in Nat /\ i \in Nat /\ j \in Nat
      BY <2>2
    <2>4. ~(f = last /\ i = place)
      BY <1>6, <2>1, <2>3
    <2>5. f \in DOMAIN wal /\ i \in DOMAIN wal[f] /\ more[f][i] = wal[f][i]
      BY <1>6, <2>4
    <2>6. CASE g = last /\ j = place
      <3>1. In(wal, more[f][i]) /\ more[f][i] \in LogRecords
        BY <1>2, <1>3, <2>5 DEF In
      <3> QED
        BY <1>6, <1>9, <2>1, <2>6, <3>1
    <2>7. CASE ~(g = last /\ j = place)
      <3>1. g \in DOMAIN wal /\ j \in DOMAIN wal[g] /\ more[g][j] = wal[g][j]
        BY <1>6, <2>7
      <3> QED
        BY <1>9, <2>1, <2>5, <3>1 DEF Ascending
    <2> QED
      BY <2>6, <2>7
  <1> QED
    BY <1>1, <1>2, <1>6, <1>7, <1>8, <1>9

LEMMA DropLength ==
    ASSUME NEW n \in Nat, NEW k \in 0 .. n
    PROVE  (IF k + 1 <= n THEN n - (k + 1) + 1 ELSE 0) = n - k
  OBVIOUS

LEMMA FirstDropped ==
    ASSUME NEW S, NEW seq \in Seq(S), NEW k \in 0 .. Len(seq)
    PROVE  /\ SubSeq(seq, k + 1, Len(seq)) \in Seq(S) /\ Len(SubSeq(seq, k + 1, Len(seq))) = Len(seq) - k
           /\ DOMAIN SubSeq(seq, k + 1, Len(seq)) = 1 .. (Len(seq) - k)
           /\ \A f \in 1 .. (Len(seq) - k) : SubSeq(seq, k + 1, Len(seq))[f] = seq[f + k]
  <1>1. PICK n : n = Len(seq)
    OBVIOUS
  <1>2. n \in Nat /\ k \in 0 .. n /\ k + 1 \in Int /\ n \in Int /\ \A i \in k + 1 .. n : seq[i] \in S
    BY <1>1
  <1>3. PICK left : left = SubSeq(seq, k + 1, n)
    OBVIOUS
  <1>4. /\ left \in Seq(S) /\ Len(left) = IF k + 1 <= n THEN n - (k + 1) + 1 ELSE 0
        /\ \A i \in 1 .. n - (k + 1) + 1 : left[i] = seq[k + 1 + i - 1]
    BY <1>2, <1>3, SubSeqProperties
  <1>5. Len(left) = n - k
    BY <1>2, <1>4, DropLength, Zenon
  <1>6. DOMAIN left = 1 .. Len(left)
    BY <1>4, LenProperties
  <1>7. \A i \in 1 .. (n - k) : i \in 1 .. n - (k + 1) + 1 /\ k + 1 + i - 1 = i + k
    BY <1>2
  <1>8. \A i \in 1 .. (n - k) : left[i] = seq[i + k]
    BY <1>4, <1>7
  <1> QED
    BY <1>1, <1>3, <1>4, <1>5, <1>6, <1>8, Zenon

\* The oldest files are removed.
LEMMA FilesLeft ==
    ASSUME NEW files \in Seq(Seq(LogRecords)), NEW k \in 0 .. Len(files), NEW left \in Seq(Seq(LogRecords)),
           Len(left) = Len(files) - k, DOMAIN left = 1 .. (Len(files) - k), \A f \in DOMAIN left : left[f] = files[f + k]
    PROVE  /\ (k < Len(files) => left # <<>>)
           /\ \A record : In(left, record) => In(files, record)
           /\ \A record \in Records : In(files, record) => In(left, record) \/ record.txn \in UNION {Mentioned(files[f]) : f \in 1 .. k}
           /\ Ascending(files) => Ascending(left)
  <1>1. PICK S : S = Seq(LogRecords)
    OBVIOUS
  <1>0. files \in Seq(S) /\ k \in 0 .. Len(files)
    BY <1>1
  <1>a. Len(files) \in Nat /\ DOMAIN files = 1 .. Len(files) /\ \A f \in DOMAIN files : files[f] \in S
    BY <1>0
  <1>2. Len(files) \in Nat /\ DOMAIN files = 1 .. Len(files) /\ k \in Nat /\ k <= Len(files)
    BY <1>0, <1>a
  <1>3. left \in Seq(S) /\ Len(left) = Len(files) - k /\ DOMAIN left = 1 .. (Len(files) - k) /\ \A f \in DOMAIN left : left[f] = files[f + k]
    BY <1>1
  <1>4. \A f \in DOMAIN left : f + k \in DOMAIN files /\ left[f] = files[f + k] /\ f \in Nat
    BY <1>2, <1>3
  <1>5. \A f \in DOMAIN files : f \notin 1 .. k => f - k \in DOMAIN left /\ left[f - k] = files[f]
    <2>1. SUFFICES ASSUME NEW f \in DOMAIN files, f \notin 1 .. k PROVE f - k \in DOMAIN left /\ left[f - k] = files[f]
      OBVIOUS
    <2>2. f \in Nat /\ k < f /\ f <= Len(files) /\ f - k + k = f
      BY <1>2, <2>1
    <2>3. f - k \in DOMAIN left
      BY <1>2, <1>3, <2>2
    <2> QED
      BY <1>3, <2>2, <2>3
  <1>6. k < Len(files) => left # <<>>
    BY <1>2, <1>3
  <1>7. \A record : In(left, record) => In(files, record)
    BY <1>4 DEF In
  <1>8. ASSUME NEW record \in Records, In(files, record), ~In(left, record)
        PROVE  record.txn \in UNION {Mentioned(files[f]) : f \in 1 .. k}
    <2>1. PICK f \in DOMAIN files : \E i \in DOMAIN files[f] : files[f][i] = record
      BY <1>8 DEF In
    <2>2. f \in 1 .. k
      BY <1>5, <1>8, <2>1 DEF In
    <2>3. record.txn \in Mentioned(files[f])
      BY <2>1, RecordFields DEF Mentioned
    <2> QED
      BY <2>2, <2>3
  <1>9. ASSUME Ascending(files) PROVE Ascending(left)
    <2>1. SUFFICES ASSUME NEW f \in DOMAIN left, NEW g \in DOMAIN left, NEW i \in DOMAIN left[f], NEW j \in DOMAIN left[g],
                          left[f][i].type = "OP", left[g][j].type = "OP", f < g \/ (f = g /\ i < j)
                   PROVE  left[f][i].op < left[g][j].op
      BY ZenonT(30) DEF Ascending
    <2>2. f + k < g + k \/ (f + k = g + k /\ i < j)
      <3>1. f \in Nat /\ g \in Nat /\ k \in Nat
        BY <1>2, <1>4
      <3>2. (f < g => f + k < g + k) /\ (f = g => f + k = g + k)
        BY <3>1
      <3> QED
        BY <2>1, <3>2
    <2>3. /\ f + k \in DOMAIN files /\ g + k \in DOMAIN files /\ left[f] = files[f + k] /\ left[g] = files[g + k]
      BY <1>4
    <2> QED
      BY <1>9, <2>1, <2>2, <2>3 DEF Ascending
  <1> QED
    BY <1>6, <1>7, <1>8, <1>9

-----------------------------------------------------------------------------
\* The record being appended, and what recovery has read.
Adding(record) == appending # Nothing /\ appending.record = record
Entered(record) == \E place \in DOMAIN read.entries : read.entries[place] = record

LogTypes ==
    /\ wal \in Seq(Seq(LogRecords)) /\ mine \in BOOLEAN /\ (mine => wal # <<>>) /\ calls \in Nat
    /\ held \in [Txns -> [state : {"none", "ACTIVE", "COMMITTED", "ABORTED", "lost"}, operations : Seq(Nat)]]
    /\ told \in [Txns -> [what : {"", "aborted", "committed"}, operations : Seq(Nat)]]
    /\ appending # Nothing => /\ appending = [record |-> appending.record, written |-> appending.written]
                              /\ appending.record \in Records /\ appending.written \in BOOLEAN

\* Who appends is active; what was written is in the log, unless that was cleaned up.
AppendOK ==
    appending # Nothing =>
        /\ held[appending.record.txn].state = "ACTIVE"
        /\ appending.record.type = "COMMIT" => appending.record.txn \in tried
        /\ appending.written => appending.record.txn \in cleaned \/ In(wal, appending.record)

\* Operations are numbered in the order they are asked for, in the log and in the objects,
\* and the one being appended has the last number.
NumbersOK ==
    /\ Ascending(wal)
    /\ \A record \in Records : record.type = "OP" /\ (In(wal, record) \/ record \in doubtful) => record.op <= calls
    /\ \A t \in Txns : /\ Increasing(held[t].operations) /\ Increasing(told[t].operations)
                       /\ \A i \in DOMAIN held[t].operations : held[t].operations[i] <= calls
    /\ appending # Nothing /\ appending.record.type = "OP" =>
          /\ appending.record.op = calls /\ appending.record \notin doubtful
          /\ \A t \in Txns : \A i \in DOMAIN held[t].operations : held[t].operations[i] < calls
          /\ ~appending.written => \A record \in Records : record.type = "OP" /\ In(wal, record) => record.op < calls

\* What the log has of an active transaction is what its object has, and what the caller of a
\* committed one was told; of the one record being appended nobody has been told.
LoggedOK(t) ==
    /\ held[t].state \in {"none", "ACTIVE"} => told[t].what = ""
    /\ held[t].state = "none" => \A n \in Nat : ~In(wal, Record(t, "OP", n))
    /\ held[t].state = "ACTIVE" /\ t \notin cleaned =>
          \A n \in Nat : n \in Range(held[t].operations) <=>
              In(wal, Record(t, "OP", n)) /\ Record(t, "OP", n) \notin doubtful /\ ~Adding(Record(t, "OP", n))
    /\ told[t].what = "committed" /\ t \notin cleaned =>
          /\ In(wal, Record(t, "COMMIT", 0))
          /\ \A n \in Nat : n \in Range(told[t].operations) <=> In(wal, Record(t, "OP", n)) /\ Record(t, "OP", n) \notin doubtful

\* A commit in the log was asked for, and succeeded, is on its way, or raised.
CommitOK(t) ==
    In(wal, Record(t, "COMMIT", 0)) \/ Entered(Record(t, "COMMIT", 0)) =>
        /\ t \in tried
        /\ \/ Record(t, "COMMIT", 0) \in doubtful
           \/ Adding(Record(t, "COMMIT", 0)) /\ appending.written
           \/ held[t].state \notin {"none", "ACTIVE"} /\ told[t].what # "aborted"

\* What recovery has read of a transaction that it must find is what its caller was told.
ReadOK ==
    /\ \A p \in DOMAIN read.entries : p[1] \in Nat /\ p[2] \in Nat /\ p = <<p[1], p[2]>> /\ read.entries[p] \in Records
    /\ \A p, q \in DOMAIN read.entries :
          read.entries[p].type = "OP" /\ read.entries[q].type = "OP" /\ Before(p, q) => read.entries[p].op < read.entries[q].op
    /\ \A t \in read.sure :
          /\ t \in Txns /\ told[t].what = "committed" /\ Entered(Record(t, "COMMIT", 0))
          /\ \A n \in Nat : n \in Range(told[t].operations) <=> Entered(Record(t, "OP", n)) /\ Record(t, "OP", n) \notin doubtful

LogInv == LogTypes /\ AppendOK /\ NumbersOK /\ (\A t \in Txns : LoggedOK(t) /\ CommitOK(t)) /\ ReadOK

-----------------------------------------------------------------------------
\* The objects' operations are numbers.
LEMMA ObjectTypes ==
    ASSUME LogTypes, NEW t \in Txns
    PROVE  /\ held[t].operations \in Seq(Nat) /\ \A i \in DOMAIN held[t].operations : held[t].operations[i] \in Nat
           /\ told[t].operations \in Seq(Nat) /\ \A i \in DOMAIN told[t].operations : told[t].operations[i] \in Nat
  <1>1. held[t].operations \in Seq(Nat) /\ told[t].operations \in Seq(Nat)
    BY DEF LogTypes
  <1>2. \A ops \in Seq(Nat) : \A i \in DOMAIN ops : ops[i] \in Nat
    OBVIOUS
  <1> QED
    BY <1>1, <1>2

\* What was read stands while it is read.
LEMMA ReadKept ==
    ASSUME ReadOK, read' = read,
           \A t \in Txns : told[t].what = "committed" =>
               told'[t] = told[t] /\ \A n \in Nat : Record(t, "OP", n) \in doubtful' <=> Record(t, "OP", n) \in doubtful
    PROVE  ReadOK'
  <1>1. read'.entries = read.entries /\ read'.sure = read.sure /\ \A record : Entered(record)' <=> Entered(record)
    BY DEF Entered
  <1> QED
    BY <1>1 DEF ReadOK

LEMMA NothingRead ==
    ASSUME read' = NotRead
    PROVE  ReadOK' /\ \A record : ~Entered(record)'
  <1>1. DOMAIN read'.entries = {} /\ read'.sure = {}
    BY DEF NotRead
  <1> QED
    BY <1>1 DEF ReadOK, Entered

\* begin
LEMMA BeginLogged ==
    ASSUME LogInv, NEW t \in Txns, Begin(t)
    PROVE  LogInv'
  <1>1. PICK object : object = Object("ACTIVE")
    OBVIOUS
  <1>2. /\ held[t].state = "none" /\ held' = [held EXCEPT ![t] = object]
        /\ UNCHANGED <<wal, mine, appending, doubtful, cleaned, read, calls, tried, told>>
    BY <1>1 DEF Begin, logVars
  <1>3. object.state = "ACTIVE" /\ object.operations = <<>> /\ object \in [state : {"none", "ACTIVE", "COMMITTED", "ABORTED", "lost"}, operations : Seq(Nat)]
    BY <1>1 DEF Object
  <1>4. held'[t] = object /\ \A u \in Txns \ {t} : held'[u] = held[u]
    BY <1>2 DEF LogInv, LogTypes
  <1>5. LogTypes'
    BY <1>2, <1>3 DEF LogInv, LogTypes
  <1>6. \A record : (Adding(record)' <=> Adding(record)) /\ (Entered(record)' <=> Entered(record))
    BY <1>2 DEF Adding, Entered
  <1>7. AppendOK'
    BY <1>2, <1>3, <1>4, RecordFields DEF LogInv, LogTypes, AppendOK
  <1>8. NumbersOK'
    BY <1>2, <1>3, <1>4 DEF LogInv, NumbersOK, Increasing
  <1>9. ASSUME NEW u \in Txns PROVE LoggedOK(u)' /\ CommitOK(u)'
    <2>0. LoggedOK(u) /\ CommitOK(u)
      BY DEF LogInv
    <2>1. CASE u # t
      BY <1>2, <1>4, <1>6, <2>0, <2>1 DEF LoggedOK, CommitOK
    <2>2. CASE u = t
      <3>1. Range(object.operations) = {}
        BY <1>3 DEF Range
      <3>2. LoggedOK(u)'
        BY <1>2, <1>3, <1>4, <1>6, <2>0, <2>2, <3>1 DEF LoggedOK
      <3>3. CommitOK(u)'
        BY <1>2, <1>3, <1>4, <1>6, <2>0, <2>2 DEF CommitOK
      <3> QED
        BY <3>2, <3>3
    <2> QED
      BY <2>1, <2>2
  <1>10. ReadOK'
    BY <1>2, ReadKept DEF LogInv
  <1> QED
    BY <1>5, <1>7, <1>8, <1>9, <1>10 DEF LogInv

\* add_operation, commit and abort, up to the append.
LEMMA AppendsLogged ==
    ASSUME LogInv, NEW record \in Records, Appends(record), record.type = "OP" => record.op = calls + 1,
           tried' = IF record.type = "COMMIT" THEN tried \cup {record.txn} ELSE tried
    PROVE  LogInv'
  <1>1. PICK next : next = [record |-> record, written |-> FALSE]
    OBVIOUS
  <1>2. /\ calls' = calls + 1 /\ appending = Nothing /\ held[record.txn].state = "ACTIVE" /\ appending' = next
        /\ UNCHANGED <<wal, mine, doubtful, cleaned, held, read, told>>
    BY <1>1 DEF Appends
  <1>3. next.record = record /\ next.written = FALSE /\ next = [record |-> next.record, written |-> next.written]
    BY <1>1
  <1>c. calls \in Nat
    BY DEF LogInv, LogTypes
  <1>f. record.txn \in Txns /\ record.op \in Nat /\ calls \in Nat /\ calls + 1 \in Nat
    BY <1>c, RecordFields
  <1>4. LogTypes'
    BY <1>2, <1>3, <1>f DEF LogInv, LogTypes
  <1>5. AppendOK'
    BY <1>2, <1>3 DEF AppendOK
  <1>6. NumbersOK'
    <2>1. \A other \in Records : other.op \in Nat
      BY RecordFields
    <2>2. \A other \in Records : other.type = "OP" /\ (In(wal, other) \/ other \in doubtful) => other.op <= calls + 1 /\ other.op < calls + 1
      BY <1>f, <2>1 DEF LogInv, NumbersOK
    <2>3. \A u \in Txns : \A i \in DOMAIN held[u].operations : held[u].operations[i] \in Nat
      BY ObjectTypes DEF LogInv
    <2>4. \A u \in Txns : \A i \in DOMAIN held[u].operations : held[u].operations[i] <= calls + 1 /\ held[u].operations[i] < calls + 1
      BY <1>f, <2>3 DEF LogInv, NumbersOK
    <2>5. record.type = "OP" => record \notin doubtful
      BY <1>f, <2>2
    <2> QED
      BY <1>2, <1>3, <2>2, <2>4, <2>5 DEF LogInv, NumbersOK
  <1>7. \A other : (Entered(other)' <=> Entered(other)) /\ ~Adding(other)
    BY <1>2 DEF Entered, Adding
  <1>8. ASSUME NEW u \in Txns PROVE LoggedOK(u)' /\ CommitOK(u)'
    <2>0. LoggedOK(u) /\ CommitOK(u)
      BY DEF LogInv
    <2>1. ASSUME NEW n \in Nat, held[u].state = "ACTIVE", u \notin cleaned
          PROVE  n \in Range(held[u].operations) <=>
                   In(wal, Record(u, "OP", n)) /\ Record(u, "OP", n) \notin doubtful /\ ~Adding(Record(u, "OP", n))'
      <3>1. n \in Range(held[u].operations) <=> In(wal, Record(u, "OP", n)) /\ Record(u, "OP", n) \notin doubtful
        BY <1>7, <2>0, <2>1 DEF LoggedOK
      <3>2. In(wal, Record(u, "OP", n)) => n <= calls
        BY RecordMade DEF LogInv, NumbersOK
      <3>3. Adding(Record(u, "OP", n))' => record = Record(u, "OP", n)
        BY <1>2, <1>3 DEF Adding
      <3>4. record = Record(u, "OP", n) => n = calls + 1
        BY RecordMade
      <3> QED
        BY <1>f, <3>1, <3>2, <3>3, <3>4
    <2>2. LoggedOK(u)'
      BY <1>2, <2>0, <2>1 DEF LoggedOK
    <2>3. CommitOK(u)'
      BY <1>2, <1>7, <2>0 DEF CommitOK
    <2> QED
      BY <2>2, <2>3
  <1>9. ReadOK'
    BY <1>2, ReadKept DEF LogInv
  <1> QED
    BY <1>4, <1>5, <1>6, <1>8, <1>9 DEF LogInv

\* The log grows by a record of the transaction that appends, or by a torn one; a record that
\* was not in it before is the one that is being appended.
LEMMA GrowsLogged ==
    ASSUME LogInv, appending # Nothing, ~appending.written, NEW record \in {appending.record, Torn}, wal' = With(record)
    PROVE  /\ wal' \in Seq(Seq(LogRecords)) /\ wal' # <<>> /\ Ascending(wal')
           /\ \A other : In(wal', other) <=> In(wal, other) \/ other = record
           /\ appending.record.type = "OP" => ~In(wal, appending.record)
  <1>1. record \in LogRecords /\ appending.record \in Records
    BY TornType DEF LogInv, LogTypes, LogRecords
  <1>2. wal \in Seq(Seq(LogRecords)) /\ mine \in BOOLEAN /\ (mine => wal # <<>>)
    BY DEF LogInv, LogTypes
  <1>3. PICK more : more = With(record)
    OBVIOUS
  <1>4. /\ more \in Seq(Seq(LogRecords)) /\ more # <<>>
        /\ \A other : In(more, other) <=> In(wal, other) \/ other = record
        /\ Ascending(wal) /\ (record.type = "OP" => \A other \in LogRecords : In(wal, other) /\ other.type = "OP" => other.op < record.op)
           => Ascending(more)
    BY <1>1, <1>2, <1>3, WithRecord
  <1>5. ASSUME record.type = "OP", NEW other \in LogRecords, In(wal, other), other.type = "OP"
        PROVE  other.op < record.op
    <2>1. record = appending.record /\ other \in Records
      BY <1>5, TornType DEF LogRecords
    <2> QED
      BY <1>5, <2>1 DEF LogInv, NumbersOK
  <1>6. Ascending(wal)
    BY DEF LogInv, NumbersOK
  <1>7. Ascending(more)
    BY <1>4, <1>5, <1>6
  <1>8. appending.record.type = "OP" => ~In(wal, appending.record)
    <2>1. appending.record.op \in Nat
      BY <1>1, RecordFields
    <2> QED
      BY <1>1, <2>1 DEF LogInv, NumbersOK
  <1> QED
    BY <1>3, <1>4, <1>7, <1>8

\* _append_file writes the record.
LEMMA WritesLogged ==
    ASSUME LogInv, Writes
    PROVE  LogInv'
  <1>1. PICK record : record = appending.record
    OBVIOUS
  <1>2. PICK next : next = [appending EXCEPT !.written = TRUE]
    OBVIOUS
  <1>3. /\ appending # Nothing /\ ~appending.written /\ wal' = With(record) /\ mine' = TRUE /\ appending' = next
        /\ UNCHANGED <<doubtful, cleaned, held, calls, tried, told, read>>
    BY <1>1, <1>2 DEF Writes, objects
  <1>4. record \in Records /\ next = [record |-> record, written |-> TRUE] /\ next.record = record /\ next.written = TRUE
    BY <1>1, <1>2, <1>3 DEF LogInv, LogTypes
  <1>5. /\ wal' \in Seq(Seq(LogRecords)) /\ wal' # <<>> /\ Ascending(wal')
        /\ \A other : In(wal', other) <=> In(wal, other) \/ other = record
    BY <1>1, <1>3, GrowsLogged
  <1>6. LogTypes'
    BY <1>3, <1>4, <1>5 DEF LogInv, LogTypes
  <1>7. AppendOK'
    BY <1>1, <1>3, <1>4, <1>5 DEF LogInv, AppendOK
  <1>8. NumbersOK'
    <2>1. record.type = "OP" => record.op = calls /\ record \notin doubtful /\ calls \in Nat
      BY <1>1, <1>3 DEF LogInv, NumbersOK, LogTypes
    <2>2. \A other \in Records : other.type = "OP" /\ (In(wal', other) \/ other \in doubtful) => other.op <= calls
      BY <1>5, <2>1 DEF LogInv, NumbersOK
    <2> QED
      BY <1>1, <1>3, <1>4, <1>5, <2>1, <2>2 DEF LogInv, NumbersOK
  <1>9. \A other : (Adding(other)' <=> Adding(other)) /\ (Entered(other)' <=> Entered(other)) /\ (Adding(other) <=> other = record) /\ (Adding(other)' <=> other = record)
    <2>1. appending' # Nothing
      BY <1>3, <1>4 DEF Nothing
    <2> QED
      BY <1>1, <1>3, <1>4, <2>1 DEF Adding, Entered
  <1>10. ASSUME NEW u \in Txns PROVE LoggedOK(u)' /\ CommitOK(u)'
    <2>0. LoggedOK(u) /\ CommitOK(u)
      BY DEF LogInv
    <2>1. held[record.txn].state = "ACTIVE" /\ record.txn \in Txns
      BY <1>1, <1>3, <1>4, RecordFields DEF LogInv, AppendOK
    <2>2. \A n \in Nat : Record(u, "OP", n).txn = u
      BY RecordMade
    <2>3. held[u].state # "ACTIVE" => \A n \in Nat : In(wal', Record(u, "OP", n)) <=> In(wal, Record(u, "OP", n))
      BY <1>5, <2>1, <2>2
    <2>4. told[u].what = "committed" => held[u].state # "ACTIVE"
      BY <2>0 DEF LoggedOK
    <2>5. LoggedOK(u)'
      <3>1. \A n \in Nat : n \in Range(held[u].operations) /\ held[u].state = "ACTIVE" /\ u \notin cleaned => Record(u, "OP", n) # record
        BY <1>9, <2>0 DEF LoggedOK
      <3>2. held[u].state = "ACTIVE" /\ u \notin cleaned =>
              \A n \in Nat : n \in Range(held[u].operations) <=>
                  In(wal', Record(u, "OP", n)) /\ Record(u, "OP", n) \notin doubtful /\ ~Adding(Record(u, "OP", n))'
        BY <1>5, <1>9, <2>0, <3>1 DEF LoggedOK
      <3>3. told[u].what = "committed" /\ u \notin cleaned =>
              /\ In(wal', Record(u, "COMMIT", 0))
              /\ \A n \in Nat : n \in Range(told[u].operations) <=> In(wal', Record(u, "OP", n)) /\ Record(u, "OP", n) \notin doubtful
        BY <1>5, <2>0, <2>3, <2>4 DEF LoggedOK
      <3>4. held[u].state = "none" => \A n \in Nat : ~In(wal', Record(u, "OP", n))
        BY <2>0, <2>3 DEF LoggedOK
      <3>5. held[u].state \in {"none", "ACTIVE"} => told[u].what = ""
        BY <2>0 DEF LoggedOK
      <3> QED
        BY <1>3, <3>2, <3>3, <3>4, <3>5 DEF LoggedOK
    <2>6. CommitOK(u)'
      <3>1. Record(u, "COMMIT", 0).txn = u /\ Record(u, "COMMIT", 0).type = "COMMIT"
        BY RecordMade
      <3>2. record = Record(u, "COMMIT", 0) => u \in tried
        BY <1>1, <1>3, <3>1 DEF LogInv, AppendOK
      <3> QED
        BY <1>3, <1>4, <1>5, <1>9, <2>0, <3>2 DEF CommitOK
    <2> QED
      BY <2>5, <2>6
  <1>11. ReadOK'
    BY <1>3, ReadKept DEF LogInv
  <1> QED
    BY <1>6, <1>7, <1>8, <1>10, <1>11 DEF LogInv

LEMMA Marked ==
    ASSUME LogTypes, NEW t \in Txns, NEW state, NEW what, Marks(t, state, what)
    PROVE  /\ held' = [held EXCEPT ![t] = held'[t]] /\ told' = [told EXCEPT ![t] = told'[t]]
           /\ held'[t] = [state |-> state, operations |-> held[t].operations]
           /\ told'[t] = told[t] \/ told'[t] = [what |-> what, operations |-> held[t].operations]
  <1>1. held = [u \in Txns |-> held[u]] /\ held[t] = [state |-> held[t].state, operations |-> held[t].operations]
    BY DEF LogTypes
  <1>2. told = [u \in Txns |-> told[u]]
    BY DEF LogTypes
  <1>3. PICK h : h = [held[t] EXCEPT !.state = state]
    OBVIOUS
  <1>4. PICK w : w = [what |-> what, operations |-> held[t].operations]
    OBVIOUS
  <1>5. held' = [held EXCEPT ![t] = h] /\ (told' = told \/ told' = [told EXCEPT ![t] = w])
    BY <1>3, <1>4 DEF Marks
  <1>6. h = [state |-> state, operations |-> held[t].operations]
    BY <1>1, <1>3
  <1>7. held' = [held EXCEPT ![t] = held'[t]] /\ held'[t] = h
    BY <1>1, <1>5
  <1>8. told' = [told EXCEPT ![t] = told'[t]] /\ (told'[t] = told[t] \/ told'[t] = w)
    BY <1>2, <1>5
  <1> QED
    BY <1>4, <1>6, <1>7, <1>8

\* The append has returned: the operation is added, or the transaction marked.
LEMMA ReturnsLogged ==
    ASSUME LogInv, Returns
    PROVE  LogInv'
  <1>n. Nothing.written = FALSE
    BY DEF Nothing
  <1>1. PICK record : record = appending.record
    OBVIOUS
  <1>2. PICK t : t = record.txn
    OBVIOUS
  <1>3. /\ appending # Nothing /\ appending.written /\ appending' = Nothing
        /\ UNCHANGED <<wal, mine, doubtful, cleaned, calls, tried, read>>
    BY <1>n DEF Returns
  <1>4. record \in Records /\ t \in Txns /\ held[t].state = "ACTIVE" /\ record.type \in {"OP", "COMMIT", "ABORT"} /\ record = Record(t, record.type, record.op)
        /\ record.op \in Nat /\ (record.type # "OP" => record.op = 0) /\ (t \in cleaned \/ In(wal, record)) /\ (record.type = "COMMIT" => t \in tried)
    BY <1>1, <1>2, <1>3, RecordFields DEF LogInv, LogTypes, AppendOK
  <1>5. LoggedOK(t) /\ CommitOK(t) /\ told[t].what = "" /\ LogTypes
    BY <1>4 DEF LogInv, LoggedOK
  <1>6. PICK h : h = held'[t]
    OBVIOUS
  <1>7. PICK w : w = told'[t]
    OBVIOUS
  <1>8. /\ held' = [held EXCEPT ![t] = h] /\ told' = [told EXCEPT ![t] = w]
        /\ \/ /\ record.type = "OP" /\ h.state = "ACTIVE" /\ h.operations = Append(held[t].operations, record.op) /\ w = told[t]
           \/ /\ record.type = "COMMIT" /\ h.state = "COMMITTED" /\ h.operations = held[t].operations
              /\ w = told[t] \/ (w.what = "committed" /\ w.operations = held[t].operations)
           \/ /\ record.type = "ABORT" /\ h.state = "ABORTED" /\ h.operations = held[t].operations
              /\ w = told[t] \/ (w.what = "aborted" /\ w.operations = held[t].operations)
        /\ h = [state |-> h.state, operations |-> h.operations]
        /\ w = told[t] \/ w = [what |-> w.what, operations |-> held[t].operations]
    <2>1. CASE record.type = "OP"
      <3>1. held' = [held EXCEPT ![t].operations = Append(@, record.op)] /\ told' = told
        BY <1>1, <1>2, <2>1 DEF Returns
      <3> QED
        BY <1>4, <1>5, <1>6, <1>7, <2>1, <3>1 DEF LogTypes
    <2>2. CASE record.type = "COMMIT"
      <3>1. Marks(t, "COMMITTED", "committed")
        BY <1>1, <1>2, <2>2 DEF Returns
      <3>2. /\ held' = [held EXCEPT ![t] = h] /\ told' = [told EXCEPT ![t] = w]
            /\ h = [state |-> "COMMITTED", operations |-> held[t].operations]
            /\ w = told[t] \/ w = [what |-> "committed", operations |-> held[t].operations]
        BY <1>4, <1>5, <1>6, <1>7, <3>1, Marked
      <3>3. h.state = "COMMITTED" /\ h.operations = held[t].operations /\ h = [state |-> h.state, operations |-> h.operations]
        BY <3>2
      <3>4. w = told[t] \/ (w.what = "committed" /\ w.operations = held[t].operations /\ w = [what |-> w.what, operations |-> held[t].operations])
        BY <3>2
      <3> QED
        BY <2>2, <3>2, <3>3, <3>4
    <2>3. CASE record.type = "ABORT"
      <3>1. Marks(t, "ABORTED", "aborted")
        BY <1>1, <1>2, <2>3 DEF Returns
      <3>2. /\ held' = [held EXCEPT ![t] = h] /\ told' = [told EXCEPT ![t] = w]
            /\ h = [state |-> "ABORTED", operations |-> held[t].operations]
            /\ w = told[t] \/ w = [what |-> "aborted", operations |-> held[t].operations]
        BY <1>4, <1>5, <1>6, <1>7, <3>1, Marked
      <3>3. h.state = "ABORTED" /\ h.operations = held[t].operations /\ h = [state |-> h.state, operations |-> h.operations]
        BY <3>2
      <3>4. w = told[t] \/ (w.what = "aborted" /\ w.operations = held[t].operations /\ w = [what |-> w.what, operations |-> held[t].operations])
        BY <3>2
      <3> QED
        BY <2>3, <3>2, <3>3, <3>4
    <2> QED
      BY <1>4, <2>1, <2>2, <2>3
  <1>9. /\ held'[t] = h /\ told'[t] = w /\ \A u \in Txns \ {t} : held'[u] = held[u] /\ told'[u] = told[u]
    BY <1>4, <1>5, <1>6, <1>7, <1>8 DEF LogTypes
  <1>10. /\ record.type = "OP" => /\ h.operations \in Seq(Nat) /\ Increasing(h.operations)
                                  /\ \A k : k \in Range(h.operations) <=> k \in Range(held[t].operations) \/ k = record.op
                                  /\ record.op = calls /\ record \notin doubtful
         /\ record.type # "OP" => h.operations = held[t].operations
    <2>1. held[t].operations \in Seq(Nat) /\ Increasing(held[t].operations)
      BY <1>4, ObjectTypes DEF LogInv, NumbersOK
    <2>2. record.type = "OP" => record.op = calls /\ record \notin doubtful /\ \A i \in DOMAIN held[t].operations : held[t].operations[i] < record.op
      BY <1>1, <1>3, <1>4 DEF LogInv, NumbersOK
    <2> QED
      BY <1>4, <1>8, <2>1, <2>2, NumberAppended
  <1>11. LogTypes'
    <2>1. h \in [state : {"none", "ACTIVE", "COMMITTED", "ABORTED", "lost"}, operations : Seq(Nat)]
      <3>1. h.operations \in Seq(Nat)
        BY <1>4, <1>5, <1>10, ObjectTypes
      <3> QED
        BY <1>8, <3>1
    <2>2. w \in [what : {"", "aborted", "committed"}, operations : Seq(Nat)]
      <3>1. held[t].operations \in Seq(Nat) /\ told[t] \in [what : {"", "aborted", "committed"}, operations : Seq(Nat)]
        BY <1>4, <1>5, ObjectTypes DEF LogTypes
      <3> QED
        BY <1>8, <3>1
    <2> QED
      BY <1>3, <1>5, <1>8, <2>1, <2>2 DEF LogTypes
  <1>12. AppendOK'
    BY <1>3 DEF AppendOK
  <1>13. NumbersOK'
    <2>1. \A u \in Txns : Increasing(held'[u].operations) /\ \A i \in DOMAIN held'[u].operations : held'[u].operations[i] <= calls
      <3>1. \A u \in Txns \ {t} : Increasing(held'[u].operations) /\ \A i \in DOMAIN held'[u].operations : held'[u].operations[i] <= calls
        BY <1>9 DEF LogInv, NumbersOK
      <3>2. CASE record.type # "OP"
        BY <1>9, <1>10, <3>1, <3>2 DEF LogInv, NumbersOK
      <3>3. CASE record.type = "OP"
        <4>1. Increasing(h.operations)
          BY <1>10, <3>3
        <4>2. \A k : k \in Range(h.operations) => k <= calls
          <5>1. \A k \in Range(held[t].operations) : k <= calls
            BY <1>4 DEF LogInv, NumbersOK, Range
          <5>3. calls \in Nat
            BY <1>5 DEF LogTypes
          <5>2. calls <= calls /\ record.op = calls
            BY <1>10, <3>3, <5>3
          <5> QED
            BY <1>10, <3>3, <5>1, <5>2, Zenon
        <4>3. \A i \in DOMAIN h.operations : h.operations[i] <= calls
          BY <4>2 DEF Range
        <4> QED
          BY <1>9, <3>1, <4>1, <4>3
      <3> QED
        BY <3>2, <3>3
    <2>2. \A u \in Txns : Increasing(told'[u].operations)
      BY <1>4, <1>8, <1>9 DEF LogInv, NumbersOK
    <2> QED
      BY <1>3, <2>1, <2>2 DEF LogInv, NumbersOK
  <1>14. \A other : ~Adding(other)' /\ (Adding(other) <=> other = record) /\ (Entered(other)' <=> Entered(other))
    BY <1>1, <1>3 DEF Adding, Entered
  <1>15. \A u \in Txns, n \in Nat : Record(u, "OP", n) = record => u = t /\ n = record.op /\ record.type = "OP"
    BY <1>2, RecordMade
  <1>16. ASSUME NEW u \in Txns PROVE LoggedOK(u)' /\ CommitOK(u)'
    <2>0. LoggedOK(u) /\ CommitOK(u)
      BY DEF LogInv
    <2>1. CASE u # t
      <3>1. \A n \in Nat : ~Adding(Record(u, "OP", n))
        BY <1>14, <1>15, <2>1
      <3>2. ~Adding(Record(u, "COMMIT", 0))
        BY <1>2, <1>14, <2>1, RecordMade
      <3> QED
        BY <1>3, <1>9, <1>14, <2>0, <2>1, <3>1, <3>2 DEF LoggedOK, CommitOK
    <2>2. CASE u = t
      <3>0. t \notin cleaned =>
              \A n \in Nat : n \in Range(held[t].operations) <=>
                  In(wal, Record(t, "OP", n)) /\ Record(t, "OP", n) \notin doubtful /\ ~(Record(t, "OP", n) = record)
        BY <1>4, <1>5, <1>14 DEF LoggedOK
      <3>1. CASE record.type = "OP"
        <4>1. h.state = "ACTIVE" /\ w = told[t]
          BY <1>8, <3>1
        <4>2. t \notin cleaned =>
                \A n \in Nat : n \in Range(h.operations) <=> In(wal, Record(t, "OP", n)) /\ Record(t, "OP", n) \notin doubtful
          BY <1>4, <1>10, <1>15, <3>0, <3>1
        <4>3. LoggedOK(t)'
          BY <1>3, <1>5, <1>9, <1>14, <4>1, <4>2 DEF LoggedOK
        <4>4. Record(t, "COMMIT", 0) # record
          BY <1>4, <3>1, RecordMade
        <4>5. CommitOK(t)'
          BY <1>3, <1>4, <1>5, <1>9, <1>14, <4>1, <4>4 DEF CommitOK
        <4> QED
          BY <2>2, <4>3, <4>5
      <3>2. CASE record.type = "COMMIT"
        <4>1. h.state = "COMMITTED" /\ (w.what = "" \/ (w.what = "committed" /\ w.operations = held[t].operations))
          BY <1>5, <1>8, <3>2
        <4>2. record = Record(t, "COMMIT", 0) /\ \A n \in Nat : Record(t, "OP", n) # record
          BY <1>4, <3>2, <1>15
        <4>3. LoggedOK(t)'
          BY <1>3, <1>4, <1>9, <1>14, <3>0, <4>1, <4>2 DEF LoggedOK
        <4>4. CommitOK(t)'
          BY <1>3, <1>4, <1>9, <3>2, <4>1 DEF CommitOK
        <4> QED
          BY <2>2, <4>3, <4>4
      <3>3. CASE record.type = "ABORT"
        <4>1. h.state = "ABORTED" /\ w.what \in {"", "aborted"}
          BY <1>5, <1>8, <3>3
        <4>2. LoggedOK(t)'
          BY <1>3, <1>9, <4>1 DEF LoggedOK
        <4>3. Record(t, "COMMIT", 0) # record
          BY <1>4, <3>3, RecordMade
        <4>4. CommitOK(t)'
          BY <1>3, <1>4, <1>5, <1>9, <1>14, <4>3 DEF CommitOK
        <4> QED
          BY <2>2, <4>2, <4>4
      <3> QED
        BY <1>4, <3>1, <3>2, <3>3
    <2> QED
      BY <2>1, <2>2
  <1>17. ReadOK'
    <2>1. \A u \in Txns : told[u].what = "committed" => told'[u] = told[u]
      BY <1>5, <1>9
    <2> QED
      BY <1>3, <2>1, ReadKept DEF LogInv
  <1> QED
    BY <1>11, <1>12, <1>13, <1>16, <1>17 DEF LogInv

\* What is left of an append that raised, or was cut off.
LEMMA CutLogged ==
    ASSUME LogInv, appending # Nothing, ~appending.written, wal' \in {wal, With(Torn)}
    PROVE  /\ wal' \in Seq(Seq(LogRecords)) /\ (wal # <<>> \/ wal' # wal => wal' # <<>>) /\ Ascending(wal')
           /\ \A other \in Records : In(wal', other) <=> In(wal, other)
  <1>1. CASE wal' = wal
    BY <1>1 DEF LogInv, LogTypes, NumbersOK
  <1>2. CASE wal' = With(Torn)
    <2>1. /\ wal' \in Seq(Seq(LogRecords)) /\ wal' # <<>> /\ Ascending(wal')
          /\ \A other : In(wal', other) <=> In(wal, other) \/ other = Torn
      BY <1>2, GrowsLogged
    <2> QED
      BY <2>1, RecordFields
  <1> QED
    BY <1>1, <1>2

\* The append raises: its record is not in the log, or it is, and doubtful.
LEMMA RaisesLogged ==
    ASSUME LogInv, AppendRaises
    PROVE  LogInv'
  <1>1. PICK record : record = appending.record
    OBVIOUS
  <1>2. /\ appending # Nothing /\ appending' = Nothing
        /\ \/ appending.written /\ doubtful' = doubtful \cup {record} /\ UNCHANGED <<wal, mine>>
           \/ ~appending.written /\ CutOff /\ doubtful' = doubtful
        /\ UNCHANGED <<cleaned, held, calls, tried, told, read>>
    BY <1>1 DEF AppendRaises, objects
  <1>3. /\ wal' \in Seq(Seq(LogRecords)) /\ mine' \in BOOLEAN /\ (mine' => wal' # <<>>) /\ Ascending(wal')
        /\ \A other \in Records : In(wal', other) <=> In(wal, other)
    <2>1. CASE appending.written
      <3>1. wal' = wal /\ mine' = mine
        BY <1>2, <2>1
      <3>2. wal \in Seq(Seq(LogRecords)) /\ mine \in BOOLEAN /\ (mine => wal # <<>>) /\ Ascending(wal)
        BY DEF LogInv, LogTypes, NumbersOK
      <3> QED
        BY <3>1, <3>2
    <2>2. CASE ~appending.written
      <3>1. wal' \in {wal, With(Torn)} /\ mine' = (mine \/ wal' # wal)
        BY <1>2, <2>2 DEF CutOff
      <3>2. mine \in BOOLEAN /\ (mine => wal # <<>>)
        BY DEF LogInv, LogTypes
      <3> QED
        BY <1>2, <2>2, <3>1, <3>2, CutLogged
    <2> QED
      BY <2>1, <2>2
  <1>4. record \in Records /\ record.txn \in Txns /\ held[record.txn].state = "ACTIVE"
    BY <1>1, <1>2, RecordFields DEF LogInv, LogTypes, AppendOK
  <1>5. LogTypes' /\ AppendOK'
    BY <1>2, <1>3 DEF LogInv, LogTypes, AppendOK
  <1>6. NumbersOK'
    <2>1. record.type = "OP" => record.op = calls /\ calls \in Nat
      BY <1>1, <1>2 DEF LogInv, NumbersOK, LogTypes
    <2>2. \A other \in Records : other.type = "OP" /\ (In(wal', other) \/ other \in doubtful') => other.op <= calls
      BY <1>2, <1>3, <2>1 DEF LogInv, NumbersOK
    <2> QED
      BY <1>2, <1>3, <2>2 DEF LogInv, NumbersOK
  <1>7. \A other : ~Adding(other)' /\ (Adding(other) <=> other = record) /\ (Entered(other)' <=> Entered(other))
    BY <1>1, <1>2 DEF Adding, Entered
  <1>8. /\ record.type = "OP" /\ ~appending.written => ~In(wal, record)
        /\ \A other \in Records : other \in doubtful' <=> other \in doubtful \/ (appending.written /\ other = record)
    <2>1. record.type = "OP" => record.op = calls /\ calls \in Nat
      BY <1>1, <1>2 DEF LogInv, NumbersOK, LogTypes
    <2>2. record.type = "OP" /\ ~appending.written => ~In(wal, record)
      BY <1>1, <1>2, <1>4, <2>1 DEF LogInv, NumbersOK
    <2> QED
      BY <1>2, <2>2
  <1>9. ASSUME NEW u \in Txns PROVE LoggedOK(u)' /\ CommitOK(u)'
    <2>0. LoggedOK(u) /\ CommitOK(u)
      BY DEF LogInv
    <2>1. \A n \in Nat : Record(u, "OP", n) \in Records /\ Record(u, "OP", n).type = "OP" /\ Record(u, "OP", n).txn = u
      BY RecordMade
    <2>2. Record(u, "COMMIT", 0) \in Records /\ Record(u, "COMMIT", 0).txn = u
      BY RecordMade
    <2>3. told[u].what = "committed" => \A n \in Nat : Record(u, "OP", n) # record
      BY <1>4, <2>0, <2>1 DEF LoggedOK
    <2>4. \A n \in Nat : In(wal, Record(u, "OP", n)) /\ Record(u, "OP", n) \notin doubtful /\ ~Adding(Record(u, "OP", n))
                         <=> In(wal', Record(u, "OP", n)) /\ Record(u, "OP", n) \notin doubtful' /\ ~Adding(Record(u, "OP", n))'
      BY <1>3, <1>7, <1>8, <2>1
    <2>5. told[u].what = "committed" => \A n \in Nat : In(wal, Record(u, "OP", n)) /\ Record(u, "OP", n) \notin doubtful
                         <=> In(wal', Record(u, "OP", n)) /\ Record(u, "OP", n) \notin doubtful'
      BY <1>3, <1>8, <2>1, <2>3
    <2>6. LoggedOK(u)'
      BY <1>2, <1>3, <2>0, <2>1, <2>2, <2>4, <2>5 DEF LoggedOK
    <2>7. CommitOK(u)'
      BY <1>2, <1>3, <1>7, <1>8, <2>0, <2>2 DEF CommitOK
    <2> QED
      BY <2>6, <2>7
  <1>10. ReadOK'
    <2>1. ASSUME NEW u \in Txns, told[u].what = "committed", NEW n \in Nat
          PROVE  Record(u, "OP", n) \in doubtful' <=> Record(u, "OP", n) \in doubtful
      <3>1. Record(u, "OP", n) \in Records /\ Record(u, "OP", n).txn = u
        BY RecordMade
      <3>2. held[u].state # "ACTIVE"
        BY <2>1 DEF LogInv, LoggedOK
      <3> QED
        BY <1>4, <1>8, <3>1, <3>2
    <2> QED
      BY <1>2, <2>1, ReadKept DEF LogInv
  <1> QED
    BY <1>5, <1>6, <1>9, <1>10 DEF LogInv

\* The process dies, possibly in an append.
LEMMA DiesLogged ==
    ASSUME LogInv, Dies
    PROVE  LogInv'
  <1>1. /\ wal' = wal \/ (appending # Nothing /\ ~appending.written /\ wal' \in {wal, With(Torn)})
        /\ mine' = FALSE /\ appending' = Nothing /\ read' = NotRead
        /\ held' = [t \in Txns |-> IF held[t].state = "none" THEN held[t] ELSE Object("lost")]
        /\ UNCHANGED <<doubtful, cleaned, calls, tried, told>>
    BY DEF Dies
  <1>2. /\ wal' \in Seq(Seq(LogRecords)) /\ Ascending(wal')
        /\ \A other \in Records : In(wal', other) <=> In(wal, other)
    <2>1. CASE wal' = wal
      BY <2>1 DEF LogInv, LogTypes, NumbersOK
    <2>2. CASE wal' # wal
      BY <1>1, <2>2, CutLogged
    <2> QED
      BY <2>1, <2>2
  <1>3. PICK lost : lost = Object("lost")
    OBVIOUS
  <1>4. lost \in [state : {"none", "ACTIVE", "COMMITTED", "ABORTED", "lost"}, operations : Seq(Nat)] /\ lost.state = "lost" /\ lost.operations = <<>>
    BY <1>3 DEF Object
  <1>5. \A t \in Txns : held'[t] = IF held[t].state = "none" THEN held[t] ELSE lost
    BY <1>1, <1>3
  <1>6. LogTypes' /\ AppendOK'
    <2>1. held' \in [Txns -> [state : {"none", "ACTIVE", "COMMITTED", "ABORTED", "lost"}, operations : Seq(Nat)]]
      BY <1>1, <1>3, <1>4 DEF LogInv, LogTypes
    <2> QED
      BY <1>1, <1>2, <2>1 DEF LogInv, LogTypes, AppendOK
  <1>7. NumbersOK'
    <2>1. \A t \in Txns : Increasing(held'[t].operations) /\ \A i \in DOMAIN held'[t].operations : held'[t].operations[i] <= calls
      BY <1>4, <1>5 DEF LogInv, NumbersOK, Increasing
    <2> QED
      BY <1>1, <1>2, <2>1 DEF LogInv, NumbersOK
  <1>8. ReadOK' /\ \A other : ~Entered(other)'
    BY <1>1, NothingRead
  <1>9. ASSUME NEW u \in Txns PROVE LoggedOK(u)' /\ CommitOK(u)'
    <2>0. LoggedOK(u) /\ CommitOK(u)
      BY DEF LogInv
    <2>1. \A n \in Nat : Record(u, "OP", n) \in Records
      BY RecordMade
    <2>2. Record(u, "COMMIT", 0) \in Records
      BY RecordMade
    <2>3. LoggedOK(u)'
      BY <1>1, <1>2, <1>4, <1>5, <2>0, <2>1, <2>2 DEF LoggedOK
    <2>4. In(wal, Record(u, "COMMIT", 0)) => held[u].state # "none" \/ Record(u, "COMMIT", 0) \in doubtful
      <3>1. Adding(Record(u, "COMMIT", 0)) => held[u].state = "ACTIVE"
        BY RecordMade DEF LogInv, AppendOK, Adding
      <3> QED
        BY <2>0, <3>1 DEF CommitOK
    <2>5. held[u].state \in {"none", "ACTIVE"} => told[u].what # "aborted"
      BY <2>0 DEF LoggedOK
    <2>6. ASSUME In(wal, Record(u, "COMMIT", 0)), Record(u, "COMMIT", 0) \notin doubtful
          PROVE  u \in tried /\ held'[u].state \notin {"none", "ACTIVE"} /\ told[u].what # "aborted"
      <3>1. held'[u].state \notin {"none", "ACTIVE"} /\ u \in tried
        BY <1>4, <1>5, <2>0, <2>4, <2>6 DEF CommitOK
      <3>2. Adding(Record(u, "COMMIT", 0)) => held[u].state = "ACTIVE"
        BY RecordMade DEF LogInv, AppendOK, Adding
      <3> QED
        BY <2>0, <2>5, <2>6, <3>1, <3>2 DEF CommitOK
    <2>7. CommitOK(u)'
      BY <1>1, <1>2, <1>8, <2>0, <2>2, <2>6 DEF CommitOK
    <2> QED
      BY <2>3, <2>7
  <1> QED
    BY <1>6, <1>7, <1>8, <1>9 DEF LogInv

\* cleanup: what is gone from the log is of transactions that are cleaned from then on.
LEMMA CleansLogged ==
    ASSUME LogInv, NEW old, NEW files \in 0 .. Len(wal), CleansUp(old, files)
    PROVE  LogInv'
  <1>1. PICK left : left = SubSeq(wal, files + 1, Len(wal))
    OBVIOUS
  <1>2. PICK gone : gone = UNION {Mentioned(wal[f]) : f \in 1 .. files}
    OBVIOUS
  <1>3. /\ wal' = left /\ mine' = (mine /\ files < Len(wal)) /\ cleaned' = cleaned \cup gone
        /\ UNCHANGED <<appending, doubtful, held, read, calls, tried, told>>
    BY <1>1, <1>2 DEF CleansUp
  <1>4. wal \in Seq(Seq(LogRecords)) /\ mine \in BOOLEAN /\ Ascending(wal)
    BY DEF LogInv, LogTypes, NumbersOK
  <1>5. /\ left \in Seq(Seq(LogRecords)) /\ Len(left) = Len(wal) - files /\ DOMAIN left = 1 .. (Len(wal) - files)
        /\ \A f \in DOMAIN left : left[f] = wal[f + files]
    BY <1>1, <1>4, FirstDropped
  <1>6. /\ files < Len(wal) => left # <<>>
        /\ \A record : In(left, record) => In(wal, record)
        /\ \A record \in Records : In(wal, record) => In(left, record) \/ record.txn \in gone
        /\ Ascending(left)
    BY <1>2, <1>4, <1>5, FilesLeft
  <1>7. LogTypes'
    BY <1>3, <1>4, <1>5, <1>6 DEF LogInv, LogTypes
  <1>8. AppendOK'
    BY <1>3, <1>6 DEF LogInv, LogTypes, AppendOK
  <1>9. NumbersOK'
    BY <1>3, <1>6 DEF LogInv, NumbersOK
  <1>10. \A other : (Adding(other)' <=> Adding(other)) /\ (Entered(other)' <=> Entered(other))
    BY <1>3 DEF Adding, Entered
  <1>11. ASSUME NEW u \in Txns PROVE LoggedOK(u)' /\ CommitOK(u)'
    <2>0. LoggedOK(u) /\ CommitOK(u)
      BY DEF LogInv
    <2>1. \A n \in Nat : Record(u, "OP", n) \in Records /\ Record(u, "OP", n).txn = u
      BY RecordMade
    <2>2. Record(u, "COMMIT", 0) \in Records /\ Record(u, "COMMIT", 0).txn = u
      BY RecordMade
    <2>3. u \notin gone => /\ \A n \in Nat : In(left, Record(u, "OP", n)) <=> In(wal, Record(u, "OP", n))
                           /\ In(left, Record(u, "COMMIT", 0)) <=> In(wal, Record(u, "COMMIT", 0))
      BY <1>6, <2>1, <2>2
    <2>4. u \notin cleaned' => u \notin cleaned /\ u \notin gone
      BY <1>3
    <2>5. LoggedOK(u)'
      BY <1>3, <1>6, <1>10, <2>0, <2>3, <2>4 DEF LoggedOK
    <2>6. CommitOK(u)'
      BY <1>3, <1>6, <1>10, <2>0 DEF CommitOK
    <2> QED
      BY <2>5, <2>6
  <1>12. ReadOK'
    BY <1>3, ReadKept DEF LogInv
  <1> QED
    BY <1>7, <1>8, <1>9, <1>11, <1>12 DEF LogInv

-----------------------------------------------------------------------------
\* What is read of a file is whole, and has everything in front of what is torn.
LEMMA ReadingsWhole ==
    ASSUME NEW part \in Seq(LogRecords), NEW places \in Readings(part)
    PROVE  /\ Whole(part, 1) \subseteq places /\ places \subseteq DOMAIN part
           /\ \A i \in places : part[i] \in Records /\ part[i] # Torn
  <1>1. PICK S : S = LogRecords
    OBVIOUS
  <1>2. Len(part) \in Nat /\ DOMAIN part = 1 .. Len(part) /\ \A i \in DOMAIN part : part[i] \in S
    BY <1>1
  <1>3. \A from \in DOMAIN part \cup {1} : \A i \in Whole(part, from) : i \in DOMAIN part /\ part[i] # Torn
    BY <1>2 DEF Whole
  <1>4. places = Whole(part, 1) \/ \E from \in DOMAIN part : places = Whole(part, 1) \cup Whole(part, from)
    BY DEF Readings
  <1>5. Whole(part, 1) \subseteq places /\ \A i \in places : i \in DOMAIN part /\ part[i] # Torn
    BY <1>3, <1>4
  <1> QED
    BY <1>1, <1>2, <1>5 DEF LogRecords

\* recover, up to the last file.
LEMMA ReadsLogged ==
    ASSUME LogInv, RecoveryReads
    PROVE  LogInv'
  <1>1. PICK chosen \in [DOMAIN wal -> UNION {Readings(wal[f]) : f \in DOMAIN wal}] :
           /\ \A f \in DOMAIN wal : chosen[f] \in Readings(wal[f])
           /\ read' = [entries |-> [place \in UNION {{f} \X chosen[f] : f \in DOMAIN wal} |-> wal[place[1]][place[2]]], now |-> TRUE,
                       sure |-> {t \in Txns : told[t].what = "committed" /\ Kept(t)}]
    BY DEF RecoveryReads
  <1>2. UNCHANGED <<wal, mine, appending, doubtful, cleaned, held, calls, tried, told>>
    BY DEF RecoveryReads, logVars, objects
  <1>3. Len(wal) \in Nat /\ DOMAIN wal = 1 .. Len(wal) /\ \A f \in DOMAIN wal : wal[f] \in Seq(LogRecords)
    <2>1. PICK S : S = Seq(LogRecords)
      OBVIOUS
    <2>2. wal \in Seq(S)
      BY <2>1 DEF LogInv, LogTypes
    <2>3. Len(wal) \in Nat /\ DOMAIN wal = 1 .. Len(wal) /\ \A f \in DOMAIN wal : wal[f] \in S
      BY <2>2
    <2> QED
      BY <2>1, <2>3
  <1>4. \A f \in DOMAIN wal : /\ Whole(wal[f], 1) \subseteq chosen[f] /\ chosen[f] \subseteq DOMAIN wal[f]
                              /\ \A i \in chosen[f] : wal[f][i] \in Records /\ wal[f][i] # Torn
    BY <1>1, <1>3, ReadingsWhole
  <1>5. \A f \in DOMAIN wal : f \in Nat /\ \A i \in DOMAIN wal[f] : i \in Nat
    <2>1. \A part \in Seq(LogRecords) : \A i \in DOMAIN part : i \in Nat
      OBVIOUS
    <2> QED
      BY <1>3, <2>1
  <1>6. PICK entries : entries = [place \in UNION {{f} \X chosen[f] : f \in DOMAIN wal} |-> wal[place[1]][place[2]]]
    OBVIOUS
  <1>7. read'.entries = entries /\ read'.sure = {t \in Txns : told[t].what = "committed" /\ Kept(t)}
    BY <1>1, <1>6
  <1>8. \A p \in DOMAIN entries : /\ p[1] \in DOMAIN wal /\ p[2] \in chosen[p[1]] /\ p = <<p[1], p[2]>>
                                  /\ entries[p] = wal[p[1]][p[2]]
    BY <1>6
  <1>9. \A f \in DOMAIN wal : \A i \in chosen[f] : <<f, i>> \in DOMAIN entries /\ entries[<<f, i>>] = wal[f][i]
    BY <1>6
  <1>10. \A record : Entered(record)' <=> \E p \in DOMAIN entries : entries[p] = record
    BY <1>7 DEF Entered
  <1>11. \A record : Entered(record)' => In(wal, record)
    BY <1>4, <1>8, <1>10 DEF In
  <1>12. ASSUME NEW record \in Records, Kept(record.txn), In(wal, record) PROVE Entered(record)'
    <2>1. PICK f \in DOMAIN wal : \E i \in DOMAIN wal[f] : wal[f][i] = record
      BY <1>12 DEF In
    <2>2. PICK i \in DOMAIN wal[f] : wal[f][i] = record
      BY <2>1
    <2>3. Len(wal[f]) \in Nat /\ DOMAIN wal[f] = 1 .. Len(wal[f]) /\ i \in Nat
      BY <1>3
    <2>4. record # Torn
      BY RecordFields
    <2>5. \A j \in 1 .. i : wal[f][j] # Torn
      <3>1. SUFFICES ASSUME NEW j \in 1 .. i, wal[f][j] = Torn PROVE FALSE
        OBVIOUS
      <3>2. j \in TornAt(wal[f]) /\ j < i
        BY <2>2, <2>3, <2>4, <3>1 DEF TornAt
      <3> QED
        BY <1>12, <2>2, <2>4, <3>2 DEF Kept
    <2>6. i \in Whole(wal[f], 1)
      BY <2>3, <2>5 DEF Whole
    <2> QED
      BY <1>4, <1>9, <1>10, <2>2, <2>6
  <1>13. ReadOK'
    <2>1. \A p \in DOMAIN entries : p[1] \in Nat /\ p[2] \in Nat /\ p = <<p[1], p[2]>> /\ entries[p] \in Records
      BY <1>4, <1>5, <1>8
    <2>2. ASSUME NEW p \in DOMAIN entries, NEW q \in DOMAIN entries, entries[p].type = "OP", entries[q].type = "OP", Before(p, q)
          PROVE  entries[p].op < entries[q].op
      <3>1. PICK f, i : f = p[1] /\ i = p[2]
        OBVIOUS
      <3>2. PICK g, j : g = q[1] /\ j = q[2]
        OBVIOUS
      <3>3. /\ f \in DOMAIN wal /\ i \in DOMAIN wal[f] /\ entries[p] = wal[f][i]
            /\ g \in DOMAIN wal /\ j \in DOMAIN wal[g] /\ entries[q] = wal[g][j]
        BY <1>4, <1>8, <3>1, <3>2
      <3>4. f < g \/ (f = g /\ i < j)
        BY <2>2, <3>1, <3>2 DEF Before
      <3>5. Ascending(wal)
        BY DEF LogInv, NumbersOK
      <3> QED
        BY <2>2, <3>3, <3>4, <3>5 DEF Ascending
    <2>3. ASSUME NEW t \in read'.sure
          PROVE  /\ t \in Txns /\ told[t].what = "committed" /\ Entered(Record(t, "COMMIT", 0))'
                 /\ \A n \in Nat : n \in Range(told[t].operations) <=> Entered(Record(t, "OP", n))' /\ Record(t, "OP", n) \notin doubtful
      <3>1. t \in Txns /\ told[t].what = "committed" /\ Kept(t) /\ t \notin cleaned
        BY <1>7, <2>3 DEF Kept
      <3>2. LoggedOK(t)
        BY <3>1 DEF LogInv
      <3>3. \A n \in Nat : Record(t, "OP", n) \in Records /\ Record(t, "OP", n).txn = t
        BY <3>1, RecordMade
      <3>4. Record(t, "COMMIT", 0) \in Records /\ Record(t, "COMMIT", 0).txn = t
        BY <3>1, RecordMade
      <3>5. \A n \in Nat : Entered(Record(t, "OP", n))' <=> In(wal, Record(t, "OP", n))
        BY <1>11, <1>12, <3>1, <3>3
      <3>6. Entered(Record(t, "COMMIT", 0))'
        BY <1>12, <3>1, <3>2, <3>4 DEF LoggedOK
      <3> QED
        BY <3>1, <3>2, <3>5, <3>6 DEF LoggedOK
    <2> QED
      BY <1>2, <1>7, <2>1, <2>2, <2>3 DEF ReadOK
  <1>14. LogTypes' /\ AppendOK' /\ NumbersOK'
    BY <1>2 DEF LogInv, LogTypes, AppendOK, NumbersOK
  <1>15. \A other : Adding(other)' <=> Adding(other)
    BY <1>2 DEF Adding
  <1>16. ASSUME NEW u \in Txns PROVE LoggedOK(u)' /\ CommitOK(u)'
    <2>0. LoggedOK(u) /\ CommitOK(u)
      BY DEF LogInv
    <2>1. LoggedOK(u)'
      BY <1>2, <1>15, <2>0 DEF LoggedOK
    <2>2. CommitOK(u)'
      BY <1>2, <1>11, <1>15, <2>0 DEF CommitOK
    <2> QED
      BY <2>1, <2>2
  <1> QED
    BY <1>13, <1>14, <1>16 DEF LogInv

LEMMA EndsLogged ==
    ASSUME LogInv, RecoveryEnds
    PROVE  LogInv'
  <1>1. read' = NotRead /\ UNCHANGED <<wal, mine, appending, doubtful, cleaned, held, calls, tried, told>>
    BY DEF RecoveryEnds, logVars
  <1>2. ReadOK' /\ \A other : ~Entered(other)' /\ (Adding(other)' <=> Adding(other))
    BY <1>1, NothingRead DEF Adding
  <1>3. LogTypes' /\ AppendOK' /\ NumbersOK'
    BY <1>1 DEF LogInv, LogTypes, AppendOK, NumbersOK
  <1>4. ASSUME NEW u \in Txns PROVE LoggedOK(u)' /\ CommitOK(u)'
    <2>0. LoggedOK(u) /\ CommitOK(u)
      BY DEF LogInv
    <2>1. LoggedOK(u)'
      BY <1>1, <1>2, <2>0 DEF LoggedOK
    <2>2. CommitOK(u)'
      BY <1>1, <1>2, <2>0 DEF CommitOK
    <2> QED
      BY <2>1, <2>2
  <1> QED
    BY <1>2, <1>3, <1>4 DEF LogInv

LEMMA LogStarts == TxnInit => LogInv
  <1>1. SUFFICES ASSUME TxnInit PROVE LogInv
    OBVIOUS
  <1>2. PICK object : object = Object("none")
    OBVIOUS
  <1>3. PICK untold : untold = [what |-> "", operations |-> <<>>]
    OBVIOUS
  <1>4. /\ wal = <<>> /\ mine = FALSE /\ appending = Nothing /\ read = NotRead /\ calls = 0 /\ doubtful = {}
        /\ held = [t \in Txns |-> object] /\ told = [t \in Txns |-> untold]
    BY <1>1, <1>2, <1>3 DEF TxnInit
  <1>5. /\ object.state = "none" /\ object.operations = <<>> /\ untold.what = "" /\ untold.operations = <<>>
        /\ object \in [state : {"none", "ACTIVE", "COMMITTED", "ABORTED", "lost"}, operations : Seq(Nat)]
        /\ untold \in [what : {"", "aborted", "committed"}, operations : Seq(Nat)]
    <2>1. <<>> \in Seq(Nat)
      OBVIOUS
    <2> QED
      BY <1>2, <1>3, <2>1 DEF Object
  <1>6. DOMAIN wal = {} /\ DOMAIN read.entries = {} /\ read.sure = {} /\ \A record : ~In(wal, record) /\ ~Entered(record)
    BY <1>4 DEF NotRead, In, Entered
  <1>7. LogTypes /\ AppendOK /\ NumbersOK /\ ReadOK
    <2>1. <<>> \in Seq(Seq(LogRecords)) /\ 0 \in Nat
      OBVIOUS
    <2>2. LogTypes
      BY <1>4, <1>5, <2>1 DEF LogTypes
    <2>3. AppendOK /\ ReadOK
      BY <1>4, <1>6 DEF AppendOK, ReadOK
    <2>4. \A t \in Txns : DOMAIN held[t].operations = {} /\ DOMAIN told[t].operations = {}
      <3>1. \A ops : ops = <<>> => DOMAIN ops = {}
        OBVIOUS
      <3>2. \A t \in Txns : held[t].operations = <<>> /\ told[t].operations = <<>>
        BY <1>4, <1>5
      <3> QED
        BY <3>1, <3>2
    <2>5. NumbersOK
      BY <1>4, <1>6, <2>4 DEF NumbersOK, Ascending, Increasing
    <2> QED
      BY <2>2, <2>3, <2>5
  <1>8. ASSUME NEW t \in Txns PROVE LoggedOK(t) /\ CommitOK(t)
    BY <1>4, <1>5, <1>6 DEF LoggedOK, CommitOK
  <1> QED
    BY <1>7, <1>8 DEF LogInv

LEMMA LogStep == LogInv /\ [TxnNext]_txnVars => LogInv'
  <1>1. SUFFICES ASSUME LogInv, [TxnNext]_txnVars PROVE LogInv'
    OBVIOUS
  <1>2. ASSUME NEW t \in Txns, Begin(t) PROVE LogInv'
    BY <1>1, <1>2, BeginLogged
  <1>3. ASSUME NEW t \in Txns, AddOperation(t) PROVE LogInv'
    <2>0. calls \in Nat
      BY <1>1 DEF LogInv, LogTypes
    <2>1. calls + 1 \in Nat
      BY <2>0
    <2>2. PICK record : record = Record(t, "OP", calls + 1)
      OBVIOUS
    <2>3. record \in Records /\ record.type = "OP" /\ record.op = calls + 1
      BY <2>1, <2>2, RecordMade
    <2>4. Appends(record) /\ tried' = tried
      BY <1>3, <2>2 DEF AddOperation
    <2> QED
      BY <1>1, <2>3, <2>4, AppendsLogged
  <1>4. ASSUME NEW t \in Txns, Commit(t) PROVE LogInv'
    <2>1. PICK record : record = Record(t, "COMMIT", 0)
      OBVIOUS
    <2>2. record \in Records /\ record.type = "COMMIT" /\ record.txn = t
      BY <2>1, RecordMade
    <2>3. Appends(record) /\ tried' = tried \cup {t}
      BY <1>4, <2>1 DEF Commit
    <2> QED
      BY <1>1, <2>2, <2>3, AppendsLogged
  <1>5. ASSUME NEW t \in Txns, Abort(t) PROVE LogInv'
    <2>1. PICK record : record = Record(t, "ABORT", 0)
      OBVIOUS
    <2>2. record \in Records /\ record.type = "ABORT"
      BY <2>1, RecordMade
    <2>3. Appends(record) /\ tried' = tried
      BY <1>5, <2>1 DEF Abort
    <2> QED
      BY <1>1, <2>2, <2>3, AppendsLogged
  <1>6. ASSUME NEW old \in SUBSET Txns, NEW files \in 0 .. Len(wal), CleansUp(old, files) PROVE LogInv'
    BY <1>1, <1>6, CleansLogged
  <1>7. CASE UNCHANGED txnVars
    <2>1. /\ UNCHANGED <<wal, mine, appending, doubtful, cleaned, held, calls, tried, told, read>>
      BY <1>7 DEF txnVars, logVars, objects
    <2>2. LogTypes' /\ AppendOK' /\ NumbersOK' /\ ReadOK'
      BY <1>1, <2>1, ReadKept DEF LogInv, LogTypes, AppendOK, NumbersOK
    <2>3. \A record : (Adding(record)' <=> Adding(record)) /\ (Entered(record)' <=> Entered(record))
      BY <2>1 DEF Adding, Entered
    <2>4. ASSUME NEW t \in Txns PROVE LoggedOK(t)' /\ CommitOK(t)'
      <3>1. LoggedOK(t) /\ CommitOK(t)
        BY <1>1 DEF LogInv
      <3> QED
        BY <2>1, <2>3, <3>1 DEF LoggedOK, CommitOK
    <2> QED
      BY <2>2, <2>4 DEF LogInv
  <1> QED
    BY <1>1, <1>2, <1>3, <1>4, <1>5, <1>6, <1>7, WritesLogged, ReturnsLogged, RaisesLogged, DiesLogged, ReadsLogged, EndsLogged DEF TxnNext

\* The operations that recovery finds of a transaction are those that its caller was told of.
LEMMA OperationsAsTold ==
    ASSUME LogInv, NEW t \in read.sure
    PROVE  AsTold(t, told[t].operations)
  <1>1. PICK ops : ops = told[t].operations
    OBVIOUS
  <1>2. t \in Txns /\ \A n \in Nat : n \in Range(ops) <=> Entered(Record(t, "OP", n)) /\ Record(t, "OP", n) \notin doubtful
    BY <1>1 DEF LogInv, ReadOK
  <1>3. Increasing(ops) /\ \A i \in DOMAIN ops : ops[i] \in Nat
    BY <1>1, <1>2, ObjectTypes DEF LogInv, NumbersOK
  <1>0. DOMAIN ops \subseteq Nat
    <2>1. ops \in Seq(Nat)
      BY <1>1, <1>2, ObjectTypes DEF LogInv
    <2> QED
      BY <2>1
  <1>4. \A p \in DOMAIN read.entries : p[1] \in Nat /\ p[2] \in Nat /\ p = <<p[1], p[2]>> /\ read.entries[p] \in Records
    BY DEF LogInv, ReadOK
  <1>5. ASSUME NEW p \in Operations(t)
        PROVE  /\ p \in DOMAIN read.entries /\ read.entries[p].type = "OP" /\ read.entries[p].op \in Nat
               /\ read.entries[p] = Record(t, "OP", read.entries[p].op) /\ read.entries[p] \notin doubtful
    <2>1. p \in DOMAIN read.entries /\ read.entries[p].type = "OP" /\ read.entries[p].txn = t /\ read.entries[p] \notin doubtful
      BY DEF Operations
    <2>2. read.entries[p] \in Records
      BY <1>4, <2>1
    <2>3. read.entries[p].op \in Nat /\ read.entries[p] = Record(t, "OP", read.entries[p].op)
      BY <2>1, <2>2, RecordFields
    <2> QED
      BY <2>1, <2>3
  <1>6. ASSUME NEW n PROVE n \in Range(ops) <=> \E p \in Operations(t) : read.entries[p].op = n
    <2>1. ASSUME n \in Range(ops) PROVE \E p \in Operations(t) : read.entries[p].op = n
      <3>1. n \in Nat
        BY <1>3, <2>1 DEF Range
      <3>2. PICK p \in DOMAIN read.entries : read.entries[p] = Record(t, "OP", n)
        BY <1>2, <2>1, <3>1 DEF Entered
      <3>3. read.entries[p].type = "OP" /\ read.entries[p].txn = t /\ read.entries[p].op = n /\ read.entries[p] \notin doubtful
        BY <1>2, <2>1, <3>1, <3>2, RecordMade
      <3> QED
        BY <3>3 DEF Operations
    <2>2. ASSUME NEW p \in Operations(t), read.entries[p].op = n PROVE n \in Range(ops)
      <3>1. n \in Nat /\ Record(t, "OP", n) \notin doubtful /\ Entered(Record(t, "OP", n))
        BY <1>5, <2>2 DEF Entered
      <3> QED
        BY <1>2, <3>1
    <2> QED
      BY <2>1, <2>2
  <1>7. {read.entries[p].op : p \in Operations(t)} = Range(ops)
    BY <1>6
  <1>8. ASSUME NEW p \in Operations(t), NEW q \in Operations(t), NEW i \in DOMAIN ops, NEW j \in DOMAIN ops,
               read.entries[p].op = ops[i], read.entries[q].op = ops[j]
        PROVE  Before(p, q) <=> i < j
    <2>1. \A a, b \in Operations(t) : Before(a, b) => read.entries[a].op < read.entries[b].op
      BY <1>5 DEF LogInv, ReadOK
    <2>2. /\ Before(p, q) => ops[i] < ops[j]
          /\ Before(q, p) => ops[j] < ops[i]
      BY <1>8, <2>1
    <2>3. Before(p, q) \/ Before(q, p) \/ p = q
      <3>1. /\ p[1] \in Nat /\ p[2] \in Nat /\ p = <<p[1], p[2]>>
            /\ q[1] \in Nat /\ q[2] \in Nat /\ q = <<q[1], q[2]>>
        BY <1>4, <1>5
      <3>2. (p[1] = q[1] /\ p[2] = q[2]) => p = q
        BY <3>1, Zenon
      <3> QED
        BY <3>1, <3>2 DEF Before
    <2>4. p = q => ops[i] = ops[j]
      BY <1>8
    <2>5. (i < j => ops[i] < ops[j]) /\ (j < i => ops[j] < ops[i]) /\ i \in Nat /\ j \in Nat /\ ops[i] \in Nat /\ ops[j] \in Nat
      BY <1>0, <1>3 DEF Increasing
    <2> QED
      BY <2>2, <2>3, <2>4, <2>5
  <1> QED
    BY <1>1, <1>7, <1>8 DEF AsTold

LEMMA LogTells == LogInv => RecoveryIsTrue
  <1>1. SUFFICES ASSUME LogInv PROVE RecoveryIsTrue
    OBVIOUS
  <1>2. \A p \in DOMAIN read.entries : read.entries[p] \in Records
    BY <1>1 DEF LogInv, ReadOK
  <1>3. ASSUME NEW t \in read.sure PROVE StateOf(read.entries, t) = "COMMITTED" /\ AsTold(t, told[t].operations)
    <2>1. t \in Txns /\ Entered(Record(t, "COMMIT", 0))
      BY <1>1 DEF LogInv, ReadOK
    <2>2. Has(read.entries, t, "COMMIT")
      BY <2>1, RecordMade DEF Entered, Has
    <2>3. StateOf(read.entries, t) = "COMMITTED"
      BY <2>2 DEF StateOf
    <2> QED
      BY <1>1, <2>3, OperationsAsTold
  <1>4. ASSUME NEW t \in Mentioned(read.entries), StateOf(read.entries, t) = "COMMITTED"
        PROVE  t \in tried /\ (told[t].what = "aborted" => Record(t, "COMMIT", 0) \in doubtful)
    <2>1. Has(read.entries, t, "COMMIT")
      BY <1>4 DEF StateOf
    <2>2. PICK p \in DOMAIN read.entries : read.entries[p].type = "COMMIT" /\ read.entries[p].txn = t
      BY <2>1 DEF Has
    <2>3. t \in Txns /\ read.entries[p] = Record(t, "COMMIT", 0)
      <3>1. PICK record : record = read.entries[p]
        OBVIOUS
      <3>2. record \in Records /\ record.type = "COMMIT" /\ record.txn = t
        BY <1>2, <2>2, <3>1
      <3>3. record = Record(t, "COMMIT", 0) /\ t \in Txns
        BY <3>2, RecordFields
      <3> QED
        BY <3>1, <3>3
    <2>4. LoggedOK(t) /\ CommitOK(t) /\ AppendOK
      BY <1>1, <2>3 DEF LogInv
    <2>5. Entered(Record(t, "COMMIT", 0))
      BY <2>3 DEF Entered
    <2>6. Adding(Record(t, "COMMIT", 0)) => told[t].what = ""
      <3>1. Adding(Record(t, "COMMIT", 0)) => held[t].state = "ACTIVE"
        BY <2>3, <2>4, RecordMade DEF AppendOK, Adding
      <3> QED
        BY <2>4, <3>1 DEF LoggedOK
    <2> QED
      BY <2>4, <2>5, <2>6 DEF CommitOK
  <1> QED
    BY <1>3, <1>4 DEF RecoveryIsTrue

\* Whatever fails, is cut off or is cleaned up in the log, and whatever is appended while it
\* is read, recovery finds the transactions that were committed, with their operations in
\* their order, and takes no other for committed (transaction.py: WriteAheadLog.recover,
\* TransactionManager.recover).
THEOREM RecoveryAlwaysTrue == TxnSpec => []RecoveryIsTrue
  <1>1. TxnInit => LogInv
    BY LogStarts
  <1>2. LogInv /\ [TxnNext]_txnVars => LogInv'
    BY LogStep
  <1>3. LogInv => RecoveryIsTrue
    BY LogTells
  <1> QED
    BY <1>1, <1>2, <1>3, PTL DEF TxnSpec

-----------------------------------------------------------------------------
(* The builder of Query.  What is said of its groups is said of any groups *)
(* gs, with the outermost, the one that is being filled and the stack.     *)

Kinds == {"AND", "OR", "NOT"}
Items == Conditions \cup [group : Nat]
Rows  == SUBSET AllRows

\* The rows of an item, of several, and of a group, if the groups have the rows e.
ItemRows(e, item) == IF "group" \in DOMAIN item THEN e[item.group] ELSE RowsOf(item)
SetsOf(e, items) == [k \in DOMAIN items |-> ItemRows(e, items[k])]
GroupRows(gs, e, g) == Meaning(gs[g].op, SetsOf(e, gs[g].items))

\* Rows of the groups, in which all, or all but one, have those of their items.
Solution(gs, e) == e \in [DOMAIN gs -> Rows] /\ \A g \in DOMAIN gs : e[g] = GroupRows(gs, e, g)
Solves(gs, cur, e) == e \in [DOMAIN gs -> Rows] /\ \A g \in DOMAIN gs \ {cur} : e[g] = GroupRows(gs, e, g)

\* A group that is in another was made, and is not the outermost.
BuilderTypes(gs, out, cur, stack) ==
    /\ gs \in Seq([op : Kinds, items : Seq(Items)]) /\ out \in DOMAIN gs /\ cur \in DOMAIN gs
    /\ stack \in Seq([op : Kinds, sets : Seq(Rows)]) /\ stack # <<>>
    /\ \A g \in DOMAIN gs : \A k \in DOMAIN gs[g].items :
          "group" \in DOMAIN gs[g].items[k] => gs[g].items[k].group \in DOMAIN gs \ {out}

\* Whatever rows the group that is being filled has, the others have rows.
Solvable(gs, cur) == \A rows \in Rows : \E e : Solves(gs, cur, e) /\ e[cur] = rows

\* The groups that are open: the next is the last item of each, and its other items have the
\* rows of its conditions, whatever rows the group that is being filled has.
Chained(gs, out, cur, stack, chain) ==
    /\ chain \in [DOMAIN stack -> DOMAIN gs] /\ chain[1] = out /\ chain[Len(stack)] = cur
    /\ \A k \in DOMAIN stack : gs[chain[k]].op = stack[k].op
    /\ \A k \in DOMAIN stack : k # Len(stack) =>
          /\ chain[k] # cur /\ Len(gs[chain[k]].items) = Len(stack[k].sets) + 1
          /\ gs[chain[k]].items[Len(stack[k].sets) + 1] = [group |-> chain[k + 1]]
    /\ Len(gs[cur].items) = Len(stack[Len(stack)].sets)
    /\ \A e : Solves(gs, cur, e) => \A k \in DOMAIN stack : \A j \in DOMAIN stack[k].sets :
          ItemRows(e, gs[chain[k]].items[j]) = stack[k].sets[j]

BuilderOK(gs, out, cur, stack) ==
    BuilderTypes(gs, out, cur, stack) /\ Solvable(gs, cur) /\ \E chain : Chained(gs, out, cur, stack, chain)

BuilderInv == BuilderOK(groups, outer, current, open)

-----------------------------------------------------------------------------
LEMMA SeqFacts ==
    ASSUME NEW S, NEW seq \in Seq(S)
    PROVE  Len(seq) \in Nat /\ DOMAIN seq = 1 .. Len(seq) /\ \A i \in DOMAIN seq : seq[i] \in S /\ i \in Nat
  OBVIOUS

LEMMA AppendFacts ==
    ASSUME NEW S, NEW seq \in Seq(S), NEW x \in S
    PROVE  /\ Append(seq, x) \in Seq(S) /\ Len(Append(seq, x)) = Len(seq) + 1 /\ DOMAIN Append(seq, x) = 1 .. Len(seq) + 1
           /\ Append(seq, x)[Len(seq) + 1] = x /\ \A i \in DOMAIN seq : Append(seq, x)[i] = seq[i]
           /\ \A i \in DOMAIN Append(seq, x) : i \in DOMAIN seq \/ i = Len(seq) + 1
  OBVIOUS

LEMMA GroupTyped ==
    ASSUME NEW gs \in Seq([op : Kinds, items : Seq(Items)]), NEW g \in DOMAIN gs
    PROVE  /\ Len(gs) \in Nat /\ DOMAIN gs = 1 .. Len(gs) /\ g \in Nat
           /\ gs[g] = [op |-> gs[g].op, items |-> gs[g].items] /\ gs[g].op \in Kinds /\ gs[g].items \in Seq(Items)
           /\ Len(gs[g].items) \in Nat /\ DOMAIN gs[g].items = 1 .. Len(gs[g].items) /\ \A k \in DOMAIN gs[g].items : gs[g].items[k] \in Items
  <1>1. PICK S : S = [op : Kinds, items : Seq(Items)]
    OBVIOUS
  <1>2. Len(gs) \in Nat /\ DOMAIN gs = 1 .. Len(gs) /\ gs[g] \in S /\ g \in Nat
    BY <1>1, SeqFacts
  <1>3. gs[g] = [op |-> gs[g].op, items |-> gs[g].items] /\ gs[g].op \in Kinds /\ gs[g].items \in Seq(Items)
    BY <1>1, <1>2
  <1> QED
    BY <1>2, <1>3, SeqFacts

LEMMA OpenTyped ==
    ASSUME NEW stack \in Seq([op : Kinds, sets : Seq(Rows)]), NEW k \in DOMAIN stack
    PROVE  /\ Len(stack) \in Nat /\ DOMAIN stack = 1 .. Len(stack) /\ k \in Nat /\ Len(stack) \in DOMAIN stack /\ 1 \in DOMAIN stack
           /\ stack[k] = [op |-> stack[k].op, sets |-> stack[k].sets] /\ stack[k].op \in Kinds /\ stack[k].sets \in Seq(Rows)
           /\ Len(stack[k].sets) \in Nat /\ DOMAIN stack[k].sets = 1 .. Len(stack[k].sets)
  <1>1. PICK S : S = [op : Kinds, sets : Seq(Rows)]
    OBVIOUS
  <1>2. Len(stack) \in Nat /\ DOMAIN stack = 1 .. Len(stack) /\ stack[k] \in S /\ k \in Nat
    BY <1>1, SeqFacts
  <1>3. stack[k] = [op |-> stack[k].op, sets |-> stack[k].sets] /\ stack[k].op \in Kinds /\ stack[k].sets \in Seq(Rows)
    BY <1>1, <1>2
  <1> QED
    BY <1>2, <1>3, SeqFacts

LEMMA StackEnds ==
    ASSUME NEW stack \in Seq([op : Kinds, sets : Seq(Rows)]), stack # <<>>
    PROVE  Len(stack) \in Nat /\ DOMAIN stack = 1 .. Len(stack) /\ Len(stack) \in DOMAIN stack /\ 1 \in DOMAIN stack
  <1>1. PICK S : S = [op : Kinds, sets : Seq(Rows)]
    OBVIOUS
  <1>2. Len(stack) \in Nat /\ DOMAIN stack = 1 .. Len(stack) /\ Len(stack) # 0
    BY <1>1
  <1> QED
    BY <1>2

LEMMA ItemOfGroup ==
    ASSUME NEW e, NEW g
    PROVE  ItemRows(e, [group |-> g]) = e[g]
  BY DEF ItemRows

LEMMA ItemOfCondition ==
    ASSUME NEW e, NEW condition \in Conditions
    PROVE  ItemRows(e, condition) = RowsOf(condition) /\ RowsOf(condition) \in Rows
  BY QueryAssumption DEF ItemRows, RowsOf, Rows

LEMMA MeaningTyped ==
    ASSUME NEW op \in Kinds, NEW sets \in Seq(Rows)
    PROVE  Meaning(op, sets) \in Rows
  <1>1. \A k \in DOMAIN sets : sets[k] \in Rows
    BY SeqFacts
  <1>2. CASE sets = <<>>
    BY <1>2 DEF Meaning, Rows
  <1>3. CASE sets # <<>> /\ op = "AND"
    BY <1>3 DEF Meaning, Rows
  <1>4. CASE sets # <<>> /\ op = "OR"
    BY <1>1, <1>4 DEF Meaning, Rows, Range
  <1>5. CASE sets # <<>> /\ op = "NOT"
    <2>1. Len(sets) \in Nat /\ DOMAIN sets = 1 .. Len(sets) /\ Len(sets) # 0
      BY <1>5
    <2>2. 1 \in DOMAIN sets
      BY <2>1
    <2> QED
      BY <1>1, <1>5, <2>2 DEF Meaning
  <1> QED
    BY <1>2, <1>3, <1>4, <1>5 DEF Kinds

\* The rows of items are those of conditions, if they agree one by one.
LEMMA SetsSame ==
    ASSUME NEW sets \in Seq(Rows), NEW e, NEW items, DOMAIN items = DOMAIN sets, \A j \in DOMAIN sets : ItemRows(e, items[j]) = sets[j]
    PROVE  SetsOf(e, items) = sets
  <1>1. sets = [j \in DOMAIN sets |-> sets[j]]
    OBVIOUS
  <1>2. SetsOf(e, items) = [j \in DOMAIN sets |-> sets[j]]
    BY DEF SetsOf
  <1> QED
    BY <1>1, <1>2

LEMMA SetsMore ==
    ASSUME NEW sets \in Seq(Rows), NEW e, NEW items, DOMAIN items = 1 .. Len(sets) + 1, \A j \in DOMAIN sets : ItemRows(e, items[j]) = sets[j],
           ItemRows(e, items[Len(sets) + 1]) \in Rows
    PROVE  SetsOf(e, items) = Append(sets, ItemRows(e, items[Len(sets) + 1]))
  <1>1. PICK more : more = Append(sets, ItemRows(e, items[Len(sets) + 1]))
    OBVIOUS
  <1>2. /\ more \in Seq(Rows) /\ DOMAIN more = 1 .. Len(sets) + 1 /\ more[Len(sets) + 1] = ItemRows(e, items[Len(sets) + 1])
        /\ \A i \in DOMAIN sets : more[i] = sets[i]
        /\ \A i \in DOMAIN more : i \in DOMAIN sets \/ i = Len(sets) + 1
    BY <1>1, AppendFacts
  <1>3. \A j \in DOMAIN more : ItemRows(e, items[j]) = more[j]
    BY <1>2
  <1> QED
    BY <1>1, <1>2, <1>3, SetsSame

LEMMA SetsTyped ==
    ASSUME NEW gs \in Seq([op : Kinds, items : Seq(Items)]), NEW g \in DOMAIN gs, NEW e \in [DOMAIN gs -> Rows],
           \A k \in DOMAIN gs[g].items : "group" \in DOMAIN gs[g].items[k] => gs[g].items[k].group \in DOMAIN gs
    PROVE  SetsOf(e, gs[g].items) \in Seq(Rows) /\ GroupRows(gs, e, g) \in Rows
  <1>1. PICK items : items = gs[g].items
    OBVIOUS
  <1>2. Len(items) \in Nat /\ DOMAIN items = 1 .. Len(items) /\ gs[g].op \in Kinds
    BY <1>1, GroupTyped
  <1>3. \A k \in DOMAIN items : ItemRows(e, items[k]) \in Rows
    BY <1>1 DEF ItemRows, RowsOf, Rows
  <1>4. SetsOf(e, items) \in Seq(Rows)
    <2>1. PICK n \in Nat : n = Len(items)
      BY <1>2
    <2>2. [k \in 1 .. n |-> ItemRows(e, items[k])] \in [1 .. n -> Rows]
      BY <1>2, <1>3, <2>1
    <2>3. \A S : \A seq \in [1 .. n -> S] : seq \in Seq(S)
      OBVIOUS
    <2> QED
      BY <1>2, <2>1, <2>2, <2>3 DEF SetsOf
  <1> QED
    BY <1>1, <1>2, <1>4, MeaningTyped DEF GroupRows

\* All groups have rows.
LEMMA FullSolution ==
    ASSUME NEW gs, NEW out, NEW cur, NEW stack, BuilderOK(gs, out, cur, stack)
    PROVE  \E e : Solution(gs, e)
  <1>1. PICK chain : Chained(gs, out, cur, stack, chain)
    BY DEF BuilderOK
  <1>2. /\ gs \in Seq([op : Kinds, items : Seq(Items)]) /\ cur \in DOMAIN gs /\ stack \in Seq([op : Kinds, sets : Seq(Rows)]) /\ stack # <<>>
    BY DEF BuilderOK, BuilderTypes
  <1>3. PICK n : n = Len(stack)
    OBVIOUS
  <1>4. n \in DOMAIN stack
    BY <1>2, <1>3, StackEnds
  <1>5. stack[n].op \in Kinds /\ stack[n].sets \in Seq(Rows) /\ DOMAIN stack[n].sets = 1 .. Len(stack[n].sets)
    BY <1>2, <1>4, OpenTyped
  <1>6. PICK rows \in Rows : rows = Meaning(stack[n].op, stack[n].sets)
    BY <1>5, MeaningTyped
  <1>7. PICK e : Solves(gs, cur, e) /\ e[cur] = rows
    BY DEF BuilderOK, Solvable
  <1>8. chain[n] = cur /\ gs[cur].op = stack[n].op /\ Len(gs[cur].items) = Len(stack[n].sets)
    BY <1>1, <1>3, <1>4 DEF Chained
  <1>9. DOMAIN gs[cur].items = 1 .. Len(gs[cur].items)
    BY <1>2, GroupTyped
  <1>10. \A j \in DOMAIN stack[n].sets : ItemRows(e, gs[cur].items[j]) = stack[n].sets[j]
    BY <1>1, <1>4, <1>7, <1>8 DEF Chained
  <1>11. SetsOf(e, gs[cur].items) = stack[n].sets
    BY <1>5, <1>8, <1>9, <1>10, SetsSame
  <1>12. e[cur] = GroupRows(gs, e, cur)
    BY <1>6, <1>7, <1>8, <1>11 DEF GroupRows
  <1> QED
    BY <1>7, <1>12 DEF Solves, Solution

\* The open groups' items have the rows that the calls mean.
LEMMA ChainRows ==
    ASSUME NEW gs, NEW out, NEW cur, NEW stack, BuilderOK(gs, out, cur, stack),
           NEW chain, Chained(gs, out, cur, stack, chain), NEW e, Solution(gs, e), NEW k \in DOMAIN stack
    PROVE  /\ stack[k].sets \in Seq(Rows)
           /\ \A j \in DOMAIN stack[k].sets : ItemRows(e, gs[chain[k]].items[j]) = stack[k].sets[j]
           /\ k = Len(stack) => SetsOf(e, gs[chain[k]].items) = stack[k].sets
           /\ k # Len(stack) => k + 1 \in DOMAIN stack /\ e[chain[k + 1]] \in Rows /\ SetsOf(e, gs[chain[k]].items) = Append(stack[k].sets, e[chain[k + 1]])
           /\ e[chain[k]] = Meaning(stack[k].op, SetsOf(e, gs[chain[k]].items))
  <1>1. /\ gs \in Seq([op : Kinds, items : Seq(Items)]) /\ cur \in DOMAIN gs /\ stack \in Seq([op : Kinds, sets : Seq(Rows)]) /\ stack # <<>>
    BY DEF BuilderOK, BuilderTypes
  <1>2. chain \in [DOMAIN stack -> DOMAIN gs] /\ chain[k] \in DOMAIN gs /\ gs[chain[k]].op = stack[k].op
    BY DEF Chained
  <1>3. Solves(gs, cur, e) /\ e \in [DOMAIN gs -> Rows] /\ e[chain[k]] = GroupRows(gs, e, chain[k])
    BY <1>1, <1>2 DEF Solution, Solves
  <1>4. \A j \in DOMAIN stack[k].sets : ItemRows(e, gs[chain[k]].items[j]) = stack[k].sets[j]
    BY <1>3 DEF Chained
  <1>5. /\ Len(stack) \in Nat /\ DOMAIN stack = 1 .. Len(stack) /\ k \in Nat
        /\ stack[k].sets \in Seq(Rows) /\ DOMAIN stack[k].sets = 1 .. Len(stack[k].sets) /\ Len(stack[k].sets) \in Nat
    BY <1>1, OpenTyped
  <1>6. DOMAIN gs[chain[k]].items = 1 .. Len(gs[chain[k]].items)
    BY <1>1, <1>2, GroupTyped
  <1>7. ASSUME k = Len(stack) PROVE SetsOf(e, gs[chain[k]].items) = stack[k].sets
    <2>1. Len(gs[chain[k]].items) = Len(stack[k].sets)
      BY <1>7 DEF Chained
    <2> QED
      BY <1>4, <1>5, <1>6, <2>1, SetsSame
  <1>8. ASSUME k # Len(stack)
        PROVE  k + 1 \in DOMAIN stack /\ e[chain[k + 1]] \in Rows /\ SetsOf(e, gs[chain[k]].items) = Append(stack[k].sets, e[chain[k + 1]])
    <2>1. k + 1 \in DOMAIN stack
      BY <1>5, <1>8
    <2>2. e[chain[k + 1]] \in Rows
      BY <1>2, <1>3, <2>1
    <2>3. /\ Len(gs[chain[k]].items) = Len(stack[k].sets) + 1
          /\ gs[chain[k]].items[Len(stack[k].sets) + 1] = [group |-> chain[k + 1]]
      BY <1>8 DEF Chained
    <2>4. ItemRows(e, gs[chain[k]].items[Len(stack[k].sets) + 1]) = e[chain[k + 1]]
      BY <2>3, ItemOfGroup
    <2>5. DOMAIN gs[chain[k]].items = 1 .. Len(stack[k].sets) + 1
      BY <1>6, <2>3
    <2>6. SetsOf(e, gs[chain[k]].items) = Append(stack[k].sets, ItemRows(e, gs[chain[k]].items[Len(stack[k].sets) + 1]))
      BY <1>4, <1>5, <2>2, <2>4, <2>5, SetsMore
    <2> QED
      BY <2>1, <2>2, <2>4, <2>6
  <1> QED
    BY <1>2, <1>3, <1>4, <1>5, <1>7, <1>8 DEF GroupRows

\* A query means the rows of its outermost group.
LEMMA CompleteFound ==
    ASSUME BuilderInv, NEW chain, Chained(groups, outer, current, open, chain), NEW e, Solution(groups, e)
    PROVE  \A k \in DOMAIN open : Complete[k] = e[chain[k]]
  <1>1. PICK c : c = [k \in DOMAIN open |-> e[chain[k]]]
    OBVIOUS
  <1>2. open \in Seq([op : Kinds, sets : Seq(Rows)]) /\ open # <<>>
    BY DEF BuilderInv, BuilderOK, BuilderTypes
  <1>3. Len(open) \in Nat /\ DOMAIN open = 1 .. Len(open) /\ Len(open) \in DOMAIN open
    BY <1>2, StackEnds
  <1>4. ASSUME NEW k \in DOMAIN open
        PROVE  c[k] = Meaning(open[k].op, IF k = Len(open) THEN open[k].sets ELSE Append(open[k].sets, c[k + 1]))
    <2>1. e[chain[k]] = Meaning(open[k].op, SetsOf(e, groups[chain[k]].items))
      BY ChainRows DEF BuilderInv
    <2>2. CASE k = Len(open)
      <3>1. SetsOf(e, groups[chain[k]].items) = open[k].sets
        BY <2>2, ChainRows DEF BuilderInv
      <3> QED
        BY <1>1, <2>1, <2>2, <3>1
    <2>3. CASE k # Len(open)
      <3>1. k + 1 \in DOMAIN open /\ SetsOf(e, groups[chain[k]].items) = Append(open[k].sets, e[chain[k + 1]])
        BY <2>3, ChainRows DEF BuilderInv
      <3>2. c[k + 1] = e[chain[k + 1]]
        BY <1>1, <3>1
      <3> QED
        BY <1>1, <2>1, <2>3, <3>1, <3>2
    <2> QED
      BY <2>2, <2>3
  <1>5. c = [k \in DOMAIN open |-> Meaning(open[k].op, IF k = Len(open) THEN open[k].sets ELSE Append(open[k].sets, c[k + 1]))]
    BY <1>1, <1>4
  <1>6. Complete = [k \in DOMAIN open |-> Meaning(open[k].op, IF k = Len(open) THEN open[k].sets ELSE Append(open[k].sets, Complete[k + 1]))]
    BY <1>5 DEF Complete
  <1> HIDE DEF Complete
  <1>7. \A k \in DOMAIN open : Complete[k] = c[k]
    <2> DEFINE wrong == {d \in Nat : \E k \in DOMAIN open : d = Len(open) - k /\ Complete[k] # c[k]}
    <2>1. SUFFICES ASSUME NEW k \in DOMAIN open, Complete[k] # c[k] PROVE FALSE
      OBVIOUS
    <2>2. Len(open) - k \in wrong
      BY <1>3, <2>1
    <2>3. wrong \in SUBSET Nat /\ wrong # {}
      BY <2>2
    <2>4. PICK d \in wrong : \A m \in wrong : d <= m
      <3> HIDE DEF wrong
      <3> QED
        BY <2>3, LeastOfNats
    <2>5. PICK i \in DOMAIN open : d = Len(open) - i /\ Complete[i] # c[i] /\ d \in Nat
      BY <2>4
    <2>6. i # Len(open)
      BY <1>5, <1>6, <2>5
    <2>7. i + 1 \in DOMAIN open /\ Len(open) - (i + 1) \in Nat /\ Len(open) - (i + 1) < d
      BY <1>3, <2>5, <2>6
    <2>8. Complete[i + 1] = c[i + 1]
      <3>1. Len(open) - (i + 1) \notin wrong
        BY <2>4, <2>5, <2>7
      <3> QED
        BY <2>7, <3>1
    <2> QED
      BY <1>4, <1>6, <2>5, <2>6, <2>8
  <1> QED
    BY <1>1, <1>7

\* The outermost group has, for its items, the rows of its conditions.
LEMMA ClosedFound ==
    ASSUME BuilderInv, NEW e, Solution(groups, e)
    PROVE  /\ Closed \in Seq(Rows) /\ SetsOf(e, groups[outer].items) = Closed
           /\ groups[outer].op = open[1].op
  <1>1. PICK chain : Chained(groups, outer, current, open, chain)
    BY DEF BuilderInv, BuilderOK
  <1>2. open \in Seq([op : Kinds, sets : Seq(Rows)]) /\ open # <<>>
    BY DEF BuilderInv, BuilderOK, BuilderTypes
  <1>3. 1 \in DOMAIN open /\ Len(open) \in Nat
    BY <1>2, StackEnds
  <1>4. chain[1] = outer /\ groups[outer].op = open[1].op
    BY <1>1, <1>3 DEF Chained
  <1>5. CASE Len(open) = 1
    BY <1>1, <1>3, <1>4, <1>5, ChainRows DEF BuilderInv, Closed
  <1>6. CASE Len(open) # 1
    <2>1. /\ open[1].sets \in Seq(Rows) /\ 1 + 1 \in DOMAIN open /\ e[chain[1 + 1]] \in Rows
          /\ SetsOf(e, groups[chain[1]].items) = Append(open[1].sets, e[chain[1 + 1]])
      <3>1. PICK k \in DOMAIN open : k = 1
        BY <1>3
      <3>2. /\ open[k].sets \in Seq(Rows) /\ k + 1 \in DOMAIN open /\ e[chain[k + 1]] \in Rows
            /\ SetsOf(e, groups[chain[k]].items) = Append(open[k].sets, e[chain[k + 1]])
        <4>1. BuilderOK(groups, outer, current, open) /\ k # Len(open)
          BY <1>6, <3>1 DEF BuilderInv
        <4> QED
          BY <1>1, <4>1, ChainRows
      <3> QED
        BY <3>1, <3>2
    <2>2. 2 \in DOMAIN open /\ SetsOf(e, groups[outer].items) = Append(open[1].sets, e[chain[2]]) /\ e[chain[2]] \in Rows
      BY <1>4, <2>1
    <2>3. Complete[2] = e[chain[2]]
      BY <1>1, <2>2, CompleteFound
    <2>4. Closed = Append(open[1].sets, e[chain[2]])
      BY <1>6, <2>3 DEF Closed
    <2>5. Append(open[1].sets, e[chain[2]]) \in Seq(Rows)
      BY <2>1, <2>2, AppendFacts
    <2> QED
      BY <1>4, <2>2, <2>4, <2>5
  <1> QED
    BY <1>5, <1>6

\* Evaluating gives each group the rows of its items.
LEMMA EvaluateFound ==
    ASSUME BuilderInv
    PROVE  Solution(groups, Evaluate)
  <1> DEFINE Body(e, g) ==
          {i \in DOMAIN data : groups[g].items # <<>> =>
              CASE groups[g].op = "AND" -> \A k \in DOMAIN groups[g].items :
                      IF "group" \in DOMAIN groups[g].items[k] THEN i \in e[groups[g].items[k].group] ELSE Holds(groups[g].items[k], data[i])
                [] groups[g].op = "OR"  -> \E k \in DOMAIN groups[g].items :
                      IF "group" \in DOMAIN groups[g].items[k] THEN i \in e[groups[g].items[k].group] ELSE Holds(groups[g].items[k], data[i])
                [] groups[g].op = "NOT" ->
                      IF "group" \in DOMAIN groups[g].items[1] THEN i \in e[groups[g].items[1].group] ELSE Holds(groups[g].items[1], data[i])}
  <1>1. groups \in Seq([op : Kinds, items : Seq(Items)])
    BY DEF BuilderInv, BuilderOK, BuilderTypes
  <1>2. \A g \in DOMAIN groups : \A k \in DOMAIN groups[g].items :
          "group" \in DOMAIN groups[g].items[k] => groups[g].items[k].group \in DOMAIN groups
    BY DEF BuilderInv, BuilderOK, BuilderTypes
  <1>3. ASSUME NEW e \in [DOMAIN groups -> Rows], NEW g \in DOMAIN groups
        PROVE  GroupRows(groups, e, g) = Body(e, g)
    <2>1. PICK items, op : items = groups[g].items /\ op = groups[g].op
      OBVIOUS
    <2>2. op \in Kinds /\ items \in Seq(Items) /\ DOMAIN items = 1 .. Len(items) /\ Len(items) \in Nat
      BY <1>1, <2>1, GroupTyped
    <2>3. PICK sets : sets = SetsOf(e, items)
      OBVIOUS
    <2>4. sets \in Seq(Rows) /\ DOMAIN sets = DOMAIN items
      BY <1>1, <1>2, <2>1, <2>3, SetsTyped DEF SetsOf
    <2>5. \A k \in DOMAIN items : \A i \in AllRows :
            i \in sets[k] <=> IF "group" \in DOMAIN items[k] THEN i \in e[items[k].group] ELSE Holds(items[k], data[i])
      BY <2>3 DEF SetsOf, ItemRows, RowsOf
    <2>6. \A k \in DOMAIN items : sets[k] \subseteq AllRows
      BY <2>4, SeqFacts DEF Rows
    <2>7. items = <<>> <=> sets = <<>>
      BY <2>2, <2>4
    <2>8. items # <<>> => 1 \in DOMAIN items
      BY <2>2
    <2>9. CASE items = <<>>
      BY <2>1, <2>3, <2>7, <2>9 DEF GroupRows, Meaning, AllRows
    <2>10. CASE items # <<>> /\ op = "AND"
      BY <2>1, <2>3, <2>4, <2>5, <2>7, <2>10 DEF GroupRows, Meaning, AllRows
    <2>11. CASE items # <<>> /\ op = "OR"
      <3>1. Meaning(op, sets) = UNION Range(sets)
        BY <2>7, <2>11 DEF Meaning
      <3>2. \A i : i \in UNION Range(sets) <=> \E k \in DOMAIN items : i \in sets[k]
        BY <2>4 DEF Range
      <3> QED
        BY <2>1, <2>3, <2>5, <2>6, <2>11, <3>1, <3>2 DEF GroupRows, AllRows
    <2>12. CASE items # <<>> /\ op = "NOT"
      <3>1. Meaning(op, sets) = sets[1] /\ sets[1] \subseteq AllRows
        BY <2>6, <2>7, <2>8, <2>12 DEF Meaning
      <3> QED
        BY <2>1, <2>3, <2>5, <2>8, <2>12, <3>1 DEF GroupRows, AllRows
    <2> QED
      BY <2>2, <2>9, <2>10, <2>11, <2>12 DEF Kinds
  <1>4. PICK e : Solution(groups, e)
    BY FullSolution DEF BuilderInv
  <1>5. e = [g \in DOMAIN groups |-> Body(e, g)]
    <2>1. e \in [DOMAIN groups -> Rows] /\ \A g \in DOMAIN groups : e[g] = GroupRows(groups, e, g)
      BY <1>4 DEF Solution
    <2>2. \A g \in DOMAIN groups : e[g] = Body(e, g)
      BY <1>3, <2>1
    <2> HIDE DEF Body
    <2> QED
      BY <2>1, <2>2
  <1>6. Evaluate = [g \in DOMAIN groups |-> Body(Evaluate, g)]
    BY <1>5 DEF Evaluate
  <1> HIDE DEF Evaluate
  <1>7. Evaluate \in [DOMAIN groups -> Rows]
    <2>1. \A g \in DOMAIN groups : Body(Evaluate, g) \in Rows
      BY DEF Rows, AllRows
    <2> HIDE DEF Body
    <2> QED
      BY <1>6, <2>1
  <1>8. \A g \in DOMAIN groups : Evaluate[g] = Body(Evaluate, g)
    <2> HIDE DEF Body
    <2> QED
      BY <1>6
  <1> HIDE DEF Body
  <1> QED
    BY <1>3, <1>7, <1>8 DEF Solution

LEMMA FilterFound == BuilderInv => FilterAsMeant
  <1>1. SUFFICES ASSUME BuilderInv PROVE Evaluate[outer] = Complete[1]
    BY DEF FilterAsMeant, Meant
  <1>2. PICK chain : Chained(groups, outer, current, open, chain)
    BY <1>1 DEF BuilderInv, BuilderOK
  <1>3. 1 \in DOMAIN open
    BY <1>1, StackEnds DEF BuilderInv, BuilderOK, BuilderTypes
  <1>4. Complete[1] = Evaluate[chain[1]]
    BY <1>1, <1>2, <1>3, EvaluateFound, CompleteFound
  <1> QED
    BY <1>2, <1>4 DEF Chained

-----------------------------------------------------------------------------
(* What the builder's calls make of the groups.                            *)

LEMMA ExceptFacts ==
    ASSUME NEW S, NEW seq \in Seq(S), NEW i \in DOMAIN seq, NEW x \in S, NEW more, more = [seq EXCEPT ![i] = x]
    PROVE  /\ more \in Seq(S) /\ DOMAIN more = DOMAIN seq /\ Len(more) = Len(seq)
           /\ more[i] = x /\ \A j \in DOMAIN seq : j # i => more[j] = seq[j]
  OBVIOUS

\* What is put into a group is its last item.
FilledWith(gs, cur, item, more) ==
    /\ more \in Seq([op : Kinds, items : Seq(Items)]) /\ DOMAIN more = DOMAIN gs /\ Len(more) = Len(gs)
    /\ \A g \in DOMAIN gs : g # cur => more[g] = gs[g]
    /\ \A g \in DOMAIN gs : more[g].op = gs[g].op
    /\ Len(more[cur].items) = Len(gs[cur].items) + 1
    /\ more[cur].items[Len(gs[cur].items) + 1] = item
    /\ \A g \in DOMAIN gs : \A k \in DOMAIN gs[g].items : k \in DOMAIN more[g].items /\ more[g].items[k] = gs[g].items[k]
    /\ \A g \in DOMAIN gs : \A k \in DOMAIN more[g].items : k \in DOMAIN gs[g].items \/ (g = cur /\ more[g].items[k] = item)

LEMMA FilledFacts ==
    ASSUME NEW gs \in Seq([op : Kinds, items : Seq(Items)]), NEW cur \in DOMAIN gs, NEW item \in Items,
           NEW group, group = [op |-> gs[cur].op, items |-> Append(gs[cur].items, item)], NEW more, more = [gs EXCEPT ![cur] = group]
    PROVE  FilledWith(gs, cur, item, more)
  <1>1. PICK S : S = [op : Kinds, items : Seq(Items)]
    OBVIOUS
  <1>2. PICK items : items = Append(gs[cur].items, item)
    OBVIOUS
  <1>3. group = [op |-> gs[cur].op, items |-> items]
    BY <1>2
  <1>4. gs[cur].op \in Kinds /\ gs[cur].items \in Seq(Items)
    BY GroupTyped
  <1>5. /\ items \in Seq(Items) /\ Len(items) = Len(gs[cur].items) + 1 /\ DOMAIN items = 1 .. Len(gs[cur].items) + 1
        /\ items[Len(gs[cur].items) + 1] = item /\ \A k \in DOMAIN gs[cur].items : items[k] = gs[cur].items[k]
        /\ \A k \in DOMAIN items : k \in DOMAIN gs[cur].items \/ k = Len(gs[cur].items) + 1
    BY <1>2, <1>4, AppendFacts
  <1>6. \A k \in DOMAIN gs[cur].items : k \in DOMAIN items
    <2>1. DOMAIN gs[cur].items = 1 .. Len(gs[cur].items) /\ Len(gs[cur].items) \in Nat
      BY GroupTyped
    <2> QED
      BY <1>5, <2>1
  <1>7. group \in S /\ group.op = gs[cur].op /\ group.items = items
    BY <1>1, <1>3, <1>4, <1>5
  <1>8. gs \in Seq(S)
    BY <1>1
  <1>9. more \in Seq(S) /\ DOMAIN more = DOMAIN gs /\ Len(more) = Len(gs) /\ more[cur] = group /\ \A g \in DOMAIN gs : g # cur => more[g] = gs[g]
    BY <1>7, <1>8, ExceptFacts
  <1> QED
    BY <1>1, <1>5, <1>6, <1>7, <1>9 DEF FilledWith

\* where
LEMMA WhereBuilt ==
    ASSUME NEW gs, NEW out, NEW cur, NEW stack, BuilderOK(gs, out, cur, stack), NEW condition \in Conditions,
           NEW group, group = [op |-> gs[cur].op, items |-> Append(gs[cur].items, condition)], NEW more, more = [gs EXCEPT ![cur] = group],
           NEW top, top = [op |-> stack[Len(stack)].op, sets |-> Append(stack[Len(stack)].sets, RowsOf(condition))],
           NEW next, next = [stack EXCEPT ![Len(stack)] = top]
    PROVE  BuilderOK(more, out, cur, next)
  <1>1. BuilderTypes(gs, out, cur, stack) /\ Solvable(gs, cur)
    BY DEF BuilderOK
  <1>2. PICK chain : Chained(gs, out, cur, stack, chain)
    BY DEF BuilderOK
  <1>3. /\ gs \in Seq([op : Kinds, items : Seq(Items)]) /\ cur \in DOMAIN gs /\ stack \in Seq([op : Kinds, sets : Seq(Rows)]) /\ stack # <<>>
        /\ condition \in Items /\ RowsOf(condition) \in Rows /\ "group" \notin DOMAIN condition
    BY <1>1, QueryAssumption DEF BuilderTypes, Items, RowsOf, Rows
  <1>4. FilledWith(gs, cur, condition, more)
    BY <1>3, FilledFacts
  <1>5. PICK n : n = Len(stack)
    OBVIOUS
  <1>6. n \in DOMAIN stack /\ DOMAIN stack = 1 .. n /\ n \in Nat
    BY <1>3, <1>5, StackEnds
  <1>7. PICK sets : sets = Append(stack[n].sets, RowsOf(condition))
    OBVIOUS
  <1>8. /\ sets \in Seq(Rows) /\ Len(sets) = Len(stack[n].sets) + 1 /\ sets[Len(stack[n].sets) + 1] = RowsOf(condition)
        /\ \A j \in DOMAIN stack[n].sets : sets[j] = stack[n].sets[j]
        /\ \A j \in DOMAIN sets : j \in DOMAIN stack[n].sets \/ j = Len(stack[n].sets) + 1
        /\ stack[n].op \in Kinds
    <2>1. stack[n].sets \in Seq(Rows) /\ stack[n].op \in Kinds
      BY <1>3, <1>6, OpenTyped
    <2> QED
      BY <1>3, <1>7, <2>1, AppendFacts
  <1>9. /\ next \in Seq([op : Kinds, sets : Seq(Rows)]) /\ next # <<>> /\ Len(next) = n /\ DOMAIN next = DOMAIN stack
        /\ next[n].op = stack[n].op /\ next[n].sets = sets /\ \A k \in DOMAIN stack : k # n => next[k] = stack[k]
    <2>1. PICK S : S = [op : Kinds, sets : Seq(Rows)]
      OBVIOUS
    <2>2. PICK t : t = [op |-> stack[n].op, sets |-> sets]
      OBVIOUS
    <2>3. top \in S /\ top.op = stack[n].op /\ top.sets = sets
      <3>1. t.op = stack[n].op /\ t.sets = sets /\ t \in S
        BY <1>8, <2>1, <2>2
      <3>2. top = t
        BY <1>5, <1>7, <2>2
      <3> QED
        BY <3>1, <3>2
    <2>4. Len(stack) \in DOMAIN stack /\ stack \in Seq(S)
      BY <1>3, <1>5, <1>6, <2>1
    <2>5. /\ next \in Seq(S) /\ Len(next) = Len(stack) /\ DOMAIN next = DOMAIN stack /\ next[Len(stack)] = top
          /\ \A k \in DOMAIN stack : k # Len(stack) => next[k] = stack[k]
      BY <2>3, <2>4, ExceptFacts
    <2> QED
      BY <1>5, <1>6, <2>1, <2>3, <2>5
  <1>10. BuilderTypes(more, out, cur, next)
    BY <1>1, <1>3, <1>4, <1>9 DEF BuilderTypes, FilledWith
  <1>11. \A e : Solves(more, cur, e) <=> Solves(gs, cur, e)
    BY <1>4 DEF Solves, GroupRows, FilledWith
  <1>12. Solvable(more, cur)
    BY <1>1, <1>11 DEF Solvable
  <1>13. Chained(more, out, cur, next, chain)
    <2>1. /\ chain \in [DOMAIN stack -> DOMAIN gs] /\ chain[1] = out /\ chain[n] = cur
          /\ \A k \in DOMAIN stack : gs[chain[k]].op = stack[k].op
          /\ Len(gs[cur].items) = Len(stack[n].sets)
      BY <1>2, <1>5 DEF Chained
    <2>2. ASSUME NEW k \in DOMAIN next, k # n
          PROVE  /\ chain[k] # cur /\ Len(more[chain[k]].items) = Len(next[k].sets) + 1
                 /\ more[chain[k]].items[Len(next[k].sets) + 1] = [group |-> chain[k + 1]]
      <3>1. /\ chain[k] # cur /\ Len(gs[chain[k]].items) = Len(stack[k].sets) + 1
            /\ gs[chain[k]].items[Len(stack[k].sets) + 1] = [group |-> chain[k + 1]]
        BY <1>2, <1>5, <1>9, <2>2 DEF Chained
      <3>2. more[chain[k]] = gs[chain[k]] /\ next[k] = stack[k]
        BY <1>4, <1>9, <2>1, <2>2, <3>1 DEF FilledWith
      <3> QED
        BY <3>1, <3>2
    <2>3. ASSUME NEW e, Solves(more, cur, e), NEW k \in DOMAIN next, NEW j \in DOMAIN next[k].sets
          PROVE  ItemRows(e, more[chain[k]].items[j]) = next[k].sets[j]
      <3>1. \A i \in DOMAIN stack[k].sets : ItemRows(e, gs[chain[k]].items[i]) = stack[k].sets[i]
        BY <1>2, <1>9, <1>11, <2>3 DEF Chained
      <3>2. CASE k # n
        <4>1. chain[k] # cur
          BY <2>2, <3>2
        <4>2. more[chain[k]] = gs[chain[k]] /\ next[k] = stack[k]
          BY <1>4, <1>9, <2>1, <3>2, <4>1 DEF FilledWith
        <4> QED
          BY <3>1, <4>2
      <3>3. CASE k = n /\ j \in DOMAIN stack[n].sets
        <4>1. DOMAIN stack[n].sets = 1 .. Len(stack[n].sets) /\ DOMAIN gs[cur].items = 1 .. Len(gs[cur].items)
          BY <1>3, <1>6, OpenTyped, GroupTyped
        <4>2. j \in DOMAIN gs[cur].items
          BY <2>1, <3>3, <4>1
        <4>3. more[cur].items[j] = gs[cur].items[j] /\ next[k].sets[j] = stack[n].sets[j]
          BY <1>3, <1>4, <1>8, <1>9, <3>3, <4>2 DEF FilledWith
        <4> QED
          BY <2>1, <3>1, <3>3, <4>3
      <3>4. CASE k = n /\ j = Len(stack[n].sets) + 1
        <4>1. more[cur].items[j] = condition /\ next[k].sets[j] = RowsOf(condition)
          BY <1>4, <1>8, <1>9, <2>1, <3>4 DEF FilledWith
        <4> QED
          BY <2>1, <3>4, <4>1, ItemOfCondition
      <3> QED
        BY <1>8, <1>9, <3>2, <3>3, <3>4
    <2>4. Len(more[cur].items) = Len(next[n].sets)
      BY <1>4, <1>8, <1>9, <2>1 DEF FilledWith
    <2>5. \A k \in DOMAIN next : more[chain[k]].op = next[k].op
      BY <1>4, <1>9, <2>1 DEF FilledWith
    <2> QED
      BY <1>4, <1>9, <2>1, <2>2, <2>3, <2>4, <2>5 DEF Chained, FilledWith
  <1> QED
    BY <1>10, <1>12, <1>13 DEF BuilderOK

\* Items have the same rows, if the groups that are among them have.
Agree(D, e, r) == \A g \in D : e[g] = r[g]
Within(D, items) == \A k \in DOMAIN items : "group" \in DOMAIN items[k] => items[k].group \in D

LEMMA ItemsAgree ==
    ASSUME NEW D, NEW e, NEW r, Agree(D, e, r), NEW items, Within(D, items)
    PROVE  SetsOf(e, items) = SetsOf(r, items) /\ \A k \in DOMAIN items : ItemRows(e, items[k]) = ItemRows(r, items[k])
  <1>1. \A k \in DOMAIN items : ItemRows(e, items[k]) = ItemRows(r, items[k])
    BY DEF ItemRows, Agree, Within
  <1> QED
    BY <1>1 DEF SetsOf

LEMMA GroupAgrees ==
    ASSUME NEW D, NEW e, NEW r, Agree(D, e, r), NEW gs, NEW more, NEW g, more[g] = gs[g], Within(D, gs[g].items)
    PROVE  GroupRows(more, e, g) = GroupRows(gs, r, g)
  BY ItemsAgree DEF GroupRows

\* The groups, with one more.
MadeWith(gs, made, more) ==
    /\ more \in Seq([op : Kinds, items : Seq(Items)]) /\ Len(more) = Len(gs) + 1 /\ DOMAIN more = DOMAIN gs \cup {Len(gs) + 1}
    /\ more[Len(gs) + 1] = made /\ Len(gs) + 1 \notin DOMAIN gs /\ \A g \in DOMAIN gs : more[g] = gs[g]

LEMMA MadeFacts ==
    ASSUME NEW gs \in Seq([op : Kinds, items : Seq(Items)]), NEW made \in [op : Kinds, items : Seq(Items)], NEW more, more = Append(gs, made)
    PROVE  MadeWith(gs, made, more)
  <1>1. PICK S : S = [op : Kinds, items : Seq(Items)]
    OBVIOUS
  <1>2. gs \in Seq(S) /\ made \in S
    BY <1>1
  <1>3. Len(gs) \in Nat /\ DOMAIN gs = 1 .. Len(gs)
    BY <1>2, SeqFacts
  <1>4. more \in Seq(S) /\ Len(more) = Len(gs) + 1 /\ DOMAIN more = 1 .. Len(gs) + 1 /\ more[Len(gs) + 1] = made /\ \A g \in DOMAIN gs : more[g] = gs[g]
    BY <1>2, AppendFacts
  <1>5. 1 .. Len(gs) + 1 = DOMAIN gs \cup {Len(gs) + 1} /\ Len(gs) + 1 \notin DOMAIN gs
    BY <1>3
  <1> QED
    BY <1>1, <1>4, <1>5 DEF MadeWith

LEMMA MadeAgrees ==
    ASSUME NEW gs, NEW made, NEW more, MadeWith(gs, made, more), \A g \in DOMAIN gs : Within(DOMAIN gs, gs[g].items),
           NEW e, NEW r, Agree(DOMAIN gs, e, r)
    PROVE  \A g \in DOMAIN gs : GroupRows(more, e, g) = GroupRows(gs, r, g)
  <1>1. SUFFICES ASSUME NEW g \in DOMAIN gs PROVE GroupRows(more, e, g) = GroupRows(gs, r, g)
    OBVIOUS
  <1>2. more[g] = gs[g]
    BY DEF MadeWith
  <1> QED
    BY <1>2, GroupAgrees

\* One group is open.
OneOpen(op, sets, stack) ==
    /\ stack \in Seq([op : Kinds, sets : Seq(Rows)]) /\ stack # <<>> /\ Len(stack) = 1 /\ DOMAIN stack = {1}
    /\ stack[1].op = op /\ stack[1].sets = sets

LEMMA OneOpenFacts ==
    ASSUME NEW op \in Kinds, NEW sets \in Seq(Rows), NEW stack, stack = <<[op |-> op, sets |-> sets]>>
    PROVE  OneOpen(op, sets, stack)
  <1>1. PICK top : top = [op |-> op, sets |-> sets]
    OBVIOUS
  <1>2. top \in [op : Kinds, sets : Seq(Rows)] /\ top.op = op /\ top.sets = sets
    BY <1>1
  <1>3. PICK S : S = [op : Kinds, sets : Seq(Rows)]
    OBVIOUS
  <1>4. stack = <<top>>
    BY <1>1
  <1>5. \A T : \A x \in T : <<x>> \in Seq(T) /\ <<x>> # <<>> /\ Len(<<x>>) = 1 /\ DOMAIN <<x>> = {1} /\ <<x>>[1] = x
    OBVIOUS
  <1> QED
    BY <1>2, <1>3, <1>4, <1>5 DEF OneOpen

\* group_end
LEMMA EndBuilt ==
    ASSUME NEW gs, NEW out, NEW cur, NEW stack, BuilderOK(gs, out, cur, stack), NEW closed \in Seq(Rows),
           \A e : Solution(gs, e) => SetsOf(e, gs[out].items) = closed,
           NEW next, OneOpen(gs[out].op, closed, next)
    PROVE  BuilderOK(gs, out, out, next)
  <1>1. BuilderTypes(gs, out, cur, stack)
    BY DEF BuilderOK
  <1>2. PICK s : Solution(gs, s)
    BY FullSolution
  <1>3. gs \in Seq([op : Kinds, items : Seq(Items)]) /\ out \in DOMAIN gs /\ gs[out].op \in Kinds
    BY <1>1, GroupTyped DEF BuilderTypes
  <1>4. /\ next \in Seq([op : Kinds, sets : Seq(Rows)]) /\ next # <<>> /\ Len(next) = 1 /\ DOMAIN next = {1}
        /\ next[1].op = gs[out].op /\ next[1].sets = closed
    BY DEF OneOpen
  <1>5. PICK D : D = DOMAIN gs \ {out}
    OBVIOUS
  <1>6. \A g \in DOMAIN gs : Within(D, gs[g].items)
    BY <1>1, <1>5 DEF BuilderTypes, Within
  <1>7. BuilderTypes(gs, out, out, next)
    BY <1>1, <1>4 DEF BuilderTypes
  <1>8. Solvable(gs, out)
    <2>1. SUFFICES ASSUME NEW rows \in Rows PROVE \E e : Solves(gs, out, e) /\ e[out] = rows
      BY DEF Solvable
    <2>2. PICK e : e = [g \in DOMAIN gs |-> IF g = out THEN rows ELSE s[g]]
      OBVIOUS
    <2>3. e \in [DOMAIN gs -> Rows] /\ e[out] = rows /\ Agree(D, e, s)
      BY <1>2, <1>3, <1>5, <2>2 DEF Solution, Agree
    <2>4. \A g \in DOMAIN gs : GroupRows(gs, e, g) = GroupRows(gs, s, g)
      BY <1>6, <2>3, GroupAgrees
    <2>5. \A g \in DOMAIN gs \ {out} : e[g] = GroupRows(gs, e, g)
      BY <1>2, <1>5, <2>3, <2>4 DEF Solution, Agree
    <2> QED
      BY <2>3, <2>5 DEF Solves
  <1>9. PICK chain : chain = [k \in {1} |-> out]
    OBVIOUS
  <1>10. DOMAIN gs[out].items = DOMAIN closed /\ Len(gs[out].items) = Len(closed)
    <2>1. DOMAIN gs[out].items = DOMAIN closed
      BY <1>2 DEF SetsOf
    <2>2. DOMAIN closed = 1 .. Len(closed) /\ Len(closed) \in Nat
      BY SeqFacts
    <2>3. DOMAIN gs[out].items = 1 .. Len(gs[out].items) /\ Len(gs[out].items) \in Nat
      BY <1>3, GroupTyped
    <2> QED
      BY <2>1, <2>2, <2>3
  <1>11. ASSUME NEW e, Solves(gs, out, e), NEW j \in DOMAIN closed PROVE ItemRows(e, gs[out].items[j]) = closed[j]
    <2>1. e \in [DOMAIN gs -> Rows] /\ \A g \in D : e[g] = GroupRows(gs, e, g)
      BY <1>5, <1>11 DEF Solves
    <2>2. PICK full : full = [g \in DOMAIN gs |-> IF g = out THEN GroupRows(gs, e, out) ELSE e[g]]
      OBVIOUS
    <2>3. GroupRows(gs, e, out) \in Rows
      BY <1>3, <1>5, <1>6, <2>1, SetsTyped DEF Within
    <2>4. full \in [DOMAIN gs -> Rows] /\ full[out] = GroupRows(gs, e, out) /\ Agree(D, full, e)
      BY <1>3, <1>5, <2>1, <2>2, <2>3 DEF Agree
    <2>5. \A g \in DOMAIN gs : GroupRows(gs, full, g) = GroupRows(gs, e, g)
      BY <1>6, <2>4, GroupAgrees
    <2>6. Solution(gs, full)
      BY <1>5, <2>1, <2>4, <2>5 DEF Solution, Agree
    <2>7. ItemRows(full, gs[out].items[j]) = closed[j]
      BY <1>10, <2>6 DEF SetsOf
    <2>8. ItemRows(full, gs[out].items[j]) = ItemRows(e, gs[out].items[j])
      BY <1>3, <1>6, <1>10, <2>4, ItemsAgree
    <2> QED
      BY <2>7, <2>8
  <1>12. Chained(gs, out, out, next, chain)
    <2>1. chain \in [DOMAIN next -> DOMAIN gs] /\ chain[1] = out
      BY <1>3, <1>4, <1>9
    <2> QED
      BY <1>4, <1>10, <1>11, <2>1 DEF Chained
  <1> QED
    BY <1>7, <1>8, <1>12 DEF BuilderOK

\* or_where
LEMMA OrWhereBuilt ==
    ASSUME NEW gs, NEW out, NEW cur, NEW stack, BuilderOK(gs, out, cur, stack), NEW condition \in Conditions, NEW closed \in Seq(Rows),
           \A e : Solution(gs, e) => SetsOf(e, gs[out].items) = closed,
           NEW made, made.op = "OR", made.items = Append(gs[out].items, condition), NEW more, MadeWith(gs, made, more),
           NEW next, OneOpen("OR", Append(closed, RowsOf(condition)), next)
    PROVE  BuilderOK(more, Len(gs) + 1, Len(gs) + 1, next)
  <1>1. BuilderTypes(gs, out, cur, stack)
    BY DEF BuilderOK
  <1>2. PICK s : Solution(gs, s)
    BY FullSolution
  <1>3. /\ gs \in Seq([op : Kinds, items : Seq(Items)]) /\ out \in DOMAIN gs /\ gs[out].items \in Seq(Items)
        /\ condition \in Items /\ RowsOf(condition) \in Rows /\ "group" \notin DOMAIN condition
        /\ DOMAIN gs[out].items = 1 .. Len(gs[out].items) /\ Len(gs[out].items) \in Nat
    BY <1>1, QueryAssumption, GroupTyped DEF BuilderTypes, Items, RowsOf, Rows
  <1>4. PICK items : items = Append(gs[out].items, condition)
    OBVIOUS
  <1>5. /\ items \in Seq(Items) /\ Len(items) = Len(gs[out].items) + 1 /\ DOMAIN items = 1 .. Len(gs[out].items) + 1
        /\ items[Len(gs[out].items) + 1] = condition /\ \A j \in DOMAIN gs[out].items : items[j] = gs[out].items[j]
        /\ \A j \in DOMAIN items : j \in DOMAIN gs[out].items \/ j = Len(gs[out].items) + 1
    BY <1>3, <1>4, AppendFacts
  <1>6. made.op = "OR" /\ made.items = items
    BY <1>4
  <1>7. MadeWith(gs, made, more)
    OBVIOUS
  <1>8. PICK new : new = Len(gs) + 1
    OBVIOUS
  <1>9. /\ more \in Seq([op : Kinds, items : Seq(Items)]) /\ DOMAIN more = DOMAIN gs \cup {new} /\ new \notin DOMAIN gs
        /\ more[new].op = "OR" /\ more[new].items = items /\ \A g \in DOMAIN gs : more[g] = gs[g]
    BY <1>6, <1>7, <1>8 DEF MadeWith
  <1>10. PICK sets : sets = Append(closed, RowsOf(condition))
    OBVIOUS
  <1>11. /\ sets \in Seq(Rows) /\ Len(sets) = Len(closed) + 1 /\ sets[Len(closed) + 1] = RowsOf(condition)
         /\ \A j \in DOMAIN closed : sets[j] = closed[j] /\ \A i \in DOMAIN sets : i \in DOMAIN closed \/ i = Len(closed) + 1
    BY <1>3, <1>10, AppendFacts
  <1>12. /\ next \in Seq([op : Kinds, sets : Seq(Rows)]) /\ next # <<>> /\ Len(next) = 1 /\ DOMAIN next = {1}
         /\ next[1].op = "OR" /\ next[1].sets = sets
    BY <1>10 DEF OneOpen
  <1>13. \A g \in DOMAIN gs : Within(DOMAIN gs, gs[g].items)
    BY <1>1 DEF BuilderTypes, Within
  <1>14. BuilderTypes(more, new, new, next)
    <2>1. ASSUME NEW g \in DOMAIN more, NEW k \in DOMAIN more[g].items, "group" \in DOMAIN more[g].items[k]
          PROVE  more[g].items[k].group \in DOMAIN more \ {new}
      <3>1. CASE g = new
        <4>1. k \in DOMAIN items /\ more[g].items[k] = items[k]
          BY <1>9, <2>1, <3>1
        <4>2. k \in DOMAIN gs[out].items /\ items[k] = gs[out].items[k]
          BY <1>3, <1>5, <2>1, <4>1
        <4> QED
          BY <1>3, <1>9, <1>13, <2>1, <4>1, <4>2 DEF Within
      <3>2. CASE g \in DOMAIN gs
        BY <1>9, <1>13, <2>1, <3>2 DEF Within
      <3> QED
        BY <1>9, <3>1, <3>2
    <2> QED
      BY <1>9, <1>12, <2>1 DEF BuilderTypes
  <1>15. Solvable(more, new)
    <2>1. SUFFICES ASSUME NEW rows \in Rows PROVE \E e : Solves(more, new, e) /\ e[new] = rows
      BY DEF Solvable
    <2>2. PICK e : e = [g \in DOMAIN more |-> IF g = new THEN rows ELSE s[g]]
      OBVIOUS
    <2>3. e \in [DOMAIN more -> Rows] /\ e[new] = rows /\ Agree(DOMAIN gs, e, s)
      BY <1>2, <1>9, <2>2 DEF Solution, Agree
    <2>4. \A g \in DOMAIN gs : GroupRows(more, e, g) = GroupRows(gs, s, g)
      BY <1>7, <1>13, <2>3, MadeAgrees
    <2>5. \A g \in DOMAIN more \ {new} : e[g] = GroupRows(more, e, g)
      BY <1>2, <1>9, <2>3, <2>4 DEF Solution, Agree
    <2> QED
      BY <2>3, <2>5 DEF Solves
  <1>16. DOMAIN gs[out].items = DOMAIN closed /\ Len(gs[out].items) = Len(closed)
    <2>1. DOMAIN gs[out].items = DOMAIN closed
      BY <1>2 DEF SetsOf
    <2>2. DOMAIN closed = 1 .. Len(closed) /\ Len(closed) \in Nat
      BY SeqFacts
    <2> QED
      BY <1>3, <2>1, <2>2
  <1>17. ASSUME NEW e, Solves(more, new, e), NEW j \in DOMAIN sets PROVE ItemRows(e, items[j]) = sets[j]
    <2>1. e \in [DOMAIN more -> Rows] /\ \A g \in DOMAIN gs : e[g] = GroupRows(more, e, g)
      BY <1>9, <1>17 DEF Solves
    <2>2. PICK old : old = [g \in DOMAIN gs |-> e[g]]
      OBVIOUS
    <2>3. old \in [DOMAIN gs -> Rows] /\ Agree(DOMAIN gs, e, old)
      BY <1>9, <2>1, <2>2 DEF Agree
    <2>4. \A g \in DOMAIN gs : GroupRows(more, e, g) = GroupRows(gs, old, g)
      BY <1>7, <1>13, <2>3, MadeAgrees
    <2>5. Solution(gs, old)
      BY <2>1, <2>3, <2>4 DEF Solution, Agree
    <2>6. CASE j \in DOMAIN closed
      <3>1. ItemRows(old, gs[out].items[j]) = closed[j]
        BY <1>16, <2>5, <2>6 DEF SetsOf
      <3>2. ItemRows(e, gs[out].items[j]) = ItemRows(old, gs[out].items[j])
        BY <1>3, <1>13, <1>16, <2>3, <2>6, ItemsAgree
      <3> QED
        BY <1>5, <1>11, <1>16, <2>6, <3>1, <3>2
    <2>7. CASE j = Len(closed) + 1
      <3>1. items[j] = condition /\ sets[j] = RowsOf(condition)
        BY <1>5, <1>11, <1>16, <2>7
      <3> QED
        BY <3>1, ItemOfCondition
    <2> QED
      BY <1>11, <2>6, <2>7
  <1>18. PICK chain : chain = [k \in {1} |-> new]
    OBVIOUS
  <1>19. Chained(more, new, new, next, chain)
    <2>1. chain \in [DOMAIN next -> DOMAIN more] /\ chain[1] = new
      BY <1>9, <1>12, <1>18
    <2>2. Len(more[new].items) = Len(sets)
      BY <1>5, <1>9, <1>11, <1>16
    <2>3. ASSUME NEW e, Solves(more, new, e), NEW k \in DOMAIN next, NEW j \in DOMAIN next[k].sets
          PROVE  ItemRows(e, more[chain[k]].items[j]) = next[k].sets[j]
      <3>1. k = 1 /\ next[k].sets = sets /\ more[chain[k]].items = items
        BY <1>9, <1>12, <2>1, <2>3
      <3> QED
        BY <1>17, <2>3, <3>1
    <2>4. \A k \in DOMAIN next : k = Len(next) /\ more[chain[k]].op = next[k].op
      BY <1>9, <1>12, <2>1
    <2> QED
      BY <1>12, <2>1, <2>2, <2>3, <2>4 DEF Chained
  <1> QED
    BY <1>8, <1>14, <1>15, <1>19 DEF BuilderOK

\* One group more is open.
Opened(stack, op, next) ==
    /\ next \in Seq([op : Kinds, sets : Seq(Rows)]) /\ next # <<>> /\ Len(next) = Len(stack) + 1
    /\ DOMAIN next = DOMAIN stack \cup {Len(stack) + 1} /\ Len(stack) + 1 \notin DOMAIN stack
    /\ next[Len(stack) + 1].op = op /\ next[Len(stack) + 1].sets = <<>> /\ \A k \in DOMAIN stack : next[k] = stack[k]

LEMMA OpenedFacts ==
    ASSUME NEW stack \in Seq([op : Kinds, sets : Seq(Rows)]), NEW op \in Kinds, NEW next, next = Append(stack, [op |-> op, sets |-> <<>>])
    PROVE  Opened(stack, op, next)
  <1>1. PICK S : S = [op : Kinds, sets : Seq(Rows)]
    OBVIOUS
  <1>2. PICK top : top = [op |-> op, sets |-> <<>>]
    OBVIOUS
  <1>3. top \in S /\ top.op = op /\ top.sets = <<>>
    BY <1>1, <1>2
  <1>4. stack \in Seq(S) /\ next = Append(stack, top)
    BY <1>1, <1>2
  <1>5. Len(stack) \in Nat /\ DOMAIN stack = 1 .. Len(stack)
    BY <1>4, SeqFacts
  <1>6. /\ next \in Seq(S) /\ Len(next) = Len(stack) + 1 /\ DOMAIN next = 1 .. Len(stack) + 1
        /\ next[Len(stack) + 1] = top /\ \A k \in DOMAIN stack : next[k] = stack[k]
    BY <1>3, <1>4, AppendFacts
  <1>7. 1 .. Len(stack) + 1 = DOMAIN stack \cup {Len(stack) + 1} /\ Len(stack) + 1 \notin DOMAIN stack /\ next # <<>>
    BY <1>5, <1>6
  <1> QED
    BY <1>1, <1>3, <1>6, <1>7 DEF Opened

\* group_start
LEMMA StartBuilt ==
    ASSUME NEW gs, NEW out, NEW cur, NEW stack, BuilderOK(gs, out, cur, stack), NEW op \in Kinds,
           NEW item, "group" \in DOMAIN item, item.group = Len(gs) + 1, item = [group |-> Len(gs) + 1],
           NEW filled, FilledWith(gs, cur, item, filled),
           NEW made, made.op = op, made.items = <<>>, NEW more, MadeWith(filled, made, more), NEW next, Opened(stack, op, next)
    PROVE  BuilderOK(more, out, Len(gs) + 1, next)
  <1>1. BuilderTypes(gs, out, cur, stack) /\ Solvable(gs, cur)
    BY DEF BuilderOK
  <1>2. PICK chain : Chained(gs, out, cur, stack, chain)
    BY DEF BuilderOK
  <1>3. PICK new, n : new = Len(gs) + 1 /\ n = Len(stack)
    OBVIOUS
  <1>4. /\ gs \in Seq([op : Kinds, items : Seq(Items)]) /\ cur \in DOMAIN gs /\ out \in DOMAIN gs
        /\ stack \in Seq([op : Kinds, sets : Seq(Rows)]) /\ stack # <<>>
        /\ \A g \in DOMAIN gs : Within(DOMAIN gs \ {out}, gs[g].items)
    BY <1>1 DEF BuilderTypes, Within
  <1>5. n \in Nat /\ DOMAIN stack = 1 .. n /\ n \in DOMAIN stack /\ 1 \in DOMAIN stack
    BY <1>3, <1>4, StackEnds
  <1>6. /\ more \in Seq([op : Kinds, items : Seq(Items)]) /\ DOMAIN more = DOMAIN gs \cup {new} /\ new \notin DOMAIN gs
        /\ more[new].op = op /\ more[new].items = <<>> /\ \A g \in DOMAIN gs : more[g] = filled[g]
    BY <1>3 DEF FilledWith, MadeWith
  <1>7. /\ \A g \in DOMAIN gs : g # cur => more[g] = gs[g]
        /\ \A g \in DOMAIN gs : more[g].op = gs[g].op
        /\ Len(more[cur].items) = Len(gs[cur].items) + 1 /\ more[cur].items[Len(gs[cur].items) + 1] = item
        /\ \A g \in DOMAIN gs : \A k \in DOMAIN gs[g].items : k \in DOMAIN more[g].items /\ more[g].items[k] = gs[g].items[k]
        /\ \A g \in DOMAIN gs : \A k \in DOMAIN more[g].items : k \in DOMAIN gs[g].items \/ more[g].items[k] = item
    <2>1. /\ \A g \in DOMAIN gs : g # cur => filled[g] = gs[g]
          /\ \A g \in DOMAIN gs : filled[g].op = gs[g].op
          /\ Len(filled[cur].items) = Len(gs[cur].items) + 1 /\ filled[cur].items[Len(gs[cur].items) + 1] = item
          /\ \A g \in DOMAIN gs : \A k \in DOMAIN gs[g].items : k \in DOMAIN filled[g].items /\ filled[g].items[k] = gs[g].items[k]
          /\ \A g \in DOMAIN gs : \A k \in DOMAIN filled[g].items : k \in DOMAIN gs[g].items \/ filled[g].items[k] = item
      BY DEF FilledWith
    <2>2. cur \in DOMAIN gs /\ \A g \in DOMAIN gs : more[g] = filled[g]
      BY <1>4, <1>6
    <2>3. (\A g \in DOMAIN gs : g # cur => more[g] = gs[g]) /\ (\A g \in DOMAIN gs : more[g].op = gs[g].op)
      BY <2>1, <2>2
    <2>4. Len(more[cur].items) = Len(gs[cur].items) + 1 /\ more[cur].items[Len(gs[cur].items) + 1] = item
      BY <2>1, <2>2
    <2>5. \A g \in DOMAIN gs : \A k \in DOMAIN gs[g].items : k \in DOMAIN more[g].items /\ more[g].items[k] = gs[g].items[k]
      BY <2>1, <2>2
    <2>6. ASSUME NEW g \in DOMAIN gs, NEW k \in DOMAIN more[g].items PROVE k \in DOMAIN gs[g].items \/ more[g].items[k] = item
      BY <2>1, <2>2, <2>6
    <2> QED
      BY <2>3, <2>4, <2>5, <2>6
  <1>8. /\ next \in Seq([op : Kinds, sets : Seq(Rows)]) /\ next # <<>> /\ Len(next) = n + 1
        /\ DOMAIN next = DOMAIN stack \cup {n + 1} /\ n + 1 \notin DOMAIN stack
        /\ next[n + 1].op = op /\ next[n + 1].sets = <<>> /\ \A k \in DOMAIN stack : next[k] = stack[k]
    BY <1>3 DEF Opened
  <1>9. \A g \in DOMAIN gs : Within(DOMAIN gs, gs[g].items)
    BY <1>4 DEF Within
  <1>10. BuilderTypes(more, out, new, next)
    <2>1. ASSUME NEW g \in DOMAIN more, NEW k \in DOMAIN more[g].items, "group" \in DOMAIN more[g].items[k]
          PROVE  more[g].items[k].group \in DOMAIN more \ {out}
      <3>1. g \in DOMAIN gs
        BY <1>6, <2>1
      <3>2. CASE more[g].items[k] = item
        BY <1>3, <1>4, <1>6, <3>2
      <3>3. CASE k \in DOMAIN gs[g].items
        BY <1>4, <1>6, <1>7, <2>1, <3>1, <3>3 DEF Within
      <3> QED
        BY <1>7, <2>1, <3>1, <3>2, <3>3
    <2> QED
      BY <1>4, <1>6, <1>8, <2>1 DEF BuilderTypes
  <1>11. /\ chain \in [DOMAIN stack -> DOMAIN gs] /\ chain[1] = out /\ chain[n] = cur
         /\ \A k \in DOMAIN stack : gs[chain[k]].op = stack[k].op
         /\ Len(gs[cur].items) = Len(stack[n].sets)
    BY <1>2, <1>3 DEF Chained
  <1>12. /\ stack[n].op \in Kinds /\ stack[n].sets \in Seq(Rows) /\ Len(stack[n].sets) \in Nat
         /\ DOMAIN stack[n].sets = 1 .. Len(stack[n].sets) /\ DOMAIN gs[cur].items = 1 .. Len(gs[cur].items)
    BY <1>4, <1>5, OpenTyped, GroupTyped
  \* The group's items, if the new one has the rows e[new].
  <1>13. ASSUME NEW e, NEW r, Agree(DOMAIN gs, e, r), Solves(gs, cur, r), e[new] \in Rows
         PROVE  /\ \A g \in DOMAIN gs \ {cur} : GroupRows(more, e, g) = GroupRows(gs, r, g)
                /\ GroupRows(more, e, cur) = Meaning(stack[n].op, Append(stack[n].sets, e[new]))
    <2>1. ASSUME NEW g \in DOMAIN gs \ {cur} PROVE GroupRows(more, e, g) = GroupRows(gs, r, g)
      <3>1. more[g] = gs[g] /\ Within(DOMAIN gs, gs[g].items)
        BY <1>7, <1>9
      <3> QED
        BY <1>13, <3>1, GroupAgrees
    <2>2. PICK items, sets : items = more[cur].items /\ sets = stack[n].sets
      OBVIOUS
    <2>3. sets \in Seq(Rows) /\ Len(sets) \in Nat /\ DOMAIN sets = 1 .. Len(sets) /\ DOMAIN items = 1 .. Len(sets) + 1 /\ items[Len(sets) + 1] = item
      <3>1. cur \in DOMAIN more
        BY <1>4, <1>6
      <3>2. DOMAIN items = 1 .. Len(items)
        BY <1>6, <2>2, <3>1, GroupTyped
      <3> QED
        BY <1>7, <1>11, <1>12, <2>2, <3>2
    <2>4. ASSUME NEW j \in DOMAIN sets PROVE ItemRows(e, items[j]) = sets[j]
      <3>1. ItemRows(r, gs[chain[n]].items[j]) = stack[n].sets[j]
        BY <1>2, <1>5, <1>13, <2>2, <2>4 DEF Chained
      <3>2. j \in DOMAIN gs[cur].items
        BY <1>11, <1>12, <2>2, <2>3, <2>4
      <3>3. items[j] = gs[cur].items[j]
        BY <1>4, <1>7, <2>2, <3>2
      <3>4. ItemRows(e, gs[cur].items[j]) = ItemRows(r, gs[cur].items[j])
        BY <1>4, <1>9, <1>13, <3>2, ItemsAgree
      <3> QED
        BY <1>11, <2>2, <3>1, <3>3, <3>4
    <2>5. ItemRows(e, items[Len(sets) + 1]) = e[new]
      BY <1>3, <2>3, ItemOfGroup
    <2>6. SetsOf(e, items) = Append(sets, e[new])
      <3>1. ItemRows(e, items[Len(sets) + 1]) \in Rows
        BY <1>13, <2>5
      <3> QED
        BY <2>3, <2>4, <2>5, <3>1, SetsMore
    <2>7. more[cur].op = stack[n].op
      BY <1>4, <1>5, <1>7, <1>11
    <2> QED
      BY <2>1, <2>2, <2>6, <2>7 DEF GroupRows
  <1>14. Solvable(more, new)
    <2>1. SUFFICES ASSUME NEW rows \in Rows PROVE \E e : Solves(more, new, e) /\ e[new] = rows
      BY DEF Solvable
    <2>2. Append(stack[n].sets, rows) \in Seq(Rows)
      BY <1>12, <2>1, AppendFacts
    <2>3. PICK here \in Rows : here = Meaning(stack[n].op, Append(stack[n].sets, rows))
      BY <1>12, <2>2, MeaningTyped
    <2>4. PICK r : Solves(gs, cur, r) /\ r[cur] = here
      BY <1>1 DEF Solvable
    <2>5. PICK e : e = [g \in DOMAIN more |-> IF g = new THEN rows ELSE r[g]]
      OBVIOUS
    <2>6. e \in [DOMAIN more -> Rows] /\ e[new] = rows /\ Agree(DOMAIN gs, e, r)
      BY <1>6, <2>1, <2>4, <2>5 DEF Solves, Agree
    <2>7. /\ \A g \in DOMAIN gs \ {cur} : GroupRows(more, e, g) = GroupRows(gs, r, g)
          /\ GroupRows(more, e, cur) = Meaning(stack[n].op, Append(stack[n].sets, rows))
      BY <1>13, <2>4, <2>6
    <2>8. \A g \in DOMAIN gs : e[g] = GroupRows(more, e, g)
      BY <1>4, <2>3, <2>4, <2>6, <2>7 DEF Solves, Agree
    <2>9. \A g \in DOMAIN more \ {new} : e[g] = GroupRows(more, e, g)
      BY <1>6, <2>8
    <2> QED
      BY <2>6, <2>9 DEF Solves
  <1>15. PICK longer : longer = [k \in DOMAIN next |-> IF k = n + 1 THEN new ELSE chain[k]]
    OBVIOUS
  <1>16. /\ longer \in [DOMAIN next -> DOMAIN more] /\ longer[1] = out /\ longer[n + 1] = new
         /\ \A k \in DOMAIN stack : longer[k] = chain[k] /\ chain[k] \in DOMAIN gs
    BY <1>5, <1>6, <1>8, <1>11, <1>15
  <1>17. ASSUME NEW k \in DOMAIN next, k # n + 1
         PROVE  /\ longer[k] # new /\ Len(more[longer[k]].items) = Len(next[k].sets) + 1
                /\ more[longer[k]].items[Len(next[k].sets) + 1] = [group |-> longer[k + 1]]
    <2>1. k \in DOMAIN stack /\ longer[k] = chain[k] /\ chain[k] \in DOMAIN gs /\ next[k] = stack[k]
      BY <1>8, <1>16, <1>17
    <2>2. CASE k = n
      BY <1>3, <1>6, <1>7, <1>11, <1>16, <2>1, <2>2
    <2>3. CASE k # n
      <3>1. /\ chain[k] # cur /\ Len(gs[chain[k]].items) = Len(stack[k].sets) + 1
            /\ gs[chain[k]].items[Len(stack[k].sets) + 1] = [group |-> chain[k + 1]]
        BY <1>2, <1>3, <2>1, <2>3 DEF Chained
      <3>2. k + 1 \in DOMAIN stack
        BY <1>5, <2>1, <2>3
      <3>3. longer[k + 1] = chain[k + 1] /\ more[chain[k]] = gs[chain[k]]
        BY <1>7, <1>16, <2>1, <3>1, <3>2
      <3> QED
        BY <1>6, <2>1, <3>1, <3>3
    <2> QED
      BY <2>2, <2>3
  <1>18. ASSUME NEW e, Solves(more, new, e), NEW k \in DOMAIN next, NEW j \in DOMAIN next[k].sets
         PROVE  ItemRows(e, more[longer[k]].items[j]) = next[k].sets[j]
    <2>1. k \in DOMAIN stack /\ longer[k] = chain[k] /\ chain[k] \in DOMAIN gs /\ next[k] = stack[k]
      BY <1>8, <1>16, <1>18
    <2>2. e \in [DOMAIN more -> Rows] /\ \A g \in DOMAIN gs : e[g] = GroupRows(more, e, g)
      BY <1>6, <1>18 DEF Solves
    <2>3. PICK r : r = [g \in DOMAIN gs |-> e[g]]
      OBVIOUS
    <2>4. r \in [DOMAIN gs -> Rows] /\ Agree(DOMAIN gs, e, r)
      BY <1>6, <2>2, <2>3 DEF Agree
    <2>5. ASSUME NEW g \in DOMAIN gs \ {cur} PROVE r[g] = GroupRows(gs, r, g)
      <3>1. more[g] = gs[g] /\ Within(DOMAIN gs, gs[g].items)
        BY <1>7, <1>9
      <3>2. GroupRows(more, e, g) = GroupRows(gs, r, g)
        BY <2>4, <3>1, GroupAgrees
      <3> QED
        BY <2>2, <2>4, <3>2 DEF Agree
    <2>6. Solves(gs, cur, r)
      BY <2>4, <2>5 DEF Solves
    <2>7. ItemRows(r, gs[chain[k]].items[j]) = stack[k].sets[j]
      BY <1>2, <1>18, <2>1, <2>6 DEF Chained
    <2>8. j \in DOMAIN gs[chain[k]].items
      <3>1. Len(gs[chain[k]].items) = Len(stack[k].sets) \/ Len(gs[chain[k]].items) = Len(stack[k].sets) + 1
        BY <1>2, <1>3, <1>11, <2>1 DEF Chained
      <3>2. /\ Len(gs[chain[k]].items) \in Nat /\ DOMAIN gs[chain[k]].items = 1 .. Len(gs[chain[k]].items)
            /\ Len(stack[k].sets) \in Nat /\ DOMAIN stack[k].sets = 1 .. Len(stack[k].sets)
        BY <1>4, <2>1, OpenTyped, GroupTyped
      <3> QED
        BY <1>18, <2>1, <3>1, <3>2
    <2>9. more[chain[k]].items[j] = gs[chain[k]].items[j]
      BY <1>7, <2>1, <2>8
    <2>10. ItemRows(e, gs[chain[k]].items[j]) = ItemRows(r, gs[chain[k]].items[j])
      BY <1>9, <2>1, <2>4, <2>8, ItemsAgree
    <2> QED
      BY <2>1, <2>7, <2>9, <2>10
  <1>19. \A k \in DOMAIN next : more[longer[k]].op = next[k].op
    BY <1>6, <1>7, <1>8, <1>11, <1>16
  <1>20. Chained(more, out, new, next, longer)
    <2>1. Len(more[new].items) = Len(next[n + 1].sets)
      BY <1>6, <1>8
    <2> QED
      BY <1>8, <1>16, <1>17, <1>18, <1>19, <2>1 DEF Chained
  <1> QED
    BY <1>3, <1>10, <1>14, <1>20 DEF BuilderOK

\* What is said of groups does not change, if the table does not.
LEMMA RowsStay ==
    ASSUME data' = data
    PROVE  /\ AllRows' = AllRows /\ Rows' = Rows /\ \A condition : RowsOf(condition)' = RowsOf(condition)
           /\ \A e, item : ItemRows(e, item)' = ItemRows(e, item)
           /\ \A e, items : SetsOf(e, items)' = SetsOf(e, items)
           /\ \A op, sets : Meaning(op, sets)' = Meaning(op, sets)
           /\ \A gs, e, g : GroupRows(gs, e, g)' = GroupRows(gs, e, g)
  <1>1. AllRows' = AllRows
    BY DEF AllRows
  <1>2. Rows' = Rows
    BY <1>1 DEF Rows
  <1>3. ASSUME NEW condition PROVE RowsOf(condition)' = RowsOf(condition)
    BY <1>1 DEF RowsOf, Holds
  <1>4. ASSUME NEW e, NEW item PROVE ItemRows(e, item)' = ItemRows(e, item)
    BY <1>3 DEF ItemRows
  <1>5. ASSUME NEW e, NEW items PROVE SetsOf(e, items)' = SetsOf(e, items)
    BY <1>4 DEF SetsOf
  <1>6. ASSUME NEW op, NEW sets PROVE Meaning(op, sets)' = Meaning(op, sets)
    BY <1>1 DEF Meaning
  <1>7. ASSUME NEW gs, NEW e, NEW g PROVE GroupRows(gs, e, g)' = GroupRows(gs, e, g)
    BY <1>5, <1>6 DEF GroupRows
  <1> QED
    BY <1>1, <1>2, <1>3, <1>4, <1>5, <1>6, <1>7

LEMMA BuilderKept ==
    ASSUME data' = data, NEW gs, NEW out, NEW cur, NEW stack
    PROVE  BuilderOK(gs, out, cur, stack)' = BuilderOK(gs, out, cur, stack)
  <1>1. BuilderTypes(gs, out, cur, stack)' <=> BuilderTypes(gs, out, cur, stack)
    BY RowsStay DEF BuilderTypes
  <1>2. ASSUME NEW e PROVE Solves(gs, cur, e)' <=> Solves(gs, cur, e)
    BY RowsStay DEF Solves
  <1>3. Solvable(gs, cur)' <=> Solvable(gs, cur)
    BY <1>2, RowsStay DEF Solvable
  <1>4. ASSUME NEW chain PROVE Chained(gs, out, cur, stack, chain)' <=> Chained(gs, out, cur, stack, chain)
    <2>1. ASSUME NEW e, NEW k, NEW j PROVE ItemRows(e, gs[chain[k]].items[j])' = ItemRows(e, gs[chain[k]].items[j])
      BY RowsStay
    <2>2. (\A e : Solves(gs, cur, e) => \A k \in DOMAIN stack : \A j \in DOMAIN stack[k].sets :
              ItemRows(e, gs[chain[k]].items[j]) = stack[k].sets[j])'
          <=> \A e : Solves(gs, cur, e) => \A k \in DOMAIN stack : \A j \in DOMAIN stack[k].sets :
              ItemRows(e, gs[chain[k]].items[j]) = stack[k].sets[j]
      <3>1. ASSUME NEW e
            PROVE  (\A k \in DOMAIN stack : \A j \in DOMAIN stack[k].sets : ItemRows(e, gs[chain[k]].items[j]) = stack[k].sets[j])'
                   <=> \A k \in DOMAIN stack : \A j \in DOMAIN stack[k].sets : ItemRows(e, gs[chain[k]].items[j]) = stack[k].sets[j]
        <4>1. ASSUME NEW k, NEW j
              PROVE  (ItemRows(e, gs[chain[k]].items[j]) = stack[k].sets[j])' <=> ItemRows(e, gs[chain[k]].items[j]) = stack[k].sets[j]
          BY <2>1
        <4> QED
          BY <4>1, Zenon
      <3>2. ASSUME NEW e
            PROVE  (Solves(gs, cur, e) => \A k \in DOMAIN stack : \A j \in DOMAIN stack[k].sets : ItemRows(e, gs[chain[k]].items[j]) = stack[k].sets[j])'
                   <=> (Solves(gs, cur, e) => \A k \in DOMAIN stack : \A j \in DOMAIN stack[k].sets : ItemRows(e, gs[chain[k]].items[j]) = stack[k].sets[j])
        BY <1>2, <3>1
      <3> QED
        BY <3>2
    <2> QED
      BY <2>2 DEF Chained
  <1> QED
    BY <1>1, <1>3, <1>4 DEF BuilderOK

LEMMA BuilderNext ==
    ASSUME data' = data, BuilderOK(groups', outer', current', open')
    PROVE  BuilderInv'
  BY BuilderKept DEF BuilderInv

LEMMA BuilderStarts == QueryInit => BuilderInv
  <1>1. SUFFICES ASSUME QueryInit PROVE BuilderOK(groups, outer, current, open)
    BY DEF BuilderInv
  <1>2. PICK op : op = "AND"
    OBVIOUS
  <1>3. op \in Kinds
    BY <1>2 DEF Kinds
  <1>4. PICK group : group = [op |-> op, items |-> <<>>]
    OBVIOUS
  <1>5. group \in [op : Kinds, items : Seq(Items)] /\ group.op = op /\ group.items = <<>>
    BY <1>3, <1>4
  <1>6. groups = <<group>>
    BY <1>1, <1>2, <1>4 DEF QueryInit
  <1>7. \A S : \A x \in S : <<x>> \in Seq(S) /\ Len(<<x>>) = 1 /\ DOMAIN <<x>> = {1} /\ <<x>>[1] = x
    OBVIOUS
  <1>8. groups \in Seq([op : Kinds, items : Seq(Items)]) /\ DOMAIN groups = {1} /\ groups[1] = group /\ outer = 1 /\ current = 1
    BY <1>1, <1>5, <1>6, <1>7 DEF QueryInit
  <1>9. OneOpen(op, <<>>, open)
    <2>1. open = <<[op |-> op, sets |-> <<>>]>> /\ <<>> \in Seq(Rows)
      BY <1>1, <1>2 DEF QueryInit
    <2> QED
      BY <1>3, <2>1, OneOpenFacts
  <1>10. BuilderTypes(groups, outer, current, open)
    BY <1>5, <1>8, <1>9 DEF BuilderTypes, OneOpen
  <1>11. Solvable(groups, current)
    <2>1. SUFFICES ASSUME NEW rows \in Rows PROVE \E e : Solves(groups, 1, e) /\ e[1] = rows
      BY <1>8 DEF Solvable
    <2>2. PICK e : e = [g \in {1} |-> rows]
      OBVIOUS
    <2> QED
      BY <1>8, <2>1, <2>2 DEF Solves
  <1>12. PICK chain : chain = [k \in {1} |-> 1]
    OBVIOUS
  <1>13. Chained(groups, outer, current, open, chain)
    BY <1>5, <1>8, <1>9, <1>12 DEF Chained, OneOpen
  <1> QED
    BY <1>10, <1>11, <1>13 DEF BuilderOK

LEMMA BuilderStep == BuilderInv /\ [QueryNext]_queryVars => BuilderInv'
  <1> SUFFICES ASSUME BuilderInv, [QueryNext]_queryVars PROVE BuilderInv'
    OBVIOUS
  <1>1. BuilderOK(groups, outer, current, open) /\ BuilderTypes(groups, outer, current, open)
    BY DEF BuilderInv, BuilderOK
  <1>2. /\ groups \in Seq([op : Kinds, items : Seq(Items)]) /\ outer \in DOMAIN groups /\ current \in DOMAIN groups
        /\ open \in Seq([op : Kinds, sets : Seq(Rows)]) /\ open # <<>>
    BY <1>1 DEF BuilderTypes
  <1>3. Closed \in Seq(Rows) /\ groups[outer].op = open[1].op /\ \A e : Solution(groups, e) => SetsOf(e, groups[outer].items) = Closed
    <2>1. PICK e : Solution(groups, e)
      BY <1>1, FullSolution
    <2> QED
      BY <2>1, ClosedFound
  <1>4. ASSUME NEW condition \in Conditions, Where(condition) PROVE BuilderInv'
    <2>1. PICK group : group = [op |-> groups[current].op, items |-> Append(groups[current].items, condition)]
      OBVIOUS
    <2>2. PICK top : top = [op |-> open[Len(open)].op, sets |-> Append(open[Len(open)].sets, RowsOf(condition))]
      OBVIOUS
    <2>3. groups' = [groups EXCEPT ![current] = group]
      BY <1>4, <2>1 DEF Where, Filled
    <2>4. open' = [open EXCEPT ![Len(open)] = top]
      BY <1>4, <2>2 DEF Where
    <2>5. BuilderOK(groups', outer, current, open')
      <3>1. PICK more, next : more = groups' /\ next = open'
        OBVIOUS
      <3>2. BuilderOK(more, outer, current, next)
        BY <1>1, <2>1, <2>2, <2>3, <2>4, <3>1, WhereBuilt
      <3> QED
        BY <3>1, <3>2
    <2>6. data' = data /\ outer' = outer /\ current' = current
      BY <1>4 DEF Where, Builds
    <2> QED
      BY <2>5, <2>6, BuilderNext
  <1>5. ASSUME NEW condition \in Conditions, OrWhere(condition) PROVE BuilderInv'
    <2>1. PICK made : made = [op |-> "OR", items |-> Append(groups[outer].items, condition)]
      OBVIOUS
    <2>2. made \in [op : Kinds, items : Seq(Items)] /\ made.op = "OR" /\ made.items = Append(groups[outer].items, condition)
      <3>1. Append(groups[outer].items, condition) \in Seq(Items)
        <4>1. groups[outer].items \in Seq(Items) /\ condition \in Items
          BY <1>2, GroupTyped DEF Items
        <4> QED
          BY <4>1, AppendFacts
      <3> QED
        BY <2>1, <3>1 DEF Kinds
    <2>3. groups' = Append(groups, made)
      BY <1>5, <2>1 DEF OrWhere, Alternatives
    <2>4. MadeWith(groups, made, groups')
      BY <1>2, <2>2, <2>3, MadeFacts
    <2>5. OneOpen("OR", Append(Closed, RowsOf(condition)), open')
      <3>1. Append(Closed, RowsOf(condition)) \in Seq(Rows)
        BY <1>3, ItemOfCondition, AppendFacts
      <3>2. PICK op : op = "OR"
        OBVIOUS
      <3>3. op \in Kinds
        BY <3>2 DEF Kinds
      <3>4. open' = <<[op |-> op, sets |-> Append(Closed, RowsOf(condition))]>>
        BY <1>5, <3>2 DEF OrWhere, Alternatives
      <3> QED
        BY <3>1, <3>2, <3>3, <3>4, OneOpenFacts
    <2>6. BuilderOK(groups', Len(groups) + 1, Len(groups) + 1, open')
      BY <1>1, <1>3, <2>2, <2>4, <2>5, OrWhereBuilt
    <2>7. data' = data /\ outer' = Len(groups) + 1 /\ current' = Len(groups) + 1
      BY <1>5 DEF OrWhere, Alternatives, Builds
    <2> QED
      BY <2>6, <2>7, BuilderNext
  <1>6. ASSUME NEW op \in Kinds, GroupStart(op) PROVE BuilderInv'
    <2>1. PICK item : item = [group |-> Len(groups) + 1]
      OBVIOUS
    <2>2. "group" \in DOMAIN item /\ item.group = Len(groups) + 1 /\ item \in Items
      BY <1>2, <2>1, GroupTyped DEF Items
    <2>3. PICK group : group = [op |-> groups[current].op, items |-> Append(groups[current].items, item)]
      OBVIOUS
    <2>4. PICK filled : filled = [groups EXCEPT ![current] = group]
      OBVIOUS
    <2>5. FilledWith(groups, current, item, filled)
      BY <1>2, <2>2, <2>3, <2>4, FilledFacts
    <2>6. PICK made : made = [op |-> op, items |-> <<>>]
      OBVIOUS
    <2>7. made \in [op : Kinds, items : Seq(Items)] /\ made.op = op /\ made.items = <<>>
      BY <1>6, <2>6
    <2>8. groups' = Append(filled, made)
      BY <1>6, <2>1, <2>3, <2>4, <2>6 DEF GroupStart, Filled
    <2>9. MadeWith(filled, made, groups')
      BY <2>5, <2>7, <2>8, MadeFacts DEF FilledWith
    <2>10. Opened(open, op, open')
      BY <1>2, <1>6, OpenedFacts DEF GroupStart
    <2>11. BuilderOK(groups', outer, Len(groups) + 1, open')
      BY <1>1, <1>6, <2>1, <2>2, <2>5, <2>7, <2>9, <2>10, StartBuilt
    <2>12. data' = data /\ outer' = outer /\ current' = Len(groups) + 1
      BY <1>6 DEF GroupStart, Builds
    <2> QED
      BY <2>11, <2>12, BuilderNext
  <1>7. CASE GroupEnd
    <2>1. OneOpen(groups[outer].op, Closed, open')
      <3>1. groups[outer].op \in Kinds
        BY <1>2, GroupTyped
      <3>2. open' = <<[op |-> groups[outer].op, sets |-> Closed]>>
        BY <1>3, <1>7 DEF GroupEnd
      <3> QED
        BY <1>3, <3>1, <3>2, OneOpenFacts
    <2>2. BuilderOK(groups, outer, outer, open')
      BY <1>1, <1>3, <2>1, EndBuilt
    <2>3. data' = data /\ groups' = groups /\ outer' = outer /\ current' = outer
      BY <1>7 DEF GroupEnd, Builds
    <2> QED
      BY <2>2, <2>3, BuilderNext
  <1>8. CASE UNCHANGED queryVars
    <2>1. data' = data /\ groups' = groups /\ outer' = outer /\ current' = current /\ open' = open
      BY <1>8 DEF queryVars
    <2> QED
      BY <1>1, <2>1, BuilderNext
  <1> QED
    BY <1>4, <1>5, <1>6, <1>7, <1>8 DEF QueryNext, Kinds

\* A query finds the rows that the calls that built it mean (FilterAsMeant): evaluating the
\* outermost of the groups that where, or_where, group_start and group_end made, filled and
\* shared gives what the calls say, however many calls there are, in any order, of any
\* conditions over any table.
THEOREM FiltersAlwaysMeant == QuerySpec => []FilterAsMeant
  <1>1. QueryInit => BuilderInv
    BY BuilderStarts
  <1>2. BuilderInv /\ [QueryNext]_queryVars => BuilderInv'
    BY BuilderStep
  <1>3. BuilderInv => FilterAsMeant
    BY FilterFound
  <1> QED
    BY <1>1, <1>2, <1>3, PTL DEF QuerySpec

-----------------------------------------------------------------------------
\* No group is in itself, or in what it holds: the groups are ranked, each above those in it.
Ranked(gs, rank, low, high) ==
    /\ low \in Int /\ high \in Int /\ rank \in [DOMAIN gs -> low .. high]
    /\ \A g \in DOMAIN gs : \A k \in DOMAIN gs[g].items :
          "group" \in DOMAIN gs[g].items[k] => gs[g].items[k].group \in DOMAIN gs /\ rank[gs[g].items[k].group] < rank[g]

NoCircle == \E rank, low, high : Ranked(groups, rank, low, high)

LEMMA CircleStarts == QueryInit => NoCircle
  <1>1. SUFFICES ASSUME QueryInit PROVE \E rank, low, high : Ranked(groups, rank, low, high)
    BY DEF NoCircle
  <1>2. PICK group : group = [op |-> "AND", items |-> <<>>]
    OBVIOUS
  <1>3. group.items = <<>>
    BY <1>2
  <1>4. groups = <<group>>
    BY <1>1, <1>2 DEF QueryInit
  <1>5. DOMAIN groups = {1} /\ groups[1].items = <<>>
    BY <1>3, <1>4
  <1>6. PICK rank : rank = [g \in {1} |-> 0]
    OBVIOUS
  <1>7. rank \in [{1} -> 0 .. 0]
    BY <1>6
  <1>8. Ranked(groups, rank, 0, 0)
    BY <1>5, <1>7 DEF Ranked
  <1> QED
    BY <1>8

LEMMA CircleStep == BuilderInv /\ NoCircle /\ [QueryNext]_queryVars => NoCircle'
  <1> SUFFICES ASSUME BuilderInv, NoCircle, [QueryNext]_queryVars PROVE NoCircle'
    OBVIOUS
  <1>1. /\ groups \in Seq([op : Kinds, items : Seq(Items)]) /\ outer \in DOMAIN groups /\ current \in DOMAIN groups
    BY DEF BuilderInv, BuilderOK, BuilderTypes
  <1>2. PICK rank, low, high : Ranked(groups, rank, low, high)
    BY DEF NoCircle
  <1>3. low \in Int /\ high \in Int /\ rank \in [DOMAIN groups -> low .. high]
    BY <1>2 DEF Ranked
  <1>4. ASSUME NEW condition \in Conditions, Where(condition) PROVE NoCircle'
    <2>1. PICK group : group = [op |-> groups[current].op, items |-> Append(groups[current].items, condition)]
      OBVIOUS
    <2>2. groups' = [groups EXCEPT ![current] = group]
      BY <1>4, <2>1 DEF Where, Filled
    <2>3. condition \in Items /\ "group" \notin DOMAIN condition
      BY QueryAssumption DEF Items
    <2>4. FilledWith(groups, current, condition, groups')
      BY <1>1, <2>1, <2>2, <2>3, FilledFacts
    <2>5. PICK more : more = groups'
      OBVIOUS
    <2>6. Ranked(more, rank, low, high)
      <3>1. DOMAIN more = DOMAIN groups
        BY <2>4, <2>5 DEF FilledWith
      <3>2. ASSUME NEW g \in DOMAIN more, NEW k \in DOMAIN more[g].items, "group" \in DOMAIN more[g].items[k]
            PROVE  more[g].items[k].group \in DOMAIN groups /\ rank[more[g].items[k].group] < rank[g]
        <4>1. k \in DOMAIN groups[g].items /\ more[g].items[k] = groups[g].items[k]
          BY <2>3, <2>4, <2>5, <3>1, <3>2 DEF FilledWith
        <4> QED
          BY <1>2, <3>1, <3>2, <4>1 DEF Ranked
      <3> QED
        BY <1>3, <3>1, <3>2 DEF Ranked
    <2> QED
      BY <2>5, <2>6 DEF NoCircle
  <1>5. ASSUME NEW condition \in Conditions, OrWhere(condition) PROVE NoCircle'
    <2>1. PICK made : made = [op |-> "OR", items |-> Append(groups[outer].items, condition)]
      OBVIOUS
    <2>2. groups[outer].items \in Seq(Items) /\ condition \in Items /\ "group" \notin DOMAIN condition
      BY <1>1, GroupTyped, QueryAssumption DEF Items
    <2>3. PICK items : items = Append(groups[outer].items, condition)
      OBVIOUS
    <2>4. /\ items \in Seq(Items) /\ items[Len(groups[outer].items) + 1] = condition /\ \A k \in DOMAIN groups[outer].items : items[k] = groups[outer].items[k]
          /\ \A k \in DOMAIN items : k \in DOMAIN groups[outer].items \/ k = Len(groups[outer].items) + 1
      BY <2>2, <2>3, AppendFacts
    <2>5. made \in [op : Kinds, items : Seq(Items)] /\ made.items = items
      BY <2>1, <2>3, <2>4 DEF Kinds
    <2>6. groups' = Append(groups, made)
      BY <1>5, <2>1 DEF OrWhere, Alternatives
    <2>7. MadeWith(groups, made, groups')
      BY <1>1, <2>5, <2>6, MadeFacts
    <2>8. PICK more, new : more = groups' /\ new = Len(groups) + 1
      OBVIOUS
    <2>9. DOMAIN more = DOMAIN groups \cup {new} /\ new \notin DOMAIN groups /\ more[new].items = items /\ \A g \in DOMAIN groups : more[g] = groups[g]
      BY <2>5, <2>7, <2>8 DEF MadeWith
    <2>10. PICK above : above = [g \in DOMAIN more |-> IF g = new THEN high + 1 ELSE rank[g]]
      OBVIOUS
    <2>11. above \in [DOMAIN more -> low .. high + 1] /\ above[new] = high + 1 /\ \A g \in DOMAIN groups : above[g] = rank[g] /\ rank[g] \in low .. high
      <3>1. rank[outer] \in low .. high
        BY <1>1, <1>3
      <3> QED
        BY <1>3, <2>9, <2>10, <3>1
    <2>12. ASSUME NEW g \in DOMAIN more, NEW k \in DOMAIN more[g].items, "group" \in DOMAIN more[g].items[k]
           PROVE  more[g].items[k].group \in DOMAIN more /\ above[more[g].items[k].group] < above[g]
      <3>1. CASE g = new
        <4>1. k \in DOMAIN groups[outer].items /\ more[g].items[k] = groups[outer].items[k]
          BY <2>2, <2>4, <2>9, <2>12, <3>1
        <4>2. more[g].items[k].group \in DOMAIN groups
          BY <1>1, <1>2, <2>12, <4>1 DEF Ranked
        <4> QED
          BY <1>3, <2>9, <2>11, <3>1, <4>2
      <3>2. CASE g \in DOMAIN groups
        <4>1. more[g].items[k].group \in DOMAIN groups /\ rank[more[g].items[k].group] < rank[g]
          BY <1>2, <2>9, <2>12, <3>2 DEF Ranked
        <4> QED
          BY <2>9, <2>11, <3>2, <4>1
      <3> QED
        BY <2>9, <3>1, <3>2
    <2>13. Ranked(more, above, low, high + 1)
      BY <1>3, <2>11, <2>12 DEF Ranked
    <2> QED
      BY <2>8, <2>13 DEF NoCircle
  <1>6. ASSUME NEW op \in Kinds, GroupStart(op) PROVE NoCircle'
    <2>1. PICK item : item = [group |-> Len(groups) + 1]
      OBVIOUS
    <2>2. "group" \in DOMAIN item /\ item.group = Len(groups) + 1 /\ item \in Items
      BY <1>1, <2>1, GroupTyped DEF Items
    <2>3. PICK group : group = [op |-> groups[current].op, items |-> Append(groups[current].items, item)]
      OBVIOUS
    <2>4. PICK filled : filled = [groups EXCEPT ![current] = group]
      OBVIOUS
    <2>5. FilledWith(groups, current, item, filled)
      BY <1>1, <2>2, <2>3, <2>4, FilledFacts
    <2>6. PICK made : made = [op |-> op, items |-> <<>>]
      OBVIOUS
    <2>7. made \in [op : Kinds, items : Seq(Items)] /\ made.items = <<>>
      BY <1>6, <2>6
    <2>8. groups' = Append(filled, made)
      BY <1>6, <2>1, <2>3, <2>4, <2>6 DEF GroupStart, Filled
    <2>9. MadeWith(filled, made, groups')
      BY <2>5, <2>7, <2>8, MadeFacts DEF FilledWith
    <2>10. PICK more, new : more = groups' /\ new = Len(groups) + 1
      OBVIOUS
    <2>11. DOMAIN more = DOMAIN groups \cup {new} /\ new \notin DOMAIN groups /\ more[new].items = <<>> /\ \A g \in DOMAIN groups : more[g] = filled[g]
      BY <2>5, <2>7, <2>9, <2>10 DEF MadeWith, FilledWith
    <2>12. PICK below : below = [g \in DOMAIN more |-> IF g = new THEN low - 1 ELSE rank[g]]
      OBVIOUS
    <2>13. below \in [DOMAIN more -> low - 1 .. high] /\ below[new] = low - 1 /\ \A g \in DOMAIN groups : below[g] = rank[g] /\ rank[g] \in low .. high
      <3>1. rank[outer] \in low .. high
        BY <1>1, <1>3
      <3> QED
        BY <1>3, <2>11, <2>12, <3>1
    <2>14. ASSUME NEW g \in DOMAIN more, NEW k \in DOMAIN more[g].items, "group" \in DOMAIN more[g].items[k]
           PROVE  more[g].items[k].group \in DOMAIN more /\ below[more[g].items[k].group] < below[g]
      <3>1. g \in DOMAIN groups /\ more[g] = filled[g]
        BY <2>11, <2>14
      <3>2. CASE more[g].items[k] = item
        <4>1. more[g].items[k].group = new
          BY <2>2, <2>10, <3>2
        <4> QED
          BY <1>3, <2>11, <2>13, <3>1, <4>1
      <3>3. CASE k \in DOMAIN groups[g].items
        <4>1. more[g].items[k] = groups[g].items[k]
          BY <2>5, <3>1, <3>3 DEF FilledWith
        <4>2. more[g].items[k].group \in DOMAIN groups /\ rank[more[g].items[k].group] < rank[g]
          BY <1>2, <2>14, <3>1, <3>3, <4>1 DEF Ranked
        <4> QED
          BY <2>11, <2>13, <3>1, <4>2
      <3> QED
        BY <2>5, <2>14, <3>1, <3>2, <3>3 DEF FilledWith
    <2>15. Ranked(more, below, low - 1, high)
      BY <1>3, <2>13, <2>14 DEF Ranked
    <2> QED
      BY <2>10, <2>15 DEF NoCircle
  <1>7. CASE GroupEnd \/ UNCHANGED queryVars
    <2>1. groups' = groups
      BY <1>7 DEF GroupEnd, queryVars
    <2>2. PICK more : more = groups'
      OBVIOUS
    <2> QED
      BY <1>2, <2>1 DEF NoCircle, Ranked
  <1> QED
    BY <1>4, <1>5, <1>6, <1>7 DEF QueryNext, Kinds

\* No group of a query comes to hold itself, directly or in a group that it holds (NoCircle),
\* however or_where shares groups and group_start puts new ones into those that are open:
\* ConditionGroup.evaluate, which calls itself for the groups it holds, always returns.
THEOREM GroupsNeverCircle == QuerySpec => []NoCircle
  <1>1. QueryInit => BuilderInv /\ NoCircle
    BY BuilderStarts, CircleStarts
  <1>2. BuilderInv /\ NoCircle /\ [QueryNext]_queryVars => (BuilderInv /\ NoCircle)'
    BY BuilderStep, CircleStep
  <1> QED
    BY <1>1, <1>2, PTL DEF QuerySpec
=====================================================================================
