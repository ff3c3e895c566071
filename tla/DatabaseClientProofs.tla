--------------------------- MODULE DatabaseClientProofs ---------------------------
(***************************************************************************)
(* PendingOwned, RepairUnderWay and ConnectedIsRead of DatabaseClient, for *)
(* any number of tasks, sockets, calls and faults.  PendingOwned needs     *)
(* Numbered, without which an answer could resolve a future that a task of *)
(* another call awaits; RepairUnderWay needs PendingOwned, without which   *)
(* it could take a task that connects for one that has its answer.         *)
(***************************************************************************)
EXTENDS DatabaseClient, TLAPS

FlagsTyped == connected \in BOOLEAN /\ up \in BOOLEAN

CountersTyped == spawned \in Nat /\ faults \in 0 .. MaxFaults /\ calls \in 0 .. MaxCalls

ClientTyped ==
    /\ ws \in Sockets \cup {0} /\ receiveTask \in Sockets \cup {0}
    /\ repair \in {"no", "sleeping", "connecting"}

CloserTyped ==
    /\ closer \in [at : {"no", "cancelling", "closing", "done"}, socket : Sockets \cup {0}]
    /\ closer.at = "closing" <=> closer.socket # 0

LoopsTyped ==
    /\ loop \in [Sockets -> {"ended", "created", "reading"}]
    /\ reads \in [Sockets -> Sockets \cup {0}]
    /\ \A l \in Sockets : loop[l] = "reading" => reads[l] # 0

TasksTyped ==
    /\ pc \in [Tasks -> {"idle", "connecting", "waiting", "answered", "failed"}]
    /\ call \in [Tasks -> [number : Nat, sends : BOOLEAN]]

SocketsTyped == socket \in [Sockets -> {"open", "closed", "lost"}]

AskedTyped ==
    /\ asked \in [Sockets -> SUBSET (1 .. calls)]
    /\ pending \subseteq 1 .. calls

\* A task has the number of a call exactly while it is in one.
Numbered ==
    \A t \in Tasks :
        IF pc[t] = "idle" THEN call[t].number = 0 ELSE call[t].number \in 1 .. calls

TasksOK == CountersTyped /\ TasksTyped /\ AskedTyped /\ Numbered /\ PendingOwned

IInv ==
    /\ FlagsTyped /\ ClientTyped /\ CloserTyped /\ LoopsTyped /\ SocketsTyped
    /\ TasksOK /\ RepairUnderWay /\ ConnectedIsRead

-----------------------------------------------------------------------------
(* The types *)

\* A set of a family gets another element.
LEMMA Enlarged ==
    ASSUME NEW D, NEW N, NEW f \in [D -> SUBSET N], NEW d, NEW x \in N
    PROVE  [f EXCEPT ![d] = @ \cup {x}] \in [D -> SUBSET N]
  OBVIOUS

\* The flags stay flags.
LEMMA FlagsStep ==
    ASSUME FlagsTyped, Next PROVE FlagsTyped'
  <1> USE DEF client, loops, tasks, world, Sockets, FlagsTyped
  <1>1. ASSUME NEW t \in Tasks, Begin(t) \/ GoOn(t) PROVE FlagsTyped'
    BY <1>1 DEF Begin, GoOn, Request, BeginConnect, ConnectDone, Resume, Timeout, May, End, Opens, ConnectFails
  <1>2. ASSUME NEW l \in Sockets, Loop(l) \/ Deliver(l) PROVE FlagsTyped'
    BY <1>2 DEF Loop, LoopStarts, LoopEnds, LoopFails, Deliver
  <1>3. ASSUME Repair PROVE FlagsTyped'
    BY <1>3 DEF Repair, RepairStarts, RepairWakes, RepairDone, Opens, ConnectFails
  <1>4. ASSUME Disconnect \/ Close PROVE FlagsTyped'
    BY <1>4 DEF Disconnect, Close, LoopCancelled, SocketCloses, CloseSocket, FailPending, Reading
  <1>5. ASSUME ServerStops \/ ServerStarts \/ \E s \in Sockets : ConnectionLost(s) PROVE FlagsTyped'
    BY <1>5 DEF ServerStops, ServerStarts, ConnectionLost, Fault
  <1> QED
    BY <1>1, <1>2, <1>3, <1>4, <1>5 DEF Next

\* The counters stay within their bounds: a repair task starts only if one was spawned.
LEMMA CountersStep ==
    ASSUME CountersTyped, Next PROVE CountersTyped'
  <1> USE DatabaseClientAssumption DEF client, loops, tasks, world, Sockets, CountersTyped
  <1>1. ASSUME NEW t \in Tasks, Begin(t) \/ GoOn(t) PROVE CountersTyped'
    BY <1>1 DEF Begin, GoOn, Request, BeginConnect, ConnectDone, Resume, Timeout, May, End, Opens, ConnectFails
  <1>2. ASSUME NEW l \in Sockets, Loop(l) \/ Deliver(l) PROVE CountersTyped'
    BY <1>2 DEF Loop, LoopStarts, LoopEnds, LoopFails, Deliver
  <1>3. ASSUME Repair PROVE CountersTyped'
    BY <1>3 DEF Repair, RepairStarts, RepairWakes, RepairDone, Opens, ConnectFails
  <1>4. ASSUME Disconnect \/ Close PROVE CountersTyped'
    BY <1>4 DEF Disconnect, Close, LoopCancelled, SocketCloses, CloseSocket, FailPending, Reading
  <1>5. ASSUME ServerStops \/ ServerStarts \/ \E s \in Sockets : ConnectionLost(s) PROVE CountersTyped'
    BY <1>5 DEF ServerStops, ServerStarts, ConnectionLost, Fault
  <1> QED
    BY <1>1, <1>2, <1>3, <1>4, <1>5 DEF Next

\* _ws and _receive_task stay sockets or None.
LEMMA ClientStep ==
    ASSUME ClientTyped, Next PROVE ClientTyped'
  <1> USE DEF client, loops, tasks, world, Sockets, ClientTyped
  <1>1. ASSUME NEW t \in Tasks, Begin(t) \/ GoOn(t) PROVE ClientTyped'
    BY <1>1 DEF Begin, GoOn, Request, BeginConnect, ConnectDone, Resume, Timeout, May, End, Opens, ConnectFails
  <1>2. ASSUME NEW l \in Sockets, Loop(l) \/ Deliver(l) PROVE ClientTyped'
    BY <1>2 DEF Loop, LoopStarts, LoopEnds, LoopFails, Deliver
  <1>3. ASSUME Repair PROVE ClientTyped'
    BY <1>3 DEF Repair, RepairStarts, RepairWakes, RepairDone, Opens, ConnectFails
  <1>4. ASSUME Disconnect \/ Close PROVE ClientTyped'
    BY <1>4 DEF Disconnect, Close, LoopCancelled, SocketCloses, CloseSocket, FailPending, Reading
  <1>5. ASSUME ServerStops \/ ServerStarts \/ \E s \in Sockets : ConnectionLost(s) PROVE ClientTyped'
    BY <1>5 DEF ServerStops, ServerStarts, ConnectionLost, Fault
  <1> QED
    BY <1>1, <1>2, <1>3, <1>4, <1>5 DEF Next

\* disconnect holds a socket exactly while it closes it.
LEMMA CloserStep ==
    ASSUME CloserTyped, ClientTyped, Next PROVE CloserTyped'
  <1> USE DEF client, loops, tasks, world, Sockets, CloserTyped, ClientTyped
  <1>1. ASSUME NEW t \in Tasks, Begin(t) \/ GoOn(t) PROVE CloserTyped'
    BY <1>1 DEF Begin, GoOn, Request, BeginConnect, ConnectDone, Resume, Timeout, May, End, Opens, ConnectFails
  <1>2. ASSUME NEW l \in Sockets, Loop(l) \/ Deliver(l) PROVE CloserTyped'
    BY <1>2 DEF Loop, LoopStarts, LoopEnds, LoopFails, Deliver
  <1>3. ASSUME Repair PROVE CloserTyped'
    BY <1>3 DEF Repair, RepairStarts, RepairWakes, RepairDone, Opens, ConnectFails
  <1>4. ASSUME Disconnect \/ Close PROVE CloserTyped'
    BY <1>4 DEF Disconnect, Close, LoopCancelled, SocketCloses, CloseSocket, FailPending, Reading
  <1>5. ASSUME ServerStops \/ ServerStarts \/ \E s \in Sockets : ConnectionLost(s) PROVE CloserTyped'
    BY <1>5 DEF ServerStops, ServerStarts, ConnectionLost, Fault
  <1> QED
    BY <1>1, <1>2, <1>3, <1>4, <1>5 DEF Next

\* A loop that reads has a socket.
LEMMA LoopsStep ==
    ASSUME ClientTyped, LoopsTyped, Next PROVE LoopsTyped'
  <1> USE DEF client, loops, tasks, world, Sockets, ClientTyped, LoopsTyped
  <1>1. ASSUME NEW t \in Tasks, Begin(t) \/ GoOn(t) PROVE LoopsTyped'
    BY <1>1 DEF Begin, GoOn, Request, BeginConnect, ConnectDone, Resume, Timeout, May, End, Opens, ConnectFails
  <1>2. ASSUME NEW l \in Sockets, Loop(l) \/ Deliver(l) PROVE LoopsTyped'
    BY <1>2 DEF Loop, LoopStarts, LoopEnds, LoopFails, Deliver
  <1>3. ASSUME Repair PROVE LoopsTyped'
    BY <1>3 DEF Repair, RepairStarts, RepairWakes, RepairDone, Opens, ConnectFails
  <1>4. ASSUME Disconnect \/ Close PROVE LoopsTyped'
    BY <1>4 DEF Disconnect, Close, LoopCancelled, SocketCloses, CloseSocket, FailPending, Reading
  <1>5. ASSUME ServerStops \/ ServerStarts \/ \E s \in Sockets : ConnectionLost(s) PROVE LoopsTyped'
    BY <1>5 DEF ServerStops, ServerStarts, ConnectionLost, Fault
  <1> QED
    BY <1>1, <1>2, <1>3, <1>4, <1>5 DEF Next

\* The sockets stay sockets.
LEMMA SocketsStep ==
    ASSUME SocketsTyped, Next PROVE SocketsTyped'
  <1> USE DEF client, loops, tasks, world, Sockets, SocketsTyped
  <1>1. ASSUME NEW t \in Tasks, Begin(t) \/ GoOn(t) PROVE SocketsTyped'
    BY <1>1 DEF Begin, GoOn, Request, BeginConnect, ConnectDone, Resume, Timeout, May, End, Opens, ConnectFails
  <1>2. ASSUME NEW l \in Sockets, Loop(l) \/ Deliver(l) PROVE SocketsTyped'
    BY <1>2 DEF Loop, LoopStarts, LoopEnds, LoopFails, Deliver
  <1>3. ASSUME Repair PROVE SocketsTyped'
    BY <1>3 DEF Repair, RepairStarts, RepairWakes, RepairDone, Opens, ConnectFails
  <1>4. ASSUME Disconnect \/ Close PROVE SocketsTyped'
    BY <1>4 DEF Disconnect, Close, LoopCancelled, SocketCloses, CloseSocket, FailPending, Reading
  <1>5. ASSUME ServerStops \/ ServerStarts \/ \E s \in Sockets : ConnectionLost(s) PROVE SocketsTyped'
    BY <1>5 DEF ServerStops, ServerStarts, ConnectionLost, Fault
  <1> QED
    BY <1>1, <1>2, <1>3, <1>4, <1>5 DEF Next

\* Requests and futures have numbers of calls that were made.
LEMMA AskedStep ==
    ASSUME CountersTyped, TasksTyped, AskedTyped, Numbered, Next PROVE AskedTyped'
  <1> USE DatabaseClientAssumption DEF client, loops, tasks, world, Sockets, CountersTyped, TasksTyped, AskedTyped, Numbered
  <1>1. ASSUME NEW t \in Tasks, Begin(t) \/ GoOn(t) PROVE AskedTyped'
    <2>1. ASSUME Request(t) PROVE AskedTyped'
      <3>1. calls' = calls + 1 /\ 1 .. calls \subseteq 1 .. calls' /\ calls + 1 \in 1 .. calls'
        BY <2>1 DEF Request, May
      <3>2. asked \in [Sockets -> SUBSET (1 .. calls')] /\ pending \subseteq 1 .. calls'
        BY <3>1
      <3>3. asked' = asked \/ asked' = [asked EXCEPT ![ws] = @ \cup {calls + 1}]
        BY <2>1 DEF Request
      <3>4. asked' \in [Sockets -> SUBSET (1 .. calls')]
        <4>1. calls + 1 \in 1 .. calls' /\ asked \in [Sockets -> SUBSET (1 .. calls')]
          BY <3>1, <3>2
        <4>2. [asked EXCEPT ![ws] = @ \cup {calls + 1}] \in [Sockets -> SUBSET (1 .. calls')]
          BY ONLY <4>1, Enlarged
        <4> QED
          BY ONLY <4>1, <4>2, <3>3
      <3>5. pending' = pending \/ pending' = pending \cup {calls + 1}
        BY <2>1 DEF Request
      <3> QED
        BY <3>1, <3>2, <3>4, <3>5
    <2>2. ASSUME NEW sends \in BOOLEAN, BeginConnect(t, sends) PROVE AskedTyped'
      BY <2>2 DEF BeginConnect, May
    <2>3. ASSUME ConnectDone(t) PROVE AskedTyped'
      <3>1. call[t].number \in 1 .. calls
        BY <2>3 DEF ConnectDone
      <3>2. calls' = calls
        BY <2>3 DEF ConnectDone
      <3>3. ASSUME NEW sent \in SUBSET (1 .. calls), Opens(sent) PROVE asked' \in [Sockets -> SUBSET (1 .. calls)]
        BY <3>3 DEF Opens
      <3>4. CASE ConnectFails
        BY <2>3, <3>2, <3>4 DEF ConnectFails
      <3>5. CASE Opens({call[t].number}) /\ pending' = pending \cup {call[t].number}
        BY <3>1, <3>2, <3>3, <3>5
      <3>6. CASE Opens({}) /\ pending' = pending
        BY <3>2, <3>3, <3>6
      <3> QED
        BY <2>3, <3>4, <3>5, <3>6 DEF ConnectDone
    <2>4. ASSUME Resume(t) \/ Timeout(t) PROVE AskedTyped'
      BY <2>4 DEF Resume, Timeout
    <2> QED
      BY <1>1, <2>1, <2>2, <2>3, <2>4 DEF Begin, GoOn
  <1>2. ASSUME NEW l \in Sockets, Loop(l) \/ Deliver(l) PROVE AskedTyped'
    BY <1>2 DEF Loop, LoopStarts, LoopEnds, LoopFails, Deliver
  <1>3. ASSUME Repair PROVE AskedTyped'
    BY <1>3 DEF Repair, RepairStarts, RepairWakes, RepairDone, Opens, ConnectFails
  <1>4. ASSUME Disconnect \/ Close PROVE AskedTyped'
    BY <1>4 DEF Disconnect, Close, LoopCancelled, SocketCloses, CloseSocket, FailPending, Reading
  <1>5. ASSUME ServerStops \/ ServerStarts \/ \E s \in Sockets : ConnectionLost(s) PROVE AskedTyped'
    BY <1>5 DEF ServerStops, ServerStarts, ConnectionLost, Fault
  <1> QED
    BY <1>1, <1>2, <1>3, <1>4, <1>5 DEF Next

-----------------------------------------------------------------------------
(* The futures *)

\* A task goes to another place with the number of another call, or of none.
LEMMA TaskMoves ==
    ASSUME TasksTyped, NEW t \in Tasks, NEW n \in Nat, NEW b \in BOOLEAN,
           NEW p \in {"idle", "connecting", "waiting", "answered", "failed"},
           call' = [call EXCEPT ![t] = [number |-> n, sends |-> b]], pc' = [pc EXCEPT ![t] = p]
    PROVE  /\ TasksTyped'
           /\ pc'[t] = p /\ call'[t].number = n
           /\ \A u \in Tasks : u # t => pc'[u] = pc[u] /\ call'[u] = call[u]
  <1>1. [number |-> n, sends |-> b] \in [number : Nat, sends : BOOLEAN]
    OBVIOUS
  <1>2. call' \in [Tasks -> [number : Nat, sends : BOOLEAN]]
    BY <1>1 DEF TasksTyped
  <1> QED
    BY <1>2 DEF TasksTyped

\* A call begins: its number is new.
LEMMA CallBegins ==
    ASSUME TasksOK, NEW t \in Tasks, pc[t] = "idle", calls' = calls + 1, NEW b \in BOOLEAN,
           NEW p \in {"connecting", "waiting"},
           call' = [call EXCEPT ![t] = [number |-> calls + 1, sends |-> b]], pc' = [pc EXCEPT ![t] = p],
           pending' = pending \cup (IF p = "waiting" THEN {calls + 1} ELSE {})
    PROVE  TasksTyped' /\ Numbered' /\ PendingOwned'
  <1> USE DatabaseClientAssumption DEF TasksOK, CountersTyped
  <1>1. calls \in Nat
    OBVIOUS
  <1>2. /\ TasksTyped' /\ pc'[t] = p /\ call'[t].number = calls + 1
        /\ \A u \in Tasks : u # t => pc'[u] = pc[u] /\ call'[u] = call[u]
    <2>1. calls + 1 \in Nat /\ p \in {"idle", "connecting", "waiting", "answered", "failed"}
      BY <1>1
    <2> QED
      BY <2>1, TaskMoves
  <1>3. Numbered'
    BY <1>1, <1>2 DEF Numbered
  <1>4. \A u \in Tasks : call[u].number # calls + 1
    BY <1>1 DEF Numbered
  <1> QED
    BY <1>2, <1>3, <1>4 DEF PendingOwned

\* A call ends, and its future is not kept.
LEMMA CallEnds ==
    ASSUME TasksOK, NEW t \in Tasks, pc[t] # "idle", End(t), calls' = calls,
           pending' = pending \ {call[t].number} \/ (pc[t] # "waiting" /\ pending' = pending)
    PROVE  TasksTyped' /\ Numbered' /\ PendingOwned'
  <1> USE DEF TasksOK
  <1>1. /\ TasksTyped' /\ pc'[t] = "idle" /\ call'[t].number = 0
        /\ \A u \in Tasks : u # t => pc'[u] = pc[u] /\ call'[u] = call[u]
    BY TaskMoves DEF End, NoCall
  <1>2. Numbered'
    BY <1>1 DEF Numbered
  <1>3. \A u \in Tasks : u # t /\ pc[u] = "waiting" => call[u].number # call[t].number
    BY DEF PendingOwned
  <1>4. {u \in Tasks : pc'[u] = "waiting"} = {u \in Tasks : pc[u] = "waiting"} \ {t}
    BY <1>1
  <1> QED
    BY <1>1, <1>2, <1>3, <1>4 DEF PendingOwned

\* The calls and the futures are left alone.
LEMMA TasksUntouched ==
    ASSUME TasksOK, UNCHANGED <<pc, call, pending>>, calls' = calls \/ calls' = calls + 1
    PROVE  TasksTyped' /\ Numbered' /\ PendingOwned'
  BY DatabaseClientAssumption DEF TasksOK, CountersTyped, TasksTyped, Numbered, PendingOwned

\* A future is resolved, or all are.
LEMMA FuturesResolved ==
    ASSUME TasksOK, UNCHANGED <<call, calls>>, NEW done \in SUBSET Nat, NEW p \in {"answered", "failed"},
           pending' = pending \ done,
           pc' = [t \in Tasks |-> IF pc[t] = "waiting" /\ call[t].number \in done THEN p ELSE pc[t]]
    PROVE  TasksTyped' /\ Numbered' /\ PendingOwned'
  <1> USE DEF TasksOK
  <1>1. TasksTyped'
    BY DEF TasksTyped
  <1>2. Numbered'
    BY DEF Numbered, TasksTyped
  <1>3. {t \in Tasks : pc'[t] = "waiting"}
          = {t \in {u \in Tasks : pc[u] = "waiting"} : call[t].number \notin done}
    OBVIOUS
  <1>4. \A t \in Tasks : pc'[t] # "idle" <=> pc[t] # "idle"
    OBVIOUS
  <1> QED
    BY <1>1, <1>2, <1>3, <1>4 DEF PendingOwned

\* No step takes the future of a waiting request away without resolving it, or leaves
\* one behind.
LEMMA TasksStep ==
    ASSUME TasksOK, Next PROVE TasksTyped' /\ Numbered' /\ PendingOwned'
  <1> DEFINE OK == TasksTyped /\ Numbered /\ PendingOwned
  <1> USE DEF client, loops, tasks, world
  <1>1. ASSUME NEW t \in Tasks, Request(t) PROVE OK'
    <2>1. pc[t] = "idle" /\ calls' = calls + 1
      BY <1>1 DEF Request, May
    <2>2. CASE socket[ws] = "open"
      BY <1>1, <2>1, <2>2, CallBegins DEF Request
    <2>3. CASE socket[ws] # "open"
      BY <1>1, <2>1, <2>3, TasksUntouched DEF Request
    <2> QED BY <2>2, <2>3
  <1>2. ASSUME NEW t \in Tasks, NEW sends \in BOOLEAN, BeginConnect(t, sends) PROVE OK'
    <2>1. pending' = pending \cup (IF "connecting" = "waiting" THEN {calls + 1} ELSE {})
      BY <1>2 DEF BeginConnect
    <2> QED
      BY <1>2, <2>1, CallBegins DEF BeginConnect, May
  <1>3. ASSUME NEW t \in Tasks, ConnectDone(t) PROVE OK'
    <2>1. CASE End(t)
      <3>1. pc[t] = "connecting" /\ calls' = calls
        BY <1>3 DEF ConnectDone
      <3>2. pending' = pending
        BY <1>3, <2>1, <3>1 DEF ConnectDone, ConnectFails, End, TasksOK, TasksTyped
      <3> QED
        BY <2>1, <3>1, <3>2, CallEnds
    <2>2. CASE /\ pending' = pending \cup {call[t].number} /\ call' = call
               /\ pc' = [pc EXCEPT ![t] = "waiting"]
      <3> USE DEF TasksOK
      <3>1. pc[t] = "connecting" /\ calls' = calls
        BY <1>3 DEF ConnectDone
      <3>2. TasksTyped' /\ Numbered'
        BY <2>2, <3>1 DEF TasksTyped, Numbered
      <3>3. {u \in Tasks : pc'[u] = "waiting"} = {u \in Tasks : pc[u] = "waiting"} \cup {t}
        BY <2>2 DEF TasksTyped
      <3>4. \A u \in Tasks : pc'[u] # "idle" <=> pc[u] # "idle"
        BY <2>2, <3>1 DEF TasksTyped
      <3> QED
        BY <2>2, <3>2, <3>3, <3>4 DEF PendingOwned
    <2> QED
      BY <1>3, <2>1, <2>2 DEF ConnectDone
  <1>4. ASSUME NEW t \in Tasks, Resume(t) \/ Timeout(t) PROVE OK'
    BY <1>4, CallEnds DEF Resume, Timeout, TasksOK, TasksTyped
  <1>5. ASSUME NEW l \in Sockets, Loop(l) PROVE OK'
    BY <1>5, TasksUntouched DEF Loop, LoopStarts, LoopEnds, LoopFails
  <1>6. ASSUME NEW l \in Sockets, Deliver(l) PROVE OK'
    <2>1. PICK n \in asked[reads[l]] :
            /\ pending' = pending \ {n}
            /\ pc' = [t \in Tasks |-> IF n \in pending /\ call[t].number = n THEN "answered" ELSE pc[t]]
      BY <1>6 DEF Deliver
    <2>2. CASE n \in pending
      <3>1. n \in Nat
        BY <2>2, DatabaseClientAssumption DEF TasksOK, AskedTyped, CountersTyped
      <3>2. \A t \in Tasks : call[t].number = n => pc[t] = "waiting"
        BY <2>2, <3>1 DEF TasksOK, AskedTyped, PendingOwned, Numbered
      <3>3. pc' = [t \in Tasks |-> IF pc[t] = "waiting" /\ call[t].number \in {n} THEN "answered" ELSE pc[t]]
        BY <2>1, <2>2, <3>2
      <3>4. {n} \in SUBSET Nat
        BY <3>1
      <3> QED
        BY <1>6, <2>1, <3>3, <3>4, FuturesResolved DEF Deliver
    <2>3. CASE n \notin pending
      <3>1. pending' = pending /\ pc' = pc
        BY <2>1, <2>3 DEF TasksOK, TasksTyped
      <3> QED
        BY <1>6, <3>1, TasksUntouched DEF Deliver
    <2> QED BY <2>2, <2>3
  <1>7. CASE Repair
    BY <1>7, TasksUntouched DEF Repair, RepairStarts, RepairWakes, RepairDone, ConnectFails
  <1>8. ASSUME FailPending, UNCHANGED <<call, calls>> PROVE OK'
    <2>1. pending' = pending \ Nat
      BY <1>8, DatabaseClientAssumption DEF FailPending, TasksOK, AskedTyped, CountersTyped
    <2>2. pc' = [t \in Tasks |-> IF pc[t] = "waiting" /\ call[t].number \in Nat THEN "failed" ELSE pc[t]]
      BY <1>8 DEF FailPending, TasksOK, TasksTyped
    <2> QED
      BY <1>8, <2>1, <2>2, FuturesResolved
  <1>9. CASE Disconnect
    BY <1>9, <1>8, TasksUntouched DEF Disconnect, CloseSocket
  <1>10. CASE Close
    BY <1>10, <1>8, TasksUntouched DEF Close, LoopCancelled, SocketCloses, CloseSocket
  <1>11. CASE ServerStops \/ ServerStarts \/ \E s \in Sockets : ConnectionLost(s)
    BY <1>11, TasksUntouched DEF ServerStops, ServerStarts, ConnectionLost
  <1> QED
    BY <1>1, <1>2, <1>3, <1>4, <1>5, <1>6, <1>7, <1>9, <1>10, <1>11 DEF Next, Begin, GoOn

-----------------------------------------------------------------------------
(* The connection *)

\* Whoever gives up a connection or an attempt leaves somebody who will try again.
LEMMA RepairStep ==
    ASSUME ClientTyped, CloserTyped, TasksOK, RepairUnderWay, Next PROVE RepairUnderWay'
  <1> USE DEF client, loops, tasks, world, Sockets, ClientTyped, CloserTyped,
          TasksOK, CountersTyped, TasksTyped, RepairUnderWay
  <1>1. ASSUME NEW t \in Tasks, Begin(t) \/ GoOn(t) PROVE RepairUnderWay'
    BY <1>1 DEF Begin, GoOn, Request, BeginConnect, ConnectDone, Resume, Timeout, May, End, Opens, ConnectFails
  <1>2. ASSUME NEW l \in Sockets, Loop(l) \/ Deliver(l) PROVE RepairUnderWay'
    <2>1. CASE Loop(l)
      BY <2>1 DEF Loop, LoopStarts, LoopEnds, LoopFails
    <2>2. CASE Deliver(l)
      <3>1. \A t \in Tasks : pc[t] = "connecting" => pc'[t] = "connecting"
        BY <2>2 DEF Deliver, Numbered, PendingOwned
      <3> QED
        BY <2>2, <3>1 DEF Deliver
    <2> QED
      BY <1>2, <2>1, <2>2
  <1>3. ASSUME Repair PROVE RepairUnderWay'
    BY <1>3 DEF Repair, RepairStarts, RepairWakes, RepairDone, Opens, ConnectFails
  <1>4. ASSUME Disconnect \/ Close PROVE RepairUnderWay'
    BY <1>4 DEF Disconnect, Close, LoopCancelled, SocketCloses, CloseSocket, FailPending, Reading
  <1>5. ASSUME ServerStops \/ ServerStarts \/ \E s \in Sockets : ConnectionLost(s) PROVE RepairUnderWay'
    BY <1>5 DEF ServerStops, ServerStarts, ConnectionLost, Fault
  <1> QED
    BY <1>1, <1>2, <1>3, <1>4, <1>5 DEF Next

\* A connection that opens has a loop about to start.
LEMMA OpensRead ==
    ASSUME LoopsTyped, NEW sent, Opens(sent) PROVE ConnectedIsRead'
  BY DEF Opens, LoopsTyped, ConnectedIsRead, Sockets

\* What a step that touches neither the connection nor the loops, or gives the
\* connection up, may do.
LEMMA ReadKept ==
    ASSUME ConnectedIsRead, ClientTyped, SocketsTyped, connected' = connected \/ connected' = FALSE,
           closer'.at = closer.at, UNCHANGED <<ws, loops>>,
           \A s \in Sockets : socket[s] = "closed" => socket'[s] = "closed"
    PROVE  ConnectedIsRead'
  BY DEF ConnectedIsRead, ClientTyped, loops

\* A loop that ends marks the client as not connected, unless the socket was closed.
LEMMA ReadStep ==
    ASSUME ClientTyped, CloserTyped, LoopsTyped, SocketsTyped, ConnectedIsRead, Next PROVE ConnectedIsRead'
  <1> USE DEF client, loops, tasks, world
  <1>1. ASSUME NEW t \in Tasks, Begin(t) \/ GoOn(t) PROVE ConnectedIsRead'
    <2>1. ASSUME ConnectDone(t) PROVE ConnectedIsRead'
      BY <2>1, OpensRead, ReadKept DEF ConnectDone, ConnectFails
    <2>2. ASSUME Begin(t) \/ Resume(t) \/ Timeout(t) PROVE ConnectedIsRead'
      BY <2>2, ReadKept DEF Begin, Request, BeginConnect, Resume, Timeout
    <2> QED
      BY <1>1, <2>1, <2>2 DEF GoOn
  <1>2. ASSUME NEW l \in Sockets, Loop(l) \/ Deliver(l) PROVE ConnectedIsRead'
    BY <1>2 DEF Loop, LoopStarts, LoopEnds, LoopFails, Deliver,
                ClientTyped, CloserTyped, LoopsTyped, SocketsTyped, ConnectedIsRead, Sockets
  <1>3. ASSUME Repair PROVE ConnectedIsRead'
    BY <1>3, OpensRead, ReadKept DEF Repair, RepairStarts, RepairWakes, RepairDone, ConnectFails
  <1>4. ASSUME Disconnect \/ Close PROVE ConnectedIsRead'
    <2>1. closer'.at # "no"
      BY <1>4 DEF Disconnect, Close, LoopCancelled, SocketCloses, CloseSocket, FailPending
    <2> QED
      BY <2>1 DEF ConnectedIsRead
  <1>5. ASSUME ServerStops \/ ServerStarts \/ \E s \in Sockets : ConnectionLost(s) PROVE ConnectedIsRead'
    <2>1. \A s \in Sockets : socket[s] = "closed" => socket'[s] = "closed"
      BY <1>5 DEF ServerStops, ServerStarts, ConnectionLost, SocketsTyped
    <2> QED
      BY <1>5, <2>1, ReadKept DEF ServerStops, ServerStarts, ConnectionLost
  <1> QED
    BY <1>1, <1>2, <1>3, <1>4, <1>5 DEF Next

-----------------------------------------------------------------------------
\* The initial states satisfy the inductive invariant.
LEMMA InvInit == Init => IInv
  <1> SUFFICES ASSUME Init PROVE IInv
    OBVIOUS
  <1> USE DatabaseClientAssumption DEF Init, NoCall
  <1>1. FlagsTyped /\ ClientTyped /\ CloserTyped /\ LoopsTyped /\ SocketsTyped
    BY DEF FlagsTyped, ClientTyped, CloserTyped, LoopsTyped, SocketsTyped
  <1>2. TasksOK
    BY DEF TasksOK, CountersTyped, TasksTyped, AskedTyped, Numbered, PendingOwned
  <1> QED
    BY <1>1, <1>2 DEF IInv, RepairUnderWay, ConnectedIsRead

\* Every step keeps it.
LEMMA InvStep == IInv /\ [Next]_vars => IInv'
  <1> SUFFICES ASSUME IInv, [Next]_vars PROVE IInv'
    OBVIOUS
  <1> USE DEF IInv, TasksOK
  <1>1. CASE Next
    BY <1>1, FlagsStep, CountersStep, ClientStep, CloserStep, LoopsStep, SocketsStep, AskedStep, TasksStep,
       RepairStep, ReadStep
  <1>2. CASE UNCHANGED vars
    BY <1>2 DEF vars, client, loops, tasks, world, FlagsTyped, CountersTyped, ClientTyped, CloserTyped,
                LoopsTyped, SocketsTyped, TasksTyped, AskedTyped, Numbered, PendingOwned, RepairUnderWay,
                ConnectedIsRead
  <1> QED
    BY <1>1, <1>2

\* The inductive invariant holds in every state.
LEMMA Inductive == Spec => []IInv
  BY InvInit, InvStep, PTL DEF Spec

\* The inductive invariant contains the types.
LEMMA Types == IInv => TypeOK
  <1> SUFFICES ASSUME IInv PROVE TypeOK
    OBVIOUS
  <1> USE DEF IInv, TasksOK
  <1>1. call \in [Tasks -> [number : 0 .. calls, sends : BOOLEAN]]
    <2>1. ASSUME NEW t \in Tasks PROVE call[t] \in [number : 0 .. calls, sends : BOOLEAN]
      <3>1. call[t] \in [number : Nat, sends : BOOLEAN]
        BY DEF TasksTyped
      <3>2. call[t].number \in 0 .. calls
        BY DatabaseClientAssumption DEF Numbered, CountersTyped
      <3> QED BY <3>1, <3>2
    <2> QED BY <2>1 DEF TasksTyped
  <1> QED
    BY <1>1 DEF TypeOK, FlagsTyped, CountersTyped, ClientTyped, CloserTyped, LoopsTyped, TasksTyped,
                SocketsTyped, AskedTyped

\* The state of the client is always of its type.
THEOREM ClientTypeCorrect == Spec => []TypeOK
  BY Inductive, Types, PTL

\* _pending_requests holds the futures of exactly the requests that wait, whatever
\* answers, time-outs, reconnections and disconnect come together.
THEOREM FuturesOwned == Spec => []PendingOwned
  <1>1. IInv => PendingOwned
    BY DEF IInv, TasksOK
  <1> QED
    BY <1>1, Inductive, PTL

\* A client without a connection always has somebody who will try to get one.
THEOREM RepairAlwaysUnderWay == Spec => []RepairUnderWay
  <1>1. IInv => RepairUnderWay
    BY DEF IInv
  <1> QED
    BY <1>1, Inductive, PTL

\* A client that says it is connected has a loop for its socket, unless the server
\* closed that one normally.
THEOREM ConnectedAlwaysRead == Spec => []ConnectedIsRead
  <1>1. IInv => ConnectedIsRead
    BY DEF IInv
  <1> QED
    BY <1>1, Inductive, PTL
=============================================================================
