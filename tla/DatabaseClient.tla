---------------------------- MODULE DatabaseClient ----------------------------
(***************************************************************************)
(* DatabaseClient (src/src/database/engine/ws_client.py): the connection   *)
(* of one bot process to the database, used by many tasks, against a       *)
(* server that stops and starts and a network that loses connections.      *)
(*                                                                         *)
(* The coroutines are the callers of request and connect, one receive loop *)
(* per socket ever opened, the tasks that reconnect, and disconnect.  An   *)
(* action is the code of one of them between two suspensions.  No handler  *)
(* of the client's events is registered, so _emit never suspends, and      *)
(* max_reconnect_attempts is at its default, which sets no limit.          *)
(***************************************************************************)
EXTENDS Naturals, FiniteSets

CONSTANTS
    Tasks,        \* coroutines that use the client
    MaxSockets,   \* bound: sockets in use at a time
    MaxCalls,     \* bound: calls of request and connect
    MaxFaults     \* bound: times the server stops or a connection is lost

ASSUME DatabaseClientAssumption ==
    MaxSockets \in Nat /\ MaxCalls \in Nat /\ MaxFaults \in Nat

Sockets == 1 .. MaxSockets

VARIABLES
    connected,    \* _connected
    ws,           \* _ws: a socket, or 0 for None
    receiveTask,  \* _receive_task: the socket it was made for, 0 for None
    pending,      \* keys of _pending_requests: numbers of calls
    spawned,      \* _reconnect tasks that have not started yet
    repair,       \* the _reconnect task that holds _reconnecting
    closer,       \* where disconnect is
    loop,         \* the receive loop made with each socket
    reads,        \* the socket that loop reads
    pc,           \* where each task is
    call,         \* the number of each task's call, and whether it sends a request
    calls,        \* calls made so far
    socket,       \* the state of each socket
    asked,        \* requests sent over each socket whose answer was not read yet
    up,           \* the server accepts connections
    faults        \* faults so far

client == <<connected, ws, receiveTask, pending, spawned>>
loops  == <<loop, reads>>
tasks  == <<pc, call, calls>>
world  == <<socket, asked, up, faults>>
vars   == <<client, repair, closer, loops, tasks, world>>

NoCall == [number |-> 0, sends |-> FALSE]

Init ==
    /\ connected = FALSE /\ ws = 0 /\ receiveTask = 0 /\ pending = {} /\ spawned = 0
    /\ repair = "no" /\ closer = [at |-> "no", socket |-> 0]
    /\ loop = [s \in Sockets |-> "ended"] /\ reads = [s \in Sockets |-> 0]
    /\ pc = [t \in Tasks |-> "idle"] /\ call = [t \in Tasks |-> NoCall] /\ calls = 0
    /\ socket = [s \in Sockets |-> "closed"] /\ asked = [s \in Sockets |-> {}]
    /\ up \in BOOLEAN /\ faults = 0

-----------------------------------------------------------------------------
(* Opening a connection *)

\* The number of a socket that nothing in the process refers to any more, whether
\* or not it was ever closed, stands for a new one.
Free(s) ==
    /\ s # ws /\ s # closer.socket
    /\ loop[s] = "ended" /\ \A l \in Sockets : loop[l] = "reading" => reads[l] # s

\* websockets.connect returned: the new socket replaces whatever _ws was, and a
\* receive loop is created for it.  `sent` is what the same step sends over it.
Opens(sent) ==
    /\ up
    /\ \E s \in Sockets :
         /\ Free(s) /\ \A r \in 1 .. s - 1 : ~Free(r)
         /\ socket' = [socket EXCEPT ![s] = "open"]
         /\ asked' = [asked EXCEPT ![s] = sent]
         /\ ws' = s /\ connected' = TRUE /\ receiveTask' = s
         /\ loop' = [loop EXCEPT ![s] = "created"]
         /\ reads' = [reads EXCEPT ![s] = 0]
    /\ UNCHANGED <<spawned, up, faults>>

\* It raised: the server is down, or this attempt failed.
ConnectFails ==
    /\ \/ ~up /\ UNCHANGED faults
       \/ up /\ faults < MaxFaults /\ faults' = faults + 1
    /\ UNCHANGED <<ws, receiveTask, pending, loops, socket, asked, up>>

-----------------------------------------------------------------------------
(* request and connect *)

May(t) == pc[t] = "idle" /\ calls < MaxCalls /\ calls' = calls + 1

End(t) ==
    /\ pc' = [pc EXCEPT ![t] = "idle"]
    /\ call' = [call EXCEPT ![t] = NoCall]

\* A call that finds no connection opens one; request does, and so does the
\* registry's initialize.
BeginConnect(t, sends) ==
    /\ May(t)
    /\ ~connected
    /\ pc' = [pc EXCEPT ![t] = "connecting"]
    /\ call' = [call EXCEPT ![t] = [number |-> calls + 1, sends |-> sends]]
    /\ UNCHANGED <<client, repair, closer, loops, world>>

\* request over the connection there is: a future, and the message.  A socket
\* found closed makes send raise, and the future is taken back.
Request(t) ==
    /\ May(t)
    /\ connected /\ ws # 0
    /\ \/ /\ socket[ws] = "open"
          /\ asked' = [asked EXCEPT ![ws] = @ \cup {calls + 1}]
          /\ pending' = pending \cup {calls + 1}
          /\ pc' = [pc EXCEPT ![t] = "waiting"]
          /\ call' = [call EXCEPT ![t] = [number |-> calls + 1, sends |-> TRUE]]
       \/ socket[ws] # "open" /\ UNCHANGED <<asked, pending, pc, call>>
    /\ UNCHANGED <<connected, ws, receiveTask, spawned, repair, closer, loops, socket, up, faults>>

\* connect goes on in its caller, and request with it.
ConnectDone(t) ==
    /\ pc[t] = "connecting"
    /\ \/ /\ call[t].sends
          /\ Opens({call[t].number}) /\ pending' = pending \cup {call[t].number}
          /\ pc' = [pc EXCEPT ![t] = "waiting"] /\ UNCHANGED call
       \/ /\ ~call[t].sends
          /\ Opens({}) /\ UNCHANGED pending
          /\ End(t)
       \/ /\ ConnectFails
          /\ connected' = FALSE /\ spawned' = spawned + 1
          /\ End(t)
    /\ UNCHANGED <<repair, closer, calls>>

\* The future has its answer or its exception, and the caller goes on.
Resume(t) ==
    /\ pc[t] \in {"answered", "failed"}
    /\ End(t)
    /\ UNCHANGED <<client, repair, closer, loops, calls, world>>

\* Mutant: the future of a request that timed out is not taken out.
TimeoutKeepsFuture(t) ==
    /\ pc[t] \in {"waiting", "answered", "failed"}
    /\ End(t)
    /\ UNCHANGED <<client, repair, closer, loops, calls, world>>

\* wait_for gives up, even on a future resolved in the same turn of the loop.
Timeout(t) ==
    /\ pc[t] \in {"waiting", "answered", "failed"}
    /\ pending' = pending \ {call[t].number}
    /\ End(t)
    /\ UNCHANGED <<connected, ws, receiveTask, spawned, repair, closer, loops, calls, world>>

-----------------------------------------------------------------------------
(* _receive_loop *)

\* The end of a loop by an exception other than its cancellation.
LoopFails(l) ==
    /\ loop' = [loop EXCEPT ![l] = "ended"]
    /\ connected' = FALSE /\ spawned' = spawned + 1
    /\ UNCHANGED <<ws, receiveTask, pending>>

\* The task starts: it reads what _ws is by now.  Two loops cannot read one
\* socket, the second gets a ConcurrencyError.
LoopStarts(l) ==
    /\ loop[l] = "created"
    /\ \/ /\ ws = 0
          /\ loop' = [loop EXCEPT ![l] = "ended"] /\ UNCHANGED <<client, reads>>
       \/ /\ \E other \in Sockets : loop[other] = "reading" /\ reads[other] = ws
          /\ LoopFails(l) /\ UNCHANGED reads
       \/ /\ ws # 0 /\ \A other \in Sockets : loop[other] = "reading" => reads[other] # ws
          /\ loop' = [loop EXCEPT ![l] = "reading"]
          /\ reads' = [reads EXCEPT ![l] = ws] /\ UNCHANGED client
    /\ UNCHANGED <<repair, closer, tasks, world>>

\* An answer: the future of its request, if still there, is resolved.
Deliver(l) ==
    /\ loop[l] = "reading"
    /\ \E n \in asked[reads[l]] :
         /\ asked' = [asked EXCEPT ![reads[l]] = @ \ {n}]
         /\ pending' = pending \ {n}
         /\ pc' = [t \in Tasks |-> IF n \in pending /\ call[t].number = n THEN "answered" ELSE pc[t]]
    /\ UNCHANGED <<connected, ws, receiveTask, spawned, repair, closer, loops, call, calls,
                   socket, up, faults>>

\* Mutant: a lost connection is taken for a closed one.
LoopEndsQuietly(l) ==
    /\ loop[l] = "reading" /\ socket[reads[l]] # "open"
    /\ loop' = [loop EXCEPT ![l] = "ended"] /\ UNCHANGED <<client, reads>>
    /\ asked' = [asked EXCEPT ![reads[l]] = {}]
    /\ UNCHANGED <<repair, closer, tasks, socket, up, faults>>

\* The socket has no more messages.  `async for` ends without an exception when
\* the server closed it normally, and with ConnectionClosed when it was lost;
\* only then is anything noted.
LoopEnds(l) ==
    /\ loop[l] = "reading"
    /\ \/ /\ socket[reads[l]] = "closed"
          /\ loop' = [loop EXCEPT ![l] = "ended"] /\ UNCHANGED client
       \/ /\ socket[reads[l]] = "lost"
          /\ LoopFails(l)
    /\ asked' = [asked EXCEPT ![reads[l]] = {}]
    /\ UNCHANGED <<reads, repair, closer, tasks, socket, up, faults>>

-----------------------------------------------------------------------------
(* _reconnect *)

\* A task starts: it returns if another holds _reconnecting, or if the client is
\* connected, else it sleeps.
RepairStarts ==
    /\ spawned > 0 /\ spawned' = spawned - 1
    /\ repair' = IF repair # "no" \/ connected THEN repair ELSE "sleeping"
    /\ UNCHANGED <<connected, ws, receiveTask, pending, closer, loops, tasks, world>>

\* It connects after the sleep, whatever happened meanwhile.
RepairWakes ==
    /\ repair = "sleeping" /\ repair' = "connecting"
    /\ UNCHANGED <<client, closer, loops, tasks, world>>

\* Mutant: the loop is left after one attempt.
RepairTriesOnce ==
    /\ repair = "connecting" /\ repair' = "no"
    /\ \/ Opens({}) /\ UNCHANGED pending
       \/ ConnectFails /\ UNCHANGED <<connected, spawned>>
    /\ UNCHANGED <<closer, tasks>>

\* Mutant: success returns before _reconnecting is cleared.
RepairKeepsFlag ==
    /\ repair = "connecting"
    /\ \/ Opens({}) /\ UNCHANGED pending /\ repair' = "returned"
       \/ /\ ConnectFails /\ UNCHANGED <<connected, spawned>>
          /\ repair' = IF connected THEN "no" ELSE "sleeping"
    /\ UNCHANGED <<closer, tasks>>

RepairDone ==
    /\ repair = "connecting"
    /\ \/ Opens({}) /\ UNCHANGED pending /\ repair' = "no"
       \/ /\ ConnectFails /\ UNCHANGED <<connected, spawned>>
          /\ repair' = IF connected THEN "no" ELSE "sleeping"
    /\ UNCHANGED <<closer, tasks>>

-----------------------------------------------------------------------------
(* disconnect: the receive task is cancelled and awaited, the socket closed, the
   futures that are left fail.  _reconnect_task is always None. *)

FailPending ==
    /\ closer' = [at |-> "done", socket |-> 0]
    /\ ws' = 0 /\ pending' = {}
    /\ pc' = [t \in Tasks |-> IF pc[t] = "waiting" THEN "failed" ELSE pc[t]]

CloseSocket ==
    \/ /\ ws # 0 /\ closer' = [at |-> "closing", socket |-> ws]
       /\ UNCHANGED <<ws, pending, pc>>
    \/ ws = 0 /\ FailPending

Reading == receiveTask # 0 /\ loop[receiveTask] # "ended"

Disconnect ==
    /\ closer.at = "no" /\ calls > 0
    /\ connected' = FALSE
    /\ \/ /\ Reading
          /\ loop' = [loop EXCEPT ![receiveTask] = "ended"]
          /\ closer' = [at |-> "cancelling", socket |-> 0]
          /\ UNCHANGED <<ws, pending, pc>>
       \/ ~Reading /\ CloseSocket /\ UNCHANGED loop
    /\ UNCHANGED <<receiveTask, spawned, repair, reads, call, calls, world>>

LoopCancelled ==
    /\ closer.at = "cancelling"
    /\ CloseSocket
    /\ UNCHANGED <<connected, receiveTask, spawned, repair, loops, call, calls, world>>

SocketCloses ==
    /\ closer.at = "closing"
    /\ socket' = [socket EXCEPT ![closer.socket] = IF @ = "open" THEN "closed" ELSE @]
    /\ FailPending
    /\ UNCHANGED <<connected, receiveTask, spawned, repair, loops, call, calls, asked, up, faults>>

-----------------------------------------------------------------------------
(* The server and the network *)

Fault == faults < MaxFaults /\ faults' = faults + 1

\* The server shuts down and closes its connections, or dies.
ServerStops ==
    /\ up /\ Fault /\ up' = FALSE
    /\ \E how \in {"closed", "lost"} :
         socket' = [s \in Sockets |-> IF socket[s] = "open" THEN how ELSE socket[s]]
    /\ UNCHANGED <<client, repair, closer, loops, tasks, asked>>

ServerStarts ==
    /\ ~up /\ up' = TRUE
    /\ UNCHANGED <<client, repair, closer, loops, tasks, socket, asked, faults>>

\* A connection is lost, or its keepalive ping times out.
ConnectionLost(s) ==
    /\ socket[s] = "open" /\ Fault
    /\ socket' = [socket EXCEPT ![s] = "lost"]
    /\ UNCHANGED <<client, repair, closer, loops, tasks, asked, up>>

-----------------------------------------------------------------------------
Begin(t) == Request(t) \/ \E sends \in BOOLEAN : BeginConnect(t, sends)
GoOn(t)  == ConnectDone(t) \/ Resume(t) \/ Timeout(t)
Loop(l)  == LoopStarts(l) \/ LoopEnds(l)
Repair   == RepairStarts \/ RepairWakes \/ RepairDone
Close    == LoopCancelled \/ SocketCloses

Next ==
    \/ \E t \in Tasks : Begin(t) \/ GoOn(t)
    \/ \E l \in Sockets : Loop(l) \/ Deliver(l)
    \/ Repair \/ Disconnect \/ Close
    \/ ServerStops \/ ServerStarts \/ \E s \in Sockets : ConnectionLost(s)

Spec == Init /\ [][Next]_vars

\* The event loop runs whatever can run: attempts to connect, sleeps and time-outs
\* come to their end.  The server owes nothing.
FairSpec ==
    /\ Spec
    /\ \A t \in Tasks : WF_vars(GoOn(t))
    /\ \A l \in Sockets : WF_vars(Loop(l))
    /\ WF_vars(RepairStarts) /\ WF_vars(RepairWakes) /\ WF_vars(RepairDone) /\ WF_vars(Close)

-----------------------------------------------------------------------------
(* Properties *)

TypeOK ==
    /\ connected \in BOOLEAN /\ ws \in Sockets \cup {0} /\ receiveTask \in Sockets \cup {0}
    /\ pending \subseteq 1 .. calls /\ spawned \in Nat
    /\ repair \in {"no", "sleeping", "connecting"}
    /\ closer \in [at : {"no", "cancelling", "closing", "done"}, socket : Sockets \cup {0}]
    /\ closer.at = "closing" <=> closer.socket # 0
    /\ loop \in [Sockets -> {"ended", "created", "reading"}]
    /\ reads \in [Sockets -> Sockets \cup {0}]
    /\ \A l \in Sockets : loop[l] = "reading" => reads[l] # 0
    /\ pc \in [Tasks -> {"idle", "connecting", "waiting", "answered", "failed"}]
    /\ call \in [Tasks -> [number : 0 .. calls, sends : BOOLEAN]]
    /\ calls \in 0 .. MaxCalls
    /\ socket \in [Sockets -> {"open", "closed", "lost"}]
    /\ asked \in [Sockets -> SUBSET (1 .. calls)]
    /\ up \in BOOLEAN /\ faults \in 0 .. MaxFaults

\* _pending_requests holds the futures of exactly the requests that wait, each its
\* own: none is left behind by an answer, a time-out or disconnect, whichever come
\* together, and none is missing.
PendingOwned ==
    /\ pending = {call[t].number : t \in {u \in Tasks : pc[u] = "waiting"}}
    /\ \A t, u \in Tasks : pc[t] # "idle" /\ pc[u] # "idle" /\ t # u
                             => call[t].number # call[u].number

\* A client that has no connection is getting one: a loop that failed, and a
\* connect that failed while another succeeded, never leave it without somebody
\* who will try again, although a task that finds _reconnecting set just returns.
RepairUnderWay ==
    ~connected /\ calls > 0 /\ closer.at = "no" =>
        spawned > 0 \/ repair # "no" \/ \E t \in Tasks : pc[t] = "connecting"

\* A client that says it is connected has a loop that reads its socket, or one
\* about to start, however connects overlap; unless the server closed the socket
\* normally.
ConnectedIsRead ==
    connected /\ closer.at = "no" =>
        /\ ws # 0
        /\ \/ socket[ws] = "closed"
           \/ \E l \in Sockets : loop[l] = "created" \/ (loop[l] = "reading" /\ reads[l] = ws)

\* When the server stays up, a client without a connection gets one back.
LossIsRepaired ==
    <>[]up => (~connected /\ calls > 0 /\ closer.at = "no" ~> connected \/ closer.at # "no")
=============================================================================
