------------------------------ MODULE Reactor ------------------------------
(***************************************************************************)
(* One reactor thread of the HTTP server (server/Reactor.cpp with          *)
(* net/Connection.cpp), its client sockets and its calls to the worker     *)
(* pool. The pool appears through its contract, AsyncCalls, which          *)
(* WorkerPool implements.                                                  *)
(*                                                                         *)
(* Requests stand for themselves: a request has a kind and a Connection:   *)
(* close flag, and the response to it is named by it. The kinds are        *)
(*   "sync"   answered in the handler                                      *)
(*   "file"   answered with a file, whose open may fail                    *)
(*   "async"  a /tasks request, handed to the worker pool                  *)
(*   "part"   an incomplete request, of which the rest never comes         *)
(*   "bad"    refused by the parser, or larger than the receive buffer     *)
(*                                                                         *)
(* The reactor is one thread, so clients, workers and time take their      *)
(* steps between two events of a batch or while it waits in epoll: what a  *)
(* handler finds in a socket might as well have arrived before it began.   *)
(***************************************************************************)
EXTENDS Naturals, Sequences, FiniteSets, SequencesExt

CONSTANTS
    Fds,                 \* descriptors the kernel hands out and reuses
    Requests,            \* requests clients may send, each at most once
    KindOf,              \* kind of each request
    Closes,              \* requests that carry Connection: close
    MaxClients,          \* bound: clients that connect
    REQUEST_TIMEOUT,     \* REQUEST_TIMEOUT_SECONDS, in ticks
    KEEP_ALIVE_TIMEOUT,  \* KEEP_ALIVE_TIMEOUT_SECONDS, in ticks
    MAX_OUTPUT_QUEUE,    \* MAX_OUTPUT_QUEUE_SIZE, in responses
    NoConn               \* a descriptor that is not in `connections`

Kinds == {"sync", "file", "async", "part", "bad"}

ASSUME ReactorAssumption ==
    /\ IsFiniteSet(Fds)
    /\ KindOf \in [Requests -> Kinds]
    /\ Closes \subseteq Requests
    /\ MaxClients \in Nat
    /\ REQUEST_TIMEOUT \in Nat \ {0}
    /\ KEEP_ALIVE_TIMEOUT \in Nat \ {0}
    /\ MAX_OUTPUT_QUEUE \in Nat \ {0}

VARIABLES
    conns,     \* connections, connection_states and their sockets, by fd
    next_connection_generation,
    active_connections,  \* the gauge of Metrics
    pc,        \* where the reactor thread is
    batch,     \* events epoll returned and the loop has not handled yet
    event,     \* the event that is being handled
    timer,     \* the timerfd is readable
    backlog,   \* clients waiting in the listen queue
    clients,   \* clients that have connected so far
    closure,   \* what the callback of each submitted request captured
    outcome, channel,  \* the worker pool, see AsyncCalls
    asked,     \* history: requests each connection's client sent, in order
    sent       \* history: responses each connection was sent, in order

netVars == <<backlog, clients>>
poolVars == <<outcome, channel>>
loopVars == <<pc, batch, event, timer>>
vars == <<conns, next_connection_generation, active_connections, loopVars,
          netVars, closure, poolVars, asked, sent>>

Self == "reactor"
Calls == INSTANCE AsyncCalls
         WITH Jobs <- Requests, Reactors <- {Self},
              ReactorOf <- [q \in Requests |-> Self], closed <- FALSE

Events == {"IN", "OUT", "RDHUP", "HUP"}
Generations == 1 .. MaxClients
Sources == Fds \cup {"listen", "timer", "completion"}

Connection ==
    [gen : Generations,
     redis_pending : BOOLEAN,
     deadline : 0 .. (REQUEST_TIMEOUT + KEEP_ALIVE_TIMEOUT),
     current_events : SUBSET Events,
     receive_buffer : Seq(Requests),
     output_queue : Seq(Requests),
     close_after_write : BOOLEAN,
     socket : Seq(Requests),
     peer : {"open", "fin", "reset"}]

\* A descriptor that is not in `connections` is told from every one that is.
ASSUME NoConnAssumption == NoConn \notin Connection

Closure == [fd : Fds, gen : Generations]

TypeOK ==
    /\ conns \in [Fds -> Connection \cup {NoConn}]
    /\ \A f \in Fds : conns[f] # NoConn => Len(conns[f].output_queue) <= MAX_OUTPUT_QUEUE
    /\ next_connection_generation \in 0 .. MaxClients
    /\ active_connections \in Nat
    /\ pc \in {"wait", "batch", "accept", "completions", "read", "parse",
               "flush", "writable", "rdhup"}
    /\ batch \subseteq [src : Sources, events : SUBSET Events]
    /\ event \in [src : Sources, events : SUBSET Events]
    /\ timer \in BOOLEAN
    /\ backlog \in 0 .. MaxClients /\ clients \in 0 .. MaxClients
    /\ closure \in [Requests -> Closure \cup {NoConn}]
    /\ outcome \in [Requests -> {"none", "refused", "accepted", "failed", "delivered"}]
    /\ channel \in [{Self} -> Seq(Requests)]
    /\ asked \in [Generations -> Seq(Requests)]
    /\ sent \in [Generations -> Seq(Requests)]

NoEvent == [src |-> "timer", events |-> {}]

Init ==
    /\ conns = [f \in Fds |-> NoConn]
    /\ next_connection_generation = 0
    /\ active_connections = 0
    /\ pc = "wait"
    /\ batch = {}
    /\ event = NoEvent
    /\ timer = FALSE
    /\ backlog = 0 /\ clients = 0
    /\ closure = [q \in Requests |-> NoConn]
    /\ Calls!Init
    /\ asked = [g \in Generations |-> <<>>]
    /\ sent = [g \in Generations |-> <<>>]

Live == {f \in Fds : conns[f] # NoConn}

-----------------------------------------------------------------------------
(* Helpers of the handlers. They say how conns, active_connections and sent  *)
(* change.                                                                   *)

\* Mutant of RemoveConnections: the gauge goes down without a look-up.
RemoveUnchecked(S) ==
    /\ conns' = [f \in Fds |-> IF f \in S THEN NoConn ELSE conns[f]]
    /\ active_connections' =
         IF active_connections < Cardinality(S) THEN 0
         ELSE active_connections - Cardinality(S)

\* removeConnection() for each descriptor of S: a descriptor that is not in
\* `connections` is left alone.
RemoveConnections(S) ==
    /\ conns' = [f \in Fds |-> IF f \in S THEN NoConn ELSE conns[f]]
    /\ active_connections' = active_connections - Cardinality(S \cap Live)

Keep(f, c) ==
    /\ conns' = [conns EXCEPT ![f] = c]
    /\ UNCHANGED active_connections

\* Mutant of UpdateEvents: interest is added and never taken back.
AddEvents(f, c, events) ==
    Keep(f, [c EXCEPT !.current_events = @ \cup events])

\* epoll_ctl is called only for a new mask; its failure costs the connection.
UpdateEvents(f, c, events) ==
    \/ Keep(f, [c EXCEPT !.current_events = events])
    \/ c.current_events # events /\ RemoveConnections({f})

(***************************************************************************)
(* handleWrite(f) on connection c: the socket takes the whole queue, or a  *)
(* part of it (the rest waits for EPOLLOUT), or reports an error.          *)
(***************************************************************************)
HandleWrite(f, c) ==
    \/ /\ c.output_queue = <<>>
       /\ Keep(f, c)
       /\ UNCHANGED sent
    \/ /\ c.output_queue # <<>>
       /\ c.peer = "reset"
       /\ RemoveConnections({f})
       /\ UNCHANGED sent
    \/ /\ c.peer # "reset"
       /\ \E k \in 0 .. Len(c.output_queue) - 1 :
            /\ sent' = [sent EXCEPT ![c.gen] = @ \o SubSeq(c.output_queue, 1, k)]
            /\ UpdateEvents(f, [c EXCEPT !.output_queue = SubSeq(@, k + 1, Len(@))],
                            {"IN", "OUT", "RDHUP"})
    \/ /\ c.output_queue # <<>>
       /\ c.peer # "reset"
       /\ sent' = [sent EXCEPT ![c.gen] = @ \o c.output_queue]
       /\ IF c.close_after_write
            THEN RemoveConnections({f})
            ELSE UpdateEvents(f, [c EXCEPT !.output_queue = <<>>], {"IN", "RDHUP"})

\* Mutant of QueueHasRoom: the limit is off by one.
QueueHasRoomForOneMore(c) == Len(c.output_queue) <= MAX_OUTPUT_QUEUE

\* queueResponse(): the queue has a limit.
QueueHasRoom(c) == Len(c.output_queue) < MAX_OUTPUT_QUEUE

QueueResponse(c, q) ==
    [c EXCEPT !.output_queue = Append(@, q),
              !.close_after_write = @ \/ q \in Closes,
              !.deadline = KEEP_ALIVE_TIMEOUT]

-----------------------------------------------------------------------------
(* The event loop, Reactor::run. *)

\* What a level-triggered epoll reports for f; whether a blocked socket has
\* become writable is the client's choice.
Ready(f, writable) ==
    LET c == conns[f] IN
    IF c = NoConn THEN {}
    ELSE IF c.peer = "reset" THEN {"HUP"}
    ELSE {e \in c.current_events :
            \/ e = "IN" /\ (c.socket # <<>> \/ c.peer = "fin")
            \/ e = "OUT" /\ writable
            \/ e = "RDHUP" /\ c.peer = "fin"}

ReadySources(W) ==
    {[src |-> f, events |-> Ready(f, f \in W)] : f \in {g \in Fds : Ready(g, g \in W) # {}}}
    \cup (IF backlog > 0 THEN {[src |-> "listen", events |-> {"IN"}]} ELSE {})
    \cup (IF timer THEN {[src |-> "timer", events |-> {"IN"}]} ELSE {})
    \cup (IF channel[Self] # <<>> THEN {[src |-> "completion", events |-> {"IN"}]} ELSE {})

Wait ==
    /\ pc = "wait"
    /\ \E W \in SUBSET Fds : batch' = ReadySources(W)
    /\ batch' # {}
    /\ pc' = "batch"
    /\ UNCHANGED <<conns, next_connection_generation, active_connections, event, timer,
                   netVars, closure, poolVars, asked, sent>>

BatchDone ==
    /\ pc = "batch"
    /\ batch = {}
    /\ pc' = "wait"
    /\ UNCHANGED <<conns, next_connection_generation, active_connections, batch, event,
                   timer, netVars, closure, poolVars, asked, sent>>

\* The loop turns to the next event of the batch, in whatever order epoll
\* returned them.
Take(e) ==
    /\ pc = "batch"
    /\ e \in batch
    /\ batch' = batch \ {e}

\* A handler returns to the loop.
Return == pc' = "batch" /\ event' = NoEvent

\* Mutant of Expired: a pending call protects its connection.
ExpiredIdle == {f \in Live : conns[f].deadline = 0 /\ ~conns[f].redis_pending}

\* removeExpiredConnections()
Expired == {f \in Live : conns[f].deadline = 0}

HandleTimer(e) ==
    /\ e.src = "timer"
    /\ Take(e)
    /\ timer' = FALSE
    /\ RemoveConnections(Expired)
    /\ UNCHANGED <<next_connection_generation, pc, event, netVars, closure, poolVars,
                   asked, sent>>

\* Mutant of MayRead: the test of redis_pending is forgotten.
MayReadPending(f) == f \in Live

\* handleClient() goes beyond its early returns.
MayRead(f) == f \in Live /\ ~conns[f].redis_pending

\* handleEvent() up to the call of a handler: an error or hang-up removes the
\* connection, EPOLLIN starts handleClient() unless a call is pending.
HandleEvent(e) ==
    /\ e.src # "timer"
    /\ Take(e)
    /\ \/ /\ e.src = "listen"
          /\ pc' = "accept" /\ event' = e
          /\ UNCHANGED <<conns, active_connections>>
       \/ /\ e.src = "completion"
          /\ pc' = "completions" /\ event' = e
          /\ UNCHANGED <<conns, active_connections>>
       \/ /\ e.src \in Fds
          /\ "HUP" \in e.events
          /\ RemoveConnections({e.src})
          /\ Return
       \/ /\ e.src \in Fds
          /\ "HUP" \notin e.events
          /\ pc' = IF "IN" \in e.events /\ MayRead(e.src) THEN "read" ELSE "writable"
          /\ event' = e
          /\ UNCHANGED <<conns, active_connections>>
    /\ UNCHANGED <<next_connection_generation, timer, netVars, closure, poolVars, asked, sent>>

-----------------------------------------------------------------------------
(* handleAccept *)

AcceptOne(f) ==
    /\ pc = "accept"
    /\ backlog > 0
    /\ f \notin Live
    /\ backlog' = backlog - 1
    /\ next_connection_generation' = next_connection_generation + 1
    /\ conns' = [conns EXCEPT ![f] =
         [gen |-> next_connection_generation + 1,
          redis_pending |-> FALSE,
          deadline |-> REQUEST_TIMEOUT,
          current_events |-> {"IN", "RDHUP"},
          receive_buffer |-> <<>>,
          output_queue |-> <<>>,
          close_after_write |-> FALSE,
          socket |-> <<>>,
          peer |-> "open"]]
    /\ active_connections' = active_connections + 1
    /\ UNCHANGED <<loopVars, clients, closure, poolVars, asked, sent>>

\* fcntl, setsockopt or epoll_ctl fails: the client is closed and forgotten.
AcceptFails ==
    /\ pc = "accept"
    /\ backlog > 0
    /\ backlog' = backlog - 1
    /\ UNCHANGED <<conns, next_connection_generation, active_connections, loopVars,
                   clients, closure, poolVars, asked, sent>>

\* EAGAIN, or no descriptor is left.
AcceptDone ==
    /\ pc = "accept"
    /\ backlog = 0 \/ Live = Fds
    /\ Return
    /\ UNCHANGED <<conns, next_connection_generation, active_connections, batch,
                   timer, netVars, closure, poolVars, asked, sent>>

-----------------------------------------------------------------------------
(* handleClient *)

fd == event.src
conn == conns[fd]

\* Connection::read() returns some of what the socket holds.
ReadData ==
    /\ pc = "read"
    /\ conn.peer # "reset"
    /\ \E k \in 1 .. Len(conn.socket) :
         Keep(fd, [conn EXCEPT !.receive_buffer = @ \o SubSeq(conn.socket, 1, k),
                               !.socket = SubSeq(@, k + 1, Len(@)),
                               !.deadline = REQUEST_TIMEOUT])
    /\ pc' = "parse"
    /\ UNCHANGED <<next_connection_generation, batch, event, timer, netVars, closure,
                   poolVars, asked, sent>>

ReadWouldBlock ==
    /\ pc = "read"
    /\ conn.socket = <<>> /\ conn.peer = "open"
    /\ pc' = "flush"
    /\ UNCHANGED <<conns, next_connection_generation, active_connections, batch, event,
                   timer, netVars, closure, poolVars, asked, sent>>

\* recv() returns 0 or an error: the connection goes, queued output included.
ReadEnds ==
    /\ pc = "read"
    /\ \/ conn.socket = <<>> /\ conn.peer = "fin"
       \/ conn.peer = "reset"
    /\ RemoveConnections({fd})
    /\ Return
    /\ UNCHANGED <<next_connection_generation, batch, timer, netVars, closure,
                   poolVars, asked, sent>>

request == Head(conn.receive_buffer)
Consumed == [conn EXCEPT !.receive_buffer = Tail(@)]

\* NeedMoreData: back to reading; an incomplete request stays in the parser.
ParseNeedsMore ==
    /\ pc = "parse"
    /\ conn.receive_buffer = <<>>
    /\ pc' = "read"
    /\ UNCHANGED <<conns, next_connection_generation, active_connections, batch, event,
                   timer, netVars, closure, poolVars, asked, sent>>

ParsePart ==
    /\ pc = "parse"
    /\ conn.receive_buffer # <<>>
    /\ KindOf[request] = "part"
    /\ Keep(fd, Consumed)
    /\ UNCHANGED <<next_connection_generation, loopVars, netVars, closure, poolVars,
                   asked, sent>>

ParseBad ==
    /\ pc = "parse"
    /\ conn.receive_buffer # <<>>
    /\ KindOf[request] = "bad"
    /\ RemoveConnections({fd})
    /\ Return
    /\ UNCHANGED <<next_connection_generation, batch, timer, netVars, closure,
                   poolVars, asked, sent>>

\* The handler has answered: queueResponse() (and queueFile()), or the loss of
\* the connection if the queue is full or the file cannot be opened.
Respond ==
    \/ /\ QueueHasRoom(conn)
       /\ LET c == QueueResponse(Consumed, request) IN
            /\ Keep(fd, c)
            /\ pc' = IF c.close_after_write THEN "flush" ELSE "parse"
            /\ UNCHANGED event
    \/ /\ ~QueueHasRoom(conn) \/ KindOf[request] = "file"
       /\ RemoveConnections({fd})
       /\ Return

HandleSync ==
    /\ pc = "parse"
    /\ conn.receive_buffer # <<>>
    /\ KindOf[request] \in {"sync", "file"}
    /\ Respond
    /\ UNCHANGED <<next_connection_generation, batch, timer, netVars, closure,
                   poolVars, asked, sent>>

\* submit() refuses the call: answered 503 at once.
HandleRefused ==
    /\ pc = "parse"
    /\ conn.receive_buffer # <<>>
    /\ KindOf[request] = "async"
    /\ Calls!Refuse(request)
    /\ Respond
    /\ UNCHANGED <<next_connection_generation, batch, timer, netVars, closure,
                   asked, sent>>

\* submit() accepts the call. handleClient returns at once: what follows the
\* request stays in receive_buffer, queued output stays queued.
HandlePending ==
    /\ pc = "parse"
    /\ conn.receive_buffer # <<>>
    /\ KindOf[request] = "async"
    /\ Calls!Accept(request)
    /\ closure' = [closure EXCEPT ![request] = [fd |-> fd, gen |-> conn.gen]]
    /\ UpdateEvents(fd, [Consumed EXCEPT !.redis_pending = TRUE,
                                         !.deadline = REQUEST_TIMEOUT], {"RDHUP"})
    /\ pc' = "writable"
    /\ UNCHANGED <<next_connection_generation, batch, event, timer, netVars, asked, sent>>

\* The end of handleClient: an inline flush.
Flush ==
    /\ pc = "flush"
    /\ HandleWrite(fd, conn)
    /\ pc' = "writable"
    /\ UNCHANGED <<next_connection_generation, batch, event, timer, netVars, closure,
                   poolVars, asked>>

-----------------------------------------------------------------------------
(* The rest of handleEvent, for a connection that is still there. *)

Writable ==
    /\ pc = "writable"
    /\ IF fd \in Live /\ "OUT" \in event.events
         THEN HandleWrite(fd, conn)
         ELSE UNCHANGED <<conns, active_connections, sent>>
    /\ pc' = "rdhup"
    /\ UNCHANGED <<next_connection_generation, batch, event, timer, netVars, closure,
                   poolVars, asked>>

Rdhup ==
    /\ pc = "rdhup"
    /\ IF fd \in Live /\ "RDHUP" \in event.events /\ conn.output_queue = <<>>
         THEN RemoveConnections({fd})
         ELSE UNCHANGED <<conns, active_connections>>
    /\ Return
    /\ UNCHANGED <<next_connection_generation, batch, timer, netVars, closure,
                   poolVars, asked, sent>>

-----------------------------------------------------------------------------
(* handleCompletions and completeAsyncResponse. *)

\* Mutant of IsCurrent: whoever owns the descriptor now gets the answer.
IsSameFd(cl) ==
    /\ cl.fd \in Live
    /\ conns[cl.fd].redis_pending

\* The connection the callback was made for is still there, and waits.
IsCurrent(cl) ==
    /\ cl.fd \in Live
    /\ conns[cl.fd].gen = cl.gen
    /\ conns[cl.fd].redis_pending

CompleteAsyncResponse ==
    /\ pc = "completions"
    /\ channel[Self] # <<>>
    /\ Calls!Deliver(Self)
    /\ LET q == Head(channel[Self])
           cl == closure[q]
           c == conns[cl.fd]
       IN IF IsCurrent(cl)
            THEN IF QueueHasRoom(c)
                   THEN HandleWrite(cl.fd, QueueResponse([c EXCEPT !.redis_pending = FALSE], q))
                   ELSE RemoveConnections({cl.fd}) /\ UNCHANGED sent
            ELSE UNCHANGED <<conns, active_connections, sent>>
    /\ UNCHANGED <<next_connection_generation, loopVars, netVars, closure, asked>>

CompletionsDone ==
    /\ pc = "completions"
    /\ channel[Self] = <<>>
    /\ Return
    /\ UNCHANGED <<conns, next_connection_generation, active_connections, batch,
                   timer, netVars, closure, poolVars, asked, sent>>

-----------------------------------------------------------------------------
(* Clients, workers and time. *)

Between == pc \in {"wait", "batch"}

reactorVars == <<next_connection_generation, active_connections, pc, batch, event, closure, sent>>

Connect ==
    /\ Between
    /\ clients < MaxClients
    /\ clients' = clients + 1
    /\ backlog' = backlog + 1
    /\ UNCHANGED <<conns, reactorVars, timer, poolVars, asked>>

Unsent(q) == \A g \in Generations : \A i \in DOMAIN asked[g] : asked[g][i] # q

Send(f, q) ==
    /\ Between
    /\ f \in Live
    /\ conns[f].peer = "open"
    /\ Unsent(q)
    /\ conns' = [conns EXCEPT ![f].socket = Append(@, q)]
    /\ asked' = [asked EXCEPT ![conns[f].gen] = Append(@, q)]
    /\ UNCHANGED <<reactorVars, timer, netVars, poolVars>>

\* The client shuts its side down, or resets the connection.
Hangup(f, how) ==
    /\ Between
    /\ f \in Live
    /\ conns[f].peer # "reset" /\ conns[f].peer # how
    /\ conns' = [conns EXCEPT ![f].peer = how]
    /\ UNCHANGED <<reactorVars, timer, netVars, poolVars, asked>>

\* A worker ends a call, with a result or with an exception.
WorkerEnds(q) ==
    /\ Between
    /\ Calls!Publish(q) \/ Calls!Fail(q)
    /\ UNCHANGED <<conns, reactorVars, timer, netVars, asked>>

\* A second passes and the timerfd fires.
Tick ==
    /\ Between
    /\ timer' = TRUE
    /\ conns' = [f \in Fds |->
         IF f \in Live /\ conns[f].deadline > 0
           THEN [conns[f] EXCEPT !.deadline = @ - 1] ELSE conns[f]]
    /\ UNCHANGED <<reactorVars, netVars, poolVars, asked>>

-----------------------------------------------------------------------------
HandleClientStep ==
    \/ ReadData
    \/ ReadWouldBlock
    \/ ReadEnds
    \/ ParseNeedsMore
    \/ ParsePart
    \/ ParseBad
    \/ HandleSync
    \/ HandleRefused
    \/ HandlePending
    \/ Flush

ReactorStep ==
    \/ Wait
    \/ BatchDone
    \/ \E e \in batch : HandleTimer(e) \/ HandleEvent(e)
    \/ \E f \in Fds : AcceptOne(f)
    \/ AcceptFails
    \/ AcceptDone
    \/ HandleClientStep
    \/ Writable
    \/ Rdhup
    \/ CompleteAsyncResponse
    \/ CompletionsDone

Environment ==
    \/ Connect
    \/ \E f \in Fds, q \in Requests : Send(f, q)
    \/ \E f \in Fds, how \in {"fin", "reset"} : Hangup(f, how)
    \/ \E q \in Requests : WorkerEnds(q)

Next == ReactorStep \/ Environment \/ Tick

Spec == Init /\ [][Next]_vars

(***************************************************************************)
(* The reactor thread runs and time passes, however busy the loop is       *)
(* (strong fairness, as Tick is enabled only between two events). Clients  *)
(* owe the reactor nothing, and neither does a worker.                     *)
(***************************************************************************)
FairSpec == Spec /\ WF_vars(ReactorStep) /\ SF_vars(Tick)

-----------------------------------------------------------------------------
(* Properties. *)

\* Requests a client expects an answer to: s without its incomplete ones.
Complete(s) ==
    LET complete[n \in 0 .. Len(s)] ==
          IF n = 0 THEN <<>>
          ELSE IF KindOf[s[n]] = "part" THEN complete[n - 1]
          ELSE Append(complete[n - 1], s[n])
    IN complete[Len(s)]

(***************************************************************************)
(* Every client gets the answers to its own requests, in the order it sent *)
(* them, each once: across pipelining, calls that end in any order, late   *)
(* completions and descriptors that are reused while a call is out.        *)
(***************************************************************************)
AnswersInOrder ==
    \A g \in Generations : IsPrefix(sent[g], Complete(asked[g]))

\* Calls of generation g that have not come back.
Outstanding(g) ==
    {q \in Requests : outcome[q] = "accepted" /\ closure[q].gen = g}

(***************************************************************************)
(* A connection has at most one call out, and only while redis_pending:    *)
(* this is why a generation is enough to find the request that a           *)
(* completion answers.                                                     *)
(***************************************************************************)
OneCallPerConnection ==
    /\ \A g \in Generations : Cardinality(Outstanding(g)) <= 1
    /\ \A f \in Live : Outstanding(conns[f].gen) # {} => conns[f].redis_pending

(***************************************************************************)
(* The gauge counts the connections, whatever removes them and however     *)
(* often an event of the batch still names them.                           *)
(***************************************************************************)
GaugeCountsConnections == active_connections = Cardinality(Live)

(***************************************************************************)
(* While the reactor sleeps, a connection without a pending call waits for *)
(* input, and for writability exactly if output is queued: neither a       *)
(* stalled response is forgotten nor does an idle socket wake the loop. A  *)
(* connection with a pending call still notices that its client left.      *)
(***************************************************************************)
MaskMatchesState ==
    pc = "wait" =>
      \A f \in Live :
        /\ "RDHUP" \in conns[f].current_events
        /\ ~conns[f].redis_pending =>
             /\ "IN" \in conns[f].current_events
             /\ "OUT" \in conns[f].current_events <=> conns[f].output_queue # <<>>

\* Deadlines rid the reactor of every connection whose client has stopped
\* sending, also if its call never comes back or it never reads.
EveryConnectionEnds ==
    \A g \in Generations :
        (\E f \in Live : conns[f].gen = g) ~> ~(\E f \in Live : conns[f].gen = g)

(***************************************************************************)
(* handleClient "incrementally calls HttpParser::parse", whose "state      *)
(* resets for keep-alive/pipelined requests": when the reactor goes to     *)
(* sleep, a connection with no call pending, nothing left to write and     *)
(* nothing left to receive has no complete request in its buffer.          *)
(***************************************************************************)
NoRequestOverlooked ==
    pc = "wait" =>
      \A f \in Live :
        \/ conns[f].redis_pending
        \/ conns[f].output_queue # <<>>
        \/ conns[f].socket # <<>>
        \/ Complete(conns[f].receive_buffer) = <<>>
=============================================================================
