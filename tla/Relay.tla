------------------------------- MODULE Relay -------------------------------
(***************************************************************************)
(* The life of one connection pair in a load balancer reactor: a client,   *)
(* the backend it is connected to, and the two buffers between them        *)
(* (lb/LoadBalancer.cpp, the body of the event loop in start(),            *)
(* forwardData, flushData and closeConnection).                            *)
(*                                                                         *)
(* Data is counted in chunks: what counts is how much of it is where. A    *)
(* read takes some of the chunks in a socket; a peer's socket takes WINDOW *)
(* chunks before the peer has to read. Which backend is chosen, and the    *)
(* counters that go with it, are the subject of Routing; here a connection *)
(* is to some backend or cannot be had.                                    *)
(*                                                                         *)
(* The reactor is one thread: what a peer sends while a handler runs might *)
(* as well have come before it, so peers send between two events of a      *)
(* batch or while the reactor waits. The flags of an event may be out of   *)
(* date when it is handled.                                                *)
(***************************************************************************)
EXTENDS Naturals

CONSTANTS
    MAX_BUFFER,    \* MAX_BUFFER_SIZE, in chunks
    WINDOW,        \* chunks a socket takes before its peer has to read
    MaxRequest,    \* bound: chunks the client sends
    MaxResponse,   \* bound: chunks the backend sends
    MaxFailovers   \* bound: connections that are tried after the first one

ASSUME RelayAssumption ==
    /\ MAX_BUFFER \in Nat \ {0} /\ WINDOW \in Nat \ {0}
    /\ MaxRequest \in Nat /\ MaxResponse \in Nat /\ MaxFailovers \in Nat

VARIABLES
    pair,       \* the ConnectionPair
    client,     \* the client's socket, seen from both ends
    backend,    \* the backend's socket, or the lack of one
    end,        \* "open", or why the pair has left `connections`
    pc,         \* where the reactor thread is
    batch,      \* events epoll returned and the loop has not handled yet
    event,      \* the event that is being handled
    failovers,  \* failovers so far
    short,      \* the client's first chunk is a proper prefix of "GET /metrics "
    blind       \* history: was epoll not told what the pair waits for?

loopVars == <<pc, batch, event>>
vars == <<pair, client, backend, end, loopVars, failovers, short, blind>>

Flags == {"IN", "OUT", "RDHUP", "HUP", "ERR"}
Sides == {"client", "backend"}
Ends == {"open", "done", "hangup", "error", "overflow", "unroutable", "shutdown"}

Pair ==
    [backend_fd : BOOLEAN,          \* backend_fd != -1
     backend_connecting : BOOLEAN,
     client_read_closed : BOOLEAN, backend_read_closed : BOOLEAN,
     client_write_closed : BOOLEAN, backend_write_closed : BOOLEAN,
     metrics_connection : BOOLEAN,
     client_to_backend : 0 .. MAX_BUFFER,  \* chunks beyond the offset
     backend_to_client : 0 .. MAX_BUFFER,
     current_client_events : SUBSET {"IN", "OUT"},  \* RDHUP, ERR and HUP always
     current_backend_events : SUBSET {"IN", "OUT"}]

Socket ==
    [peer : {"none", "connecting", "open", "fin", "reset"},
     sock : Nat,        \* chunks the reactor has not read
     room : 0 .. WINDOW,  \* chunks the reactor may write
     sent : Nat,        \* history: chunks the peer has sent
     got : Nat]         \* history: chunks the peer has been sent

TypeOK ==
    /\ pair \in Pair
    /\ client \in Socket /\ backend \in Socket
    /\ end \in Ends
    /\ pc \in {"wait", "batch", "peek", "metrics", "forward", "drain",
               "connected", "flush", "settle"}
    /\ batch \subseteq [side : Sides, flags : SUBSET Flags]
    /\ event \in [side : Sides, flags : SUBSET Flags]
    /\ failovers \in 0 .. MaxFailovers
    /\ short \in BOOLEAN /\ blind \in {"never", "once", "now"}

NoEvent == [side |-> "client", flags |-> {}]

Fresh(peer) == [peer |-> peer, sock |-> 0, room |-> WINDOW, sent |-> 0, got |-> 0]

\* The client has just been accepted.
Init ==
    /\ pair = [backend_fd |-> FALSE, backend_connecting |-> FALSE,
               client_read_closed |-> FALSE, backend_read_closed |-> FALSE,
               client_write_closed |-> FALSE, backend_write_closed |-> FALSE,
               metrics_connection |-> FALSE,
               client_to_backend |-> 0, backend_to_client |-> 0,
               current_client_events |-> {"IN"}, current_backend_events |-> {}]
    /\ client = Fresh("open")
    /\ backend = Fresh("none")
    /\ end = "open"
    /\ pc = "wait" /\ batch = {} /\ event = NoEvent
    /\ failovers = 0
    /\ short \in BOOLEAN
    /\ blind = "never"

-----------------------------------------------------------------------------
(* The event loop. *)

\* What epoll reports of socket s under the given mask; shut says that the
\* reactor has shut down its own side. A reset shows as an error.
Reported(s, mask, shut) ==
    CASE s.peer = "reset" -> {"ERR", "HUP"}
      [] s.peer \in {"none", "connecting"} -> {}
      [] s.peer \in {"open", "fin"} ->
           {f \in Flags :
              \/ f = "IN" /\ f \in mask /\ (s.sock > 0 \/ s.peer = "fin")
              \/ f = "OUT" /\ f \in mask /\ s.room > 0
              \/ f = "RDHUP" /\ s.peer = "fin"
              \/ f = "HUP" /\ s.peer = "fin" /\ shut}

ReadyEvents ==
    {e \in {[side |-> "client",
             flags |-> Reported(client, pair.current_client_events, pair.client_write_closed)],
            [side |-> "backend",
             flags |-> Reported(backend, pair.current_backend_events, pair.backend_write_closed)]}
       : e.flags # {}}

Wait ==
    /\ pc = "wait"
    /\ end = "open"
    /\ ReadyEvents # {}
    /\ batch' = ReadyEvents
    /\ pc' = "batch"
    /\ UNCHANGED <<pair, client, backend, end, event, failovers, short, blind>>

BatchDone ==
    /\ pc = "batch"
    /\ batch = {}
    /\ pc' = "wait"
    /\ UNCHANGED <<pair, client, backend, end, batch, event, failovers, short, blind>>

\* closeConnection(): both sockets go, and what the buffers hold.
Close(why) ==
    /\ end' = why
    /\ pc' = "batch" /\ event' = NoEvent
    /\ UNCHANGED blind

\* failoverConnection(): the old socket goes and another backend is tried; the
\* buffered request stays. The new socket is watched for writability only if
\* the connection is still being made.
Failover ==
    \/ /\ failovers < MaxFailovers
       /\ failovers' = failovers + 1
       /\ \E connecting \in BOOLEAN :
            /\ backend' = Fresh(IF connecting THEN "connecting" ELSE "open")
            /\ pair' = [pair EXCEPT !.backend_fd = TRUE,
                                    !.backend_connecting = connecting,
                                    !.current_backend_events = IF connecting THEN {"OUT"} ELSE {"IN"}]
            /\ blind' = IF connecting THEN blind ELSE "now"
       /\ pc' = "batch" /\ event' = NoEvent
       /\ UNCHANGED end
    \/ /\ Close("unroutable")
       /\ UNCHANGED <<pair, backend, failovers>>

\* Mutant of MayFailOver: an established connection is moved as well.
MayFailOverAlways(e) == e.side = "backend"

\* Only a connection that was never made is moved to another backend.
MayFailOver(e) == e.side = "backend" /\ pair.backend_connecting

\* Mutant of HangsUp: the peer's end alone is taken for a hang-up.
HangsUpAtEnd(flags) == flags \cap {"HUP", "RDHUP"} # {}

\* A hang-up that no input comes with.
HangsUp(flags) == "HUP" \in flags /\ "IN" \notin flags

\* The checks before the handlers: a pair that is gone is skipped, an error or
\* a hang-up without input ends the pair or moves it.
HandleEvent(e) ==
    /\ pc = "batch"
    /\ e \in batch
    /\ batch' = batch \ {e}
    /\ \/ /\ end # "open"
          /\ UNCHANGED <<pair, backend, end, pc, event, failovers, blind>>
       \/ /\ end = "open"
          /\ "ERR" \in e.flags \/ HangsUp(e.flags)
          /\ IF MayFailOver(e)
               THEN Failover
               ELSE /\ Close(IF "ERR" \in e.flags THEN "error" ELSE "hangup")
                    /\ UNCHANGED <<pair, backend, failovers>>
       \/ /\ end = "open"
          /\ "ERR" \notin e.flags /\ ~HangsUp(e.flags)
          /\ pc' = IF "IN" \notin e.flags THEN "drain"
                   ELSE IF e.side = "backend" THEN "forward"
                   ELSE IF pair.metrics_connection THEN "metrics"
                   ELSE IF pair.backend_fd THEN "forward" ELSE "peek"
          /\ event' = e
          /\ UNCHANGED <<pair, backend, end, failovers, blind>>
    /\ UNCHANGED <<client, short>>

-----------------------------------------------------------------------------
(* First input of a client: peek, then metrics or a backend. *)

\* All that has come is a part of the metrics prefix: wait for more.
PeekShort ==
    /\ pc = "peek"
    /\ client.peer # "reset" /\ client.sock = 1 /\ short
    /\ pc' = "batch" /\ event' = NoEvent
    /\ UNCHANGED <<pair, client, backend, end, batch, failovers, short, blind>>

PeekFails ==
    /\ pc = "peek"
    /\ client.peer = "reset"
    /\ Close("error")
    /\ UNCHANGED <<pair, client, backend, batch, failovers, short>>

\* Which requests are for the metrics is left open.
PeekMetrics ==
    /\ pc = "peek"
    /\ client.peer # "reset" /\ client.sock > 0 /\ ~(client.sock = 1 /\ short)
    /\ pair' = [pair EXCEPT !.metrics_connection = TRUE]
    /\ pc' = "metrics" /\ short' = FALSE
    /\ UNCHANGED <<client, backend, end, batch, event, failovers, blind>>

\* connectClientToBackend(), also for a client that has sent nothing and left.
ConnectToBackend ==
    /\ pc = "peek"
    /\ client.peer # "reset"
    /\ ~(client.sock = 1 /\ short)
    /\ \/ \E connecting \in BOOLEAN :
            /\ backend' = Fresh(IF connecting THEN "connecting" ELSE "open")
            /\ pair' = [pair EXCEPT !.backend_fd = TRUE,
                                    !.backend_connecting = connecting,
                                    !.current_backend_events = IF connecting THEN {"OUT"} ELSE {"IN"}]
            /\ pc' = "forward"
            /\ UNCHANGED <<end, event, blind>>
       \/ Close("unroutable") /\ UNCHANGED <<pair, backend>>
    /\ short' = FALSE
    /\ UNCHANGED <<client, batch, failovers>>

\* The answer is put into the buffer, and the pair waits until it can be sent.
\* If the mask cannot be changed, input may come again.
AnswerMetrics ==
    /\ pc = "metrics"
    /\ client.peer # "reset"
    /\ \E n \in 1 .. client.sock : client' = [client EXCEPT !.sock = @ - n]
    /\ \E mask \in {pair.current_client_events, {"OUT"}} :
         /\ pair' = [pair EXCEPT !.backend_to_client = 1,
                                 !.client_read_closed = TRUE,
                                 !.current_client_events = mask]
         /\ blind' = IF mask = {"OUT"} THEN blind ELSE "now"
    /\ pc' = "batch" /\ event' = NoEvent
    /\ UNCHANGED <<backend, end, batch, failovers, short>>

\* End of file, an error, or another request that is not for the metrics.
MetricsEnds ==
    /\ pc = "metrics"
    /\ client.peer = "reset" \/ client.sock = 0 \/ pair.client_read_closed
    /\ Close(IF client.peer = "reset" THEN "error" ELSE "hangup")
    /\ UNCHANGED <<pair, client, backend, batch, failovers, short>>

-----------------------------------------------------------------------------
(* forwardData *)

source == IF event.side = "client" THEN client ELSE backend

Pending == IF event.side = "client" THEN pair.client_to_backend ELSE pair.backend_to_client

\* n chunks go from the socket to the buffer; eof if recv() has returned 0.
Received(n, eof) ==
    IF event.side = "client"
      THEN /\ client' = [client EXCEPT !.sock = @ - n]
           /\ pair' = [pair EXCEPT !.client_to_backend = @ + n,
                                   !.client_read_closed = @ \/ eof]
           /\ UNCHANGED backend
      ELSE /\ backend' = [backend EXCEPT !.sock = @ - n]
           /\ pair' = [pair EXCEPT !.backend_to_client = @ + n,
                                   !.backend_read_closed = @ \/ eof]
           /\ UNCHANGED client

\* Mutant of Fits: the limit is off by one.
FitsOneMore(n) == Pending + n <= MAX_BUFFER + 1

Fits(n) == Pending + n <= MAX_BUFFER

ForwardFails ==
    /\ pc \in {"forward", "drain"}
    /\ pc = "drain" => event.flags \cap {"RDHUP", "HUP"} # {}
    /\ pc = "drain" /\ event.side = "client" => ~pair.metrics_connection
    /\ \/ source.peer = "reset" /\ Close("error")
       \/ /\ source.peer # "reset"
          /\ \E n \in 1 .. source.sock : ~Fits(n)
          /\ Close("overflow")
    /\ UNCHANGED <<pair, client, backend, batch, failovers, short>>

\* One read.
ForwardData ==
    /\ pc = "forward"
    /\ source.peer # "reset"
    /\ \E n \in 0 .. source.sock :
         /\ n = 0 <=> source.sock = 0
         /\ Fits(n)
         /\ Received(n, n = 0 /\ source.peer = "fin")
    /\ pc' = "drain"
    /\ UNCHANGED <<end, batch, event, failovers, short, blind>>

\* The peer has closed: read until end of file.
DrainData ==
    /\ pc = "drain"
    /\ event.flags \cap {"RDHUP", "HUP"} # {}
    /\ event.side = "client" => ~pair.metrics_connection
    /\ source.peer # "reset"
    /\ Fits(source.sock)
    /\ Received(source.sock, source.peer = "fin")
    /\ pc' = "connected"
    /\ UNCHANGED <<end, batch, event, failovers, short, blind>>

NoDrain ==
    /\ pc = "drain"
    /\ \/ event.flags \cap {"RDHUP", "HUP"} = {}
       \/ event.side = "client" /\ pair.metrics_connection
    /\ pc' = "connected"
    /\ UNCHANGED <<pair, client, backend, end, batch, event, failovers, short, blind>>

-----------------------------------------------------------------------------
(* The rest of the handler. *)

\* A writable socket that was connecting is connected, or SO_ERROR says why not.
Connected ==
    /\ pc = "connected"
    /\ IF MayFailOver(event) /\ "OUT" \in event.flags
         THEN \/ backend.peer = "reset" /\ Failover
              \/ /\ backend.peer # "reset"
                 /\ pair' = [pair EXCEPT !.backend_connecting = FALSE]
                 /\ pc' = "flush"
                 /\ UNCHANGED <<backend, end, event, failovers, blind>>
         ELSE /\ pc' = "flush"
              /\ UNCHANGED <<pair, backend, end, event, failovers, blind>>
    /\ UNCHANGED <<client, batch, short>>

AtMost(m, n) == IF m < n THEN m ELSE n

\* flushData() to the backend, if there is one, and to the client.
Flush ==
    LET n == IF pair.backend_fd /\ ~pair.backend_connecting
               THEN AtMost(pair.client_to_backend, backend.room) ELSE 0
        m == AtMost(pair.backend_to_client, client.room)
        fails == \/ /\ pair.backend_fd /\ ~pair.backend_connecting
                    /\ pair.client_to_backend > 0 /\ backend.peer = "reset"
                 \/ pair.backend_to_client > 0 /\ client.peer = "reset"
    IN /\ pc = "flush"
       /\ IF fails
            THEN /\ Close("error")
                 /\ UNCHANGED <<pair, client, backend>>
            ELSE /\ pair' = [pair EXCEPT !.client_to_backend = @ - n,
                                         !.backend_to_client = @ - m]
                 /\ backend' = [backend EXCEPT !.room = @ - n, !.got = @ + n]
                 /\ client' = [client EXCEPT !.room = @ - m, !.got = @ + m]
                 /\ pc' = "settle"
                 /\ UNCHANGED <<end, event, blind>>
       /\ UNCHANGED <<batch, failovers, short>>

\* Mutant of HalfClosed: an end is passed on although data is still buffered.
HalfClosedAtOnce(p) ==
    [p EXCEPT !.backend_write_closed =
                @ \/ (p.client_read_closed /\ p.backend_fd /\ ~p.backend_connecting),
              !.client_write_closed = @ \/ p.backend_read_closed]

\* Mutant of HalfClosed: the client's end is not passed on.
HalfClosedOneWay(p) ==
    [p EXCEPT !.client_write_closed =
                @ \/ (p.backend_read_closed /\ p.backend_to_client = 0)]

\* The end of one side is passed on once its data has been.
HalfClosed(p) ==
    [p EXCEPT !.backend_write_closed =
                @ \/ (/\ p.client_read_closed /\ p.client_to_backend = 0
                      /\ p.backend_fd /\ ~p.backend_connecting),
              !.client_write_closed =
                @ \/ (p.backend_read_closed /\ p.backend_to_client = 0)]

Finished(p) ==
    \/ p.client_read_closed /\ ~p.backend_fd /\ p.client_to_backend = 0 /\ ~p.metrics_connection
    \/ p.metrics_connection /\ p.backend_to_client = 0
    \/ /\ p.client_read_closed /\ p.backend_read_closed
       /\ p.client_to_backend = 0 /\ p.backend_to_client = 0

BackendMask(p) ==
    {f \in {"IN", "OUT"} :
        \/ f = "IN" /\ ~p.backend_read_closed
        \/ f = "OUT" /\ (p.backend_connecting \/ p.client_to_backend > 0)}

\* Mutant of ClientMask: the mask is not extended when a write stalls.
ClientMaskReadOnly(p) == {f \in {"IN", "OUT"} : f = "IN" /\ ~p.client_read_closed}

ClientMask(p) ==
    {f \in {"IN", "OUT"} :
        \/ f = "IN" /\ ~p.client_read_closed
        \/ f = "OUT" /\ p.backend_to_client > 0}

\* Half-closes, the end of the pair, and otherwise the masks; epoll_ctl may fail.
Settle ==
    LET p == HalfClosed(pair)
        backendMask == IF p.backend_fd THEN BackendMask(p) ELSE p.current_backend_events
    IN
    /\ pc = "settle"
    /\ IF Finished(p)
         THEN pair' = p /\ Close("done")
         ELSE \E cm \in {p.current_client_events, ClientMask(p)},
                 bm \in {p.current_backend_events, backendMask} :
                /\ pair' = [p EXCEPT !.current_client_events = cm,
                                     !.current_backend_events = bm]
                /\ blind' = IF cm = ClientMask(p) /\ bm = backendMask
                              THEN (IF blind = "now" THEN "once" ELSE blind) ELSE "now"
                /\ pc' = "batch" /\ event' = NoEvent
                /\ UNCHANGED end
    /\ UNCHANGED <<client, backend, batch, failovers, short>>

\* The reactor stops: closeAllConnections().
CloseAllConnections ==
    /\ pc = "wait"
    /\ end = "open"
    /\ end' = "shutdown"
    /\ UNCHANGED <<pair, client, backend, loopVars, failovers, short, blind>>

-----------------------------------------------------------------------------
(* Client and backend. *)

Between == pc \in {"wait", "batch"} /\ end = "open"
lbVars == <<pair, end, loopVars, failovers, short, blind>>

ClientSends ==
    /\ Between
    /\ client.peer = "open" /\ client.sent < MaxRequest
    /\ client' = [client EXCEPT !.sock = @ + 1, !.sent = @ + 1]
    /\ UNCHANGED <<lbVars, backend>>

ClientEnds(how) ==
    /\ Between
    /\ client.peer = "open" \/ (client.peer = "fin" /\ how = "reset")
    /\ client' = [client EXCEPT !.peer = how]
    /\ UNCHANGED <<lbVars, backend>>

ClientReads ==
    /\ end = "open"
    /\ client.peer # "reset" /\ client.room < WINDOW
    /\ client' = [client EXCEPT !.room = WINDOW]
    /\ UNCHANGED <<lbVars, backend>>

BackendAnswersConnect ==
    /\ end = "open"
    /\ backend.peer = "connecting"
    /\ \E how \in {"open", "reset"} : backend' = [backend EXCEPT !.peer = how]
    /\ UNCHANGED <<lbVars, client>>

BackendSends ==
    /\ Between
    /\ backend.peer = "open" /\ backend.sent < MaxResponse
    /\ backend' = [backend EXCEPT !.sock = @ + 1, !.sent = @ + 1]
    /\ UNCHANGED <<lbVars, client>>

BackendFin ==
    /\ end = "open"
    /\ backend.peer = "open"
    /\ backend' = [backend EXCEPT !.peer = "fin"]
    /\ UNCHANGED <<lbVars, client>>

BackendReset ==
    /\ Between
    /\ backend.peer \in {"open", "fin"}
    /\ backend' = [backend EXCEPT !.peer = "reset"]
    /\ UNCHANGED <<lbVars, client>>

BackendReads ==
    /\ end = "open"
    /\ backend.peer \in {"open", "fin"} /\ backend.room < WINDOW
    /\ backend' = [backend EXCEPT !.room = WINDOW]
    /\ UNCHANGED <<lbVars, client>>

-----------------------------------------------------------------------------
Reactor ==
    \/ Wait
    \/ BatchDone
    \/ \E e \in batch : HandleEvent(e)
    \/ PeekShort \/ PeekFails \/ PeekMetrics
    \/ ConnectToBackend
    \/ AnswerMetrics \/ MetricsEnds
    \/ ForwardFails \/ ForwardData
    \/ DrainData \/ NoDrain
    \/ Connected
    \/ Flush
    \/ Settle

Peers ==
    \/ ClientSends \/ ClientReads
    \/ \E how \in {"fin", "reset"} : ClientEnds(how)
    \/ BackendAnswersConnect \/ BackendSends \/ BackendReads
    \/ BackendFin \/ BackendReset

\* The pair is gone and the loop has dealt with the rest of the batch.
Terminated == end # "open" /\ pc = "wait" /\ UNCHANGED vars

Next == Reactor \/ CloseAllConnections \/ Peers \/ Terminated

Spec == Init /\ [][Next]_vars

(***************************************************************************)
(* The reactor runs; connection attempts are answered (TCP gives up in the *)
(* end); both peers read what they are sent, and a backend that sees the   *)
(* end of its client's data ends too. A client owes nobody its end.        *)
(***************************************************************************)
Fairness ==
    /\ WF_vars(Reactor)
    /\ WF_vars(BackendAnswersConnect)
    /\ WF_vars(ClientReads)
    /\ WF_vars(BackendReads)
    /\ WF_vars(BackendFin /\ pair.backend_write_closed)

FairSpec == Spec /\ Fairness

-----------------------------------------------------------------------------
(* Properties. *)

(***************************************************************************)
(* While the pair lives, everything the client has sent is in its socket,  *)
(* in the buffer or with the backend it is connected to now, and likewise  *)
(* backwards: a request survives every failover whole, and no backend gets *)
(* only the end of one.                                                    *)
(***************************************************************************)
NothingLost ==
    end = "open" /\ ~pair.metrics_connection =>
        /\ client.sent = client.sock + pair.client_to_backend + backend.got
        /\ backend.sent = backend.sock + pair.backend_to_client + client.got

(***************************************************************************)
(* The balancer "drains on peer-close" and "defers SHUT_WR until the       *)
(* corresponding output buffer is empty": who is told that no more data    *)
(* comes has been sent all there is.                                       *)
(***************************************************************************)
EndAfterData ==
    /\ pair.backend_write_closed => client.peer # "open" /\ backend.got = client.sent
    /\ pair.client_write_closed => backend.peer # "open" /\ client.got = backend.sent

\* The pair has ended and nothing has gone wrong: no reset, no full buffer, no
\* failure of epoll_ctl.
EndedInOrder ==
    /\ end \in {"done", "hangup"}
    /\ blind = "never"
    /\ client.peer # "reset" /\ backend.peer # "reset"

(***************************************************************************)
(* A pair that ends in order has delivered the whole response: the         *)
(* truncation of buffered responses was removed, "the LB now drains on     *)
(* peer-close".                                                            *)
(***************************************************************************)
ResponseComplete ==
    EndedInOrder /\ ~pair.metrics_connection => client.got = backend.sent

(***************************************************************************)
(* While the reactor sleeps, whatever it could not write is waited for,    *)
(* and input is waited for until its end.                                  *)
(***************************************************************************)
NoStalledOutput ==
    pc = "wait" /\ end = "open" /\ blind # "now" =>
        /\ pair.backend_to_client > 0 => "OUT" \in pair.current_client_events
        /\ pair.client_to_backend > 0 => "OUT" \in pair.current_backend_events
        /\ ~pair.client_read_closed => "IN" \in pair.current_client_events

\* A client that has left takes its pair with it, unless all it ever sent was
\* a beginning of "GET /metrics ".
PairEnds ==
    client.peer # "open" /\ ~(short /\ client.sent = 1) ~> end # "open"

(***************************************************************************)
(* A client that waits for the end of its response is told of it, and has  *)
(* been sent all of it by then (EndAfterData): once the backend has ended, *)
(* the pair is neither stuck with the rest of the response nor given up    *)
(* for the hang-ups that the end brings about, unless a peer resets, a     *)
(* buffer overflows, epoll_ctl fails or the balancer stops.                *)
(***************************************************************************)
ResponseDelivered ==
    backend.peer = "fin" ~>
        \/ pair.client_write_closed
        \/ client.peer # "open" \/ backend.peer = "reset"
        \/ end \in {"error", "overflow", "shutdown"} \/ blind # "never"
=============================================================================
