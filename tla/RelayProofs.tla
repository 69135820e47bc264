---------------------------- MODULE RelayProofs ----------------------------
(***************************************************************************)
(* Proofs about Relay, for any buffer size, any window and any amount of   *)
(* data and number of failovers.                                           *)
(***************************************************************************)
EXTENDS Relay, TLAPS

-----------------------------------------------------------------------------
(* Type correctness. *)

\* A socket that has just been opened is one.
LEMMA FreshType ==
    ASSUME NEW p \in {"none", "connecting", "open"} PROVE Fresh(p) \in Socket
BY RelayAssumption DEF Fresh, Socket

\* The fields of a pair.
LEMMA PairFields ==
    ASSUME NEW p \in Pair
    PROVE  /\ p.client_to_backend \in Nat /\ p.client_to_backend <= MAX_BUFFER
           /\ p.backend_to_client \in Nat /\ p.backend_to_client <= MAX_BUFFER
           /\ p.backend_fd \in BOOLEAN /\ p.backend_connecting \in BOOLEAN
           /\ p.client_read_closed \in BOOLEAN /\ p.backend_read_closed \in BOOLEAN
           /\ p.client_write_closed \in BOOLEAN /\ p.backend_write_closed \in BOOLEAN
           /\ p.metrics_connection \in BOOLEAN
           /\ p.current_client_events \subseteq {"IN", "OUT"}
           /\ p.current_backend_events \subseteq {"IN", "OUT"}
BY RelayAssumption DEF Pair

\* The fields of a socket.
LEMMA SocketFields ==
    ASSUME NEW s \in Socket
    PROVE  /\ s.sock \in Nat /\ s.sent \in Nat /\ s.got \in Nat
           /\ s.room \in Nat /\ s.room <= WINDOW
           /\ s.peer \in {"none", "connecting", "open", "fin", "reset"}
BY RelayAssumption DEF Socket

\* What epoll returns is a set of events.
LEMMA ReadyType == TypeOK => ReadyEvents \subseteq [side : Sides, flags : SUBSET Flags]
<1> SUFFICES ASSUME TypeOK PROVE ReadyEvents \subseteq [side : Sides, flags : SUBSET Flags]
  OBVIOUS
<1>1. ASSUME NEW s \in Socket, NEW mask, NEW shut PROVE Reported(s, mask, shut) \subseteq Flags
  BY <1>1 DEF Reported, Flags, Socket
<1> QED
  BY <1>1 DEF ReadyEvents, TypeOK, Sides

\* The initial state of a pair is well typed.
LEMMA InitTypeOK == Init => TypeOK
BY RelayAssumption, FreshType
   DEF Init, TypeOK, Pair, Ends, NoEvent, Sides, Flags

\* closeConnection() keeps the types.
LEMMA CloseType ==
    ASSUME TypeOK, NEW why \in Ends, Close(why)
    PROVE  /\ end' \in Ends /\ pc' = "batch" /\ blind' = blind
           /\ event' \in [side : Sides, flags : SUBSET Flags]
BY DEF Close, TypeOK, NoEvent, Sides, Flags

\* failoverConnection() keeps the types.
LEMMA FailoverType ==
    ASSUME TypeOK, Failover
    PROVE  /\ end' \in Ends /\ pc' = "batch" /\ blind' \in {"never", "once", "now"}
           /\ event' \in [side : Sides, flags : SUBSET Flags]
           /\ pair' \in Pair /\ backend' \in Socket /\ failovers' \in 0 .. MaxFailovers
<1>1. event' = NoEvent /\ pc' = "batch"
  BY DEF Failover, Close
<1>2. CASE Close("unroutable") /\ UNCHANGED <<pair, backend, failovers>>
  BY <1>1, <1>2, CloseType DEF TypeOK, Ends
<1>3. ASSUME NEW c \in BOOLEAN,
             backend' = Fresh(IF c THEN "connecting" ELSE "open"),
             pair' = [pair EXCEPT !.backend_fd = TRUE, !.backend_connecting = c,
                                  !.current_backend_events = IF c THEN {"OUT"} ELSE {"IN"}],
             blind' = (IF c THEN blind ELSE "now"),
             failovers' = failovers + 1, failovers < MaxFailovers, end' = end
      PROVE  /\ end' \in Ends /\ blind' \in {"never", "once", "now"}
             /\ pair' \in Pair /\ backend' \in Socket /\ failovers' \in 0 .. MaxFailovers
  <2>3. backend' \in Socket
    BY <1>3, FreshType
  <2>4. pair' \in Pair
    BY <1>3 DEF TypeOK, Pair
  <2> QED
    BY <1>3, <2>3, <2>4, RelayAssumption DEF TypeOK
<1>4. NoEvent \in [side : Sides, flags : SUBSET Flags]
  BY DEF NoEvent, Sides, Flags
<1> QED
  BY <1>1, <1>2, <1>3, <1>4 DEF Failover

\* Every step of the reactor, of a peer or of the kernel keeps the types: no
\* buffer exceeds MAX_BUFFER and no counter goes below zero.
LEMMA NextTypeOK == TypeOK /\ [Next]_vars => TypeOK'
<1> SUFFICES ASSUME TypeOK, [Next]_vars PROVE TypeOK'
  OBVIOUS
<1> USE RelayAssumption DEF TypeOK
<1>1. CASE Wait
  BY <1>1, ReadyType DEF Wait
<1>2. CASE BatchDone
  BY <1>2 DEF BatchDone
<1>3. ASSUME NEW e \in batch, HandleEvent(e) PROVE TypeOK'
  <2>1. /\ batch' \subseteq batch /\ UNCHANGED <<client, short>>
        /\ e \in [side : Sides, flags : SUBSET Flags]
    BY <1>3 DEF HandleEvent
  <2>2. CASE end # "open"
    BY <1>3, <2>1, <2>2 DEF HandleEvent
  <2>3. CASE Failover
    BY <2>1, <2>3, FailoverType
  <2>4. ASSUME NEW why \in Ends, Close(why), UNCHANGED <<pair, backend, failovers>> PROVE TypeOK'
    BY <2>1, <2>4, CloseType
  <2>5. CASE end = "open" /\ event' = e /\ UNCHANGED <<pair, backend, end, failovers, blind>>
             /\ pc' \in {"drain", "forward", "metrics", "peek"}
    BY <2>1, <2>5
  <2> QED
    BY <1>3, <2>2, <2>3, <2>4, <2>5 DEF HandleEvent, Ends
<1>4. CASE PeekShort
  BY <1>4 DEF PeekShort, NoEvent, Sides, Flags
<1>5. CASE PeekFails
  BY <1>5, CloseType DEF PeekFails, Ends
<1>6. CASE PeekMetrics
  BY <1>6 DEF PeekMetrics, Pair
<1>7. CASE ConnectToBackend
  <2>1. CASE Close("unroutable") /\ UNCHANGED <<pair, backend>>
    BY <1>7, <2>1, CloseType DEF ConnectToBackend, Ends
  <2>2. ASSUME NEW c \in BOOLEAN,
               backend' = Fresh(IF c THEN "connecting" ELSE "open"),
               pair' = [pair EXCEPT !.backend_fd = TRUE, !.backend_connecting = c,
                                    !.current_backend_events = IF c THEN {"OUT"} ELSE {"IN"}],
               pc' = "forward", UNCHANGED <<end, event, blind>>
        PROVE  TypeOK'
    <3>1. backend' \in Socket
      BY <2>2, FreshType
    <3>2. pair' \in Pair
      BY <2>2 DEF Pair
    <3> QED
      BY <1>7, <2>2, <3>1, <3>2 DEF ConnectToBackend
  <2> QED
    BY <1>7, <2>1, <2>2 DEF ConnectToBackend
<1>8. CASE AnswerMetrics
  <2>1. client' \in Socket
    BY <1>8 DEF AnswerMetrics, Socket
  <2>2. pair' \in Pair
    <3>1. PICK mask \in {pair.current_client_events, {"OUT"}} :
            pair' = [pair EXCEPT !.backend_to_client = 1, !.client_read_closed = TRUE,
                                 !.current_client_events = mask]
      BY <1>8 DEF AnswerMetrics
    <3>2. mask \in SUBSET {"IN", "OUT"} /\ 1 \in 0 .. MAX_BUFFER
      BY PairFields
    <3> QED
      BY <3>1, <3>2 DEF Pair
  <2> QED
    BY <1>8, <2>1, <2>2 DEF AnswerMetrics, NoEvent, Sides, Flags
<1>9. CASE MetricsEnds
  BY <1>9, CloseType DEF MetricsEnds, Ends
<1>10. CASE ForwardFails
  BY <1>10, CloseType DEF ForwardFails, Ends
<1>11. ASSUME NEW n \in Nat, NEW eof \in BOOLEAN, n <= source.sock, Fits(n), Received(n, eof)
       PROVE  pair' \in Pair /\ client' \in Socket /\ backend' \in Socket
  <2>1. CASE event.side = "client"
    <3> DEFINE k == client.sock - n
               b == pair.client_to_backend + n
               x == pair.client_read_closed \/ eof
    <3>1. k \in Nat /\ b \in 0 .. MAX_BUFFER /\ x \in BOOLEAN
      BY <1>11, <2>1, PairFields, SocketFields DEF source, Fits, Pending
    <3>2. /\ client' = [client EXCEPT !.sock = k] /\ UNCHANGED backend
          /\ pair' = [pair EXCEPT !.client_to_backend = b, !.client_read_closed = x]
      BY <1>11, <2>1 DEF Received
    <3> HIDE DEF k, b, x
    <3> QED
      BY <3>1, <3>2 DEF Pair, Socket
  <2>2. CASE event.side # "client"
    <3> DEFINE k == backend.sock - n
               b == pair.backend_to_client + n
               x == pair.backend_read_closed \/ eof
    <3>1. k \in Nat /\ b \in 0 .. MAX_BUFFER /\ x \in BOOLEAN
      BY <1>11, <2>2, PairFields, SocketFields DEF source, Fits, Pending
    <3>2. /\ backend' = [backend EXCEPT !.sock = k] /\ UNCHANGED client
          /\ pair' = [pair EXCEPT !.backend_to_client = b, !.backend_read_closed = x]
      BY <1>11, <2>2 DEF Received
    <3> HIDE DEF k, b, x
    <3> QED
      BY <3>1, <3>2 DEF Pair, Socket
  <2> QED
    BY <2>1, <2>2
<1>12. source \in Socket
  BY DEF source
<1>13. CASE ForwardData
  <2>1. PICK n \in 0 .. source.sock : Fits(n) /\ Received(n, n = 0 /\ source.peer = "fin")
    BY <1>13 DEF ForwardData
  <2>2. n \in Nat /\ n <= source.sock /\ (n = 0 /\ source.peer = "fin") \in BOOLEAN
    BY <1>12 DEF Socket
  <2> QED
    BY <1>11, <1>13, <2>1, <2>2 DEF ForwardData
<1>14. CASE DrainData
  <2>1. source.sock \in Nat /\ source.sock <= source.sock
    BY <1>12 DEF Socket
  <2>2. (source.peer = "fin") \in BOOLEAN
    OBVIOUS
  <2> QED
    BY <1>11, <1>14, <2>1, <2>2 DEF DrainData
<1>15. CASE NoDrain
  BY <1>15 DEF NoDrain
<1>16. CASE Connected
  <2>1. CASE Failover
    BY <1>16, <2>1, FailoverType DEF Connected
  <2>2. CASE ~Failover
    BY <1>16, <2>2, ZenonT(60) DEF Connected, Pair
  <2> QED
    BY <2>1, <2>2
<1>17. CASE Flush
  <2> DEFINE n == IF pair.backend_fd /\ ~pair.backend_connecting
                    THEN AtMost(pair.client_to_backend, backend.room) ELSE 0
             m == AtMost(pair.backend_to_client, client.room)
  <2>1. /\ n \in Nat /\ n <= pair.client_to_backend /\ n <= backend.room
        /\ m \in Nat /\ m <= pair.backend_to_client /\ m <= client.room
    BY DEF AtMost, Pair, Socket
  <2>2. CASE Close("error") /\ UNCHANGED <<pair, client, backend>>
    BY <1>17, <2>2, CloseType DEF Flush, Ends
  <2>3. CASE ~Close("error")
    <3>1. /\ pair' = [pair EXCEPT !.client_to_backend = @ - n, !.backend_to_client = @ - m]
          /\ backend' = [backend EXCEPT !.room = @ - n, !.got = @ + n]
          /\ client' = [client EXCEPT !.room = @ - m, !.got = @ + m]
          /\ pc' = "settle" /\ UNCHANGED <<end, event, blind, batch, failovers, short>>
      BY <1>17, <2>3 DEF Flush
    <3> HIDE DEF n, m
    <3>2. pair' \in Pair
      <4>1. pair.client_to_backend - n \in 0 .. MAX_BUFFER /\ pair.backend_to_client - m \in 0 .. MAX_BUFFER
        BY <2>1, PairFields
      <4> QED
        BY <3>1, <4>1 DEF Pair
    <3>3. backend' \in Socket /\ client' \in Socket
      <4>1. /\ backend.room - n \in 0 .. WINDOW /\ backend.got + n \in Nat
            /\ client.room - m \in 0 .. WINDOW /\ client.got + m \in Nat
        BY <2>1, SocketFields
      <4> QED
        BY <3>1, <4>1 DEF Socket
    <3> QED
      BY <3>1, <3>2, <3>3
  <2>4. Close("error") => UNCHANGED <<pair, client, backend>> \/ pc' = "settle"
    BY <1>17 DEF Flush
  <2> QED
    BY <2>2, <2>3, <2>4 DEF Close
<1>18. CASE Settle
  <2> DEFINE p == HalfClosed(pair)
  <2>1. p \in Pair
    BY ZenonT(60) DEF HalfClosed, Pair
  <2>2. BackendMask(p) \subseteq {"IN", "OUT"} /\ ClientMask(p) \subseteq {"IN", "OUT"}
    BY DEF BackendMask, ClientMask
  <2> HIDE DEF p
  <2>3. UNCHANGED <<client, backend, batch, failovers, short>> /\ event' = NoEvent /\ pc' = "batch"
    BY <1>18 DEF Settle, Close
  <2>4. CASE pair' = p /\ Close("done")
    BY <2>1, <2>3, <2>4, CloseType DEF Ends
  <2>5. ASSUME NEW cm \in SUBSET {"IN", "OUT"}, NEW bm \in SUBSET {"IN", "OUT"},
               pair' = [p EXCEPT !.current_client_events = cm, !.current_backend_events = bm],
               blind' \in {"never", "once", "now"}, UNCHANGED end
        PROVE  TypeOK'
    <3>1. pair' \in Pair
      BY <2>1, <2>5 DEF Pair
    <3> QED
      BY <2>3, <2>5, <3>1 DEF NoEvent, Sides, Flags
  <2>6. p.current_client_events \in SUBSET {"IN", "OUT"} /\ p.current_backend_events \in SUBSET {"IN", "OUT"}
    BY <2>1 DEF Pair
  <2> QED
    BY <1>18, <2>2, <2>4, <2>5, <2>6, ZenonT(60) DEF Settle, p
<1>19. CASE CloseAllConnections
  BY <1>19 DEF CloseAllConnections, loopVars, Ends
<1>20. CASE Peers
  <2>1. UNCHANGED lbVars
    BY <1>20 DEF Peers, ClientSends, ClientReads, ClientEnds, BackendAnswersConnect,
                 BackendSends, BackendReads, BackendFin, BackendReset
  <2>2. client' \in Socket
    <3>0. client.sock + 1 \in Nat /\ client.sent + 1 \in Nat /\ WINDOW \in 0 .. WINDOW
      BY SocketFields
    <3>1. CASE ClientSends
      BY <3>0, <3>1 DEF ClientSends, Socket
    <3>2. CASE ClientReads
      BY <3>0, <3>2 DEF ClientReads, Socket
    <3>3. ASSUME NEW how \in {"fin", "reset"}, ClientEnds(how) PROVE client' \in Socket
      BY <3>3 DEF ClientEnds, Socket
    <3> QED
      BY <1>20, <3>1, <3>2, <3>3
         DEF Peers, BackendAnswersConnect, BackendSends, BackendReads, BackendFin, BackendReset
  <2>3. backend' \in Socket
    <3>0. backend.sock + 1 \in Nat /\ backend.sent + 1 \in Nat /\ WINDOW \in 0 .. WINDOW
      BY SocketFields
    <3>1. CASE BackendSends
      BY <3>0, <3>1 DEF BackendSends, Socket
    <3>2. CASE BackendReads
      BY <3>0, <3>2 DEF BackendReads, Socket
    <3>3. CASE BackendAnswersConnect \/ BackendFin \/ BackendReset
      BY <3>3 DEF BackendAnswersConnect, BackendFin, BackendReset, Socket
    <3> QED
      BY <1>20, <3>1, <3>2, <3>3 DEF Peers, ClientSends, ClientReads, ClientEnds
  <2> QED
    BY <2>1, <2>2, <2>3 DEF lbVars, loopVars
<1>21. CASE UNCHANGED vars
  BY <1>21 DEF vars, loopVars
<1> QED
  BY <1>1, <1>2, <1>3, <1>4, <1>5, <1>6, <1>7, <1>8, <1>9, <1>10, <1>13, <1>14, <1>15,
     <1>16, <1>17, <1>18, <1>19, <1>20, <1>21 DEF Next, Reactor, Terminated

\* In every reachable state the variables have their types; in particular no
\* buffer is ever filled beyond MAX_BUFFER_SIZE.
THEOREM TypeCorrect == Spec => []TypeOK
BY InitTypeOK, NextTypeOK, PTL DEF Spec

-----------------------------------------------------------------------------
(* The inductive invariant. *)

\* A pair that has left `connections` is in no handler.
GoneIsIdle == end # "open" => pc \in {"wait", "batch"}

\* Where a handler may be, given what the pair is.
HandlerFits ==
    /\ pair.metrics_connection => ~pair.backend_fd
    /\ pc = "metrics" => pair.metrics_connection
    /\ pc = "peek" => ~pair.metrics_connection /\ ~pair.backend_fd
    /\ pc \in {"peek", "metrics"} => event.side = "client"
    /\ pc = "forward" => pair.backend_fd
    /\ pc = "drain" /\ "IN" \in event.flags => pair.backend_fd

\* Without a backend there is nothing of a backend.
NoBackendYet ==
    ~pair.backend_fd =>
        /\ ~pair.backend_connecting /\ ~pair.backend_read_closed
        /\ backend = Fresh("none")
        /\ pair.client_to_backend = 0

\* While the connection is being made nothing has gone to the backend or come
\* from it, except within the handler that finds it made.
ConnectingIsFresh ==
    end = "open" /\ pair.backend_connecting =>
        /\ backend.got = 0 /\ client.got = 0 /\ backend.room = WINDOW
        /\ \/ pair.backend_to_client = 0 /\ ~pair.backend_read_closed
           \/ /\ pc \in {"drain", "connected"}
              /\ event.side = "backend" /\ "OUT" \in event.flags
              /\ backend.peer \in {"open", "fin"}

\* A backend says nothing before the connection is made.
SilentBefore == backend.peer \in {"none", "connecting"} => backend.sock = 0

\* End of file has been read only after all data.
ReadClosedAtEnd ==
    /\ pair.client_read_closed /\ ~pair.metrics_connection =>
         client.peer \in {"fin", "reset"} /\ client.sock = 0 /\ pair.backend_fd
    /\ pair.backend_read_closed =>
         backend.peer \in {"fin", "reset"} /\ backend.sock = 0

\* SHUT_WR follows end of file and the last of the data.
WriteClosedAfterRead ==
    /\ pair.backend_write_closed =>
         /\ pair.client_read_closed /\ pair.client_to_backend = 0
         /\ pair.backend_fd /\ ~pair.backend_connecting
    /\ pair.client_write_closed =>
         pair.backend_read_closed /\ pair.backend_to_client = 0

\* What the flags of an event that may be out of date still say.
EventSound(e) ==
    /\ e.side = "backend" => pair.backend_fd
    /\ e.side = "backend" /\ pair.backend_connecting => e.flags \cap {"OUT", "ERR"} # {}
    /\ e.side = "client" /\ "RDHUP" \in e.flags /\ "IN" \notin e.flags =>
         pair.client_read_closed
    /\ "HUP" \in e.flags /\ "ERR" \notin e.flags =>
         IF e.side = "client" THEN pair.client_write_closed /\ client.peer # "open"
                              ELSE pair.backend_write_closed
    /\ e.side = "backend" /\ HangsUp(e.flags) /\ "ERR" \notin e.flags /\ blind = "never" =>
         pair.backend_read_closed

\* A batch has one event per socket; the one being handled is not in it and
\* carries no error.
BatchSound ==
    /\ \A e \in batch : EventSound(e)
    /\ \A e1, e2 \in batch : e1.side = e2.side => e1 = e2
    /\ pc \notin {"wait", "batch"} =>
         /\ EventSound(event) /\ "ERR" \notin event.flags
         /\ \A e \in batch : e.side # event.side

\* Input is asked for until its end, a connection until it is made, and,
\* outside the handlers that settle them, both outputs while there are any.
MasksSound ==
    /\ ~pair.client_read_closed => "IN" \in pair.current_client_events
    /\ pair.backend_connecting => "OUT" \in pair.current_backend_events
    /\ end = "open" /\ pc \in {"wait", "batch", "peek", "metrics"} /\ blind # "now" =>
         /\ pair.backend_to_client > 0 => "OUT" \in pair.current_client_events
         /\ pair.client_to_backend > 0 => "OUT" \in pair.current_backend_events
    /\ end = "open" /\ pc \in {"wait", "batch"} /\ blind = "never" /\ pair.backend_fd =>
         \/ pair.backend_connecting \/ pair.backend_read_closed
         \/ "IN" \in pair.current_backend_events

(***************************************************************************)
(* What an end in order can cost the client: it comes after the client's   *)
(* own end, all of the response has been read from the backend, and what   *)
(* is missing is in the buffer that a hang-up of the backend threw away,   *)
(* after both ends had been passed on. The other ways to end in order, and *)
(* the hang-up of a client, lose nothing.                                  *)
(***************************************************************************)
LossConfined ==
    EndedInOrder /\ ~pair.metrics_connection =>
        /\ client.peer # "open"
        /\ client.got + pair.backend_to_client = backend.sent
        /\ client.got # backend.sent =>
             end = "hangup" /\ pair.backend_read_closed /\ pair.backend_write_closed

\* LossConfined, for a pair that is about to be closed.
MayClose(why) ==
    why \in {"done", "hangup"} /\ blind = "never" /\ ~pair.metrics_connection =>
        /\ client.peer # "open"
        /\ client.got + pair.backend_to_client = backend.sent
        /\ client.got # backend.sent =>
             why = "hangup" /\ pair.backend_read_closed /\ pair.backend_write_closed

RelayInv ==
    /\ GoneIsIdle /\ HandlerFits /\ NoBackendYet /\ ConnectingIsFresh /\ SilentBefore
    /\ ReadClosedAtEnd /\ WriteClosedAfterRead /\ BatchSound /\ MasksSound
    /\ NothingLost /\ EndAfterData /\ LossConfined

\* A pair that has just been made.
LEMMA InitRelayInv == Init => RelayInv
BY RelayAssumption
   DEF Init, RelayInv, GoneIsIdle, HandlerFits, NoBackendYet, ConnectingIsFresh, SilentBefore,
       ReadClosedAtEnd, WriteClosedAfterRead, BatchSound, MasksSound, NothingLost,
       EndAfterData, LossConfined, EndedInOrder, Fresh

\* The counters and flags the steps are about.
LEMMA Counters ==
    ASSUME TypeOK
    PROVE  /\ pair.client_to_backend \in Nat /\ pair.backend_to_client \in Nat
           /\ client.sock \in Nat /\ client.sent \in Nat /\ client.got \in Nat
           /\ backend.sock \in Nat /\ backend.sent \in Nat /\ backend.got \in Nat
           /\ client.room \in Nat /\ backend.room \in Nat
<1>1. pair \in Pair /\ client \in Socket /\ backend \in Socket
  BY DEF TypeOK
<1> QED
  BY <1>1, PairFields, SocketFields

\* What epoll reports is true when it reports it.
LEMMA ReadySound ==
    ASSUME TypeOK, RelayInv, end = "open", pc = "wait"
    PROVE  /\ \A e \in ReadyEvents : EventSound(e)
           /\ \A e1, e2 \in ReadyEvents : e1.side = e2.side => e1 = e2
<1> USE RelayAssumption DEF TypeOK
<1> DEFINE ce == [side |-> "client",
                  flags |-> Reported(client, pair.current_client_events, pair.client_write_closed)]
           be == [side |-> "backend",
                  flags |-> Reported(backend, pair.current_backend_events, pair.backend_write_closed)]
<1>1. ReadyEvents \subseteq {ce, be} /\ \A e \in ReadyEvents : e.flags # {}
  BY DEF ReadyEvents
<1>2. EventSound(ce)
  <2>1. "RDHUP" \in ce.flags /\ "IN" \notin ce.flags => pair.client_read_closed
    BY DEF Reported, Flags, Socket, RelayInv, MasksSound
  <2>2. "HUP" \in ce.flags /\ "ERR" \notin ce.flags =>
          pair.client_write_closed /\ client.peer # "open"
    BY DEF Reported, Flags, Socket
  <2> HIDE DEF ce
  <2>3. ce.side = "client"
    BY DEF ce
  <2> QED
    BY <2>1, <2>2, <2>3 DEF EventSound
<1>3. ASSUME be.flags # {} PROVE EventSound(be)
  <2>1. backend.peer # "none" /\ pair.backend_fd
    <3>1. backend.peer # "none"
      BY <1>3 DEF Reported
    <3> QED
      BY <3>1 DEF RelayInv, NoBackendYet, Fresh
  <2>2. pair.backend_connecting => be.flags \cap {"OUT", "ERR"} # {}
    <3> SUFFICES ASSUME pair.backend_connecting PROVE "OUT" \in be.flags \/ "ERR" \in be.flags
      OBVIOUS
    <3>1. backend.room > 0 /\ "OUT" \in pair.current_backend_events
      BY DEF RelayInv, ConnectingIsFresh, MasksSound
    <3> QED
      BY <1>3, <3>1 DEF Reported, Flags, Socket
  <2>3. "HUP" \in be.flags /\ "ERR" \notin be.flags => pair.backend_write_closed
    BY DEF Reported, Flags, Socket
  <2>4. ASSUME HangsUp(be.flags), "ERR" \notin be.flags, blind = "never"
        PROVE  pair.backend_read_closed
    <3>1. pair.backend_write_closed /\ backend.peer = "fin"
      BY <2>4 DEF HangsUp, Reported, Flags, Socket
    <3>2. "IN" \notin pair.current_backend_events
      BY <2>4, <3>1 DEF HangsUp, Reported, Flags
    <3> QED
      BY <2>1, <2>4, <3>1, <3>2 DEF RelayInv, MasksSound, WriteClosedAfterRead
  <2> HIDE DEF be
  <2>5. be.side = "backend"
    BY DEF be
  <2> QED
    BY <2>1, <2>2, <2>3, <2>4, <2>5 DEF EventSound
<1>4. ce.side # be.side
  OBVIOUS
<1> HIDE DEF ce, be
<1> QED
  BY <1>1, <1>2, <1>3, <1>4

\* The ends that are not in order claim nothing.
LEMMA OtherEnds == \A why : why \notin {"done", "hangup"} => MayClose(why)
BY DEF MayClose

\* closeConnection() is final: what the pair and the sockets were they stay.
LEMMA CloseKeeps ==
    ASSUME TypeOK, RelayInv, NEW why, why # "open", Close(why),
           UNCHANGED <<pair, client, backend>>, batch' \subseteq batch,
           MayClose(why)
    PROVE  RelayInv'
<1>1. GoneIsIdle' /\ HandlerFits' /\ NoBackendYet' /\ ConnectingIsFresh' /\ SilentBefore'
  BY DEF Close, RelayInv, GoneIsIdle, HandlerFits, NoBackendYet, ConnectingIsFresh, SilentBefore
<1>2. ReadClosedAtEnd' /\ WriteClosedAfterRead' /\ MasksSound' /\ NothingLost' /\ EndAfterData'
  BY DEF Close, RelayInv, ReadClosedAtEnd, WriteClosedAfterRead, MasksSound, NothingLost,
         EndAfterData
<1>3. BatchSound'
  BY DEF Close, RelayInv, BatchSound, EventSound
<1>4. LossConfined'
  BY DEF Close, LossConfined, EndedInOrder, MayClose
<1> QED
  BY <1>1, <1>2, <1>3, <1>4 DEF RelayInv

\* failoverConnection() is called only for a connection that has carried
\* nothing yet; the request is still whole.
LEMMA FailoverKeeps ==
    ASSUME TypeOK, RelayInv, end = "open", pair.backend_connecting,
           pair.backend_to_client = 0, ~pair.backend_read_closed,
           Failover, UNCHANGED client, batch' \subseteq batch,
           \A e \in batch' : e.side = "client"
    PROVE  RelayInv'
<1>1. CASE Close("unroutable") /\ UNCHANGED <<pair, backend, failovers>>
  <2>1. MayClose("unroutable")
    BY OtherEnds
  <2> QED
    BY <1>1, <2>1, CloseKeeps
<1>2. ASSUME NEW c \in BOOLEAN,
             backend' = Fresh(IF c THEN "connecting" ELSE "open"),
             pair' = [pair EXCEPT !.backend_fd = TRUE, !.backend_connecting = c,
                                  !.current_backend_events = IF c THEN {"OUT"} ELSE {"IN"}],
             blind' = (IF c THEN blind ELSE "now"),
             pc' = "batch", event' = NoEvent, UNCHANGED end
      PROVE  RelayInv'
  <2>1. /\ pair'.backend_fd /\ pair'.backend_connecting = c
        /\ pair'.current_backend_events = IF c THEN {"OUT"} ELSE {"IN"}
        /\ UNCHANGED <<pair.client_read_closed, pair.backend_read_closed,
                       pair.client_write_closed, pair.backend_write_closed,
                       pair.metrics_connection, pair.client_to_backend,
                       pair.backend_to_client, pair.current_client_events>>
    BY <1>2 DEF TypeOK, Pair
  <2>2. /\ backend'.peer = (IF c THEN "connecting" ELSE "open")
        /\ backend'.sock = 0 /\ backend'.got = 0 /\ backend'.sent = 0 /\ backend'.room = WINDOW
    BY <1>2 DEF Fresh
  <2>3. /\ pair.backend_fd /\ ~pair.metrics_connection /\ client.got = 0 /\ backend.got = 0
        /\ ~pair.client_write_closed /\ ~pair.backend_write_closed
    BY DEF RelayInv, HandlerFits, NoBackendYet, ConnectingIsFresh, WriteClosedAfterRead
  <2>4. GoneIsIdle' /\ HandlerFits' /\ NoBackendYet' /\ ConnectingIsFresh' /\ SilentBefore'
    BY <1>2, <2>1, <2>2, <2>3
       DEF GoneIsIdle, HandlerFits, NoBackendYet, ConnectingIsFresh, SilentBefore
  <2>5. ReadClosedAtEnd' /\ WriteClosedAfterRead' /\ EndAfterData'
    BY <2>1, <2>3 DEF RelayInv, ReadClosedAtEnd, WriteClosedAfterRead, EndAfterData
  <2>6. BatchSound'
    BY <1>2, <2>1 DEF RelayInv, BatchSound, EventSound
  <2>7. MasksSound'
    BY <1>2, <2>1 DEF RelayInv, MasksSound
  <2>8. NothingLost' /\ LossConfined'
    BY <1>2, <2>1, <2>2, <2>3, Counters DEF RelayInv, NothingLost, LossConfined, EndedInOrder
  <2> QED
    BY <2>4, <2>5, <2>6, <2>7, <2>8 DEF RelayInv
<1> QED
  BY <1>1, <1>2 DEF Failover

\* The checks before the handlers.
LEMMA HandleEventKeeps ==
    ASSUME TypeOK, RelayInv, NEW e \in batch, HandleEvent(e) PROVE RelayInv'
<1>1. /\ batch' = batch \ {e} /\ UNCHANGED <<client, short>> /\ pc = "batch"
      /\ EventSound(e) /\ \A f \in batch' : f.side # e.side
      /\ e.side \in Sides /\ \A f \in batch' : f.side \in Sides
  BY DEF HandleEvent, RelayInv, BatchSound, TypeOK
<1>2. CASE end # "open"
  <2>1. UNCHANGED <<pair, backend, end, pc, event, failovers, blind>>
    BY <1>2 DEF HandleEvent
  <2> QED
    BY <1>1, <2>1
       DEF RelayInv, GoneIsIdle, HandlerFits, NoBackendYet, ConnectingIsFresh, SilentBefore,
           ReadClosedAtEnd, WriteClosedAfterRead, BatchSound, EventSound, MasksSound,
           NothingLost, EndAfterData, LossConfined, EndedInOrder
<1>3. CASE end = "open" /\ MayFailOver(e) /\ Failover
  <2>1. pair.backend_connecting /\ e.side = "backend"
    BY <1>3 DEF MayFailOver
  <2>2. pair.backend_to_client = 0 /\ ~pair.backend_read_closed
    BY <1>1, <1>3, <2>1 DEF RelayInv, ConnectingIsFresh
  <2> QED
    BY <1>1, <1>3, <2>1, <2>2, FailoverKeeps DEF Sides
<1>4. CASE /\ end = "open" /\ ("ERR" \in e.flags \/ HangsUp(e.flags))
           /\ Close(IF "ERR" \in e.flags THEN "error" ELSE "hangup")
           /\ UNCHANGED <<pair, backend, failovers>>
  <2> DEFINE why == IF "ERR" \in e.flags THEN "error" ELSE "hangup"
  <2>1. why # "open" /\ Close(why) /\ batch' \subseteq batch /\ UNCHANGED <<pair, client, backend>>
    BY <1>1, <1>4
  <2>2. MayClose(why)
    <3> SUFFICES ASSUME why \in {"done", "hangup"}, blind = "never", ~pair.metrics_connection
                 PROVE  /\ why = "hangup" /\ client.peer # "open"
                        /\ client.got + pair.backend_to_client = backend.sent
                        /\ client.got # backend.sent =>
                             pair.backend_read_closed /\ pair.backend_write_closed
      BY DEF MayClose
    <3>1. why = "hangup" /\ "ERR" \notin e.flags /\ "HUP" \in e.flags /\ HangsUp(e.flags)
      BY <1>4 DEF HangsUp
    <3>2. /\ client.sent = client.sock + pair.client_to_backend + backend.got
          /\ backend.sent = backend.sock + pair.backend_to_client + client.got
      BY <1>4 DEF RelayInv, NothingLost
    <3>3. CASE e.side = "client"
      <4>1. /\ client.peer # "open" /\ client.got = backend.sent
            /\ pair.backend_to_client = 0
        BY <1>1, <3>1, <3>3 DEF EventSound, RelayInv, EndAfterData, WriteClosedAfterRead
      <4> QED
        BY <3>1, <4>1, Counters
    <3>4. CASE e.side = "backend"
      <4>1. pair.backend_write_closed /\ pair.backend_read_closed
        BY <1>1, <3>1, <3>4 DEF EventSound
      <4>2. client.peer # "open" /\ backend.sock = 0
        BY <4>1 DEF RelayInv, EndAfterData, ReadClosedAtEnd
      <4> QED
        BY <3>1, <3>2, <4>1, <4>2, Counters
    <3> QED
      BY <1>1, <3>3, <3>4 DEF Sides
  <2> HIDE DEF why
  <2> QED
    BY <2>1, <2>2, CloseKeeps
<1>5. CASE /\ end = "open" /\ "ERR" \notin e.flags
           /\ pc' = IF "IN" \notin e.flags THEN "drain"
                    ELSE IF e.side = "backend" THEN "forward"
                    ELSE IF pair.metrics_connection THEN "metrics"
                    ELSE IF pair.backend_fd THEN "forward" ELSE "peek"
           /\ event' = e
           /\ UNCHANGED <<pair, backend, end, failovers, blind>>
  <2>1. GoneIsIdle' /\ HandlerFits' /\ NoBackendYet' /\ SilentBefore'
    BY <1>1, <1>5 DEF RelayInv, GoneIsIdle, HandlerFits, NoBackendYet, SilentBefore, EventSound,
                      Sides
  <2>2. ConnectingIsFresh'
    BY <1>1, <1>5 DEF RelayInv, ConnectingIsFresh
  <2>3. BatchSound'
    BY <1>1, <1>5 DEF RelayInv, BatchSound, EventSound
  <2>4. MasksSound'
    BY <1>1, <1>5 DEF RelayInv, MasksSound
  <2>5. /\ ReadClosedAtEnd' /\ WriteClosedAfterRead' /\ NothingLost' /\ EndAfterData'
        /\ LossConfined'
    BY <1>1, <1>5 DEF RelayInv, ReadClosedAtEnd, WriteClosedAfterRead, NothingLost,
                      EndAfterData, LossConfined, EndedInOrder
  <2> QED
    BY <2>1, <2>2, <2>3, <2>4, <2>5 DEF RelayInv
<1> QED
  BY <1>2, <1>3, <1>4, <1>5 DEF HandleEvent

\* The first input of a client.
LEMMA PeekKeeps ==
    ASSUME TypeOK, RelayInv,
           PeekShort \/ PeekFails \/ PeekMetrics \/ ConnectToBackend \/ AnswerMetrics \/ MetricsEnds
    PROVE  RelayInv'
<1> USE RelayAssumption
<1>1. CASE PeekFails
  <2>1. MayClose("error")
    BY OtherEnds
  <2> QED
    BY <1>1, <2>1, CloseKeeps DEF PeekFails
<1>2. CASE MetricsEnds
  <2>1. pair.metrics_connection
    BY <1>2 DEF MetricsEnds, RelayInv, HandlerFits
  <2> QED
    BY <1>2, <2>1, CloseKeeps DEF MetricsEnds, MayClose
<1>3. CASE PeekShort
  BY <1>3 DEF PeekShort, TypeOK, NoEvent, RelayInv, GoneIsIdle, HandlerFits, NoBackendYet,
              ConnectingIsFresh, SilentBefore, ReadClosedAtEnd, WriteClosedAfterRead,
              BatchSound, EventSound, MasksSound, NothingLost, EndAfterData, LossConfined,
              EndedInOrder
<1>4. CASE PeekMetrics
  <2>1. /\ pair'.metrics_connection /\ pc = "peek" /\ pc' = "metrics"
        /\ UNCHANGED <<client, backend, end, batch, event, failovers, blind>>
        /\ UNCHANGED <<pair.backend_fd, pair.backend_connecting, pair.client_read_closed,
                       pair.backend_read_closed, pair.client_write_closed,
                       pair.backend_write_closed, pair.client_to_backend,
                       pair.backend_to_client, pair.current_client_events,
                       pair.current_backend_events>>
    BY <1>4 DEF PeekMetrics, TypeOK, Pair
  <2> QED
    BY <2>1 DEF RelayInv, GoneIsIdle, HandlerFits, NoBackendYet, ConnectingIsFresh,
                SilentBefore, ReadClosedAtEnd, WriteClosedAfterRead, BatchSound, EventSound,
                MasksSound, NothingLost, EndAfterData, LossConfined, EndedInOrder
<1>5. CASE AnswerMetrics
  <2>1. /\ pair.metrics_connection /\ ~pair.backend_fd /\ ~pair.backend_read_closed
        /\ ~pair.backend_connecting /\ pair.client_to_backend = 0
        /\ ~pair.client_write_closed /\ ~pair.backend_write_closed /\ end = "open"
    BY <1>5 DEF AnswerMetrics, RelayInv, HandlerFits, NoBackendYet, WriteClosedAfterRead,
                GoneIsIdle
  <2>2. /\ pair'.client_read_closed /\ pc' = "batch" /\ event' = NoEvent
        /\ \/ pair'.current_client_events = {"OUT"}
           \/ blind' = "now"
        /\ UNCHANGED <<pair.metrics_connection, pair.backend_fd, pair.backend_connecting,
                       pair.backend_read_closed, pair.client_write_closed,
                       pair.backend_write_closed, pair.client_to_backend,
                       pair.current_backend_events, backend, end, batch, failovers, short>>
    BY <1>5 DEF AnswerMetrics, TypeOK, Pair
  <2>3. GoneIsIdle' /\ HandlerFits' /\ NoBackendYet' /\ ConnectingIsFresh' /\ SilentBefore'
    BY <2>1, <2>2 DEF RelayInv, GoneIsIdle, HandlerFits, NoBackendYet, ConnectingIsFresh,
                      SilentBefore
  <2>4. ReadClosedAtEnd' /\ WriteClosedAfterRead' /\ BatchSound'
    BY <2>1, <2>2 DEF RelayInv, ReadClosedAtEnd, WriteClosedAfterRead, BatchSound, EventSound
  <2>5. MasksSound' /\ NothingLost' /\ EndAfterData' /\ LossConfined'
    BY <2>1, <2>2 DEF RelayInv, MasksSound, NothingLost, EndAfterData, LossConfined,
                      EndedInOrder
  <2> QED
    BY <2>3, <2>4, <2>5 DEF RelayInv
<1>6. CASE ConnectToBackend
  <2>1. CASE Close("unroutable") /\ UNCHANGED <<pair, backend>>
    BY <1>6, <2>1, CloseKeeps DEF ConnectToBackend, MayClose
  <2>2. ASSUME NEW c \in BOOLEAN,
               backend' = Fresh(IF c THEN "connecting" ELSE "open"),
               pair' = [pair EXCEPT !.backend_fd = TRUE, !.backend_connecting = c,
                                    !.current_backend_events = IF c THEN {"OUT"} ELSE {"IN"}],
               pc' = "forward", UNCHANGED <<end, event, blind>>
        PROVE  RelayInv'
    <3>0. pc = "peek" /\ UNCHANGED <<client, batch, failovers>>
      BY <1>6 DEF ConnectToBackend
    <3>1. /\ ~pair.backend_fd /\ ~pair.metrics_connection /\ end = "open"
          /\ ~pair.backend_read_closed /\ ~pair.client_write_closed
          /\ ~pair.backend_write_closed /\ backend = Fresh("none")
          /\ pair.client_to_backend = 0 /\ event.side = "client"
          /\ \A e \in batch : e.side # "backend"
      BY <3>0 DEF RelayInv, GoneIsIdle, HandlerFits, NoBackendYet, WriteClosedAfterRead,
                  BatchSound, EventSound
    <3>2. pair.backend_to_client = 0 /\ client.got = 0
      <4>1. backend.sent = 0 /\ backend.sock = 0
        BY <3>1 DEF Fresh
      <4> QED
        BY <3>1, <4>1, Counters DEF RelayInv, NothingLost
    <3>3. /\ pair'.backend_fd /\ pair'.backend_connecting = c
          /\ pair'.current_backend_events = IF c THEN {"OUT"} ELSE {"IN"}
          /\ UNCHANGED <<pair.client_read_closed, pair.backend_read_closed,
                         pair.client_write_closed, pair.backend_write_closed,
                         pair.metrics_connection, pair.client_to_backend,
                         pair.backend_to_client, pair.current_client_events>>
      BY <2>2 DEF TypeOK, Pair
    <3>4. /\ backend'.peer = (IF c THEN "connecting" ELSE "open")
          /\ backend'.sock = 0 /\ backend'.got = 0 /\ backend'.sent = 0 /\ backend'.room = WINDOW
      BY <2>2 DEF Fresh
    <3>5. GoneIsIdle' /\ HandlerFits' /\ NoBackendYet' /\ ConnectingIsFresh' /\ SilentBefore'
      BY <2>2, <3>0, <3>1, <3>2, <3>3, <3>4
         DEF GoneIsIdle, HandlerFits, NoBackendYet, ConnectingIsFresh, SilentBefore
    <3>6. ReadClosedAtEnd' /\ WriteClosedAfterRead' /\ EndAfterData' /\ MasksSound'
      BY <2>2, <3>0, <3>1, <3>3
         DEF RelayInv, ReadClosedAtEnd, WriteClosedAfterRead, EndAfterData, MasksSound
    <3>7. BatchSound'
      BY <2>2, <3>0, <3>1, <3>3 DEF RelayInv, BatchSound, EventSound
    <3>8. NothingLost' /\ LossConfined'
      <4>1. backend.got = 0
        BY <3>1 DEF Fresh
      <4> QED
        BY <2>2, <3>0, <3>1, <3>2, <3>3, <3>4, <4>1, Counters
           DEF RelayInv, NothingLost, LossConfined, EndedInOrder
    <3> QED
      BY <3>5, <3>6, <3>7, <3>8 DEF RelayInv
  <2> QED
    BY <1>6, <2>1, <2>2 DEF ConnectToBackend
<1> QED
  BY <1>1, <1>2, <1>3, <1>4, <1>5, <1>6

\* forwardData() moves chunks from a socket to a buffer, and end of file is
\* seen only on a socket that has been emptied.
LEMMA ForwardKeeps ==
    ASSUME TypeOK, RelayInv, end = "open", NEW n \in Nat, NEW eof \in BOOLEAN,
           pc \in {"forward", "drain"}, pc' \in {"drain", "connected"},
           pc = "drain" => event.flags \cap {"RDHUP", "HUP"} # {},
           event.side = "client" => ~pair.metrics_connection,
           source.peer # "reset", n <= source.sock, Received(n, eof),
           eof => n = source.sock /\ source.peer = "fin",
           UNCHANGED <<end, batch, event, blind>>
    PROVE  RelayInv'
<1> USE RelayAssumption
<1>0. /\ ~pair.metrics_connection /\ pair.backend_fd
      /\ EventSound(event) /\ "ERR" \notin event.flags /\ event.side \in Sides
  <2>1. EventSound(event) /\ "ERR" \notin event.flags /\ event.side \in Sides
    BY DEF RelayInv, BatchSound, TypeOK
  <2>2. CASE event.side = "backend"
    BY <2>1, <2>2 DEF EventSound, RelayInv, HandlerFits
  <2>3. CASE event.side = "client" /\ pc = "forward"
    BY <2>1, <2>3 DEF RelayInv, HandlerFits
  <2>4. CASE event.side = "client" /\ pc = "drain"
    BY <2>1, <2>4 DEF EventSound, RelayInv, HandlerFits, NoBackendYet, ReadClosedAtEnd,
                      WriteClosedAfterRead
  <2> QED
    BY <2>1, <2>2, <2>3, <2>4 DEF Sides
<1>1. CASE event.side = "client"
  <2>1. /\ client' = [client EXCEPT !.sock = @ - n] /\ UNCHANGED backend
        /\ pair' = [pair EXCEPT !.client_to_backend = @ + n,
                                !.client_read_closed = @ \/ eof]
        /\ n <= client.sock /\ client.peer # "reset"
        /\ eof => n = client.sock /\ client.peer = "fin"
    BY <1>1 DEF Received, source
  <2>2. /\ pair'.client_to_backend = pair.client_to_backend + n
        /\ pair'.client_read_closed <=> pair.client_read_closed \/ eof
        /\ UNCHANGED <<pair.metrics_connection, pair.backend_fd, pair.backend_connecting,
                       pair.backend_read_closed, pair.client_write_closed,
                       pair.backend_write_closed, pair.backend_to_client,
                       pair.current_client_events, pair.current_backend_events>>
    BY <2>1 DEF TypeOK, Pair
  <2>3. client'.sock = client.sock - n /\ UNCHANGED <<client.sent, client.got, client.peer>>
    BY <2>1 DEF TypeOK, Socket
  <2>4. GoneIsIdle' /\ HandlerFits' /\ NoBackendYet' /\ SilentBefore'
    BY <1>0, <2>1, <2>2 DEF RelayInv, GoneIsIdle, HandlerFits, NoBackendYet, SilentBefore
  <2>5. ConnectingIsFresh'
    BY <1>1, <2>1, <2>2, <2>3 DEF RelayInv, ConnectingIsFresh
  <2>6. ReadClosedAtEnd' /\ WriteClosedAfterRead'
    BY <1>0, <2>1, <2>2, <2>3, Counters DEF RelayInv, ReadClosedAtEnd, WriteClosedAfterRead
  <2>7. BatchSound'
    BY <2>1, <2>2, <2>3 DEF RelayInv, BatchSound, EventSound
  <2>8. MasksSound'
    BY <2>2 DEF RelayInv, MasksSound
  <2>9. NothingLost' /\ EndAfterData' /\ LossConfined'
    BY <1>0, <2>1, <2>2, <2>3, Counters
       DEF RelayInv, NothingLost, EndAfterData, LossConfined, EndedInOrder
  <2> QED
    BY <2>4, <2>5, <2>6, <2>7, <2>8, <2>9 DEF RelayInv
<1>2. CASE event.side = "backend"
  <2>1. /\ backend' = [backend EXCEPT !.sock = @ - n] /\ UNCHANGED client
        /\ pair' = [pair EXCEPT !.backend_to_client = @ + n,
                                !.backend_read_closed = @ \/ eof]
        /\ n <= backend.sock /\ backend.peer # "reset"
        /\ eof => n = backend.sock /\ backend.peer = "fin"
    BY <1>2 DEF Received, source
  <2>2. /\ pair'.backend_to_client = pair.backend_to_client + n
        /\ pair'.backend_read_closed <=> pair.backend_read_closed \/ eof
        /\ UNCHANGED <<pair.metrics_connection, pair.backend_fd, pair.backend_connecting,
                       pair.client_read_closed, pair.client_write_closed,
                       pair.backend_write_closed, pair.client_to_backend,
                       pair.current_client_events, pair.current_backend_events>>
    BY <2>1 DEF TypeOK, Pair
  <2>3. /\ backend'.sock = backend.sock - n
        /\ UNCHANGED <<backend.sent, backend.got, backend.peer, backend.room>>
    BY <2>1 DEF TypeOK, Socket
  <2>4. GoneIsIdle' /\ HandlerFits' /\ NoBackendYet' /\ SilentBefore'
    BY <1>0, <2>1, <2>2, <2>3, Counters
       DEF RelayInv, GoneIsIdle, HandlerFits, NoBackendYet, SilentBefore
  <2>5. ConnectingIsFresh'
    <3> SUFFICES ASSUME pair.backend_connecting
                 PROVE  /\ backend'.got = 0 /\ client.got = 0 /\ backend'.room = WINDOW
                        /\ \/ pair'.backend_to_client = 0 /\ ~pair'.backend_read_closed
                           \/ "OUT" \in event.flags /\ backend'.peer \in {"open", "fin"}
      BY <1>2, <2>1, <2>2 DEF ConnectingIsFresh
    <3>1. "OUT" \in event.flags
      BY <1>0, <1>2 DEF EventSound
    <3>2. CASE backend.peer \in {"open", "fin"}
      BY <2>3, <3>1, <3>2 DEF RelayInv, ConnectingIsFresh
    <3>3. CASE backend.peer \notin {"open", "fin"}
      <4>1. backend.sock = 0
        BY <2>1, <3>3 DEF RelayInv, SilentBefore, TypeOK, Socket
      <4>2. n = 0 /\ ~eof
        BY <2>1, <3>3, <4>1
      <4>3. pair.backend_to_client = 0 /\ ~pair.backend_read_closed
        BY <3>3 DEF RelayInv, ConnectingIsFresh
      <4> QED
        BY <2>2, <2>3, <4>2, <4>3 DEF RelayInv, ConnectingIsFresh
    <3> QED
      BY <3>2, <3>3
  <2>6. ReadClosedAtEnd' /\ WriteClosedAfterRead'
    BY <1>0, <2>1, <2>2, <2>3, Counters DEF RelayInv, ReadClosedAtEnd, WriteClosedAfterRead
  <2>7. BatchSound'
    BY <2>1, <2>2, <2>3 DEF RelayInv, BatchSound, EventSound
  <2>8. MasksSound'
    BY <2>2 DEF RelayInv, MasksSound
  <2>9. NothingLost' /\ EndAfterData' /\ LossConfined'
    BY <1>0, <2>1, <2>2, <2>3, Counters
       DEF RelayInv, NothingLost, EndAfterData, LossConfined, EndedInOrder
  <2> QED
    BY <2>4, <2>5, <2>6, <2>7, <2>8, <2>9 DEF RelayInv
<1> QED
  BY <1>0, <1>1, <1>2 DEF Sides

\* Reading and draining.
LEMMA ReadKeeps ==
    ASSUME TypeOK, RelayInv, ForwardFails \/ ForwardData \/ DrainData \/ NoDrain
    PROVE  RelayInv'
<1>0. pc \in {"forward", "drain"} /\ end = "open"
  BY DEF ForwardFails, ForwardData, DrainData, NoDrain, RelayInv, GoneIsIdle
<1>1. source \in Socket /\ source.sock \in Nat
  BY SocketFields DEF source, TypeOK
<1>2. CASE ForwardFails
  <2>1. MayClose("error") /\ MayClose("overflow")
    BY OtherEnds
  <2> QED
    BY <1>2, <2>1, CloseKeeps DEF ForwardFails
<1>3. CASE ForwardData
  <2>1. PICK n \in 0 .. source.sock :
          /\ n = 0 <=> source.sock = 0
          /\ Received(n, n = 0 /\ source.peer = "fin")
    BY <1>3 DEF ForwardData
  <2> DEFINE eof == n = 0 /\ source.peer = "fin"
  <2>2. n \in Nat /\ n <= source.sock /\ eof \in BOOLEAN
    BY <1>1
  <2>3. eof => n = source.sock /\ source.peer = "fin"
    BY <2>1
  <2>4. Received(n, eof)
    BY <2>1
  <2>5. event.side = "client" => ~pair.metrics_connection
    BY <1>3 DEF ForwardData, RelayInv, HandlerFits
  <2> HIDE DEF eof
  <2> QED
    BY <1>0, <1>3, <2>2, <2>3, <2>4, <2>5, ForwardKeeps DEF ForwardData
<1>4. CASE DrainData
  <2> DEFINE eof == source.peer = "fin"
  <2>1. eof \in BOOLEAN /\ (eof => source.peer = "fin") /\ Received(source.sock, eof)
    BY <1>4 DEF DrainData
  <2> HIDE DEF eof
  <2>2. source.sock <= source.sock
    BY <1>1
  <2> QED
    BY <1>0, <1>1, <1>4, <2>1, <2>2, ForwardKeeps DEF DrainData
<1>5. CASE NoDrain
  BY <1>0, <1>5
     DEF NoDrain, RelayInv, GoneIsIdle, HandlerFits, NoBackendYet, ConnectingIsFresh,
         SilentBefore, ReadClosedAtEnd, WriteClosedAfterRead, BatchSound, EventSound,
         MasksSound, NothingLost, EndAfterData, LossConfined, EndedInOrder
<1> QED
  BY <1>2, <1>3, <1>4, <1>5

\* A connection that is made, or that has to be tried elsewhere.
LEMMA ConnectedKeeps == ASSUME TypeOK, RelayInv, Connected PROVE RelayInv'
<1>0. pc = "connected" /\ end = "open" /\ UNCHANGED <<client, batch, short>>
  BY DEF Connected, RelayInv, GoneIsIdle
<1>1. CASE MayFailOver(event) /\ backend.peer = "reset" /\ Failover
  <2>1. pair.backend_connecting /\ event.side = "backend"
    BY <1>1 DEF MayFailOver
  <2>2. pair.backend_to_client = 0 /\ ~pair.backend_read_closed
    BY <1>0, <1>1, <2>1 DEF RelayInv, ConnectingIsFresh
  <2>3. \A e \in batch' : e.side = "client"
    BY <1>0, <2>1 DEF RelayInv, BatchSound, TypeOK, Sides
  <2> QED
    BY <1>0, <1>1, <2>1, <2>2, <2>3, FailoverKeeps
<1>2. CASE /\ pair.backend_connecting
           /\ pair' = [pair EXCEPT !.backend_connecting = FALSE]
           /\ pc' = "flush"
           /\ UNCHANGED <<backend, end, event, failovers, blind>>
  <2>1. /\ ~pair'.backend_connecting
        /\ UNCHANGED <<pair.metrics_connection, pair.backend_fd, pair.client_read_closed,
                       pair.backend_read_closed, pair.client_write_closed,
                       pair.backend_write_closed, pair.client_to_backend,
                       pair.backend_to_client, pair.current_client_events,
                       pair.current_backend_events>>
    BY <1>2 DEF TypeOK, Pair
  <2> QED
    BY <1>0, <1>2, <2>1
       DEF RelayInv, GoneIsIdle, HandlerFits, NoBackendYet, ConnectingIsFresh,
           SilentBefore, ReadClosedAtEnd, WriteClosedAfterRead, BatchSound, EventSound,
           MasksSound, NothingLost, EndAfterData, LossConfined, EndedInOrder
<1>3. CASE /\ ~(MayFailOver(event) /\ "OUT" \in event.flags)
           /\ pc' = "flush" /\ UNCHANGED <<pair, backend, end, event, failovers, blind>>
  BY <1>0, <1>3
     DEF MayFailOver, RelayInv, GoneIsIdle, HandlerFits, NoBackendYet, ConnectingIsFresh,
         SilentBefore, ReadClosedAtEnd, WriteClosedAfterRead, BatchSound, EventSound,
         MasksSound, NothingLost, EndAfterData, LossConfined, EndedInOrder
<1> QED
  BY <1>1, <1>2, <1>3 DEF Connected, MayFailOver

\* flushData() moves chunks from a buffer to a socket.
LEMMA FlushKeeps == ASSUME TypeOK, RelayInv, Flush PROVE RelayInv'
<1> DEFINE n == IF pair.backend_fd /\ ~pair.backend_connecting
                  THEN AtMost(pair.client_to_backend, backend.room) ELSE 0
           m == AtMost(pair.backend_to_client, client.room)
<1>0. pc = "flush" /\ end = "open" /\ UNCHANGED <<batch, failovers, short>>
  BY DEF Flush, RelayInv, GoneIsIdle
<1>1. /\ n \in Nat /\ n <= pair.client_to_backend
      /\ m \in Nat /\ m <= pair.backend_to_client
      /\ pair.backend_connecting => n = 0
      /\ ~pair.backend_fd => n = 0
  BY Counters DEF AtMost
<1>2. CASE Close("error") /\ UNCHANGED <<pair, client, backend>>
  <2>1. MayClose("error")
    BY OtherEnds
  <2> QED
    BY <1>0, <1>2, <2>1, CloseKeeps
<1>3. CASE /\ pair' = [pair EXCEPT !.client_to_backend = @ - n, !.backend_to_client = @ - m]
           /\ backend' = [backend EXCEPT !.room = @ - n, !.got = @ + n]
           /\ client' = [client EXCEPT !.room = @ - m, !.got = @ + m]
           /\ pc' = "settle"
           /\ UNCHANGED <<end, event, blind>>
  <2> HIDE DEF n, m
  <2>1. /\ pair'.client_to_backend = pair.client_to_backend - n
        /\ pair'.backend_to_client = pair.backend_to_client - m
        /\ UNCHANGED <<pair.metrics_connection, pair.backend_fd, pair.backend_connecting,
                       pair.client_read_closed, pair.backend_read_closed,
                       pair.client_write_closed, pair.backend_write_closed,
                       pair.current_client_events, pair.current_backend_events>>
    BY <1>3 DEF TypeOK, Pair
  <2>2. /\ backend'.got = backend.got + n /\ backend'.room = backend.room - n
        /\ UNCHANGED <<backend.peer, backend.sock, backend.sent>>
        /\ client'.got = client.got + m
        /\ UNCHANGED <<client.peer, client.sock, client.sent>>
    BY <1>3 DEF TypeOK, Socket
  <2>3. n = 0 => backend' = backend
    <3> SUFFICES ASSUME n = 0 PROVE backend' = backend
      OBVIOUS
    <3>1. backend.room - 0 = backend.room /\ backend.got + 0 = backend.got
      BY Counters
    <3> QED
      BY <1>3, <3>1 DEF TypeOK, Socket
  <2>4. GoneIsIdle' /\ HandlerFits' /\ NoBackendYet' /\ SilentBefore'
    BY <1>0, <1>1, <1>3, <2>1, <2>2, <2>3, Counters
       DEF RelayInv, GoneIsIdle, HandlerFits, NoBackendYet, SilentBefore
  <2>5. ConnectingIsFresh'
    BY <1>0, <1>1, <1>3, <2>1, <2>2, Counters DEF RelayInv, ConnectingIsFresh
  <2>6. ReadClosedAtEnd' /\ WriteClosedAfterRead'
    BY <1>1, <2>1, <2>2, Counters DEF RelayInv, ReadClosedAtEnd, WriteClosedAfterRead
  <2>7. BatchSound'
    BY <1>0, <1>3, <2>1 DEF RelayInv, BatchSound, EventSound
  <2>8. MasksSound'
    BY <1>0, <1>3, <2>1 DEF RelayInv, MasksSound
  <2>9. NothingLost' /\ LossConfined'
    BY <1>0, <1>1, <1>3, <2>1, <2>2, Counters DEF RelayInv, NothingLost, LossConfined, EndedInOrder
  <2>10. EndAfterData'
    BY <1>0, <1>1, <1>3, <2>1, <2>2, Counters DEF RelayInv, EndAfterData, WriteClosedAfterRead
  <2> QED
    BY <2>4, <2>5, <2>6, <2>7, <2>8, <2>9, <2>10 DEF RelayInv
<1> QED
  BY <1>2, <1>3 DEF Flush

\* The end of a handler: half-closes, the end of the pair, the masks.
LEMMA SettleKeeps == ASSUME TypeOK, RelayInv, Settle PROVE RelayInv'
<1> DEFINE p == HalfClosed(pair)
<1>0. /\ pc = "settle" /\ end = "open" /\ pc' = "batch"
      /\ UNCHANGED <<client, backend, batch, failovers, short>>
  BY DEF Settle, Close, RelayInv, GoneIsIdle
<1>1. /\ p.backend_write_closed <=>
           \/ pair.backend_write_closed
           \/ /\ pair.client_read_closed /\ pair.client_to_backend = 0
              /\ pair.backend_fd /\ ~pair.backend_connecting
      /\ p.client_write_closed <=>
           pair.client_write_closed \/ (pair.backend_read_closed /\ pair.backend_to_client = 0)
      /\ p.metrics_connection = pair.metrics_connection /\ p.backend_fd = pair.backend_fd
      /\ p.backend_connecting = pair.backend_connecting
      /\ p.client_read_closed = pair.client_read_closed
      /\ p.backend_read_closed = pair.backend_read_closed
      /\ p.client_to_backend = pair.client_to_backend
      /\ p.backend_to_client = pair.backend_to_client
      /\ p.current_client_events = pair.current_client_events
      /\ p.current_backend_events = pair.current_backend_events
      /\ p \in Pair
  BY ZenonT(60) DEF HalfClosed, TypeOK, Pair
<1> HIDE DEF p
<1>2. PICK cm, bm : /\ pair' = [p EXCEPT !.current_client_events = cm,
                                         !.current_backend_events = bm]
                    /\ blind' = "never" => blind = "never"
                    /\ \/ cm = p.current_client_events /\ bm = p.current_backend_events
                          /\ Finished(p) /\ end' = "done" /\ UNCHANGED blind
                       \/ /\ cm \in {p.current_client_events, ClientMask(p)}
                          /\ bm \in {p.current_backend_events,
                                     IF p.backend_fd THEN BackendMask(p)
                                     ELSE p.current_backend_events}
                          /\ UNCHANGED end
                          /\ \/ blind' = "now"
                             \/ /\ cm = ClientMask(p)
                                /\ p.backend_fd => bm = BackendMask(p)
  <2>1. CASE Finished(p)
    <3>1. pair' = p /\ end' = "done" /\ UNCHANGED blind
      BY <2>1 DEF Settle, Close, p
    <3>2. p = [p EXCEPT !.current_client_events = p.current_client_events,
                        !.current_backend_events = p.current_backend_events]
      BY <1>1 DEF Pair
    <3> QED
      BY <2>1, <3>1, <3>2
  <2>2. CASE ~Finished(p)
    BY <2>2 DEF Settle, p
  <2> QED
    BY <2>1, <2>2
<1>3. /\ pair'.backend_write_closed = p.backend_write_closed
      /\ pair'.client_write_closed = p.client_write_closed
      /\ pair'.current_client_events = cm /\ pair'.current_backend_events = bm
      /\ UNCHANGED <<pair.metrics_connection, pair.backend_fd, pair.backend_connecting,
                     pair.client_read_closed, pair.backend_read_closed,
                     pair.client_to_backend, pair.backend_to_client>>
  BY <1>1, <1>2 DEF Pair
<1>4. pair.backend_connecting => ~pair.backend_read_closed /\ pair.backend_to_client = 0
  BY <1>0 DEF RelayInv, ConnectingIsFresh
<1>5. GoneIsIdle' /\ HandlerFits' /\ NoBackendYet' /\ SilentBefore' /\ ConnectingIsFresh'
  BY <1>0, <1>2, <1>3, <1>4
     DEF RelayInv, GoneIsIdle, HandlerFits, NoBackendYet, SilentBefore, ConnectingIsFresh
<1>6. ReadClosedAtEnd' /\ WriteClosedAfterRead'
  BY <1>0, <1>1, <1>3 DEF RelayInv, ReadClosedAtEnd, WriteClosedAfterRead, NoBackendYet
<1>7. BatchSound'
  BY <1>0, <1>1, <1>2, <1>3 DEF RelayInv, BatchSound, EventSound
<1>8. MasksSound'
  <2>1. /\ ~p.client_read_closed => "IN" \in ClientMask(p)
        /\ p.backend_to_client > 0 => "OUT" \in ClientMask(p)
        /\ p.client_to_backend > 0 => "OUT" \in BackendMask(p)
        /\ p.backend_connecting => "OUT" \in BackendMask(p)
        /\ ~p.backend_read_closed => "IN" \in BackendMask(p)
    BY DEF ClientMask, BackendMask
  <2>2. p.client_to_backend > 0 => p.backend_fd
    BY <1>1 DEF RelayInv, NoBackendYet
  <2> QED
    BY <1>0, <1>1, <1>2, <1>3, <2>1, <2>2 DEF RelayInv, MasksSound
<1>9. NothingLost'
  BY <1>0, <1>2, <1>3 DEF RelayInv, NothingLost
<1>10. EndAfterData'
  <2>1. /\ pair.client_read_closed /\ pair.client_to_backend = 0 /\ pair.backend_fd =>
             client.peer # "open" /\ backend.got = client.sent
        /\ pair.backend_read_closed /\ pair.backend_to_client = 0 =>
             backend.peer # "open" /\ client.got = backend.sent
    BY <1>0, Counters DEF RelayInv, NothingLost, ReadClosedAtEnd, HandlerFits, NoBackendYet
  <2> QED
    BY <1>0, <1>1, <1>3, <2>1 DEF RelayInv, EndAfterData
<1>11. LossConfined'
  <2>1. ASSUME Finished(p), ~pair.metrics_connection
        PROVE  client.got = backend.sent /\ pair.backend_to_client = 0 /\ client.peer # "open"
    <3>1. /\ pair.client_read_closed
          /\ pair.backend_fd => pair.backend_read_closed /\ pair.backend_to_client = 0
      BY <1>1, <2>1 DEF Finished
    <3>2. client.peer # "open" /\ pair.backend_fd
      BY <2>1, <3>1 DEF RelayInv, ReadClosedAtEnd
    <3>3. backend.sock = 0
      BY <3>1, <3>2 DEF RelayInv, ReadClosedAtEnd
    <3> QED
      BY <1>0, <2>1, <3>1, <3>2, <3>3, Counters DEF RelayInv, NothingLost
  <2> QED
    BY <1>0, <1>2, <1>3, <2>1, Counters DEF LossConfined, EndedInOrder
<1> QED
  BY <1>5, <1>6, <1>7, <1>8, <1>9, <1>10, <1>11 DEF RelayInv

\* The event loop outside the handlers.
LEMMA LoopKeeps ==
    ASSUME TypeOK, RelayInv, Wait \/ BatchDone \/ CloseAllConnections \/ UNCHANGED vars
    PROVE  RelayInv'
<1>1. CASE Wait
  <2>1. /\ pc = "wait" /\ pc' = "batch" /\ end = "open"
        /\ UNCHANGED <<pair, client, backend, end, event, failovers, short, blind>>
        /\ batch' = ReadyEvents
    BY <1>1 DEF Wait
  <2>2. BatchSound'
    <3>1. /\ \A e \in batch' : EventSound(e)
          /\ \A e1, e2 \in batch' : e1.side = e2.side => e1 = e2
      BY <2>1, ReadySound
    <3> HIDE DEF EventSound
    <3>2. \A e \in batch' : EventSound(e)'
      BY <2>1, <3>1 DEF EventSound
    <3> QED
      BY <2>1, <3>1, <3>2 DEF BatchSound
  <2> QED
    BY <2>1, <2>2
       DEF RelayInv, GoneIsIdle, HandlerFits, NoBackendYet, ConnectingIsFresh, SilentBefore,
           ReadClosedAtEnd, WriteClosedAfterRead, MasksSound, NothingLost, EndAfterData,
           LossConfined, EndedInOrder
<1>2. CASE BatchDone
  BY <1>2
     DEF BatchDone, RelayInv, GoneIsIdle, HandlerFits, NoBackendYet, ConnectingIsFresh,
         SilentBefore, ReadClosedAtEnd, WriteClosedAfterRead, BatchSound, EventSound,
         MasksSound, NothingLost, EndAfterData, LossConfined, EndedInOrder
<1>3. CASE CloseAllConnections
  BY <1>3
     DEF CloseAllConnections, loopVars, RelayInv, GoneIsIdle, HandlerFits, NoBackendYet,
         ConnectingIsFresh, SilentBefore, ReadClosedAtEnd, WriteClosedAfterRead, BatchSound,
         EventSound, MasksSound, NothingLost, EndAfterData, LossConfined, EndedInOrder
<1>4. CASE UNCHANGED vars
  BY <1>4
     DEF vars, loopVars, RelayInv, GoneIsIdle, HandlerFits, NoBackendYet,
         ConnectingIsFresh, SilentBefore, ReadClosedAtEnd, WriteClosedAfterRead, BatchSound,
         EventSound, MasksSound, NothingLost, EndAfterData, LossConfined, EndedInOrder
<1> QED
  BY <1>1, <1>2, <1>3, <1>4

\* What the client does to its socket.
LEMMA ClientKeeps ==
    ASSUME TypeOK, RelayInv,
           ClientSends \/ ClientReads \/ \E how \in {"fin", "reset"} : ClientEnds(how)
    PROVE  RelayInv'
<1>0. /\ end = "open" /\ UNCHANGED <<pair, end, pc, batch, event, failovers, short, blind, backend>>
  BY DEF ClientSends, ClientReads, ClientEnds, Between, lbVars, loopVars
<1>1. \E k \in {0, 1} : /\ client'.sent = client.sent + k /\ client'.sock = client.sock + k
                        /\ k = 1 => client.peer = "open"
  <2>1. CASE ClientSends
    BY <2>1, Counters DEF ClientSends, TypeOK, Socket
  <2>2. CASE ClientReads
    BY <2>2, Counters DEF ClientReads, TypeOK, Socket
  <2>3. CASE \E how \in {"fin", "reset"} : ClientEnds(how)
    BY <2>3, Counters DEF ClientEnds, TypeOK, Socket
  <2> QED
    BY <2>1, <2>2, <2>3
<1>2. /\ client'.got = client.got
      /\ client'.peer # "open" \/ client.peer = "open"
      /\ client.peer = "fin" => client'.peer \in {"fin", "reset"}
      /\ client.peer = "reset" => client'.peer = "reset"
      /\ client'.peer \in {"none", "connecting", "open", "fin", "reset"}
  BY DEF ClientSends, ClientReads, ClientEnds, TypeOK, Socket
<1>3. GoneIsIdle' /\ HandlerFits' /\ NoBackendYet' /\ SilentBefore' /\ MasksSound'
  BY <1>0 DEF RelayInv, GoneIsIdle, HandlerFits, NoBackendYet, SilentBefore, MasksSound
<1>4. ConnectingIsFresh' /\ WriteClosedAfterRead'
  BY <1>0, <1>2 DEF RelayInv, ConnectingIsFresh, WriteClosedAfterRead
<1>5. ReadClosedAtEnd'
  BY <1>0, <1>1, <1>2, Counters DEF RelayInv, ReadClosedAtEnd
<1>6. BatchSound'
  BY <1>0, <1>2 DEF RelayInv, BatchSound, EventSound
<1>7. NothingLost'
  BY <1>0, <1>1, <1>2, Counters DEF RelayInv, NothingLost
<1>8. EndAfterData'
  BY <1>0, <1>1, <1>2, Counters DEF RelayInv, EndAfterData
<1>9. LossConfined'
  BY <1>0 DEF LossConfined, EndedInOrder
<1> QED
  BY <1>3, <1>4, <1>5, <1>6, <1>7, <1>8, <1>9 DEF RelayInv

\* What the backend does to its socket.
LEMMA BackendKeeps ==
    ASSUME TypeOK, RelayInv,
           \/ BackendAnswersConnect \/ BackendSends \/ BackendReads
           \/ BackendFin \/ BackendReset
    PROVE  RelayInv'
<1>0. /\ end = "open" /\ UNCHANGED <<pair, end, pc, batch, event, failovers, short, blind, client>>
  BY DEF BackendAnswersConnect, BackendSends, BackendReads, BackendFin, BackendReset,
         Between, lbVars, loopVars
<1>1. \E k \in {0, 1} : /\ backend'.sent = backend.sent + k /\ backend'.sock = backend.sock + k
                        /\ k = 1 => backend.peer = "open" /\ backend'.peer = "open"
  <2>1. CASE BackendSends
    BY <2>1, Counters DEF BackendSends, TypeOK, Socket
  <2>2. CASE BackendReads
    BY <2>2, Counters DEF BackendReads, TypeOK, Socket
  <2>3. CASE BackendAnswersConnect \/ BackendFin \/ BackendReset
    BY <2>3, Counters DEF BackendAnswersConnect, BackendFin, BackendReset, TypeOK, Socket
  <2> QED
    BY <2>1, <2>2, <2>3
<1>2. /\ backend'.got = backend.got
      /\ backend.room = WINDOW => backend'.room = WINDOW
      /\ backend.peer \in {"connecting", "open", "fin"}
      /\ backend'.peer \in {"open", "fin", "reset"}
      /\ backend.peer = "fin" => backend'.peer \in {"fin", "reset"}
      /\ backend.peer \in {"open", "fin"} =>
           backend'.peer \in {"open", "fin"} \/ pc \in {"wait", "batch"}
  BY DEF BackendAnswersConnect, BackendSends, BackendReads, BackendFin, BackendReset,
         Between, TypeOK, Socket
<1>3. pair.backend_fd
  BY <1>2 DEF RelayInv, NoBackendYet, Fresh
<1>4. GoneIsIdle' /\ HandlerFits' /\ NoBackendYet' /\ MasksSound'
  BY <1>0, <1>3 DEF RelayInv, GoneIsIdle, HandlerFits, NoBackendYet, MasksSound
<1>5. ConnectingIsFresh' /\ WriteClosedAfterRead' /\ SilentBefore'
  BY <1>0, <1>2 DEF RelayInv, ConnectingIsFresh, WriteClosedAfterRead, SilentBefore
<1>6. ReadClosedAtEnd'
  BY <1>0, <1>1, <1>2, Counters DEF RelayInv, ReadClosedAtEnd
<1>7. BatchSound'
  BY <1>0 DEF RelayInv, BatchSound, EventSound
<1>8. NothingLost'
  <2>1. PICK k \in {0, 1} : backend'.sent = backend.sent + k /\ backend'.sock = backend.sock + k
    BY <1>1
  <2> SUFFICES ASSUME ~pair.metrics_connection
               PROVE  /\ client.sent = client.sock + pair.client_to_backend + backend'.got
                      /\ backend'.sent = backend'.sock + pair.backend_to_client + client.got
    BY <1>0 DEF NothingLost
  <2>2. /\ client.sent = client.sock + pair.client_to_backend + backend.got
        /\ backend.sent = backend.sock + pair.backend_to_client + client.got
    BY <1>0 DEF RelayInv, NothingLost
  <2> QED
    BY <1>2, <2>1, <2>2, Counters
<1>9. EndAfterData'
  BY <1>0, <1>1, <1>2, Counters DEF RelayInv, EndAfterData, WriteClosedAfterRead, ReadClosedAtEnd
<1>10. LossConfined'
  BY <1>0 DEF LossConfined, EndedInOrder
<1> QED
  BY <1>4, <1>5, <1>6, <1>7, <1>8, <1>9, <1>10 DEF RelayInv

\* Every step keeps the invariant.
LEMMA NextRelayInv == TypeOK /\ RelayInv /\ [Next]_vars => RelayInv'
BY LoopKeeps, HandleEventKeeps, PeekKeeps, ReadKeeps, ConnectedKeeps, FlushKeeps,
   SettleKeeps, ClientKeeps, BackendKeeps
   DEF Next, Reactor, Peers, Terminated

\* RelayInv holds in every reachable state.
LEMMA RelayInvariant == Spec => []RelayInv
BY TypeCorrect, InitRelayInv, NextRelayInv, PTL DEF Spec

-----------------------------------------------------------------------------
(* What the relay promises. *)

(***************************************************************************)
(* No chunk is lost or made up between the sockets, however reads, writes, *)
(* failovers and resets interleave: while a pair lives, what one peer has  *)
(* sent is in its socket, in the buffer or with the other peer, and a      *)
(* failover leaves the whole request in the buffer.                        *)
(***************************************************************************)
THEOREM NoChunkLost == Spec => []NothingLost
<1>1. RelayInv => NothingLost
  BY DEF RelayInv
<1> QED
  BY <1>1, RelayInvariant, PTL

(***************************************************************************)
(* shutdown(SHUT_WR) follows the last of the data: a peer that is told of  *)
(* the other one's end has been sent everything the other one sent.        *)
(***************************************************************************)
THEOREM EndsFollowData == Spec => []EndAfterData
<1>1. RelayInv => EndAfterData
  BY DEF RelayInv
<1> QED
  BY <1>1, RelayInvariant, PTL

(***************************************************************************)
(* The response that REPORT.md says is drained is cut in one case only,    *)
(* and by no more than the buffer holds: for any buffer sizes and any      *)
(* order of events, a pair that ends without a reset, a full buffer or a   *)
(* failure of epoll_ctl() has read the whole response, its client has      *)
(* ended, and chunks are missing only if both ends had been passed on and  *)
(* the backend's hang-up came without input.                               *)
(***************************************************************************)
THEOREM LossIsConfined == Spec => []LossConfined
<1>1. RelayInv => LossConfined
  BY DEF RelayInv
<1> QED
  BY <1>1, RelayInvariant, PTL

(***************************************************************************)
(* While the reactor sleeps in epoll_wait() it has asked for every event   *)
(* the pair depends on, unless epoll_ctl() failed or a failover connected  *)
(* at once: the masks are computed from the buffers after every handler.   *)
(***************************************************************************)
THEOREM OutputIsWatched == Spec => []NoStalledOutput
<1>1. RelayInv => NoStalledOutput
  BY DEF RelayInv, MasksSound, NoStalledOutput
<1> QED
  BY <1>1, RelayInvariant, PTL
=============================================================================
