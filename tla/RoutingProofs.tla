--------------------------- MODULE RoutingProofs ---------------------------
(***************************************************************************)
(* Proofs about Routing, for any number of backends, clients and           *)
(* descriptors: the maps, the sockets and the counters agree; a client is  *)
(* turned away only when every healthy backend was tried; round robin      *)
(* deals every healthy backend one client before any gets a second; the    *)
(* ring leads to the closest healthy node and moves few clients. For       *)
(* the maps and the counters it is enough that the selection loops choose  *)
(* at most one backend; the others are about what the loops choose.        *)
(***************************************************************************)
EXTENDS Routing, Induction, FiniteSetTheorems, TLAPS

\* The part of TypeOK the books rest on.
BooksType ==
    /\ connections \in [Fds -> Pair \cup {NoPair}]
    /\ backend_to_client \in [Fds -> Fds \cup {NoFd}]
    /\ pool \in [Backends -> Backend]
    /\ open \subseteq Fds

-----------------------------------------------------------------------------
(* Types. *)

\* A pair that is given a socket is a pair, and the others stay as they are.
LEMMA AssignedFacts ==
    ASSUME BooksType, NEW c \in Clients, NEW fd \in Fds, NEW b \in Backends,
           NEW x \in BOOLEAN
    PROVE  /\ Assigned(c, fd, b, x) \in [Fds -> Pair \cup {NoPair}]
           /\ Assigned(c, fd, b, x)[c] \in Pair
           /\ Assigned(c, fd, b, x)[c].backend_fd = fd
           /\ Assigned(c, fd, b, x)[c].backend_index = b
           /\ \A d \in Fds \ {c} : Assigned(c, fd, b, x)[d] = connections[d]
BY RoutingAssumption DEF BooksType, Clients, Assigned, Pair

\* The counters stay counters, and connection_count goes up by one for the
\* backend that was chosen and for no other.
LEMMA CountedFacts ==
    ASSUME NEW backends \in [Backends -> Backend], NEW s, NEW outcome,
           NEW moves \in Nat
    PROVE  /\ Counted(backends, s, outcome, moves) \in [Backends -> Backend]
           /\ \A b \in Backends :
                Counted(backends, s, outcome, moves)[b].connection_count =
                  IF b = s.chosen THEN backends[b].connection_count + 1
                  ELSE backends[b].connection_count
<1> DEFINE r(b) == Counted(backends, s, outcome, moves)[b]
<1>1. ASSUME NEW b \in Backends
      PROVE  /\ r(b) \in Backend
             /\ r(b).connection_count = IF b = s.chosen THEN backends[b].connection_count + 1
                                       ELSE backends[b].connection_count
  <2> DEFINE got == b \in s.attempted /\ outcome[b] # "refused"
             n == IF b = s.chosen THEN backends[b].connection_count + 1
                  ELSE backends[b].connection_count
             t == IF got THEN backends[b].total_connections + 1
                  ELSE backends[b].total_connections
             f == IF b \in s.attempted /\ ~got THEN backends[b].failed_connections + 1
                  ELSE backends[b].failed_connections
             o == IF b = s.chosen THEN backends[b].failovers + moves
                  ELSE backends[b].failovers
  <2>1. backends[b] \in Backend
    OBVIOUS
  <2>2. n \in Nat /\ t \in Nat /\ f \in Nat /\ o \in Nat
    BY <2>1 DEF Backend
  <2>3. r(b) = [backends[b] EXCEPT !.connection_count = n, !.total_connections = t,
                                   !.failed_connections = f, !.failovers = o]
    BY DEF Counted
  <2> HIDE DEF n, t, f, o, r
  <2>4. r(b) \in Backend /\ r(b).connection_count = n
    BY <2>1, <2>2, <2>3 DEF Backend
  <2> QED
    BY <2>4 DEF n
<1>2. Counted(backends, s, outcome, moves) = [b \in Backends |-> r(b)]
  BY DEF Counted
<1> QED
  BY <1>1, <1>2

\* connection_count goes down by one, unless it is zero.
LEMMA ReleasedFacts ==
    ASSUME BooksType, NEW b \in Backends
    PROVE  /\ Released(b) \in [Backends -> Backend]
           /\ Released(b)[b].connection_count = OneLess(pool[b].connection_count)
           /\ \A x \in Backends \ {b} : Released(b)[x] = pool[x]
BY DEF BooksType, Released, OneLess, Backend

\* So do the counters of the backend a pair has failed to reach.
LEMMA FailedFacts ==
    ASSUME BooksType, NEW b \in Backends
    PROVE  LET r == [Released(b) EXCEPT ![b].failed_connections = @ + 1] IN
           /\ r \in [Backends -> Backend]
           /\ r[b].connection_count = OneLess(pool[b].connection_count)
           /\ \A x \in Backends \ {b} : r[x] = pool[x]
<1> DEFINE p == Released(b)
<1>1. p \in [Backends -> Backend]
      /\ p[b].connection_count = OneLess(pool[b].connection_count)
      /\ \A x \in Backends \ {b} : p[x] = pool[x]
  BY ReleasedFacts
<1> HIDE DEF p
<1>2. LET r == [p EXCEPT ![b].failed_connections = @ + 1] IN
      /\ r \in [Backends -> Backend]
      /\ r[b].connection_count = OneLess(pool[b].connection_count)
      /\ \A x \in Backends \ {b} : r[x] = pool[x]
  BY <1>1 DEF Backend
<1> QED
  BY <1>2 DEF p

\* There are finitely many descriptors.
LEMMA PairsOnCardinality ==
    ASSUME NEW b
    PROVE  /\ IsFiniteSet(PairsOn(b)) /\ Cardinality(PairsOn(b)) \in Nat
           /\ IsFiniteSet(PairsOn(b)') /\ Cardinality(PairsOn(b)') \in Nat
BY RoutingAssumption, FS_Subset, FS_CardinalityType DEF PairsOn, Clients

-----------------------------------------------------------------------------
(* Maps and sockets. *)

\* An open descriptor is a client's or a backend's and not both.
Own ==
    \A f \in Fds :
        /\ f \in open <=> connections[f] # NoPair \/ backend_to_client[f] # NoFd
        /\ connections[f] = NoPair \/ backend_to_client[f] = NoFd

\* Together the maps and the set of open sockets are in order.
InOrder == BooksType /\ MapsAgree /\ Own

\* With maps that agree, Own says what SocketsOwned says.
LEMMA OwnSockets == InOrder => SocketsOwned
<1> SUFFICES ASSUME InOrder PROVE SocketsOwned
  OBVIOUS
<1> DEFINE B == {connections[c].backend_fd : c \in Clients} \ {NoFd}
<1>1. \A f \in Fds : f \in B <=> backend_to_client[f] # NoFd
  BY RoutingAssumption DEF InOrder, BooksType, MapsAgree, Clients
<1>2. B \subseteq Fds
  BY RoutingAssumption DEF InOrder, BooksType, Clients, Pair
<1> HIDE DEF B
<1>3. open = Clients \cup B /\ Clients \cap B = {}
  BY <1>1, <1>2 DEF InOrder, BooksType, Own, Clients
<1> QED
  BY <1>3 DEF SocketsOwned, B

\* The reactor starts with nothing.
LEMMA InitInOrder == Init => InOrder
BY RoutingAssumption DEF Init, InOrder, BooksType, MapsAgree, Own, Backend

\* A pair is a record, and no entry is not.
LEMMA PairFacts ==
    ASSUME InOrder, NEW c \in Clients
    PROVE  /\ c \in Fds /\ connections[c] \in Pair
           /\ connections[c].backend_fd \in Fds \cup {NoFd}
           /\ connections[c].backend_index \in Backends
BY DEF InOrder, BooksType, Clients, Pair

\* The client of an event is a client, and the event's descriptor is its own or
\* its backend's.
LEMMA EventFacts ==
    ASSUME InOrder, NEW fd \in Fds, EventOn(fd)
    PROVE  /\ ClientOf(fd) \in Clients
           /\ IsBackendFd(fd) => connections[ClientOf(fd)].backend_fd = fd
           /\ ~IsBackendFd(fd) => ClientOf(fd) = fd
BY RoutingAssumption DEF InOrder, BooksType, MapsAgree, EventOn, ClientOf, IsBackendFd, Clients

\* handleAccept() takes a descriptor that is in neither map.
LEMMA AcceptInOrder ==
    ASSUME InOrder, NEW fd \in Fds, NEW ip \in Ips, Accept(fd, ip)
    PROVE  InOrder'
<1> DEFINE p == [client_ip |-> ip, backend_fd |-> NoFd, backend_index |-> 0,
                 backend_connecting |-> FALSE, metrics_connection |-> FALSE]
<1>1. p \in Pair /\ p # NoPair /\ p.backend_fd = NoFd
  <2>1. 0 \in Backends
    BY ConsistentHashAssumption DEF Backends
  <2>2. p \in Pair /\ p.backend_fd = NoFd
    BY <2>1 DEF Pair
  <2> QED
    BY <2>2, RoutingAssumption
<1>2. connections[fd] = NoPair /\ backend_to_client[fd] = NoFd
  BY DEF InOrder, Own, Accept
<1>3. connections' = [connections EXCEPT ![fd] = p] /\ open' = open \cup {fd}
      /\ backend_to_client' = backend_to_client /\ pool' = pool
  BY <1>2 DEF Accept
<1> HIDE DEF p
<1>4. BooksType'
  BY <1>1, <1>3 DEF InOrder, BooksType
<1>5. MapsAgree'
  BY <1>1, <1>2, <1>3, RoutingAssumption DEF InOrder, BooksType, MapsAgree
<1>6. Own'
  BY <1>1, <1>2, <1>3 DEF InOrder, BooksType, Own
<1> QED
  BY <1>4, <1>5, <1>6 DEF InOrder

\* A client's pair goes, and with it the socket of its backend.
LEMMA GoneInOrder ==
    ASSUME InOrder, NEW c \in Clients,
           connections' = [connections EXCEPT ![c] = NoPair],
           backend_to_client' = Unmapped(connections[c].backend_fd),
           open' = open \ {connections[c].backend_fd, c},
           pool' \in [Backends -> Backend]
    PROVE  InOrder'
<1> DEFINE b == connections[c].backend_fd
<1>1. c \in Fds /\ b \in Fds \cup {NoFd} /\ connections[c] # NoPair
  BY PairFacts DEF Clients
<1>2. b \in Fds => backend_to_client[b] = c
  BY <1>1 DEF InOrder, MapsAgree
<1>3. backend_to_client' = IF b = NoFd THEN backend_to_client
                           ELSE [backend_to_client EXCEPT ![b] = NoFd]
  BY DEF Unmapped
<1> HIDE DEF b
<1>4. BooksType'
  BY <1>1, <1>3 DEF InOrder, BooksType, b
<1>5. MapsAgree'
  BY <1>1, <1>2, <1>3, RoutingAssumption DEF InOrder, BooksType, MapsAgree, b
<1>6. Own'
  <2>0. open' = open \ {b, c}
    BY DEF b
  <2>1. backend_to_client[c] = NoFd
    BY <1>1 DEF InOrder, Own
  <2>2. b \in Fds => connections[b] = NoPair
    BY <1>1, <1>2, RoutingAssumption DEF InOrder, Own, BooksType
  <2> QED
    BY <1>1, <1>2, <1>3, <2>0, <2>1, <2>2, RoutingAssumption DEF InOrder, BooksType, Own
<1> QED
  BY <1>4, <1>5, <1>6 DEF InOrder

\* A client's pair gets a socket that was not open, in place of the one it had.
LEMMA AssignInOrder ==
    ASSUME InOrder, NEW c \in Clients, NEW b \in Backends, NEW x \in BOOLEAN,
           NEW fd \in Fds \ (open \ {connections[c].backend_fd}),
           connections' = Assigned(c, fd, b, x),
           backend_to_client' = [Unmapped(connections[c].backend_fd) EXCEPT ![fd] = c],
           open' = (open \ {connections[c].backend_fd}) \cup {fd},
           pool' \in [Backends -> Backend]
    PROVE  InOrder'
<1> DEFINE o == connections[c].backend_fd
<1>1. c \in Fds /\ o \in Fds \cup {NoFd} /\ connections[c] # NoPair
  BY PairFacts DEF Clients
<1>2. o \in Fds => backend_to_client[o] = c /\ connections[o] = NoPair
  BY <1>1, RoutingAssumption DEF InOrder, MapsAgree, Own, BooksType
<1>3. backend_to_client[c] = NoFd /\ c \in open /\ c # o /\ c # fd
  BY <1>1, <1>2 DEF InOrder, Own
<1>4. /\ connections' \in [Fds -> Pair \cup {NoPair}]
      /\ connections'[c] # NoPair /\ connections'[c].backend_fd = fd
      /\ \A d \in Fds \ {c} : connections'[d] = connections[d]
  BY AssignedFacts, RoutingAssumption DEF InOrder
<1>5. /\ backend_to_client' \in [Fds -> Fds \cup {NoFd}]
      /\ backend_to_client'[fd] = c
      /\ \A f \in Fds \ {fd} : backend_to_client'[f] = IF f = o THEN NoFd ELSE backend_to_client[f]
  BY <1>1, RoutingAssumption DEF InOrder, BooksType, Unmapped
<1>6. connections[fd] = NoPair /\ (fd # o => backend_to_client[fd] = NoFd)
  BY <1>1, <1>2 DEF InOrder, Own
<1>7. open' = (open \ {o}) \cup {fd}
  OBVIOUS
<1> HIDE DEF o
<1>8. BooksType'
  BY <1>4, <1>5, <1>7 DEF InOrder, BooksType
<1>9. MapsAgree'
  <2> SUFFICES ASSUME NEW f \in Fds, NEW d \in Fds
               PROVE  backend_to_client'[f] = d <=>
                        connections'[d] # NoPair /\ connections'[d].backend_fd = f
    BY DEF MapsAgree
  <2>0. backend_to_client[f] = d <=> connections[d] # NoPair /\ connections[d].backend_fd = f
    BY DEF InOrder, MapsAgree
  <2>1. CASE d = c
    BY <2>0, <2>1, <1>1, <1>4, <1>5, RoutingAssumption DEF o
  <2>2. CASE d # c
    BY <2>0, <2>2, <1>1, <1>2, <1>4, <1>5, <1>6, RoutingAssumption
  <2> QED
    BY <2>1, <2>2
<1>10. Own'
  <2> SUFFICES ASSUME NEW f \in Fds
               PROVE  /\ f \in open' <=> connections'[f] # NoPair \/ backend_to_client'[f] # NoFd
                      /\ connections'[f] = NoPair \/ backend_to_client'[f] = NoFd
    BY DEF Own
  <2>0. /\ f \in open <=> connections[f] # NoPair \/ backend_to_client[f] # NoFd
        /\ connections[f] = NoPair \/ backend_to_client[f] = NoFd
    BY DEF InOrder, Own
  <2>1. CASE f = c
    BY <2>0, <2>1, <1>1, <1>3, <1>4, <1>5, <1>7
  <2>2. CASE f = fd
    BY <2>0, <2>2, <1>1, <1>3, <1>4, <1>5, <1>6, <1>7, RoutingAssumption
  <2>3. CASE f # c /\ f # fd
    BY <2>0, <2>3, <1>1, <1>2, <1>4, <1>5, <1>7
  <2> QED
    BY <2>1, <2>2, <2>3
<1> QED
  BY <1>8, <1>9, <1>10 DEF InOrder

\* A flag of a pair that says nothing of its sockets may change.
LEMMA KeptInOrder ==
    ASSUME InOrder, NEW c \in Clients, UNCHANGED <<backend_to_client, pool, open>>,
           \/ connections' = [connections EXCEPT ![c].metrics_connection = TRUE]
           \/ connections' = [connections EXCEPT ![c].backend_connecting = FALSE]
    PROVE  /\ InOrder'
           /\ \A b : PairsOn(b)' = PairsOn(b)
<1>1. c \in Fds /\ connections[c] \in Pair
  BY PairFacts
<1>2. /\ connections' \in [Fds -> Pair \cup {NoPair}]
      /\ connections'[c] \in Pair
      /\ connections'[c].backend_fd = connections[c].backend_fd
      /\ connections'[c].backend_index = connections[c].backend_index
      /\ \A d \in Fds \ {c} : connections'[d] = connections[d]
  <2> DEFINE m == [connections[c] EXCEPT !.metrics_connection = TRUE]
             k == [connections[c] EXCEPT !.backend_connecting = FALSE]
  <2>1. /\ m \in Pair /\ m.backend_fd = connections[c].backend_fd
        /\ m.backend_index = connections[c].backend_index
    BY <1>1 DEF Pair
  <2>2. /\ k \in Pair /\ k.backend_fd = connections[c].backend_fd
        /\ k.backend_index = connections[c].backend_index
    BY <1>1 DEF Pair
  <2>3. \/ connections' = [connections EXCEPT ![c] = m]
        \/ connections' = [connections EXCEPT ![c] = k]
    OBVIOUS
  <2> HIDE DEF m, k
  <2> QED
    BY <1>1, <2>1, <2>2, <2>3 DEF InOrder, BooksType
<1>3. connections[c] # NoPair /\ connections'[c] # NoPair
  BY <1>1, <1>2, RoutingAssumption
<1>4. BooksType' /\ MapsAgree' /\ Own'
  BY <1>1, <1>2, <1>3 DEF InOrder, BooksType, MapsAgree, Own
<1>5. \A b : PairsOn(b)' = PairsOn(b)
  BY <1>1, <1>2, <1>3 DEF PairsOn, Clients
<1> QED
  BY <1>4, <1>5 DEF InOrder

\* Every handler leaves the maps and the sockets in order.
LEMMA NextInOrder == InOrder /\ [Next]_vars => InOrder'
<1> SUFFICES ASSUME InOrder, [Next]_vars PROVE InOrder'
  OBVIOUS
<1>1. ASSUME NEW fd \in Fds, NEW ip \in Ips, Accept(fd, ip) PROVE InOrder'
  BY <1>1, AcceptInOrder
<1>2. ASSUME NEW c \in Fds, ConnectClient(c) PROVE InOrder'
  <2>1. c \in Clients /\ connections[c].backend_fd = NoFd
    BY <1>2, EventFacts DEF ConnectClient
  <2>2. PICK outcome \in [Healthy -> Outcomes] :
          LET s == ConnectLoop(connections[c].client_ip, outcome) IN
          /\ \/ /\ s.chosen \in Backends
                /\ \E fd \in Fds \ open :
                     /\ connections' = Assigned(c, fd, s.chosen, outcome[s.chosen] = "connecting")
                     /\ backend_to_client' = [backend_to_client EXCEPT ![fd] = c]
                     /\ open' = open \cup {fd}
             \/ /\ s.chosen \notin Backends
                /\ connections' = [connections EXCEPT ![c] = NoPair]
                /\ open' = open \ {c}
                /\ UNCHANGED backend_to_client
          /\ pool' = Counted(pool, s, outcome, 0)
    BY <1>2 DEF ConnectClient
  <2> DEFINE s == ConnectLoop(connections[c].client_ip, outcome)
  <2> HIDE DEF s
  <2>3. pool' \in [Backends -> Backend]
    BY <2>2, CountedFacts DEF InOrder, BooksType, s
  <2>4. open \ {NoFd} = open /\ Unmapped(NoFd) = backend_to_client
    BY RoutingAssumption DEF InOrder, BooksType, Unmapped
  <2>5. CASE s.chosen \in Backends
    <3>1. PICK fd \in Fds \ open :
            /\ connections' = Assigned(c, fd, s.chosen, outcome[s.chosen] = "connecting")
            /\ backend_to_client' = [backend_to_client EXCEPT ![fd] = c]
            /\ open' = open \cup {fd}
      BY <2>2, <2>5 DEF s
    <3> QED
      BY <2>1, <2>3, <2>4, <2>5, <3>1, AssignInOrder
  <2>6. CASE s.chosen \notin Backends
    <3>1. /\ connections' = [connections EXCEPT ![c] = NoPair]
          /\ open' = open \ {NoFd, c}
          /\ backend_to_client' = Unmapped(NoFd)
      BY <2>2, <2>4, <2>6 DEF s
    <3> QED
      BY <2>1, <2>3, <3>1, GoneInOrder
  <2> QED
    BY <2>5, <2>6
<1>3. ASSUME NEW c \in Fds, TakeMetrics(c) PROVE InOrder'
  <2>1. c \in Clients
    BY <1>3, EventFacts DEF TakeMetrics
  <2>2. /\ connections' = [connections EXCEPT ![c].metrics_connection = TRUE]
        /\ UNCHANGED <<backend_to_client, pool, open>>
    BY <1>3 DEF TakeMetrics
  <2> QED
    BY <2>1, <2>2, KeptInOrder
<1>4. ASSUME NEW fd \in Fds, Connected(fd) PROVE InOrder'
  <2>1. ClientOf(fd) \in Clients
    BY <1>4, EventFacts DEF Connected
  <2>2. /\ connections' = [connections EXCEPT ![ClientOf(fd)].backend_connecting = FALSE]
        /\ UNCHANGED <<backend_to_client, pool, open>>
    BY <1>4 DEF Connected
  <2> QED
    BY <2>1, <2>2, KeptInOrder
<1>5. ASSUME NEW fd \in Fds, FailoverConnection(fd) PROVE InOrder'
  <2> DEFINE c == ClientOf(fd)
             old == connections[c].backend_fd
             failed == connections[c].backend_index
             released == [Released(failed) EXCEPT ![failed].failed_connections = @ + 1]
  <2>1. c \in Clients /\ old = fd /\ failed \in Backends
    BY <1>5, EventFacts, PairFacts DEF FailoverConnection
  <2>2. PICK outcome \in [Healthy -> Outcomes] :
          LET s == FailoverLoop(failed, outcome) IN
          /\ \/ /\ s.chosen \in Backends
                /\ \E new \in Fds \ OpenWithout(old) :
                     /\ connections' = Assigned(c, new, s.chosen, outcome[s.chosen] = "connecting")
                     /\ backend_to_client' = [Unmapped(old) EXCEPT ![new] = c]
                     /\ open' = OpenWithout(old) \cup {new}
             \/ /\ s.chosen \notin Backends
                /\ connections' = [connections EXCEPT ![c] = NoPair]
                /\ backend_to_client' = Unmapped(old)
                /\ open' = OpenWithout(old) \ {c}
          /\ pool' = Counted(released, s, outcome, 1)
    BY <1>5 DEF FailoverConnection
  <2> DEFINE s == FailoverLoop(failed, outcome)
  <2> HIDE DEF s
  <2>3. released \in [Backends -> Backend]
    BY <2>1, FailedFacts DEF InOrder
  <2>4. pool' \in [Backends -> Backend]
    <3> HIDE DEF released
    <3> QED
      BY <2>2, <2>3, CountedFacts DEF s
  <2>5. CASE s.chosen \in Backends
    <3>1. PICK new \in Fds \ OpenWithout(old) :
            /\ connections' = Assigned(c, new, s.chosen, outcome[s.chosen] = "connecting")
            /\ backend_to_client' = [Unmapped(old) EXCEPT ![new] = c]
            /\ open' = OpenWithout(old) \cup {new}
      BY <2>2, <2>5 DEF s
    <3> HIDE DEF c
    <3> QED
      BY <2>1, <2>4, <2>5, <3>1, AssignInOrder DEF OpenWithout
  <2>6. CASE s.chosen \notin Backends
    <3>1. /\ connections' = [connections EXCEPT ![c] = NoPair]
          /\ backend_to_client' = Unmapped(old)
          /\ open' = open \ {old, c}
      BY <2>2, <2>6 DEF s, OpenWithout
    <3> HIDE DEF c
    <3> QED
      BY <2>1, <2>4, <3>1, GoneInOrder
  <2> QED
    BY <2>5, <2>6
<1>6. ASSUME NEW fd \in Fds, CloseConnection(fd) PROVE InOrder'
  <2> DEFINE c == ClientOf(fd)
  <2>1. c \in Clients /\ connections[c].backend_index \in Backends
    BY <1>6, EventFacts, PairFacts DEF CloseConnection
  <2>2. pool' \in [Backends -> Backend]
    BY <1>6, <2>1, ReleasedFacts DEF CloseConnection, InOrder, BooksType
  <2>3. /\ connections' = [connections EXCEPT ![c] = NoPair]
        /\ backend_to_client' = Unmapped(connections[c].backend_fd)
        /\ open' = open \ {connections[c].backend_fd, c}
    BY <1>6 DEF CloseConnection
  <2> HIDE DEF c
  <2> QED
    BY <2>1, <2>2, <2>3, GoneInOrder
<1>7. ASSUME NEW b \in Backends, HealthVerdict(b) PROVE InOrder'
  <2>1. pool' \in [Backends -> Backend]
    BY <1>7 DEF HealthVerdict, InOrder, BooksType, Backend
  <2> QED
    BY <1>7, <2>1 DEF HealthVerdict, InOrder, BooksType, MapsAgree, Own
<1>8. CASE CloseAllConnections
  <2>1. pool' \in [Backends -> Backend]
    BY <1>8, PairsOnCardinality DEF CloseAllConnections, InOrder, BooksType, Backend
  <2>2. /\ connections' = [c \in Fds |-> NoPair]
        /\ backend_to_client' = [f \in Fds |-> NoFd]
        /\ open' = {}
    <3>1. \A f \in open : f \in Clients \cup {connections[c].backend_fd : c \in Clients}
      BY RoutingAssumption DEF InOrder, BooksType, MapsAgree, Own, Clients
    <3> QED
      BY <1>8, <3>1 DEF CloseAllConnections
  <2> QED
    BY <2>1, <2>2, RoutingAssumption DEF InOrder, BooksType, MapsAgree, Own
<1>9. CASE UNCHANGED vars
  BY <1>9 DEF vars, InOrder, BooksType, MapsAgree, Own
<1> QED
  BY <1>1, <1>2, <1>3, <1>4, <1>5, <1>6, <1>7, <1>8, <1>9 DEF Next

\* A backend's descriptor always leads to the pair that owns it, through any
\* reuse of descriptors by accept, connect and failover.
THEOREM EventsFindTheirPair == Spec => []MapsAgree
<1>1. InOrder => MapsAgree
  BY DEF InOrder
<1> QED
  BY <1>1, InitInOrder, NextInOrder, PTL DEF Spec

\* The reactor always owns exactly the sockets of its pairs: failed attempts,
\* failovers, closes and the shutdown leak none.
THEOREM NoSocketLeaks == Spec => []SocketsOwned
BY OwnSockets, InitInOrder, NextInOrder, PTL DEF Spec

-----------------------------------------------------------------------------
(* Counters. *)

\* The reactor starts without pairs and with counters at zero.
LEMMA InitCounts == Init => CountsMatch
<1> SUFFICES ASSUME Init, NEW b \in Backends PROVE pool[b].connection_count = Cardinality(PairsOn(b))
  BY DEF CountsMatch
<1>1. PairsOn(b) = {}
  BY DEF Init, PairsOn, Clients
<1> QED
  BY <1>1, FS_EmptySet DEF Init

\* A pair that goes takes one from the count of its backend.
LEMMA GoneCounts ==
    ASSUME InOrder, CountsMatch, NEW c \in Clients,
           connections' = [connections EXCEPT ![c] = NoPair],
           \A b \in Backends :
              pool'[b].connection_count =
                IF connections[c].backend_fd # NoFd /\ b = connections[c].backend_index
                  THEN OneLess(pool[b].connection_count) ELSE pool[b].connection_count
    PROVE  CountsMatch'
<1> SUFFICES ASSUME NEW b \in Backends
             PROVE  pool'[b].connection_count = Cardinality(PairsOn(b)')
  BY DEF CountsMatch
<1>1. PairsOn(b)' = PairsOn(b) \ {c}
  BY PairFacts DEF PairsOn, Clients, InOrder, BooksType
<1>2. pool[b].connection_count = Cardinality(PairsOn(b))
  BY DEF CountsMatch
<1>3. CASE c \in PairsOn(b)
  <2>1. /\ Cardinality(PairsOn(b)') = Cardinality(PairsOn(b)) - 1
        /\ Cardinality(PairsOn(b)) \in Nat /\ Cardinality(PairsOn(b)') \in Nat
    BY <1>1, <1>3, PairsOnCardinality, FS_RemoveElement
  <2>2. pool'[b].connection_count = OneLess(pool[b].connection_count)
    BY <1>3 DEF PairsOn
  <2> QED
    BY <1>2, <2>1, <2>2 DEF OneLess
<1>4. CASE c \notin PairsOn(b)
  <2>1. PairsOn(b)' = PairsOn(b)
    BY <1>1, <1>4
  <2>2. pool'[b].connection_count = pool[b].connection_count
    BY <1>4 DEF PairsOn
  <2> QED
    BY <1>2, <2>1, <2>2
<1> QED
  BY <1>3, <1>4

\* A pair that is given a socket to backend n adds one to its count, and takes
\* one from the backend it has left.
LEMMA AssignCounts ==
    ASSUME InOrder, CountsMatch, NEW c \in Clients, NEW fd \in Fds, NEW n \in Backends,
           NEW x \in BOOLEAN, connections' = Assigned(c, fd, n, x),
           NEW left \in [Backends -> Backend],
           \A b \in Backends :
              left[b].connection_count =
                IF connections[c].backend_fd # NoFd /\ b = connections[c].backend_index
                  THEN OneLess(pool[b].connection_count) ELSE pool[b].connection_count,
           \A b \in Backends :
              pool'[b].connection_count =
                IF b = n THEN left[b].connection_count + 1 ELSE left[b].connection_count
    PROVE  CountsMatch'
<1> SUFFICES ASSUME NEW b \in Backends
             PROVE  pool'[b].connection_count = Cardinality(PairsOn(b)')
  BY DEF CountsMatch
<1> DEFINE others == PairsOn(b) \ {c}
<1>1. PairsOn(b)' = IF b = n THEN others \cup {c} ELSE others
  <2>1. c \in Fds /\ connections[c] # NoPair /\ connections'[c] # NoPair
        /\ connections'[c].backend_fd = fd /\ connections'[c].backend_index = n
        /\ \A d \in Fds \ {c} : connections'[d] = connections[d]
    BY AssignedFacts, PairFacts, RoutingAssumption DEF InOrder
  <2> QED
    BY <2>1, RoutingAssumption DEF PairsOn, Clients
<1>2. pool[b].connection_count = Cardinality(PairsOn(b))
  BY DEF CountsMatch
<1>3. IsFiniteSet(others) /\ Cardinality(others) \in Nat
  BY PairsOnCardinality, FS_Subset, FS_CardinalityType
<1>4. left[b].connection_count = Cardinality(others)
  <2>1. CASE c \in PairsOn(b)
    <3>1. /\ Cardinality(others) = Cardinality(PairsOn(b)) - 1
          /\ Cardinality(PairsOn(b)) \in Nat
      BY <2>1, PairsOnCardinality, FS_RemoveElement
    <3>2. left[b].connection_count = OneLess(pool[b].connection_count)
      BY <2>1 DEF PairsOn
    <3> QED
      BY <1>2, <1>3, <3>1, <3>2 DEF OneLess
  <2>2. CASE c \notin PairsOn(b)
    <3>1. others = PairsOn(b)
      BY <2>2
    <3>2. left[b].connection_count = pool[b].connection_count
      BY <2>2 DEF PairsOn
    <3> QED
      BY <1>2, <3>1, <3>2
  <2> QED
    BY <2>1, <2>2
<1>5. Cardinality(others \cup {c}) = Cardinality(others) + 1
  BY <1>3, FS_AddElement
<1> QED
  BY <1>1, <1>4, <1>5

\* Every handler leaves the counts exact.
LEMMA NextCounts == InOrder /\ CountsMatch /\ [Next]_vars => CountsMatch'
<1> SUFFICES ASSUME InOrder, CountsMatch, [Next]_vars PROVE CountsMatch'
  OBVIOUS
\* Steps that neither make nor end a pair with a backend.
<1>0. ASSUME \A b \in Backends : PairsOn(b)' = PairsOn(b),
             \A b \in Backends : pool'[b].connection_count = pool[b].connection_count
      PROVE  CountsMatch'
  BY <1>0 DEF CountsMatch
<1>1. ASSUME NEW fd \in Fds, NEW ip \in Ips, Accept(fd, ip) PROVE CountsMatch'
  <2>1. connections[fd] = NoPair
    BY <1>1 DEF InOrder, Own, Accept
  <2>2. ASSUME NEW b \in Backends PROVE PairsOn(b)' = PairsOn(b)
    <3> DEFINE p == [client_ip |-> ip, backend_fd |-> NoFd, backend_index |-> 0,
                     backend_connecting |-> FALSE, metrics_connection |-> FALSE]
    <3>1. p.backend_fd = NoFd /\ connections' = [connections EXCEPT ![fd] = p]
      BY <1>1, <2>1 DEF Accept
    <3> HIDE DEF p
    <3> QED
      BY <2>1, <3>1 DEF InOrder, BooksType, PairsOn, Clients
  <2> QED
    BY <1>0, <1>1, <2>2 DEF Accept
<1>2. ASSUME NEW c \in Fds, ConnectClient(c) PROVE CountsMatch'
  <2>1. c \in Clients /\ connections[c].backend_fd = NoFd
    BY <1>2, EventFacts DEF ConnectClient
  <2>2. PICK outcome \in [Healthy -> Outcomes] :
          LET s == ConnectLoop(connections[c].client_ip, outcome) IN
          /\ \/ /\ s.chosen \in Backends
                /\ \E fd \in Fds \ open :
                     connections' = Assigned(c, fd, s.chosen, outcome[s.chosen] = "connecting")
             \/ /\ s.chosen \notin Backends
                /\ connections' = [connections EXCEPT ![c] = NoPair]
          /\ pool' = Counted(pool, s, outcome, 0)
    BY <1>2 DEF ConnectClient
  <2> DEFINE s == ConnectLoop(connections[c].client_ip, outcome)
  <2> HIDE DEF s
  <2>3. \A b \in Backends : pool'[b].connection_count =
          IF b = s.chosen THEN pool[b].connection_count + 1 ELSE pool[b].connection_count
    <3>1. pool' = Counted(pool, s, outcome, 0)
      BY <2>2 DEF s
    <3>2. pool \in [Backends -> Backend]
      BY DEF InOrder, BooksType
    <3> QED
      BY <3>1, <3>2, CountedFacts
  <2>4. CASE s.chosen \in Backends
    <3>1. PICK fd \in Fds \ open :
            connections' = Assigned(c, fd, s.chosen, outcome[s.chosen] = "connecting")
      BY <2>2, <2>4 DEF s
    <3>2. pool \in [Backends -> Backend]
      BY DEF InOrder, BooksType
    <3> QED
      BY <2>1, <2>3, <2>4, <3>1, <3>2, AssignCounts
  <2>5. CASE s.chosen \notin Backends
    <3>1. connections' = [connections EXCEPT ![c] = NoPair]
      BY <2>2, <2>5 DEF s
    <3> QED
      BY <2>1, <2>3, <2>5, <3>1, GoneCounts
  <2> QED
    BY <2>4, <2>5
<1>3. ASSUME NEW c \in Fds, TakeMetrics(c) PROVE CountsMatch'
  <2>1. c \in Clients
    BY <1>3, EventFacts DEF TakeMetrics
  <2>2. \A b : PairsOn(b)' = PairsOn(b)
    BY <1>3, <2>1, KeptInOrder DEF TakeMetrics
  <2> QED
    BY <1>0, <1>3, <2>2 DEF TakeMetrics
<1>4. ASSUME NEW fd \in Fds, Connected(fd) PROVE CountsMatch'
  <2>1. ClientOf(fd) \in Clients
    BY <1>4, EventFacts DEF Connected
  <2>2. \A b : PairsOn(b)' = PairsOn(b)
    BY <1>4, <2>1, KeptInOrder DEF Connected
  <2> QED
    BY <1>0, <1>4, <2>2 DEF Connected
<1>5. ASSUME NEW fd \in Fds, FailoverConnection(fd) PROVE CountsMatch'
  <2> DEFINE c == ClientOf(fd)
             failed == connections[c].backend_index
             released == [Released(failed) EXCEPT ![failed].failed_connections = @ + 1]
  <2>1. /\ c \in Clients /\ failed \in Backends
        /\ connections[c].backend_fd # NoFd
    BY <1>5, EventFacts, PairFacts, RoutingAssumption DEF FailoverConnection
  <2>2. PICK outcome \in [Healthy -> Outcomes] :
          LET s == FailoverLoop(failed, outcome) IN
          /\ \/ /\ s.chosen \in Backends
                /\ \E new \in Fds :
                     connections' = Assigned(c, new, s.chosen, outcome[s.chosen] = "connecting")
             \/ /\ s.chosen \notin Backends
                /\ connections' = [connections EXCEPT ![c] = NoPair]
          /\ pool' = Counted(released, s, outcome, 1)
    BY <1>5 DEF FailoverConnection
  <2> DEFINE s == FailoverLoop(failed, outcome)
  <2> HIDE DEF s
  <2>3. /\ released \in [Backends -> Backend]
        /\ \A b \in Backends : released[b].connection_count =
             IF b = failed THEN OneLess(pool[b].connection_count) ELSE pool[b].connection_count
    BY <2>1, FailedFacts DEF InOrder
  <2> HIDE DEF released
  <2>4. \A b \in Backends : pool'[b].connection_count =
          IF b = s.chosen THEN released[b].connection_count + 1 ELSE released[b].connection_count
    <3>1. pool' = Counted(released, s, outcome, 1)
      BY <2>2 DEF s
    <3> QED
      BY <2>3, <3>1, CountedFacts
  <2>5. CASE s.chosen \in Backends
    <3>1. PICK new \in Fds :
            connections' = Assigned(c, new, s.chosen, outcome[s.chosen] = "connecting")
      BY <2>2, <2>5 DEF s
    <3> HIDE DEF c
    <3> QED
      BY <2>1, <2>3, <2>4, <2>5, <3>1, AssignCounts
  <2>6. CASE s.chosen \notin Backends
    <3>1. connections' = [connections EXCEPT ![c] = NoPair]
      BY <2>2, <2>6 DEF s
    <3> HIDE DEF c
    <3>2. \A b \in Backends : pool'[b].connection_count =
            IF connections[c].backend_fd # NoFd /\ b = connections[c].backend_index
              THEN OneLess(pool[b].connection_count) ELSE pool[b].connection_count
      BY <2>1, <2>3, <2>4, <2>6
    <3> QED
      BY <2>1, <3>1, <3>2, GoneCounts
  <2> QED
    BY <2>5, <2>6
<1>6. ASSUME NEW fd \in Fds, CloseConnection(fd) PROVE CountsMatch'
  <2> DEFINE c == ClientOf(fd)
  <2>1. c \in Clients /\ connections[c].backend_index \in Backends
    BY <1>6, EventFacts, PairFacts DEF CloseConnection
  <2>2. /\ connections' = [connections EXCEPT ![c] = NoPair]
        /\ pool' = IF connections[c].backend_fd = NoFd THEN pool
                   ELSE Released(connections[c].backend_index)
    BY <1>6 DEF CloseConnection
  <2> HIDE DEF c
  <2>3. \A b \in Backends :
          pool'[b].connection_count =
            IF connections[c].backend_fd # NoFd /\ b = connections[c].backend_index
              THEN OneLess(pool[b].connection_count) ELSE pool[b].connection_count
    BY <2>1, <2>2, ReleasedFacts DEF InOrder
  <2> QED
    BY <2>1, <2>2, <2>3, GoneCounts
<1>7. ASSUME NEW h \in Backends, HealthVerdict(h) PROVE CountsMatch'
  <2>1. \A b \in Backends : pool'[b].connection_count = pool[b].connection_count
    BY <1>7 DEF HealthVerdict, InOrder, BooksType, Backend
  <2>2. \A b \in Backends : PairsOn(b)' = PairsOn(b)
    BY <1>7 DEF HealthVerdict, PairsOn, Clients
  <2> QED
    BY <1>0, <2>1, <2>2
<1>8. CASE CloseAllConnections
  <2> SUFFICES ASSUME NEW b \in Backends
               PROVE  pool'[b].connection_count = Cardinality(PairsOn(b)')
    BY DEF CountsMatch
  <2>1. pool[b].connection_count = Cardinality(PairsOn(b)) /\ Cardinality(PairsOn(b)) \in Nat
    BY PairsOnCardinality DEF CountsMatch
  <2>2. pool'[b].connection_count = 0
    BY <1>8, <2>1 DEF CloseAllConnections, InOrder, BooksType, Backend
  <2>3. PairsOn(b)' = {}
    BY <1>8 DEF CloseAllConnections, PairsOn, Clients
  <2> QED
    BY <2>2, <2>3, FS_EmptySet
<1>9. CASE UNCHANGED vars
  BY <1>0, <1>9 DEF vars, PairsOn, Clients
<1> QED
  BY <1>1, <1>2, <1>3, <1>4, <1>5, <1>6, <1>7, <1>8, <1>9 DEF Next

\* connection_count is always the number of pairs on the backend, whatever
\* attempts failed, moved or could not be watched; the tests against zero in
\* closeConnection, failoverConnection and closeAllConnections never matter.
THEOREM CountersExact == Spec => []CountsMatch
<1>1. Init => InOrder /\ CountsMatch
  BY InitInOrder, InitCounts
<1>2. InOrder /\ CountsMatch /\ [Next]_vars => (InOrder /\ CountsMatch)'
  BY NextInOrder, NextCounts
<1> QED
  BY <1>1, <1>2, PTL DEF Spec
-----------------------------------------------------------------------------
(* The ring. *)

\* Min of a set of natural numbers.
LEMMA MinFacts ==
    ASSUME NEW T, T \subseteq Nat, T # {}
    PROVE  Min(T) \in T /\ \A y \in T : Min(T) <= y
BY LeastNumber DEF Min

\* The first node of a set of nodes, or of all nodes.
LEMMA FirstOfFacts ==
    ASSUME NEW r, Nodes(r) # {}, NEW after \in SUBSET Nodes(r)
    PROVE  /\ FirstOf(r, after) \in Nodes(r)
           /\ after # {} => FirstOf(r, after) \in after /\ \A h \in after : FirstOf(r, after) <= h
           /\ after = {} => \A h \in Nodes(r) : FirstOf(r, after) <= h
<1>1. Nodes(r) \subseteq Nat
  BY ConsistentHashAssumption DEF Nodes, Hashes
<1>2. CASE after = {}
  BY <1>1, <1>2, MinFacts DEF FirstOf
<1>3. CASE after # {}
  <2>1. after \subseteq Nat
    BY <1>1
  <2>2. FirstOf(r, after) = Min(after)
    BY <1>3 DEF FirstOf
  <2>3. Min(after) \in after /\ \A h \in after : Min(after) <= h
    BY <1>3, <2>1, MinFacts
  <2> QED
    BY <1>3, <2>2, <2>3
<1> QED
  BY <1>2, <1>3

\* Distances are below the size of the ring, and no two nodes have the same.
LEMMA ClockwiseFacts ==
    ASSUME NEW hash \in Hashes
    PROVE  /\ \A h \in Hashes : Clockwise(hash, h) \in 0 .. HashSize - 1
           /\ \A g, h \in Hashes : Clockwise(hash, g) = Clockwise(hash, h) => g = h
BY ConsistentHashAssumption DEF Clockwise, Hashes

\* getBackend() starts at the node that is closest.
LEMMA StartIsClosest ==
    ASSUME NEW r, Nodes(r) # {}, NEW hash \in Hashes
    PROVE  /\ LowerBound(r, hash) \in Nodes(r)
           /\ \A h \in Nodes(r) : Clockwise(hash, LowerBound(r, hash)) <= Clockwise(hash, h)
<1> DEFINE after == {h \in Nodes(r) : h >= hash}
           p == FirstOf(r, after)
<1>0. LowerBound(r, hash) = p
  BY DEF LowerBound
<1>1. after \in SUBSET Nodes(r)
  OBVIOUS
<1>2. /\ p \in Nodes(r)
      /\ after # {} => p \in after /\ \A h \in after : p <= h
      /\ after = {} => \A h \in Nodes(r) : p <= h
  <2> HIDE DEF after
  <2> QED
    BY <1>1, FirstOfFacts
<1> HIDE DEF p
<1>3. Nodes(r) \subseteq Hashes
  BY DEF Nodes
<1>4. ASSUME NEW h \in Nodes(r) PROVE Clockwise(hash, p) <= Clockwise(hash, h)
  <2>1. h \in 0 .. HashSize - 1 /\ p \in 0 .. HashSize - 1 /\ hash \in 0 .. HashSize - 1
    BY <1>2, <1>3 DEF Hashes
  <2>2. CASE after = {}
    <3>1. ~(h >= hash) /\ ~(p >= hash) /\ p <= h
      BY <1>2, <2>2
    <3> QED
      BY <2>1, <3>1, ConsistentHashAssumption DEF Clockwise
  <2>3. CASE after # {}
    <3>1. p >= hash /\ (h >= hash => p <= h)
      BY <1>2, <2>3
    <3> QED
      BY <2>1, <3>1, ConsistentHashAssumption DEF Clockwise
  <2> QED
    BY <2>2, <2>3
<1> QED
  BY <1>0, <1>2, <1>4

\* From a node the loop goes on to the next further away, or from the one that
\* is furthest away to the closest, wherever the ring ends in between.
LEMMA FollowingIsNext ==
    ASSUME NEW r, NEW p \in Nodes(r), NEW hash \in Hashes
    PROVE  LET q == Following(r, p) IN
           /\ q \in Nodes(r)
           /\ \/ /\ Clockwise(hash, p) < Clockwise(hash, q)
                 /\ \A h \in Nodes(r) : Clockwise(hash, p) < Clockwise(hash, h)
                                          => Clockwise(hash, q) <= Clockwise(hash, h)
              \/ \A h \in Nodes(r) : /\ Clockwise(hash, h) <= Clockwise(hash, p)
                                     /\ Clockwise(hash, q) <= Clockwise(hash, h)
<1> DEFINE after == {h \in Nodes(r) : h > p}
           q == FirstOf(r, after)
<1>0. Following(r, p) = q
  BY DEF Following
<1>1. after \in SUBSET Nodes(r) /\ Nodes(r) # {}
  OBVIOUS
<1>2. /\ q \in Nodes(r)
      /\ after # {} => q \in after /\ \A h \in after : q <= h
      /\ after = {} => \A h \in Nodes(r) : q <= h
  <2> HIDE DEF after
  <2> QED
    BY <1>1, FirstOfFacts
<1> HIDE DEF q
<1>3. \A h \in Nodes(r) : h \in 0 .. HashSize - 1
  BY DEF Nodes, Hashes
<1>4. /\ p \in 0 .. HashSize - 1 /\ q \in 0 .. HashSize - 1 /\ hash \in 0 .. HashSize - 1
      /\ HashSize \in Nat
  BY <1>2, <1>3, ConsistentHashAssumption DEF Hashes
<1>5. \/ q > p /\ \A h \in Nodes(r) : h > p => q <= h
      \/ \A h \in Nodes(r) : h <= p /\ q <= h
  <2>1. CASE after = {}
    <3>1. \A h \in Nodes(r) : ~(h > p)
      BY <2>1
    <3> QED
      BY <1>2, <1>3, <1>4, <2>1, <3>1
  <2>2. CASE after # {}
    BY <1>2, <2>2
  <2> QED
    BY <2>1, <2>2
<1> HIDE DEF after
<1> DEFINE Further == /\ Clockwise(hash, p) < Clockwise(hash, q)
                      /\ \A h \in Nodes(r) : Clockwise(hash, p) < Clockwise(hash, h)
                                              => Clockwise(hash, q) <= Clockwise(hash, h)
           Around == \A h \in Nodes(r) : /\ Clockwise(hash, h) <= Clockwise(hash, p)
                                         /\ Clockwise(hash, q) <= Clockwise(hash, h)
<1> DEFINE On == (p >= hash /\ q >= hash /\ q > p) \/ (p < hash /\ q < hash /\ q > p) \/ (p >= hash /\ q < hash)
<1>6. ASSUME On PROVE Further
  <2>1. Clockwise(hash, p) < Clockwise(hash, q)
    BY <1>4, <1>6 DEF Clockwise
  <2>2. ASSUME NEW h \in Nodes(r), Clockwise(hash, p) < Clockwise(hash, h)
        PROVE  Clockwise(hash, q) <= Clockwise(hash, h)
    <3>1. h \in 0 .. HashSize - 1
      BY <1>3
    <3>2. (h > p => q <= h) \/ (h <= p /\ q <= h)
      BY <1>5
    <3>3. q > p => (h > p => q <= h)
      BY <1>4, <1>5, <3>1, <3>2
    <3> QED
      BY <1>4, <1>5, <1>6, <2>2, <3>1, <3>2, <3>3 DEF Clockwise
  <2> QED
    BY <2>1, <2>2
<1>7. ASSUME ~On PROVE Around
  <2>1. ASSUME NEW h \in Nodes(r)
        PROVE  /\ Clockwise(hash, h) <= Clockwise(hash, p)
               /\ Clockwise(hash, q) <= Clockwise(hash, h)
    <3>1. h \in 0 .. HashSize - 1
      BY <1>3
    <3>2. \/ q > p /\ (h > p => q <= h)
          \/ h <= p /\ q <= h
      BY <1>5
    <3> QED
      BY <1>4, <1>7, <3>1, <3>2 DEF Clockwise
  <2> QED
    BY <2>1
<1>8. Further \/ Around
  BY <1>6, <1>7
<1> QED
  BY <1>0, <1>2, <1>8

\* After n passes: the loop is at a node, and what is closer is of no use; or it
\* is over, with nothing, or with the closest that is of use.
Walk(r, hash, healthy, n, s) ==
    \/ /\ s.node \in Nodes(r) /\ s.index = BackendCount
       /\ Clockwise(hash, s.node) >= n
       /\ \A h \in Nodes(r) : Clockwise(hash, h) < Clockwise(hash, s.node) => r[h] \notin healthy
    \/ /\ s.node = HashSize /\ s.index = BackendCount
       /\ \A h \in Nodes(r) : r[h] \notin healthy
    \/ /\ s.node = HashSize
       /\ \E h \in Nodes(r) :
            /\ s.index = r[h] /\ r[h] \in healthy
            /\ \A g \in Nodes(r) : r[g] \in healthy => Clockwise(hash, h) <= Clockwise(hash, g)

\* The states of the loop.
WalkState(r, healthy) ==
    [node : Nodes(r) \cup {HashSize}, index : healthy \cup {BackendCount}]

\* One pass goes on by at least one place.
LEMMA PassFacts ==
    ASSUME NEW r, Nodes(r) # {}, NEW hash \in Hashes, NEW healthy,
           NEW s \in WalkState(r, healthy)
    PROVE  LET t == Pass(r, LowerBound(r, hash), healthy, s) IN
           /\ t \in WalkState(r, healthy)
           /\ \A n \in Nat : Walk(r, hash, healthy, n, s) => Walk(r, hash, healthy, n + 1, t)
<1> DEFINE start == LowerBound(r, hash)
           t == Pass(r, start, healthy, s)
           next == Following(r, s.node)
<1>1. s.node \in Nodes(r) \cup {HashSize} /\ s.index \in healthy \cup {BackendCount}
  BY DEF WalkState
<1>2. Nodes(r) \subseteq Hashes /\ HashSize \notin Nodes(r)
  BY ConsistentHashAssumption DEF Nodes, Hashes
<1>3. CASE s.node = HashSize
  <2>1. t = s
    BY <1>3 DEF Pass
  <2> QED
    BY <1>2, <1>3, <2>1 DEF Walk
<1>4. CASE s.node # HashSize /\ r[s.node] \in healthy
  <2> DEFINE x == [node |-> HashSize, index |-> r[s.node]]
  <2>1. t = x
    BY <1>4 DEF Pass
  <2>2. x \in WalkState(r, healthy) /\ x.node = HashSize /\ x.index = r[s.node]
    BY <1>4 DEF WalkState
  <2> HIDE DEF x
  <2>3. ASSUME NEW n \in Nat, Walk(r, hash, healthy, n, s) PROVE Walk(r, hash, healthy, n + 1, x)
    <3>1. \A h \in Nodes(r) : Clockwise(hash, h) < Clockwise(hash, s.node) => r[h] \notin healthy
      BY <1>4, <2>3 DEF Walk
    <3>2. \A g \in Nodes(r) : Clockwise(hash, g) \in Int
      BY <1>2, ClockwiseFacts
    <3>3. \A g \in Nodes(r) : r[g] \in healthy => Clockwise(hash, s.node) <= Clockwise(hash, g)
      BY <1>1, <1>4, <3>1, <3>2
    <3> QED
      BY <1>1, <1>4, <2>2, <3>3 DEF Walk
  <2> QED
    BY <2>1, <2>2, <2>3
<1>5. CASE s.node # HashSize /\ r[s.node] \notin healthy
  <2> DEFINE x == [node |-> IF next = start THEN HashSize ELSE next, index |-> BackendCount]
  <2>1. t = x
    BY <1>5 DEF Pass
  <2>2. next \in Nodes(r)
    BY <1>1, <1>5, FollowingIsNext
  <2>3. /\ x \in WalkState(r, healthy) /\ x.index = BackendCount
        /\ x.node = IF next = start THEN HashSize ELSE next
    BY <2>2 DEF WalkState
  <2> HIDE DEF x
  <2>4. /\ start \in Nodes(r)
        /\ \A h \in Nodes(r) : Clockwise(hash, start) <= Clockwise(hash, h)
    BY StartIsClosest
  <2>5. /\ \A g \in Nodes(r) : Clockwise(hash, g) \in Int
        /\ \A g, h \in Nodes(r) : Clockwise(hash, g) = Clockwise(hash, h) => g = h
    BY <1>2, ClockwiseFacts
  <2>6. \/ /\ Clockwise(hash, s.node) < Clockwise(hash, next)
           /\ \A h \in Nodes(r) : Clockwise(hash, s.node) < Clockwise(hash, h)
                                    => Clockwise(hash, next) <= Clockwise(hash, h)
        \/ \A h \in Nodes(r) : /\ Clockwise(hash, h) <= Clockwise(hash, s.node)
                               /\ Clockwise(hash, next) <= Clockwise(hash, h)
    BY <1>1, <1>5, FollowingIsNext
  <2> HIDE DEF start, next
  <2>7. ASSUME NEW n \in Nat, Walk(r, hash, healthy, n, s) PROVE Walk(r, hash, healthy, n + 1, x)
    <3>1. /\ s.node \in Nodes(r) /\ Clockwise(hash, s.node) >= n
          /\ \A h \in Nodes(r) : Clockwise(hash, h) < Clockwise(hash, s.node) => r[h] \notin healthy
      BY <1>1, <1>5, <2>7 DEF Walk
    <3>2. \A h \in Nodes(r) : Clockwise(hash, h) <= Clockwise(hash, s.node) => r[h] \notin healthy
      BY <1>5, <2>5, <3>1
    <3>3. CASE next = start
      <4>1. \A h \in Nodes(r) : Clockwise(hash, h) <= Clockwise(hash, s.node)
        BY <2>4, <2>5, <2>6, <3>1, <3>3
      <4>2. \A h \in Nodes(r) : r[h] \notin healthy
        BY <3>2, <4>1
      <4> QED
        BY <2>3, <3>3, <4>2 DEF Walk
    <3>4. CASE next # start
      <4>1. /\ Clockwise(hash, s.node) < Clockwise(hash, next)
            /\ \A h \in Nodes(r) : Clockwise(hash, s.node) < Clockwise(hash, h)
                                     => Clockwise(hash, next) <= Clockwise(hash, h)
        BY <2>2, <2>4, <2>5, <2>6, <3>4
      <4>2. \A h \in Nodes(r) : Clockwise(hash, h) < Clockwise(hash, next) => r[h] \notin healthy
        BY <2>2, <2>5, <3>1, <3>2, <4>1
      <4>3. Clockwise(hash, next) >= n + 1
        BY <2>2, <2>5, <3>1, <4>1
      <4> QED
        BY <2>2, <2>3, <3>4, <4>2, <4>3 DEF Walk
    <3> QED
      BY <3>3, <3>4
  <2> QED
    BY <2>1, <2>3, <2>7 DEF start
<1> QED
  BY <1>3, <1>4, <1>5

\* The recursion that defines GetBackend has a solution.
LEMMA GetBackendDef ==
    ASSUME NEW r, Nodes(r) # {}, NEW hash \in Hashes, NEW healthy
    PROVE  \E f \in [0 .. HashSize -> WalkState(r, healthy)] :
             /\ f[0] = [node |-> LowerBound(r, hash), index |-> BackendCount]
             /\ \A i \in 1 .. HashSize : f[i] = Pass(r, LowerBound(r, hash), healthy, f[i - 1])
             /\ GetBackend(r, hash, healthy) = f[HashSize].index
<1> DEFINE N == HashSize
           D == WalkState(r, healthy)
           start == LowerBound(r, hash)
           first == [node |-> start, index |-> BackendCount]
           G == [i \in 1 .. N |-> [s \in D |-> Pass(r, start, healthy, s)]]
           Body(g) == [n \in 0 .. N |-> IF n = 0 THEN first ELSE Pass(r, start, healthy, g[n - 1])]
           c == CHOOSE g : g = Body(g)
<1>1. N \in Nat /\ first \in D
  BY ConsistentHashAssumption, StartIsClosest DEF WalkState
<1>2. G \in [1 .. N -> [D -> D]]
  <2>1. \A s \in D : Pass(r, start, healthy, s) \in D
    BY PassFacts
  <2> HIDE DEF D, start
  <2> QED
    BY <2>1
<1> HIDE DEF first, start
<1>0. \E f : Recurs(f, N, D, first, G)
  <2> HIDE DEF N, D, G
  <2> QED
    BY <1>1, <1>2, Recursion
<1>3. PICK f \in [0 .. N -> D] :
        f[0] = first /\ \A i \in 1 .. N : f[i] = G[i][f[i - 1]]
  <2> HIDE DEF N, D, G
  <2> QED
    BY <1>0 DEF Recurs
<1>4. ASSUME NEW i \in 1 .. N PROVE f[i] = Pass(r, start, healthy, f[i - 1])
  <2>1. f[i - 1] \in D /\ f[i] = G[i][f[i - 1]]
    BY <1>1, <1>3
  <2> HIDE DEF D
  <2> QED
    BY <2>1
<1>5. f = Body(f)
  <2>1. ASSUME NEW n \in 0 .. N PROVE f[n] = Body(f)[n]
    <3>1. CASE n = 0
      BY <1>1, <1>3, <3>1
    <3>2. CASE n # 0
      <4>1. n \in 1 .. N
        BY <1>1, <3>2
      <4> QED
        BY <1>4, <3>2, <4>1
    <3> QED
      BY <3>1, <3>2
  <2> QED
    BY <1>3, <2>1
<1>6. c = Body(c)
  <2> HIDE DEF Body
  <2> QED
    BY <1>5
<1>7. c = f
  <2> DEFINE T == {n \in 0 .. N : c[n] = f[n]}
  <2>0. \A n \in 0 .. N : c[n] = Body(c)[n]
    BY <1>6
  <2> HIDE DEF c
  <2>1. 0 \in T
    BY <1>1, <1>3, <2>0
  <2>2. ASSUME NEW n \in 0 .. N - 1, n \in T PROVE n + 1 \in T
    <3>1. n + 1 \in 1 .. N /\ n + 1 - 1 = n /\ n + 1 # 0 /\ n + 1 \in 0 .. N
      BY <1>1
    <3>2. c[n + 1] = Pass(r, start, healthy, c[n])
      BY <2>0, <3>1
    <3>3. f[n + 1] = Pass(r, start, healthy, f[n])
      BY <1>4, <3>1
    <3> QED
      BY <2>2, <3>1, <3>2, <3>3
  <2>3. \A n \in 0 .. N : n \in T
    <3> HIDE DEF T
    <3> QED
      BY <1>1, <2>1, <2>2, UpTo
  <2>4. c = [n \in 0 .. N |-> c[n]]
    BY <1>6
  <2> QED
    BY <1>3, <2>3, <2>4
<1>8. GetBackend(r, hash, healthy) = c[N].index
  BY DEF GetBackend, start, first
<1> QED
  BY <1>3, <1>4, <1>7, <1>8, ZenonT(60) DEF start, first

\* getBackend() returns the backend of the closest node whose backend is healthy.
LEMMA GetBackendClosest ==
    ASSUME NEW r, NEW hash \in Hashes, NEW healthy, BackendCount \notin healthy
    PROVE  LET b == GetBackend(r, hash, healthy) IN
           \/ /\ b = BackendCount
              /\ \A h \in Nodes(r) : r[h] \notin healthy
           \/ \E h \in Nodes(r) :
                /\ b = r[h] /\ r[h] \in healthy
                /\ \A g \in Nodes(r) : r[g] \in healthy => Clockwise(hash, h) <= Clockwise(hash, g)
<1> DEFINE N == HashSize
           start == LowerBound(r, hash)
<1>1. CASE Nodes(r) = {}
  BY <1>1 DEF GetBackend
<1>2. CASE Nodes(r) # {}
  <2>1. PICK f \in [0 .. N -> WalkState(r, healthy)] :
          /\ f[0] = [node |-> start, index |-> BackendCount]
          /\ \A i \in 1 .. N : f[i] = Pass(r, start, healthy, f[i - 1])
          /\ GetBackend(r, hash, healthy) = f[N].index
    BY <1>2, GetBackendDef
  <2>2. N \in Nat
    BY ConsistentHashAssumption
  <2> DEFINE T == {n \in 0 .. N : Walk(r, hash, healthy, n, f[n])}
  <2>3. 0 \in T
    <3>1. /\ start \in Nodes(r)
          /\ \A h \in Nodes(r) : Clockwise(hash, start) <= Clockwise(hash, h)
      BY <1>2, StartIsClosest
    <3>2. \A h \in Nodes(r) : Clockwise(hash, h) \in Nat
      BY ClockwiseFacts, ConsistentHashAssumption DEF Nodes
    <3>3. f[0].node = start /\ f[0].index = BackendCount
      BY <2>1
    <3> HIDE DEF start
    <3>4. Walk(r, hash, healthy, 0, f[0])
      BY <3>1, <3>2, <3>3 DEF Walk
    <3> QED
      BY <2>2, <3>4
  <2>4. ASSUME NEW n \in 0 .. N - 1, n \in T PROVE n + 1 \in T
    <3>1. n \in Nat /\ n + 1 \in 1 .. N /\ n + 1 - 1 = n /\ n \in 0 .. N /\ n + 1 \in 0 .. N
      BY <2>2
    <3>2. f[n + 1] = Pass(r, start, healthy, f[n]) /\ f[n] \in WalkState(r, healthy)
      BY <2>1, <3>1
    <3>3. Walk(r, hash, healthy, n, f[n])
      BY <2>4
    <3>4. Walk(r, hash, healthy, n + 1, f[n + 1])
      BY <1>2, <3>1, <3>2, <3>3, PassFacts
    <3> QED
      BY <3>1, <3>4
  <2>5. \A n \in 0 .. N : n \in T
    <3> HIDE DEF T, N
    <3> QED
      BY <2>2, <2>3, <2>4, UpTo
  <2>6. Walk(r, hash, healthy, N, f[N])
    BY <2>2, <2>5
  <2>7. \A h \in Nodes(r) : ~(Clockwise(hash, h) >= N)
    BY <2>2, ClockwiseFacts DEF Nodes
  <2> QED
    BY <2>1, <2>6, <2>7 DEF Walk
<1> QED
  BY <1>1, <1>2

\* The states of build(): what i backends have put on the ring.
RingState == [Hashes -> 0 .. BackendCount]

Built(l, i, r) ==
    \A h \in Hashes :
        /\ r[h] = BackendCount \/ r[h] \in 0 .. i - 1
        /\ r[h] = BackendCount <=> \A b \in 0 .. i - 1 : h \notin l[b]
        /\ \A b \in 0 .. i - 1 : r[h] = b <=> h \in l[b] /\ \A x \in 0 .. b - 1 : h \notin l[x]

\* The nodes of one more backend.
LEMMA AddNodesFacts ==
    ASSUME NEW l \in Layout, NEW i \in Backends, NEW r \in RingState
    PROVE  /\ AddNodes(r, l[i], i) \in RingState
           /\ Built(l, i, r) => Built(l, i + 1, AddNodes(r, l[i], i))
<1> DEFINE t == AddNodes(r, l[i], i)
<1>0. BackendCount \in Nat /\ i \in 0 .. BackendCount - 1
  BY ConsistentHashAssumption DEF Backends
<1>1. \A h \in Hashes : t[h] = IF r[h] = BackendCount /\ h \in l[i] THEN i ELSE r[h]
  BY DEF AddNodes
<1>2. t \in RingState
  <2>1. t = [h \in Hashes |-> t[h]]
    BY DEF AddNodes
  <2> HIDE DEF t
  <2>2. \A h \in Hashes : t[h] \in 0 .. BackendCount
    BY <1>0, <1>1 DEF RingState
  <2> QED
    BY <2>1, <2>2 DEF RingState
<1> HIDE DEF t
<1>3. ASSUME Built(l, i, r), NEW h \in Hashes
      PROVE  /\ t[h] = BackendCount \/ t[h] \in 0 .. i
             /\ t[h] = BackendCount <=> \A b \in 0 .. i : h \notin l[b]
             /\ \A b \in 0 .. i : t[h] = b <=> h \in l[b] /\ \A x \in 0 .. b - 1 : h \notin l[x]
  <2>1. /\ r[h] = BackendCount \/ r[h] \in 0 .. i - 1
        /\ r[h] = BackendCount <=> \A b \in 0 .. i - 1 : h \notin l[b]
        /\ \A b \in 0 .. i - 1 : r[h] = b <=> h \in l[b] /\ \A x \in 0 .. b - 1 : h \notin l[x]
    BY <1>3 DEF Built
  <2>2. t[h] = IF r[h] = BackendCount /\ h \in l[i] THEN i ELSE r[h]
    BY <1>1
  <2>3. t[h] = BackendCount \/ t[h] \in 0 .. i
    BY <1>0, <2>1, <2>2
  <2>4. t[h] = BackendCount <=> \A b \in 0 .. i : h \notin l[b]
    BY <1>0, <2>1, <2>2
  <2>5. ASSUME NEW b \in 0 .. i
        PROVE  t[h] = b <=> h \in l[b] /\ \A x \in 0 .. b - 1 : h \notin l[x]
    <3>1. CASE b = i
      BY <1>0, <2>1, <2>2, <3>1
    <3>2. CASE b \in 0 .. i - 1
      BY <1>0, <2>1, <2>2, <3>2
    <3> QED
      BY <1>0, <3>1, <3>2
  <2> QED
    BY <2>3, <2>4, <2>5
<1>4. ASSUME Built(l, i, r) PROVE Built(l, i + 1, t)
  <2> DEFINE j == i + 1
  <2>1. j - 1 = i
    BY <1>0
  <2> HIDE DEF j
  <2>2. Built(l, j, t)
    BY <1>3, <1>4, <2>1 DEF Built
  <2> QED
    BY <2>2 DEF j
<1> QED
  BY <1>2, <1>4 DEF t

\* A node belongs to the first backend that has it.
LEMMA BuildFacts ==
    ASSUME NEW l \in Layout
    PROVE  Build(l) \in RingState /\ Built(l, BackendCount, Build(l))
<1> DEFINE N == BackendCount
           D == RingState
           G == [i \in 1 .. N |-> [r \in D |-> AddNodes(r, l[i - 1], i - 1)]]
           Body(g) == [i \in 0 .. N |-> IF i = 0 THEN NoNode ELSE AddNodes(g[i - 1], l[i - 1], i - 1)]
           c == CHOOSE g : g = Body(g)
<1>1. N \in Nat /\ NoNode \in D
  BY ConsistentHashAssumption DEF NoNode, RingState
<1>2. \A i \in 1 .. N : i - 1 \in Backends
  BY <1>1 DEF Backends
<1>3. G \in [1 .. N -> [D -> D]]
  <2>1. \A i \in 1 .. N, r \in D : AddNodes(r, l[i - 1], i - 1) \in D
    BY <1>2, AddNodesFacts
  <2> HIDE DEF D
  <2> QED
    BY <2>1
<1>4. \E f : Recurs(f, N, D, NoNode, G)
  <2> HIDE DEF N, D, G
  <2> QED
    BY <1>1, <1>3, Recursion
<1>5. PICK f \in [0 .. N -> D] :
        f[0] = NoNode /\ \A i \in 1 .. N : f[i] = G[i][f[i - 1]]
  <2> HIDE DEF N, D, G
  <2> QED
    BY <1>4 DEF Recurs
<1>6. ASSUME NEW i \in 1 .. N PROVE f[i] = AddNodes(f[i - 1], l[i - 1], i - 1)
  <2>1. f[i - 1] \in D /\ f[i] = G[i][f[i - 1]]
    BY <1>1, <1>5
  <2> HIDE DEF D
  <2> QED
    BY <2>1
<1>7. f = Body(f)
  <2>1. ASSUME NEW n \in 0 .. N PROVE f[n] = Body(f)[n]
    <3>1. CASE n = 0
      BY <1>1, <1>5, <3>1
    <3>2. CASE n # 0
      <4>1. n \in 1 .. N
        BY <1>1, <3>2
      <4> QED
        BY <1>6, <3>2, <4>1
    <3> QED
      BY <3>1, <3>2
  <2> QED
    BY <1>5, <2>1
<1>8. c = Body(c)
  <2> HIDE DEF Body
  <2> QED
    BY <1>7
<1>9. ASSUME NEW n \in 0 .. N PROVE c[n] \in D /\ Built(l, n, c[n])
  <2> DEFINE T == {m \in 0 .. N : c[m] \in D /\ Built(l, m, c[m])}
  <2>0. \A m \in 0 .. N : c[m] = Body(c)[m]
    BY <1>8
  <2> HIDE DEF c
  <2>1. 0 \in T
    <3>1. c[0] = NoNode /\ 0 \in 0 .. N
      BY <1>1, <2>0
    <3>2. Built(l, 0, NoNode)
      BY DEF Built, NoNode
    <3> QED
      BY <1>1, <3>1, <3>2
  <2>2. ASSUME NEW m \in 0 .. N - 1, m \in T PROVE m + 1 \in T
    <3>1. m + 1 # 0 /\ m + 1 - 1 = m /\ m + 1 \in 0 .. N /\ m \in Backends
      BY <1>1 DEF Backends
    <3>2. c[m + 1] = AddNodes(c[m], l[m], m)
      BY <2>0, <3>1
    <3> QED
      BY <2>2, <3>1, <3>2, AddNodesFacts
  <2>3. \A m \in 0 .. N : m \in T
    <3> HIDE DEF T, N
    <3> QED
      BY <1>1, <2>1, <2>2, UpTo
  <2> QED
    BY <2>3
<1>10. Build(l) = c[N]
  BY DEF Build
<1>11. N \in 0 .. N
  BY <1>1
<1> HIDE DEF c, D, G, Body
<1> QED
  BY <1>9, <1>10, <1>11 DEF D

\* A hash keeps its backend unless that has fallen sick or another has recovered.
LEMMA MovesFew ==
    ASSUME NEW r, NEW hash \in Hashes, NEW A, NEW B, BackendCount \notin A, BackendCount \notin B
    PROVE  LET old == GetBackend(r, hash, A)
               new == GetBackend(r, hash, B)
           IN new # old => old \in A \ B \/ new \in B \ A
<1> DEFINE old == GetBackend(r, hash, A)
           new == GetBackend(r, hash, B)
           C(h) == Clockwise(hash, h)
<1>1. /\ \A g \in Nodes(r) : C(g) \in Int
      /\ \A g, h \in Nodes(r) : C(g) = C(h) => g = h
  BY ClockwiseFacts, ConsistentHashAssumption DEF Nodes
<1>2. \/ old = BackendCount /\ \A h \in Nodes(r) : r[h] \notin A
      \/ \E h \in Nodes(r) : /\ old = r[h] /\ r[h] \in A
                             /\ \A g \in Nodes(r) : r[g] \in A => C(h) <= C(g)
  BY GetBackendClosest
<1>3. \/ new = BackendCount /\ \A h \in Nodes(r) : r[h] \notin B
      \/ \E h \in Nodes(r) : /\ new = r[h] /\ r[h] \in B
                             /\ \A g \in Nodes(r) : r[g] \in B => C(h) <= C(g)
  BY GetBackendClosest
<1> HIDE DEF old, new, C
<1>4. new # old => old \in A \ B \/ new \in B \ A
  <2> SUFFICES ASSUME new # old, old \notin A \ B, new \notin B \ A PROVE FALSE
    OBVIOUS
  <2>1. old # BackendCount
    BY <1>2, <1>3
  <2>2. new # BackendCount
    BY <1>2, <1>3
  <2>3. PICK h \in Nodes(r) : /\ old = r[h] /\ r[h] \in A
                              /\ \A g \in Nodes(r) : r[g] \in A => C(h) <= C(g)
    BY <1>2, <2>1
  <2>4. PICK k \in Nodes(r) : /\ new = r[k] /\ r[k] \in B
                              /\ \A g \in Nodes(r) : r[g] \in B => C(k) <= C(g)
    BY <1>3, <2>2
  <2>5. C(h) <= C(k) /\ C(k) <= C(h)
    BY <2>3, <2>4
  <2>6. h = k
    BY <1>1, <2>5
  <2> QED
    BY <2>3, <2>4, <2>6
<1> QED
  BY <1>4 DEF old, new

\* The ring is the one that was built at the start.
RingBuilt == layout \in Layout /\ ring = Build(layout)

LEMMA InitRingBuilt == Init => RingBuilt
BY RoutingAssumption DEF Init, RingBuilt

LEMMA NextRingBuilt == RingBuilt /\ [Next]_vars => RingBuilt' /\ ring' = ring
BY DEF RingBuilt, Next, Accept, ConnectClient, TakeMetrics, Connected, FailoverConnection,
       CloseConnection, HealthVerdict, CloseAllConnections, vars

\* The nodes of a backend are the ones no earlier backend has.
LEMMA RingNodes ==
    ASSUME RingBuilt
    PROVE  /\ \A h \in Nodes(ring) : ring[h] \in Backends /\ h \in OwnNodes(ring[h])
           /\ \A b \in Backends : \A h \in OwnNodes(b) : h \in Nodes(ring) /\ ring[h] = b
<1>1. ring \in RingState /\ Built(layout, BackendCount, ring)
  BY BuildFacts DEF RingBuilt
<1>2. BackendCount \in Nat /\ BackendCount \notin Backends
  BY ConsistentHashAssumption DEF Backends
<1>3. ASSUME NEW b \in Backends, NEW h \in Hashes PROVE ring[h] = b <=> h \in OwnNodes(b)
  <2>1. ring[h] = b <=> h \in layout[b] /\ \A x \in 0 .. b - 1 : h \notin layout[x]
    BY <1>1 DEF Built, Backends
  <2>2. h \in OwnNodes(b) <=> h \in layout[b] /\ \A x \in 0 .. b - 1 : h \notin layout[x]
    BY DEF OwnNodes
  <2> QED
    BY <2>1, <2>2
<1>4. \A b \in Backends : OwnNodes(b) \subseteq Hashes
  BY DEF OwnNodes, RingBuilt, Layout
<1>5. \A h \in Nodes(ring) : h \in Hashes /\ ring[h] \in Backends
  <2> SUFFICES ASSUME NEW h \in Nodes(ring) PROVE h \in Hashes /\ ring[h] \in Backends
    OBVIOUS
  <2>1. h \in Hashes /\ ring[h] # BackendCount
    BY DEF Nodes
  <2>2. ring[h] \in 0 .. BackendCount
    BY <1>1, <2>1 DEF RingState
  <2> QED
    BY <1>2, <2>1, <2>2 DEF Backends
<1> QED
  BY <1>2, <1>3, <1>4, <1>5 DEF Nodes

\* So the closest node of a healthy backend is the closest of all their nodes.
LEMMA BuiltClosest == RingBuilt => ClosestNode
<1> SUFFICES ASSUME RingBuilt, NEW hash \in Hashes
             PROVE  LET b == GetBackend(ring, hash, Healthy)
                    IN IF Eligible = {} THEN b = BackendCount
                       ELSE /\ b \in Eligible
                            /\ \E h \in OwnNodes(b) :
                                 \A x \in Eligible : \A g \in OwnNodes(x) :
                                   Clockwise(hash, h) <= Clockwise(hash, g)
  BY DEF ClosestNode
<1> DEFINE b == GetBackend(ring, hash, Healthy)
<1>1. Healthy \subseteq Backends /\ BackendCount \notin Healthy
  BY ConsistentHashAssumption DEF Healthy, Backends
<1>2. \/ /\ b = BackendCount
         /\ \A h \in Nodes(ring) : ring[h] \notin Healthy
      \/ \E h \in Nodes(ring) :
           /\ b = ring[h] /\ ring[h] \in Healthy
           /\ \A g \in Nodes(ring) : ring[g] \in Healthy => Clockwise(hash, h) <= Clockwise(hash, g)
  BY <1>1, GetBackendClosest
<1> HIDE DEF b
<1>3. \A x \in Eligible : x \in Healthy /\ OwnNodes(x) # {}
  BY DEF Eligible
<1>4. \A x \in Eligible : \A g \in OwnNodes(x) : g \in Nodes(ring) /\ ring[g] = x /\ x \in Healthy
  BY <1>1, <1>3, RingNodes
<1>5. CASE b = BackendCount /\ \A h \in Nodes(ring) : ring[h] \notin Healthy
  <2>1. Eligible = {}
    BY <1>3, <1>4, <1>5
  <2> QED
    BY <1>5, <2>1 DEF b
<1>6. ASSUME NEW h \in Nodes(ring), b = ring[h], ring[h] \in Healthy,
             \A g \in Nodes(ring) : ring[g] \in Healthy => Clockwise(hash, h) <= Clockwise(hash, g)
      PROVE  /\ b \in Eligible
             /\ \E k \in OwnNodes(b) :
                  \A x \in Eligible : \A g \in OwnNodes(x) :
                    Clockwise(hash, k) <= Clockwise(hash, g)
  <2>1. h \in OwnNodes(b)
    BY <1>6, RingNodes
  <2>2. b \in Eligible
    BY <1>6, <2>1 DEF Eligible
  <2>3. \A x \in Eligible : \A g \in OwnNodes(x) : Clockwise(hash, h) <= Clockwise(hash, g)
    BY <1>4, <1>6
  <2> QED
    BY <2>1, <2>2, <2>3
<1> QED
  BY <1>2, <1>5, <1>6 DEF b

\* getBackend(): for any hashes of the virtual nodes, collisions included, a
\* client goes to the backend of the closest node clockwise that is healthy.
THEOREM ClosestIsChosen == Spec => []ClosestNode
<1>1. RingBuilt /\ [Next]_vars => RingBuilt'
  BY NextRingBuilt
<1> QED
  BY <1>1, InitRingBuilt, BuiltClosest, PTL DEF Spec

\* getBackend(): a verdict of the health checker moves only the clients of the
\* backend that has fallen sick, or clients to the one that has recovered.
THEOREM VerdictMovesFew == Spec => RingMovesFew
<1> DEFINE Few == ring' # ring \/ Healthy' # Healthy =>
                    \A hash \in Hashes :
                      LET old == GetBackend(ring, hash, Healthy)
                          new == GetBackend(ring', hash, Healthy')
                      IN new # old => old \in Healthy \ Healthy' \/ new \in Healthy' \ Healthy
<1>1. RingBuilt /\ [Next]_vars => RingBuilt'
  BY NextRingBuilt
<1>2. RingBuilt /\ [Next]_vars => [Few]_vars
  <2> SUFFICES ASSUME RingBuilt, [Next]_vars, NEW hash \in Hashes
               PROVE  LET old == GetBackend(ring, hash, Healthy)
                          new == GetBackend(ring', hash, Healthy')
                      IN new # old => old \in Healthy \ Healthy' \/ new \in Healthy' \ Healthy
    OBVIOUS
  <2> DEFINE A == Healthy
             B == Healthy'
  <2>1. BackendCount \notin A /\ BackendCount \notin B
    BY ConsistentHashAssumption DEF Healthy, Backends
  <2>2. ring' = ring
    BY NextRingBuilt
  <2> HIDE DEF A, B
  <2>3. LET old == GetBackend(ring, hash, A)
            new == GetBackend(ring, hash, B)
        IN new # old => old \in A \ B \/ new \in B \ A
    BY <2>1, MovesFew
  <2> QED
    BY <2>2, <2>3 DEF A, B
<1> QED
  BY <1>1, <1>2, InitRingBuilt, PTL DEF Spec, RingMovesFew

-----------------------------------------------------------------------------
(* The selection loops. *)

\* The state of a loop, and how far b is from n in the rotation.
LoopState ==
    [chosen : 0 .. BackendCount, attempted : SUBSET Backends, next : Backends]

Ahead(n, b) == IF b >= n THEN b - n ELSE b - n + BackendCount

\* Indices wrap around once.
LEMMA Wrap ==
    ASSUME NEW a \in 0 .. 2 * BackendCount - 1
    PROVE  /\ a % BackendCount = IF a < BackendCount THEN a ELSE a - BackendCount
           /\ a % BackendCount \in Backends
<1> DEFINE N == BackendCount
<1>1. N \in Nat \ {0}
  BY ConsistentHashAssumption
<1>2. \A b \in 0 .. N - 1 : b % N = b /\ (b + N) % N = b
  BY <1>1
<1>3. a % N = IF a < N THEN a ELSE a - N
  <2>1. CASE a < N
    BY <1>1, <1>2, <2>1
  <2>2. CASE ~(a < N)
    <3>1. a - N \in 0 .. N - 1 /\ (a - N) + N = a
      BY <1>1, <2>2
    <3>2. ((a - N) + N) % N = a - N
      BY <1>2, <3>1
    <3> QED
      BY <2>2, <3>1, <3>2
  <2> QED
    BY <2>1, <2>2
<1> QED
  BY <1>1, <1>3 DEF Backends

\* selectRoundRobinBackend() finds the healthy backend that is next in the
\* rotation, and moves on behind it.
LEMMA SelectedFacts ==
    ASSUME NEW n \in Backends, Healthy # {}
    PROVE  /\ Selected(n).index \in Healthy
           /\ Selected(n).next \in Backends
           /\ Selected(n).next = IF Selected(n).index + 1 = BackendCount THEN 0
                                 ELSE Selected(n).index + 1
           /\ \A b \in Healthy : Ahead(n, Selected(n).index) <= Ahead(n, b)
<1> DEFINE N == BackendCount
           ahead == {k \in Backends : (n + k) % N \in Healthy}
           m == Min(ahead)
           index == (n + m) % N
<1>0. N \in Nat \ {0} /\ Healthy \subseteq Backends /\ n \in 0 .. N - 1
  BY ConsistentHashAssumption DEF Healthy, Backends
<1>1. ASSUME NEW b \in Healthy
      PROVE  Ahead(n, b) \in ahead /\ (n + Ahead(n, b)) % N = b
  <2>1. b \in 0 .. N - 1
    BY <1>0 DEF Backends
  <2>2. /\ Ahead(n, b) \in 0 .. N - 1
        /\ n + Ahead(n, b) = b \/ n + Ahead(n, b) = b + N
    BY <1>0, <2>1 DEF Ahead
  <2>3. n + Ahead(n, b) \in 0 .. 2 * N - 1
    BY <1>0, <2>1, <2>2
  <2>4. (n + Ahead(n, b)) % N = b
    BY <1>0, <2>1, <2>2, <2>3, Wrap
  <2> QED
    BY <2>2, <2>4 DEF Backends
<1>2. ahead # {} /\ ahead \subseteq Nat
  <2>1. ahead \subseteq Nat
    BY <1>0 DEF Backends
  <2>2. \E b \in Healthy : Ahead(n, b) \in ahead
    BY <1>1
  <2> HIDE DEF ahead
  <2> QED
    BY <2>1, <2>2
<1>3. m \in ahead /\ \A k \in ahead : m <= k
  <2> HIDE DEF ahead
  <2> QED
    BY <1>2, MinFacts
<1>4. m \in 0 .. N - 1 /\ index \in Healthy
  BY <1>3 DEF Backends
<1>5. Selected(n) = [index |-> index, next |-> (index + 1) % N]
  BY <1>2 DEF Selected
<1>6. index \in 0 .. N - 1
  BY <1>0, <1>4 DEF Backends
<1> HIDE DEF ahead, m
<1>7. Ahead(n, index) = m
  <2> DEFINE x == n + m
  <2>1. x \in 0 .. 2 * N - 1
    BY <1>0, <1>4
  <2> HIDE DEF x
  <2>2. x % N = IF x < N THEN x ELSE x - N
    BY <2>1, Wrap
  <2>3. index = IF n + m < N THEN n + m ELSE n + m - N
    BY <1>0, <1>4, <2>2 DEF x
  <2> HIDE DEF index
  <2> QED
    BY <1>0, <1>4, <1>6, <2>3 DEF Ahead
<1> HIDE DEF index
<1>8. (index + 1) % N = IF index + 1 = N THEN 0 ELSE index + 1
  <2>1. index + 1 \in 0 .. 2 * N - 1
    BY <1>0, <1>6
  <2> QED
    BY <1>0, <1>6, <2>1, Wrap
<1>9. (index + 1) % N \in Backends
  BY <1>0, <1>6, <1>8 DEF Backends
<1>10. \A b \in Healthy : m <= Ahead(n, b)
  BY <1>1, <1>3
<1> QED
  BY <1>4, <1>5, <1>7, <1>8, <1>9, <1>10

\* What the ring has for a client that is served is a healthy backend.
LEMMA OnRingFacts ==
    ASSUME NEW ip \in Ips, ~Unserved(ip)
    PROVE  /\ Healthy # {}
           /\ routing_mode # "round_robin" => OnRing(ip) \in Healthy
<1>1. ClientHash[ip] \in Hashes /\ BackendCount \notin Healthy
  BY RoutingAssumption, ConsistentHashAssumption DEF Healthy, Backends
<1>2. OnRing(ip) \in Healthy \cup {BackendCount}
  BY <1>1, GetBackendClosest DEF OnRing
<1> QED
  BY <1>2 DEF Unserved

\* An attempt adds its backend, and ends the loop only with that one.
LEMMA AttemptFacts ==
    ASSUME NEW s \in LoopState, NEW index, NEW outcome
    PROVE  /\ Attempt(s, index, outcome) \in LoopState
           /\ Attempt(s, index, outcome).next = s.next
           /\ s.chosen = BackendCount /\ index \in Healthy =>
                Attempt(s, index, outcome).attempted = s.attempted \cup {index}
           /\ s.chosen # BackendCount => Attempt(s, index, outcome) = s
           /\ s.attempted \subseteq Attempt(s, index, outcome).attempted
           /\ \/ Attempt(s, index, outcome).chosen = s.chosen
              \/ Attempt(s, index, outcome).chosen \in Backends \ s.attempted
<1> DEFINE r == Attempt(s, index, outcome)
           c == IF Reached(outcome[index]) THEN index ELSE s.chosen
           a == s.attempted \cup {index}
<1>0. /\ s.chosen \in 0 .. BackendCount /\ s.attempted \subseteq Backends /\ s.next \in Backends
  BY DEF LoopState
<1>1. CASE s.chosen # BackendCount \/ index \notin Healthy \ s.attempted
  <2>1. r = s
    BY <1>1 DEF Attempt
  <2> HIDE DEF r
  <2>2. s.chosen = BackendCount /\ index \in Healthy => s.attempted = s.attempted \cup {index}
    BY <1>1
  <2>3. /\ r \in LoopState /\ r.next = s.next /\ s.attempted \subseteq r.attempted
        /\ s.chosen = BackendCount /\ index \in Healthy => r.attempted = s.attempted \cup {index}
        /\ s.chosen # BackendCount => r = s
        /\ r.chosen = s.chosen
    BY <2>1, <2>2
  <2> QED
    BY <2>3 DEF r
<1>2. CASE ~(s.chosen # BackendCount \/ index \notin Healthy \ s.attempted)
  <2>1. r = [s EXCEPT !.attempted = a, !.chosen = c]
    BY <1>2 DEF Attempt
  <2>2. index \in Backends /\ index \in 0 .. BackendCount
    BY <1>2, ConsistentHashAssumption DEF Healthy, Backends
  <2>3. a \in SUBSET Backends /\ c \in 0 .. BackendCount
    BY <1>0, <2>2
  <2> HIDE DEF r, c
  <2>4. r \in LoopState /\ r.next = s.next /\ r.attempted = a /\ r.chosen = c
    BY <2>1, <2>3 DEF LoopState
  <2>5. c = s.chosen \/ c \in Backends \ s.attempted
    BY <1>2, <2>2 DEF c
  <2> QED
    BY <1>2, <2>4, <2>5 DEF r
<1> QED
  BY <1>1, <1>2

\* One pass through the loop of connectClientToBackend().
ConnectStep(s, ip, first, outcome) ==
    LET pick == Pick(s, ip, first)
    IN IF s.chosen # BackendCount THEN s
       ELSE [Attempt(s, pick.index, outcome) EXCEPT !.next = pick.next]

\* What it does.
LEMMA ConnectStepFacts ==
    ASSUME NEW s \in LoopState, NEW ip \in Ips, NEW first \in BOOLEAN, NEW outcome,
           ~Unserved(ip)
    PROVE  LET t == ConnectStep(s, ip, first, outcome) IN
           /\ t \in LoopState
           /\ s.chosen # BackendCount => t = s
           /\ s.attempted \subseteq t.attempted
           /\ t.chosen = s.chosen \/ t.chosen \in Backends \ s.attempted
           /\ s.chosen = BackendCount /\ routing_mode = "round_robin" =>
                /\ t.attempted = s.attempted \cup {Selected(s.next).index}
                /\ t.next = Selected(s.next).next
           /\ s.chosen = BackendCount /\ routing_mode # "round_robin" =>
                \/ Healthy \subseteq s.attempted
                \/ first /\ s.attempted # {}
                \/ \E x \in Healthy \ s.attempted : t.attempted = s.attempted \cup {x}
<1> DEFINE t == ConnectStep(s, ip, first, outcome)
           alternates == Healthy \ s.attempted
           pick == Pick(s, ip, first)
           r == Attempt(s, pick.index, outcome)
<1>0. s.next \in Backends /\ Healthy \subseteq Backends /\ Healthy # {}
  BY OnRingFacts DEF LoopState, Healthy
<1>1. CASE s.chosen # BackendCount
  BY <1>1 DEF ConnectStep
<1>2. CASE s.chosen = BackendCount
  <2>1. t = [r EXCEPT !.next = pick.next]
    BY <1>2 DEF ConnectStep
  <2>2. /\ routing_mode = "round_robin" => pick = Selected(s.next)
        /\ routing_mode # "round_robin" /\ first => pick = [index |-> OnRing(ip), next |-> s.next]
        /\ routing_mode # "round_robin" /\ ~first =>
             pick = [index |-> IF alternates = {} THEN BackendCount ELSE Min(alternates),
                     next |-> s.next]
    BY DEF Pick
  <2>3. alternates # {} => Min(alternates) \in alternates
    <3>0. Backends \subseteq Nat
      BY RoutingAssumption DEF Backends
    <3>1. alternates \subseteq Nat
      BY <1>0, <3>0
    <3>2. alternates # {} => Min(alternates) \in alternates
      <4> HIDE DEF alternates
      <4> QED
        BY <3>1, MinFacts
    <3> QED
      BY <3>2
  <2>4. /\ pick.next \in Backends
        /\ routing_mode = "round_robin" => pick.index \in Healthy
        /\ routing_mode # "round_robin" /\ first => pick.index \in Healthy
        /\ routing_mode # "round_robin" /\ ~first /\ alternates # {} => pick.index \in Healthy
    <3>1. CASE routing_mode = "round_robin"
      BY <1>0, <2>2, <3>1, SelectedFacts
    <3>2. CASE routing_mode # "round_robin"
      <4>1. alternates \subseteq Healthy
        OBVIOUS
      <4> HIDE DEF pick, alternates
      <4> QED
        BY <1>0, <2>2, <2>3, <3>2, <4>1, OnRingFacts
    <3> QED
      BY <3>1, <3>2
  <2> HIDE DEF pick
  <2>5. /\ r \in LoopState /\ s.attempted \subseteq r.attempted
        /\ r.chosen = s.chosen \/ r.chosen \in Backends \ s.attempted
        /\ pick.index \in Healthy => r.attempted = s.attempted \cup {pick.index}
    BY <1>2, AttemptFacts
  <2> HIDE DEF r, t
  <2>6. t \in LoopState /\ t.attempted = r.attempted /\ t.next = pick.next /\ t.chosen = r.chosen
    BY <2>1, <2>4, <2>5 DEF LoopState
  <2> HIDE DEF alternates
  <2>7. /\ routing_mode = "round_robin" =>
             /\ t.attempted = s.attempted \cup {Selected(s.next).index}
             /\ t.next = Selected(s.next).next
    BY <2>2, <2>4, <2>5, <2>6
  <2>8. ASSUME routing_mode # "round_robin", ~(Healthy \subseteq s.attempted),
               ~(first /\ s.attempted # {})
        PROVE  \E x \in Healthy \ s.attempted : t.attempted = s.attempted \cup {x}
    <3>1. alternates # {}
      BY <2>8 DEF alternates
    <3>2. pick.index \in Healthy /\ pick.index \notin s.attempted
      <4>1. CASE first
        BY <2>4, <2>8, <4>1
      <4>2. CASE ~first
        <5>1. pick.index = Min(alternates)
          BY <2>2, <2>8, <3>1, <4>2
        <5> QED
          BY <2>3, <3>1, <5>1 DEF alternates
      <4> QED
        BY <4>1, <4>2
    <3> QED
      BY <2>5, <2>6, <3>2
  <2> QED
    BY <1>2, <2>5, <2>6, <2>7, <2>8 DEF t
<1> QED
  BY <1>1, <1>2

\* The loop before its first pass.
LEMMA NoAttemptFacts ==
    ASSUME next_backend_index \in Backends
    PROVE  NoAttempt \in LoopState
BY ConsistentHashAssumption DEF NoAttempt, LoopState

\* The recursion that defines ConnectLoop has a solution.
LEMMA ConnectLoopDef ==
    ASSUME next_backend_index \in Backends, NEW ip \in Ips, NEW outcome, ~Unserved(ip)
    PROVE  \E f \in [0 .. BackendCount -> LoopState] :
             /\ f[0] = NoAttempt
             /\ \A i \in 1 .. BackendCount : f[i] = ConnectStep(f[i - 1], ip, i = 1, outcome)
             /\ ConnectLoop(ip, outcome) = f[BackendCount]
<1> DEFINE N == BackendCount
           D == LoopState
           G == [i \in 1 .. N |-> [s \in D |-> ConnectStep(s, ip, i = 1, outcome)]]
           Body(g) == [i \in 0 .. N |->
                        IF i = 0 THEN NoAttempt
                        ELSE LET s == g[i - 1]
                                 pick == Pick(s, ip, i = 1)
                             IN IF s.chosen # N THEN s
                                ELSE [Attempt(s, pick.index, outcome) EXCEPT !.next = pick.next]]
           c == CHOOSE g : g = Body(g)
<1>1. N \in Nat /\ NoAttempt \in D
  BY ConsistentHashAssumption, NoAttemptFacts
<1>2. G \in [1 .. N -> [D -> D]]
  <2>1. \A i \in 1 .. N, s \in D : ConnectStep(s, ip, i = 1, outcome) \in D
    BY ConnectStepFacts
  <2> HIDE DEF D
  <2> QED
    BY <2>1
<1>0. \E f : Recurs(f, N, D, NoAttempt, G)
  <2> HIDE DEF N, D, G
  <2> QED
    BY <1>1, <1>2, Recursion
<1>3. PICK f \in [0 .. N -> D] :
        f[0] = NoAttempt /\ \A i \in 1 .. N : f[i] = G[i][f[i - 1]]
  <2> HIDE DEF N, D, G
  <2> QED
    BY <1>0 DEF Recurs
<1>4. ASSUME NEW i \in 1 .. N PROVE f[i] = ConnectStep(f[i - 1], ip, i = 1, outcome)
  <2>1. f[i - 1] \in D /\ f[i] = G[i][f[i - 1]]
    BY <1>1, <1>3
  <2> HIDE DEF D
  <2> QED
    BY <2>1
<1>5. f = Body(f)
  <2>1. ASSUME NEW n \in 0 .. N PROVE f[n] = Body(f)[n]
    <3>1. CASE n = 0
      BY <1>1, <1>3, <3>1
    <3>2. CASE n # 0
      <4>1. n \in 1 .. N
        BY <1>1, <3>2
      <4>2. f[n] = ConnectStep(f[n - 1], ip, n = 1, outcome)
        BY <1>4, <4>1
      <4> QED
        BY <3>2, <4>2 DEF ConnectStep
    <3> QED
      BY <3>1, <3>2
  <2> QED
    BY <1>3, <2>1
<1>6. c = Body(c)
  <2> HIDE DEF Body
  <2> QED
    BY <1>5
<1>7. c = f
  <2> DEFINE T == {n \in 0 .. N : c[n] = f[n]}
  <2>0. \A n \in 0 .. N : c[n] = Body(c)[n]
    BY <1>6
  <2> HIDE DEF c
  <2>1. 0 \in T
    <3>1. 0 \in 0 .. N
      BY <1>1
    <3>2. c[0] = Body(c)[0]
      BY <2>0, <3>1
    <3>3. Body(c)[0] = NoAttempt
      BY <3>1
    <3> HIDE DEF Body
    <3> QED
      BY <1>3, <3>1, <3>2, <3>3
  <2>2. ASSUME NEW n \in 0 .. N - 1, n \in T PROVE n + 1 \in T
    <3>1. n + 1 \in 1 .. N /\ n + 1 - 1 = n /\ n + 1 # 0 /\ n + 1 \in 0 .. N
      BY <1>1
    <3>2. c[n + 1] = ConnectStep(c[n], ip, n + 1 = 1, outcome)
      BY <2>0, <3>1 DEF ConnectStep
    <3>3. f[n + 1] = ConnectStep(f[n], ip, n + 1 = 1, outcome)
      BY <1>4, <3>1
    <3> QED
      BY <2>2, <3>1, <3>2, <3>3
  <2>3. \A n \in 0 .. N : n \in T
    <3> HIDE DEF T
    <3> QED
      BY <1>1, <2>1, <2>2, UpTo
  <2>4. c = [n \in 0 .. N |-> c[n]]
    BY <1>6
  <2> QED
    BY <1>3, <2>3, <2>4
<1>8. ConnectLoop(ip, outcome) = c[N]
  BY DEF ConnectLoop
<1> QED
  BY <1>3, <1>4, <1>7, <1>8, ZenonT(60)

\* Where a rotation that starts at n stands after p places.
Turn(n, p) == IF n + p < BackendCount THEN n + p ELSE n + p - BackendCount

\* One more selection of the rotation: x is the first that is ahead, and behind
\* it the rotation has come Ahead(m, x) + 1 places further. What is passed over
\* on the way is x or was passed before.
LEMMA RotationStep ==
    ASSUME NEW n \in Backends, NEW p \in Backends, NEW x \in Backends,
           NEW b \in Backends,
           Ahead(Turn(n, p), x) <= Ahead(Turn(n, p), b)
    PROVE  LET q == p + Ahead(Turn(n, p), x) + 1 IN
           /\ q \in Nat /\ q > p
           /\ Ahead(n, b) < q => Ahead(n, b) < p \/ b = x
           /\ q < BackendCount =>
                Turn(n, q) = IF x + 1 = BackendCount THEN 0 ELSE x + 1
<1>1. /\ BackendCount \in Nat \ {0}
      /\ n \in 0 .. BackendCount - 1 /\ p \in 0 .. BackendCount - 1
      /\ x \in 0 .. BackendCount - 1 /\ b \in 0 .. BackendCount - 1
  BY ConsistentHashAssumption DEF Backends
<1> QED
  BY <1>1 DEF Ahead, Turn

\* A rotation starts where it stands, and everything is less than a turn ahead.
LEMMA RotationBounds ==
    ASSUME NEW n \in Backends, NEW b \in Backends
    PROVE  Ahead(n, b) \in Backends /\ Turn(n, 0) = n /\ Turn(n, Ahead(n, b)) = b
<1>1. /\ BackendCount \in Nat \ {0}
      /\ n \in 0 .. BackendCount - 1 /\ b \in 0 .. BackendCount - 1
  BY ConsistentHashAssumption DEF Backends
<1> QED
  BY <1>1 DEF Ahead, Turn, Backends

\* Round robin: a loop that reaches nobody tries every healthy backend, because
\* each pass carries the rotation at least one place further.
LEMMA RotationExhausts ==
    ASSUME next_backend_index \in Backends, NEW ip \in Ips, NEW outcome,
           ~Unserved(ip), routing_mode = "round_robin",
           NEW f \in [0 .. BackendCount -> LoopState],
           f[0] = NoAttempt,
           \A i \in 1 .. BackendCount : f[i] = ConnectStep(f[i - 1], ip, i = 1, outcome)
    PROVE  f[BackendCount].chosen = BackendCount => Healthy \subseteq f[BackendCount].attempted
<1> DEFINE N == BackendCount
           n == next_backend_index
           Passed(i) ==
             \/ f[i].chosen # N
             \/ Healthy \subseteq f[i].attempted
             \/ \E p \in i .. N - 1 :
                  /\ f[i].next = Turn(n, p)
                  /\ \A b \in Healthy : Ahead(n, b) < p => b \in f[i].attempted
           T == {i \in 0 .. N : Passed(i)}
<1>1. N \in Nat \ {0} /\ Healthy \subseteq Backends /\ Healthy # {}
  BY ConsistentHashAssumption, OnRingFacts DEF Healthy
<1>2. 0 \in T
  <2>1. f[0].next = Turn(n, 0)
    BY RotationBounds DEF NoAttempt
  <2>2. \A b \in Healthy : ~(Ahead(n, b) < 0)
    BY <1>1, RotationBounds DEF Backends
  <2>3. 0 \in 0 .. N - 1 /\ 0 \in 0 .. N
    BY <1>1
  <2> QED
    BY <2>1, <2>2, <2>3
<1>3. ASSUME NEW j \in 0 .. N - 1, j \in T PROVE j + 1 \in T
  <2> DEFINE s == f[j]
             t == f[j + 1]
             x == Selected(s.next).index
  <2>1. /\ j + 1 \in 0 .. N /\ j + 1 \in 1 .. N /\ (j + 1) - 1 = j /\ j \in 0 .. N /\ j \in Nat
    BY <1>1
  <2>2. s \in LoopState /\ t = ConnectStep(s, ip, j + 1 = 1, outcome) /\ (j + 1 = 1) \in BOOLEAN
    BY <2>1
  <2> HIDE DEF s, t
  <2>3. /\ s.chosen # N => t = s
        /\ s.attempted \subseteq t.attempted
        /\ s.chosen = N => /\ t.attempted = s.attempted \cup {x}
                           /\ t.next = Selected(s.next).next
    <3> DEFINE first == j + 1 = 1
    <3>1. s \in LoopState /\ t = ConnectStep(s, ip, first, outcome) /\ first \in BOOLEAN
      BY <2>2
    <3> HIDE DEF first
    <3>2. LET r == ConnectStep(s, ip, first, outcome) IN
          /\ s.chosen # N => r = s
          /\ s.attempted \subseteq r.attempted
          /\ s.chosen = N => /\ r.attempted = s.attempted \cup {x}
                             /\ r.next = Selected(s.next).next
      BY <3>1, ConnectStepFacts
    <3> QED
      BY <3>1, <3>2
  <2>4. s.next \in Backends
    BY <2>2 DEF LoopState
  <2>5. /\ x \in Healthy /\ x \in Backends
        /\ Selected(s.next).next = IF x + 1 = N THEN 0 ELSE x + 1
        /\ \A b \in Healthy : Ahead(s.next, x) <= Ahead(s.next, b)
    BY <1>1, <2>4, SelectedFacts
  <2> HIDE DEF x
  <2>6. CASE s.chosen # N \/ Healthy \subseteq s.attempted
    <3>1. t.chosen # N \/ Healthy \subseteq t.attempted
      BY <2>3, <2>6
    <3> QED
      BY <2>1, <3>1 DEF t
  <2>7. CASE ~(s.chosen # N \/ Healthy \subseteq s.attempted)
    <3>1. PICK p \in j .. N - 1 :
            /\ s.next = Turn(n, p)
            /\ \A b \in Healthy : Ahead(n, b) < p => b \in s.attempted
      BY <1>3, <2>7 DEF s
    <3>2. p \in Backends
      BY <1>1, <2>1, <3>1 DEF Backends
    <3> DEFINE q == p + Ahead(Turn(n, p), x) + 1
    <3>3. \A b \in Healthy :
            /\ q \in Nat /\ q > p
            /\ Ahead(n, b) < q => Ahead(n, b) < p \/ b = x
            /\ q < N => Turn(n, q) = IF x + 1 = N THEN 0 ELSE x + 1
      BY <1>1, <2>5, <3>1, <3>2, RotationStep
    <3> HIDE DEF q
    <3>4. \A b \in Healthy : Ahead(n, b) < q => b \in t.attempted
      BY <2>3, <2>7, <3>1, <3>3
    <3>5. /\ q \in Nat /\ q > p
          /\ q < N => t.next = Turn(n, q)
      BY <2>3, <2>5, <2>7, <3>3
    <3>6. CASE q < N
      <4>1. q \in j + 1 .. N - 1
        BY <1>1, <2>1, <3>5, <3>6
      <4> QED
        BY <2>1, <3>4, <3>5, <3>6, <4>1 DEF t
    <3>7. CASE ~(q < N)
      <4>1. \A b \in Healthy : Ahead(n, b) \in 0 .. N - 1
        BY <1>1, RotationBounds DEF Backends
      <4>2. \A b \in Healthy : Ahead(n, b) < q
        BY <1>1, <3>5, <3>7, <4>1
      <4>3. Healthy \subseteq t.attempted
        BY <3>4, <4>2
      <4> QED
        BY <2>1, <4>3 DEF t
    <3> QED
      BY <3>6, <3>7
  <2> QED
    BY <2>6, <2>7
<1>4. N \in T
  <2> HIDE DEF T
  <2>1. N \in Nat /\ N \in 0 .. N
    BY <1>1
  <2>2. \A i \in 0 .. N : i \in T
    <3> HIDE DEF N
    <3> QED
      BY <2>1, <1>2, <1>3, UpTo
  <2> QED
    BY <2>1, <2>2
<1>5. ~(\E p \in N .. N - 1 : TRUE)
  BY <1>1
<1> QED
  BY <1>4, <1>5

\* Consistent hash: a loop that reaches nobody tries a new healthy backend in
\* each pass, as long as there is one.
LEMMA RingExhausts ==
    ASSUME next_backend_index \in Backends, NEW ip \in Ips, NEW outcome,
           ~Unserved(ip), routing_mode # "round_robin",
           NEW f \in [0 .. BackendCount -> LoopState],
           f[0] = NoAttempt,
           \A i \in 1 .. BackendCount : f[i] = ConnectStep(f[i - 1], ip, i = 1, outcome)
    PROVE  f[BackendCount].chosen = BackendCount => Healthy \subseteq f[BackendCount].attempted
<1> DEFINE N == BackendCount
           Tries(i) ==
             \/ f[i].chosen # N
             \/ Healthy \subseteq f[i].attempted
             \/ Cardinality(f[i].attempted) >= i
           T == {i \in 0 .. N : Tries(i)}
<1>1. N \in Nat \ {0} /\ Healthy \subseteq Backends
  BY ConsistentHashAssumption DEF Healthy
<1>2. IsFiniteSet(Backends) /\ Cardinality(Backends) = N
  BY <1>1, FS_Interval DEF Backends
<1>3. \A A \in SUBSET Backends : IsFiniteSet(A) /\ Cardinality(A) \in Nat
  BY <1>2, FS_Subset, FS_CardinalityType
<1>4. 0 \in T
  <2>1. f[0].attempted = {} /\ 0 \in 0 .. N
    BY <1>1 DEF NoAttempt
  <2>2. Cardinality({}) = 0 /\ 0 >= 0
    BY FS_EmptySet
  <2>3. Cardinality(f[0].attempted) >= 0
    BY <2>1, <2>2
  <2> QED
    BY <2>1, <2>3
<1>5. ASSUME NEW j \in 0 .. N - 1, j \in T PROVE j + 1 \in T
  <2> DEFINE s == f[j]
             t == f[j + 1]
  <2>1. /\ j + 1 \in 0 .. N /\ j + 1 \in 1 .. N /\ (j + 1) - 1 = j /\ j \in 0 .. N /\ j \in Nat
        /\ (j + 1 = 1) <=> j = 0
    BY <1>1
  <2>2. /\ s \in LoopState /\ t \in LoopState
        /\ t = ConnectStep(s, ip, j + 1 = 1, outcome) /\ (j + 1 = 1) \in BOOLEAN
    BY <2>1
  <2>3. j = 0 => s.attempted = {}
    BY DEF NoAttempt
  <2> HIDE DEF s, t
  <2>4. /\ s.chosen # N => t = s
        /\ s.attempted \subseteq t.attempted
        /\ \/ s.chosen # N \/ Healthy \subseteq s.attempted
           \/ \E x \in Healthy \ s.attempted : t.attempted = s.attempted \cup {x}
    <3> DEFINE first == j + 1 = 1
    <3>1. /\ s \in LoopState /\ t = ConnectStep(s, ip, first, outcome) /\ first \in BOOLEAN
          /\ first => s.attempted = {}
      BY <2>1, <2>2, <2>3
    <3> HIDE DEF first
    <3> QED
      BY <3>1, ConnectStepFacts
  <2>5. CASE s.chosen # N \/ Healthy \subseteq s.attempted
    <3>1. t.chosen # N \/ Healthy \subseteq t.attempted
      BY <2>4, <2>5
    <3> QED
      BY <2>1, <3>1 DEF t
  <2>6. CASE ~(s.chosen # N \/ Healthy \subseteq s.attempted)
    <3>1. Cardinality(s.attempted) >= j
      BY <1>5, <2>6 DEF s
    <3>2. PICK x \in Healthy \ s.attempted : t.attempted = s.attempted \cup {x}
      BY <2>4, <2>6
    <3>3. IsFiniteSet(s.attempted) /\ Cardinality(s.attempted) \in Nat
      BY <1>3, <2>2 DEF LoopState
    <3>4. Cardinality(t.attempted) = Cardinality(s.attempted) + 1
      BY <3>2, <3>3, FS_AddElement, ZenonT(60)
    <3>5. Cardinality(t.attempted) >= j + 1
      BY <2>1, <3>1, <3>3, <3>4
    <3> QED
      BY <2>1, <3>5 DEF t
  <2> QED
    BY <2>5, <2>6
<1>6. N \in T
  <2> HIDE DEF T
  <2>1. N \in Nat /\ N \in 0 .. N
    BY <1>1
  <2>2. \A i \in 0 .. N : i \in T
    <3> HIDE DEF N
    <3> QED
      BY <2>1, <1>4, <1>5, UpTo
  <2> QED
    BY <2>1, <2>2
<1>7. Cardinality(f[N].attempted) >= N => f[N].attempted = Backends
  <2>1. N \in 0 .. N
    BY <1>1
  <2>2. f[N].attempted \subseteq Backends
    BY <2>1 DEF LoopState
  <2> DEFINE A == f[N].attempted
  <2> HIDE DEF A
  <2>3. A \subseteq Backends
    BY <2>2 DEF A
  <2>4. Cardinality(A) <= Cardinality(Backends)
        /\ (Cardinality(A) = Cardinality(Backends) => A = Backends)
    BY <1>2, <2>3, FS_Subset
  <2>5. Cardinality(A) \in Nat
    BY <1>3, <2>3
  <2>6. Cardinality(A) >= N => A = Backends
    BY <1>1, <1>2, <2>4, <2>5
  <2> QED
    BY <2>6 DEF A
<1> QED
  BY <1>1, <1>6, <1>7

\* connectClientToBackend() ends with a state of its loop, and with nobody only
\* after it has tried every healthy backend, unless it has not begun.
LEMMA ConnectLoopFacts ==
    ASSUME next_backend_index \in Backends, NEW ip \in Ips, NEW outcome
    PROVE  /\ ConnectLoop(ip, outcome) \in LoopState
           /\ ~Unserved(ip) /\ ConnectLoop(ip, outcome).chosen = BackendCount =>
                Healthy \subseteq ConnectLoop(ip, outcome).attempted
<1>1. CASE Unserved(ip)
  BY <1>1, NoAttemptFacts DEF ConnectLoop
<1>2. CASE ~Unserved(ip)
  <2>1. PICK f \in [0 .. BackendCount -> LoopState] :
             /\ f[0] = NoAttempt
             /\ \A i \in 1 .. BackendCount : f[i] = ConnectStep(f[i - 1], ip, i = 1, outcome)
             /\ ConnectLoop(ip, outcome) = f[BackendCount]
    BY <1>2, ConnectLoopDef
  <2>2. f[BackendCount].chosen = BackendCount => Healthy \subseteq f[BackendCount].attempted
    BY <1>2, <2>1, RotationExhausts, RingExhausts, ZenonT(60)
  <2>3. BackendCount \in 0 .. BackendCount
    BY ConsistentHashAssumption
  <2> QED
    BY <2>1, <2>2, <2>3
<1> QED
  BY <1>1, <1>2

\* One pass through the loop of failoverConnection().
FailoverStep(s, failed, i, outcome) ==
    LET index == (failed + i) % BackendCount
    IN IF index = failed THEN s ELSE Attempt(s, index, outcome)

\* The recursion that defines FailoverLoop has a solution.
LEMMA FailoverLoopDef ==
    ASSUME next_backend_index \in Backends, NEW failed, NEW outcome
    PROVE  \E f \in [0 .. BackendCount -> LoopState] :
             /\ f[0] = NoAttempt
             /\ \A i \in 1 .. BackendCount : f[i] = FailoverStep(f[i - 1], failed, i, outcome)
             /\ FailoverLoop(failed, outcome) = f[BackendCount]
<1> DEFINE N == BackendCount
           D == LoopState
           G == [i \in 1 .. N |-> [s \in D |-> FailoverStep(s, failed, i, outcome)]]
           Body(g) == [i \in 0 .. N |->
                        IF i = 0 THEN NoAttempt
                        ELSE LET index == (failed + i) % N
                             IN IF index = failed THEN g[i - 1]
                                ELSE Attempt(g[i - 1], index, outcome)]
           c == CHOOSE g : g = Body(g)
<1>1. N \in Nat /\ NoAttempt \in D
  BY ConsistentHashAssumption, NoAttemptFacts
<1>2. G \in [1 .. N -> [D -> D]]
  <2>1. \A i \in 1 .. N, s \in D : FailoverStep(s, failed, i, outcome) \in D
    BY AttemptFacts DEF FailoverStep
  <2> HIDE DEF D
  <2> QED
    BY <2>1
<1>0. \E f : Recurs(f, N, D, NoAttempt, G)
  <2> HIDE DEF N, D, G
  <2> QED
    BY <1>1, <1>2, Recursion
<1>3. PICK f \in [0 .. N -> D] :
        f[0] = NoAttempt /\ \A i \in 1 .. N : f[i] = G[i][f[i - 1]]
  <2> HIDE DEF N, D, G
  <2> QED
    BY <1>0 DEF Recurs
<1>4. ASSUME NEW i \in 1 .. N PROVE f[i] = FailoverStep(f[i - 1], failed, i, outcome)
  <2>1. f[i - 1] \in D /\ f[i] = G[i][f[i - 1]]
    BY <1>1, <1>3
  <2> HIDE DEF D
  <2> QED
    BY <2>1
<1>5. f = Body(f)
  <2>1. ASSUME NEW n \in 0 .. N PROVE f[n] = Body(f)[n]
    <3>1. CASE n = 0
      BY <1>1, <1>3, <3>1
    <3>2. CASE n # 0
      <4>1. n \in 1 .. N
        BY <1>1, <3>2
      <4>2. f[n] = FailoverStep(f[n - 1], failed, n, outcome)
        BY <1>4, <4>1
      <4> QED
        BY <3>2, <4>2 DEF FailoverStep
    <3> QED
      BY <3>1, <3>2
  <2> QED
    BY <1>3, <2>1
<1>6. c = Body(c)
  <2> HIDE DEF Body
  <2> QED
    BY <1>5
<1>7. c = f
  <2> DEFINE T == {n \in 0 .. N : c[n] = f[n]}
  <2>0. \A n \in 0 .. N : c[n] = Body(c)[n]
    BY <1>6
  <2> HIDE DEF c
  <2>1. 0 \in T
    <3>1. 0 \in 0 .. N
      BY <1>1
    <3>2. c[0] = Body(c)[0]
      BY <2>0, <3>1
    <3>3. Body(c)[0] = NoAttempt
      BY <3>1
    <3> HIDE DEF Body
    <3> QED
      BY <1>3, <3>1, <3>2, <3>3
  <2>2. ASSUME NEW n \in 0 .. N - 1, n \in T PROVE n + 1 \in T
    <3>1. n + 1 \in 1 .. N /\ n + 1 - 1 = n /\ n + 1 # 0 /\ n + 1 \in 0 .. N
      BY <1>1
    <3>2. c[n + 1] = FailoverStep(c[n], failed, n + 1, outcome)
      BY <2>0, <3>1 DEF FailoverStep
    <3>3. f[n + 1] = FailoverStep(f[n], failed, n + 1, outcome)
      BY <1>4, <3>1
    <3> QED
      BY <2>2, <3>1, <3>2, <3>3
  <2>3. \A n \in 0 .. N : n \in T
    <3> HIDE DEF T
    <3> QED
      BY <1>1, <2>1, <2>2, UpTo
  <2>4. c = [n \in 0 .. N |-> c[n]]
    BY <1>6
  <2> QED
    BY <1>3, <2>3, <2>4
<1>8. FailoverLoop(failed, outcome) = c[N]
  BY DEF FailoverLoop
<1> QED
  BY <1>3, <1>4, <1>7, <1>8

\* failoverConnection() ends with a state of its loop, and with nobody only
\* after it has tried every healthy backend but the one that failed.
LEMMA FailoverLoopFacts ==
    ASSUME next_backend_index \in Backends, NEW failed \in Backends, NEW outcome
    PROVE  /\ FailoverLoop(failed, outcome) \in LoopState
           /\ FailoverLoop(failed, outcome).chosen = BackendCount =>
                Healthy \ {failed} \subseteq FailoverLoop(failed, outcome).attempted
<1> DEFINE N == BackendCount
<1>1. PICK f \in [0 .. N -> LoopState] :
        /\ f[0] = NoAttempt
        /\ \A i \in 1 .. N : f[i] = FailoverStep(f[i - 1], failed, i, outcome)
        /\ FailoverLoop(failed, outcome) = f[N]
  BY FailoverLoopDef
<1> DEFINE index(k) == (failed + k) % N
           Passed(i) == f[i].chosen = N =>
                          \A k \in 1 .. i : index(k) \in Healthy \ {failed} => index(k) \in f[i].attempted
           T == {i \in 0 .. N : Passed(i)}
<1>2. N \in Nat \ {0} /\ N \in 0 .. N /\ 0 \in 0 .. N /\ Healthy \subseteq Backends
  BY ConsistentHashAssumption DEF Healthy
<1>3. 0 \in T
  BY <1>2
<1>4. ASSUME NEW j \in 0 .. N - 1, j \in T PROVE j + 1 \in T
  <2> DEFINE s == f[j]
             t == f[j + 1]
             x == index(j + 1)
  <2>1. /\ j + 1 \in 0 .. N /\ j + 1 \in 1 .. N /\ (j + 1) - 1 = j /\ j \in 0 .. N
        /\ \A k \in 1 .. j + 1 : k \in 1 .. j \/ k = j + 1
    BY <1>2
  <2>2. s \in LoopState /\ t = FailoverStep(s, failed, j + 1, outcome)
    BY <1>1, <2>1
  <2>3. s.chosen = N => \A k \in 1 .. j : index(k) \in Healthy \ {failed} => index(k) \in s.attempted
    BY <1>4
  <2> HIDE DEF s, t
  <2>4. t = IF x = failed THEN s ELSE Attempt(s, x, outcome)
    BY <2>2 DEF FailoverStep
  <2> HIDE DEF x
  <2>5. /\ s.attempted \subseteq t.attempted
        /\ s.chosen # N => t.chosen # N
        /\ s.chosen = N /\ x \in Healthy \ {failed} => x \in t.attempted
    BY <2>2, <2>4, AttemptFacts
  <2> HIDE DEF index
  <2>6. ASSUME t.chosen = N, NEW k \in 1 .. j + 1, index(k) \in Healthy \ {failed}
        PROVE  index(k) \in t.attempted
    BY <2>1, <2>3, <2>5, <2>6 DEF x
  <2>7. Passed(j + 1)
    BY <2>6 DEF t
  <2> HIDE DEF Passed
  <2> QED
    BY <2>1, <2>7
<1>5. N \in T
  <2>1. \A i \in 0 .. N : i \in T
    <3> HIDE DEF T, N
    <3> QED
      BY <1>2, <1>3, <1>4, UpTo
  <2> HIDE DEF T
  <2> QED
    BY <1>2, <2>1
<1>6. ASSUME f[N].chosen = N, NEW b \in Healthy \ {failed} PROVE b \in f[N].attempted
  <2> DEFINE k == Ahead(failed, b)
  <2>1. b \in 0 .. N - 1 /\ failed \in 0 .. N - 1
    BY <1>2 DEF Backends
  <2>2. /\ k \in 1 .. N /\ failed + k \in 0 .. 2 * N - 1
        /\ failed + k = b \/ failed + k = b + N
    BY <1>2, <1>6, <2>1 DEF Ahead
  <2> HIDE DEF k
  <2>3. index(k) = b
    <3> DEFINE a == failed + k
    <3>0. a \in 0 .. 2 * N - 1
      BY <2>2
    <3> HIDE DEF a
    <3>2. a % N = IF a < N THEN a ELSE a - N
      BY <3>0, Wrap
    <3>1. (failed + k) % N = IF failed + k < N THEN failed + k ELSE failed + k - N
      BY <1>2, <2>1, <2>2, <3>2 DEF a
    <3> QED
      BY <1>2, <2>1, <2>2, <3>1
  <2>4. \A i \in 1 .. N : index(i) \in Healthy \ {failed} => index(i) \in f[N].attempted
    BY <1>5, <1>6
  <2> HIDE DEF index
  <2> QED
    BY <1>6, <2>2, <2>3, <2>4
<1>7. f[N] \in LoopState
  BY <1>2
<1> QED
  BY <1>1, <1>6, <1>7

-----------------------------------------------------------------------------
(* Types and the limit. *)

\* The part of TypeOK that is not about the books.
RotationType ==
    /\ next_backend_index \in Backends
    /\ routing_mode \in {"round_robin", "consistent_hash"}
    /\ running \in BOOLEAN
    /\ round \subseteq Backends

\* There are never too many pairs.
WithinLimit == Cardinality(Clients) <= MAX_CONNECTIONS

\* The state the loop of connectClientToBackend() ends in.
LEMMA ClientLoop ==
    ASSUME InOrder, RotationType, NEW c \in Clients, NEW outcome
    PROVE  LET s == ConnectLoop(connections[c].client_ip, outcome) IN
           /\ s \in LoopState
           /\ ~Unserved(connections[c].client_ip) /\ s.chosen = BackendCount =>
                Healthy \subseteq s.attempted
<1> DEFINE ip == connections[c].client_ip
<1>1. ip \in Ips
  BY PairFacts DEF Pair
<1> HIDE DEF ip
<1>2. LET s == ConnectLoop(ip, outcome) IN
      s \in LoopState /\ (~Unserved(ip) /\ s.chosen = BackendCount => Healthy \subseteq s.attempted)
  BY <1>1, ConnectLoopFacts DEF RotationType
<1> QED
  BY <1>2 DEF ip

\* Neither the rotation nor the round leaves the backends.
LEMMA NextRotationType == InOrder /\ RotationType /\ [Next]_vars => RotationType'
<1> SUFFICES ASSUME InOrder, RotationType, [Next]_vars PROVE RotationType'
  OBVIOUS
<1>1. ASSUME NEW c \in Fds, ConnectClient(c) PROVE RotationType'
  <2>1. c \in Clients
    BY <1>1, EventFacts DEF ConnectClient
  <2>2. PICK outcome \in [Healthy -> Outcomes] :
          LET s == ConnectLoop(connections[c].client_ip, outcome) IN
          /\ next_backend_index' = s.next
          /\ round' = IF s.attempted = {} THEN round ELSE NextRound(s)
    BY <1>1 DEF ConnectClient
  <2> DEFINE s == ConnectLoop(connections[c].client_ip, outcome)
  <2>3. s \in LoopState
    BY <2>1, ClientLoop
  <2>4. /\ next_backend_index' = s.next
        /\ round' = IF s.attempted = {} THEN round ELSE NextRound(s)
    BY <2>2
  <2> HIDE DEF s
  <2>5. s.next \in Backends /\ s.attempted \subseteq Backends
    BY <2>3 DEF LoopState
  <2>6. NextRound(s) \subseteq Backends
    BY <2>5 DEF NextRound, RotationType
  <2>7. routing_mode' = routing_mode /\ running' = running
    BY <1>1 DEF ConnectClient
  <2> QED
    BY <2>4, <2>5, <2>6, <2>7 DEF RotationType
<1>2. CASE UNCHANGED <<next_backend_index, routing_mode, running, round>>
  BY <1>2 DEF RotationType
<1>3. ASSUME NEW b \in Backends, HealthVerdict(b) PROVE RotationType'
  BY <1>3 DEF HealthVerdict, RotationType
<1>4. CASE CloseAllConnections
  BY <1>4 DEF CloseAllConnections, RotationType
<1> QED
  BY <1>1, <1>2, <1>3, <1>4
     DEF Next, Accept, TakeMetrics, Connected, FailoverConnection, CloseConnection, vars

\* Only handleAccept() makes a pair.
LEMMA ClientsShrink ==
    ASSUME InOrder, Next, ~(\E fd \in Fds, ip \in Ips : Accept(fd, ip))
    PROVE  Clients' \subseteq Clients
<1> SUFFICES ASSUME NEW d \in Fds, connections[d] = NoPair PROVE connections'[d] = NoPair
  BY DEF Clients
<1>1. ASSUME NEW c \in Clients, connections' = [connections EXCEPT ![c] = NoPair]
      PROVE  connections'[d] = NoPair
  BY <1>1 DEF InOrder, BooksType
<1>2. ASSUME NEW c \in Clients, NEW fd \in Fds, NEW b \in Backends, NEW x \in BOOLEAN,
             connections' = Assigned(c, fd, b, x)
      PROVE  connections'[d] = NoPair
  <2>1. d # c
    BY DEF Clients
  <2> QED
    BY <1>2, <2>1, AssignedFacts DEF InOrder
<1>3. ASSUME NEW c \in Fds, ConnectClient(c) PROVE connections'[d] = NoPair
  <2>1. c \in Clients
    BY <1>3, EventFacts DEF ConnectClient
  <2>2. PICK outcome \in [Healthy -> Outcomes] :
          LET s == ConnectLoop(connections[c].client_ip, outcome) IN
          \/ /\ s.chosen \in Backends
             /\ \E fd \in Fds :
                  connections' = Assigned(c, fd, s.chosen, outcome[s.chosen] = "connecting")
          \/ connections' = [connections EXCEPT ![c] = NoPair]
    BY <1>3 DEF ConnectClient
  <2> DEFINE s == ConnectLoop(connections[c].client_ip, outcome)
             x == outcome[s.chosen] = "connecting"
  <2>3. x \in BOOLEAN
    OBVIOUS
  <2>4. \/ /\ s.chosen \in Backends
           /\ \E fd \in Fds : connections' = Assigned(c, fd, s.chosen, x)
        \/ connections' = [connections EXCEPT ![c] = NoPair]
    BY <2>2
  <2> HIDE DEF s, x
  <2> QED
    BY <1>1, <1>2, <2>1, <2>3, <2>4
<1>4. ASSUME NEW fd \in Fds, FailoverConnection(fd) PROVE connections'[d] = NoPair
  <2> DEFINE c == ClientOf(fd)
  <2>1. c \in Clients
    BY <1>4, EventFacts DEF FailoverConnection
  <2>2. PICK outcome \in [Healthy -> Outcomes] :
          LET s == FailoverLoop(connections[c].backend_index, outcome) IN
          \/ /\ s.chosen \in Backends
             /\ \E new \in Fds :
                  connections' = Assigned(c, new, s.chosen, outcome[s.chosen] = "connecting")
          \/ connections' = [connections EXCEPT ![c] = NoPair]
    BY <1>4 DEF FailoverConnection
  <2> DEFINE s == FailoverLoop(connections[c].backend_index, outcome)
             x == outcome[s.chosen] = "connecting"
  <2>3. x \in BOOLEAN
    OBVIOUS
  <2>4. \/ /\ s.chosen \in Backends
           /\ \E new \in Fds : connections' = Assigned(c, new, s.chosen, x)
        \/ connections' = [connections EXCEPT ![c] = NoPair]
    BY <2>2
  <2> HIDE DEF s, x, c
  <2> QED
    BY <1>1, <1>2, <2>1, <2>3, <2>4
<1>5. ASSUME NEW c \in Fds, TakeMetrics(c) PROVE connections'[d] = NoPair
  <2>1. c \in Clients
    BY <1>5, EventFacts DEF TakeMetrics
  <2>2. d # c
    BY <2>1 DEF Clients
  <2> QED
    BY <1>5, <2>2 DEF TakeMetrics, InOrder, BooksType
<1>6. ASSUME NEW fd \in Fds, Connected(fd) PROVE connections'[d] = NoPair
  <2>1. ClientOf(fd) \in Clients
    BY <1>6, EventFacts DEF Connected
  <2>2. d # ClientOf(fd)
    BY <2>1 DEF Clients
  <2> QED
    BY <1>6, <2>2 DEF Connected, InOrder, BooksType
<1>7. ASSUME NEW fd \in Fds, CloseConnection(fd) PROVE connections'[d] = NoPair
  <2>1. ClientOf(fd) \in Clients
    BY <1>7, EventFacts DEF CloseConnection
  <2>2. connections' = [connections EXCEPT ![ClientOf(fd)] = NoPair]
    BY <1>7 DEF CloseConnection
  <2> QED
    BY <1>1, <2>1, <2>2
<1>8. ASSUME NEW b \in Backends, HealthVerdict(b) PROVE connections'[d] = NoPair
  BY <1>8 DEF HealthVerdict
<1>9. CASE CloseAllConnections
  BY <1>9 DEF CloseAllConnections
<1> QED
  BY <1>3, <1>4, <1>5, <1>6, <1>7, <1>8, <1>9 DEF Next

\* handleAccept() keeps to the limit.
LEMMA NextWithinLimit == InOrder /\ WithinLimit /\ [Next]_vars => WithinLimit'
<1> SUFFICES ASSUME InOrder, WithinLimit, [Next]_vars PROVE WithinLimit'
  OBVIOUS
<1>1. IsFiniteSet(Clients) /\ Cardinality(Clients) \in Nat
  BY RoutingAssumption, FS_Subset, FS_CardinalityType DEF Clients
<1>2. IsFiniteSet(Clients') /\ Cardinality(Clients') \in Nat
  BY RoutingAssumption, FS_Subset, FS_CardinalityType DEF Clients
<1>3. ASSUME Clients' \subseteq Clients PROVE WithinLimit'
  <2>1. Cardinality(Clients') <= Cardinality(Clients)
    BY <1>1, <1>3, FS_Subset
  <2> QED
    BY <1>1, <1>2, <2>1, RoutingAssumption DEF WithinLimit
<1>4. ASSUME NEW fd \in Fds, NEW ip \in Ips, Accept(fd, ip) PROVE WithinLimit'
  <2>1. Clients' \subseteq Clients \cup {fd}
    BY <1>4 DEF Accept, Clients, InOrder, BooksType
  <2>2. /\ IsFiniteSet(Clients \cup {fd})
        /\ Cardinality(Clients \cup {fd}) \in Nat
        /\ Cardinality(Clients \cup {fd}) <= Cardinality(Clients) + 1
    <3>1. CASE fd \in Clients
      <4>1. Clients \cup {fd} = Clients
        BY <3>1
      <4> QED
        BY <1>1, <4>1
    <3>2. CASE fd \notin Clients
      <4>1. /\ IsFiniteSet(Clients \cup {fd})
            /\ Cardinality(Clients \cup {fd}) = Cardinality(Clients) + 1
        BY <1>1, <3>2, FS_AddElement
      <4> QED
        BY <1>1, <4>1
    <3> QED
      BY <3>1, <3>2
  <2>3. Cardinality(Clients') <= Cardinality(Clients \cup {fd})
    BY <2>1, <2>2, FS_Subset
  <2>4. Cardinality(Clients) < MAX_CONNECTIONS
    BY <1>4 DEF Accept, HasRoom
  <2> QED
    BY <1>1, <1>2, <2>2, <2>3, <2>4, RoutingAssumption DEF WithinLimit
<1>5. CASE UNCHANGED vars
  BY <1>3, <1>5 DEF vars, Clients
<1> QED
  BY <1>3, <1>4, <1>5, ClientsShrink

\* Every variable always has its type, whatever the loops select, and a reactor
\* never has more than MAX_CONNECTIONS pairs.
THEOREM TypeCorrect == Spec => []TypeOK
<1> DEFINE I == InOrder /\ RotationType /\ WithinLimit /\ RingBuilt
<1>1. Init => I
  <2> SUFFICES ASSUME Init PROVE I
    OBVIOUS
  <2>1. RotationType
    BY ConsistentHashAssumption DEF Init, RotationType, Backends
  <2>2. Clients = {}
    BY DEF Init, Clients
  <2>3. WithinLimit
    BY <2>2, FS_EmptySet, RoutingAssumption DEF WithinLimit
  <2> QED
    BY <2>1, <2>3, InitInOrder, InitRingBuilt
<1>2. I /\ [Next]_vars => I'
  BY NextInOrder, NextRotationType, NextWithinLimit, NextRingBuilt
<1>3. RingBuilt => layout \in Layout /\ ring \in [Hashes -> 0 .. BackendCount]
  BY BuildFacts DEF RingBuilt, RingState
<1>4. I => TypeOK
  BY <1>3 DEF InOrder, BooksType, RotationType, WithinLimit, TypeOK
<1> QED
  BY <1>1, <1>2, <1>4, PTL DEF Spec

-----------------------------------------------------------------------------
(* Nobody is overlooked. *)

\* Every attempt leaves its mark on the backend's counters.
LEMMA CountedTries ==
    ASSUME NEW backends \in [Backends -> Backend], NEW s, NEW outcome,
           NEW moves \in Nat, NEW b \in Backends
    PROVE  LET r == Counted(backends, s, outcome, moves)[b] IN
           /\ r.failed_connections \in Nat /\ r.total_connections \in Nat
           /\ r.failed_connections >= backends[b].failed_connections
           /\ r.healthy = backends[b].healthy
           /\ r.failovers = IF b = s.chosen THEN backends[b].failovers + moves
                           ELSE backends[b].failovers
           /\ b \in s.attempted =>
                \/ r.failed_connections > backends[b].failed_connections
                \/ r.total_connections > backends[b].total_connections
<1> DEFINE r == Counted(backends, s, outcome, moves)[b]
           got == b \in s.attempted /\ outcome[b] # "refused"
           n == IF b = s.chosen THEN backends[b].connection_count + 1
                ELSE backends[b].connection_count
           t == IF got THEN backends[b].total_connections + 1
                ELSE backends[b].total_connections
           f == IF b \in s.attempted /\ ~got THEN backends[b].failed_connections + 1
                ELSE backends[b].failed_connections
           o == IF b = s.chosen THEN backends[b].failovers + moves
                ELSE backends[b].failovers
<1>1. /\ backends[b] \in Backend
      /\ backends[b].total_connections \in Nat /\ backends[b].failed_connections \in Nat
  BY DEF Backend
<1>2. r = [backends[b] EXCEPT !.connection_count = n, !.total_connections = t,
                              !.failed_connections = f, !.failovers = o]
  BY DEF Counted
<1>3. /\ t \in Nat /\ f \in Nat /\ f >= backends[b].failed_connections
      /\ b \in s.attempted => \/ f > backends[b].failed_connections
                              \/ t > backends[b].total_connections
  BY <1>1
<1> HIDE DEF n, t, f, o, r
<1>4. /\ r.total_connections = t /\ r.failed_connections = f
      /\ r.failovers = o /\ r.healthy = backends[b].healthy
  BY <1>1, <1>2 DEF Backend
<1> QED
  BY <1>3, <1>4 DEF r, o

\* The step of connectClientToBackend().
LEMMA ConnectTries ==
    ASSUME InOrder, RotationType, NEW c \in Fds, ConnectClient(c),
           connections'[c] = NoPair, ~Unserved(connections[c].client_ip)
    PROVE  \A b \in Healthy : WasTried(b)
<1>1. c \in Clients
  BY EventFacts DEF ConnectClient
<1>2. PICK outcome \in [Healthy -> Outcomes] :
        LET s == ConnectLoop(connections[c].client_ip, outcome) IN
        /\ \/ /\ s.chosen \in Backends
              /\ \E fd \in Fds :
                   connections' = Assigned(c, fd, s.chosen, outcome[s.chosen] = "connecting")
           \/ s.chosen \notin Backends
        /\ pool' = Counted(pool, s, outcome, 0)
  BY DEF ConnectClient
<1> DEFINE s == ConnectLoop(connections[c].client_ip, outcome)
           x == outcome[s.chosen] = "connecting"
<1>3. s \in LoopState /\ (s.chosen = BackendCount => Healthy \subseteq s.attempted)
  BY <1>1, ClientLoop
<1>4. x \in BOOLEAN
  OBVIOUS
<1>5. /\ \/ s.chosen \in Backends /\ \E fd \in Fds : connections' = Assigned(c, fd, s.chosen, x)
         \/ s.chosen \notin Backends
      /\ pool' = Counted(pool, s, outcome, 0)
  BY <1>2
<1> HIDE DEF s, x
<1>6. s.chosen \notin Backends
  <2>1. ASSUME s.chosen \in Backends, NEW fd \in Fds, connections' = Assigned(c, fd, s.chosen, x)
        PROVE  connections'[c] \in Pair
    BY <1>1, <1>4, <2>1, AssignedFacts DEF InOrder
  <2> QED
    BY <1>5, <2>1, RoutingAssumption
<1>7. s.chosen = BackendCount
  <2>1. s.chosen \in 0 .. BackendCount
    BY <1>3 DEF LoopState
  <2> QED
    BY <1>6, <2>1, ConsistentHashAssumption DEF Backends
<1> SUFFICES ASSUME NEW b \in Healthy PROVE WasTried(b)
  OBVIOUS
<1>8. b \in Backends /\ b \in s.attempted
  BY <1>3, <1>7 DEF Healthy
<1>9. pool \in [Backends -> Backend]
  BY DEF InOrder, BooksType
<1> QED
  BY <1>5, <1>8, <1>9, CountedTries DEF WasTried

\* The step of failoverConnection(), where the backend that failed has been
\* tried by the connection that could not be made.
LEMMA FailoverTries ==
    ASSUME InOrder, RotationType, NEW fd \in Fds, FailoverConnection(fd),
           connections'[ClientOf(fd)] = NoPair
    PROVE  \A b \in Healthy : WasTried(b)
<1> DEFINE c == ClientOf(fd)
           failed == connections[c].backend_index
           released == [Released(failed) EXCEPT ![failed].failed_connections = @ + 1]
<1>1. c \in Clients /\ failed \in Backends
  BY EventFacts, PairFacts DEF FailoverConnection
<1>2. PICK outcome \in [Healthy -> Outcomes] :
        LET s == FailoverLoop(failed, outcome) IN
        /\ \/ /\ s.chosen \in Backends
              /\ \E new \in Fds :
                   connections' = Assigned(c, new, s.chosen, outcome[s.chosen] = "connecting")
           \/ s.chosen \notin Backends
        /\ pool' = Counted(released, s, outcome, 1)
  BY DEF FailoverConnection
<1> DEFINE s == FailoverLoop(failed, outcome)
           x == outcome[s.chosen] = "connecting"
<1>3. s \in LoopState /\ (s.chosen = BackendCount => Healthy \ {failed} \subseteq s.attempted)
  <2> HIDE DEF failed
  <2> QED
    BY <1>1, FailoverLoopFacts DEF RotationType
<1>4. x \in BOOLEAN
  OBVIOUS
<1>5. /\ \/ s.chosen \in Backends /\ \E new \in Fds : connections' = Assigned(c, new, s.chosen, x)
         \/ s.chosen \notin Backends
      /\ pool' = Counted(released, s, outcome, 1)
      /\ connections'[c] = NoPair
  BY <1>2
<1>6. /\ released \in [Backends -> Backend]
      /\ \A b \in Backends :
           /\ pool[b].failed_connections \in Nat /\ pool[b].total_connections \in Nat
           /\ released[b].total_connections = pool[b].total_connections
           /\ released[b].failed_connections =
                IF b = failed THEN pool[b].failed_connections + 1 ELSE pool[b].failed_connections
  <2> HIDE DEF failed
  <2>1. released \in [Backends -> Backend] /\ \A b \in Backends \ {failed} : released[b] = pool[b]
    BY <1>1, FailedFacts DEF InOrder
  <2>2. /\ released[failed].total_connections = pool[failed].total_connections
        /\ released[failed].failed_connections = pool[failed].failed_connections + 1
    BY <1>1 DEF InOrder, BooksType, Backend, Released, OneLess
  <2>3. \A b \in Backends : pool[b].failed_connections \in Nat /\ pool[b].total_connections \in Nat
    BY DEF InOrder, BooksType, Backend
  <2> QED
    BY <2>1, <2>2, <2>3
<1> HIDE DEF s, x, released, c, failed
<1>7. s.chosen \notin Backends
  <2>1. ASSUME s.chosen \in Backends, NEW new \in Fds, connections' = Assigned(c, new, s.chosen, x)
        PROVE  connections'[c] \in Pair
    BY <1>1, <1>4, <2>1, AssignedFacts DEF InOrder
  <2> QED
    BY <1>5, <2>1, RoutingAssumption
<1>8. s.chosen = BackendCount
  <2>1. s.chosen \in 0 .. BackendCount
    BY <1>3 DEF LoopState
  <2> QED
    BY <1>7, <2>1, ConsistentHashAssumption DEF Backends
<1> SUFFICES ASSUME NEW b \in Healthy PROVE WasTried(b)
  OBVIOUS
<1>9. b \in Backends /\ (b = failed \/ b \in s.attempted)
  BY <1>3, <1>8 DEF Healthy
<1>10. /\ pool'[b].failed_connections \in Nat /\ pool'[b].total_connections \in Nat
       /\ pool'[b].failed_connections >= released[b].failed_connections
       /\ b \in s.attempted => \/ pool'[b].failed_connections > released[b].failed_connections
                               \/ pool'[b].total_connections > released[b].total_connections
  BY <1>5, <1>6, <1>9, CountedTries
<1> QED
  BY <1>6, <1>9, <1>10 DEF WasTried

\* Where a healthy backend has a node, the ring has a backend for every client.
LEMMA RingServes ==
    ASSUME RingBuilt, NEW ip \in Ips, routing_mode = "round_robin" \/ Eligible # {}, Unserved(ip)
    PROVE  Healthy = {}
<1>1. ClientHash[ip] \in Hashes /\ BackendCount \notin Healthy /\ Eligible \subseteq Healthy
  BY RoutingAssumption, ConsistentHashAssumption DEF Healthy, Eligible, Backends
<1>2. Eligible # {} => OnRing(ip) \in Eligible
  BY <1>1, BuiltClosest DEF ClosestNode, OnRing
<1> QED
  BY <1>1, <1>2 DEF Unserved

\* connectClientToBackend() and failoverConnection() turn a client away only
\* after they have tried every healthy backend: for any number of backends, any
\* pattern of health, any place of the rotation and any ring.
THEOREM EveryBackendTried == Spec => NoBackendOverlooked
<1> DEFINE I == InOrder /\ RotationType /\ RingBuilt
           Turned == \A fd \in Fds :
                       /\ connections[ClientOf(fd)] # NoPair /\ connections'[ClientOf(fd)] = NoPair
                       /\ \/ ConnectClient(fd) /\ (routing_mode = "round_robin" \/ Eligible # {})
                          \/ FailoverConnection(fd)
                       => \A b \in Healthy : WasTried(b)
<1>1. Init => I
  BY InitInOrder, InitRingBuilt, ConsistentHashAssumption DEF Init, RotationType, Backends
<1>2. I /\ [Next]_vars => I'
  BY NextInOrder, NextRotationType, NextRingBuilt
<1>3. I => Turned
  <2> SUFFICES ASSUME I, NEW fd \in Fds, connections'[ClientOf(fd)] = NoPair,
                      \/ ConnectClient(fd) /\ (routing_mode = "round_robin" \/ Eligible # {})
                      \/ FailoverConnection(fd)
               PROVE  \A b \in Healthy : WasTried(b)
    OBVIOUS
  <2>1. CASE ConnectClient(fd) /\ (routing_mode = "round_robin" \/ Eligible # {})
    <3>1. ClientOf(fd) = fd /\ fd \in Clients
      BY <2>1, EventFacts DEF ConnectClient
    <3>2. connections[fd].client_ip \in Ips
      BY <3>1, PairFacts DEF Pair
    <3>3. CASE Unserved(connections[fd].client_ip)
      BY <2>1, <3>2, <3>3, RingServes
    <3>4. CASE ~Unserved(connections[fd].client_ip)
      BY <2>1, <3>1, <3>4, ConnectTries
    <3> QED
      BY <3>3, <3>4
  <2>2. CASE FailoverConnection(fd)
    BY <2>2, FailoverTries
  <2> QED
    BY <2>1, <2>2
<1>4. I /\ [Next]_vars => [Turned]_vars
  BY <1>3
<1> HIDE DEF I
<1> QED
  BY <1>1, <1>2, <1>4, PTL DEF Spec, NoBackendOverlooked

-----------------------------------------------------------------------------
(* Round robin. *)

\* With round robin the first backend that is tried is the next in the rotation.
\* If nobody else is tried, then that one is chosen, and the rotation moves on
\* behind it.
LEMMA FirstPass ==
    ASSUME next_backend_index \in Backends, NEW ip \in Ips, NEW outcome,
           Healthy # {}, routing_mode = "round_robin"
    PROVE  LET s == ConnectLoop(ip, outcome)
               first == Selected(next_backend_index)
           IN /\ first.index \in s.attempted
              /\ s.attempted = {s.chosen} => s.chosen = first.index /\ s.next = first.next
<1> DEFINE N == BackendCount
           first == Selected(next_backend_index)
           x == first.index
<1>0. ~Unserved(ip)
  BY DEF Unserved
<1>1. PICK f \in [0 .. N -> LoopState] :
        /\ f[0] = NoAttempt
        /\ \A i \in 1 .. N : f[i] = ConnectStep(f[i - 1], ip, i = 1, outcome)
        /\ ConnectLoop(ip, outcome) = f[N]
  BY <1>0, ConnectLoopDef
<1> DEFINE Later(i) == /\ x \in f[i].attempted
                       /\ (f[i] = f[1] /\ f[1].chosen # N) \/ f[i].chosen # x
           T == {0} \cup {i \in 1 .. N : Later(i)}
<1>2. N \in Nat \ {0} /\ N \in 0 .. N /\ N # 0 /\ 1 \in 1 .. N /\ 1 - 1 = 0 /\ 0 \in 0 .. N
      /\ 1 \in 0 .. N
  BY ConsistentHashAssumption
<1>3. x \in Healthy /\ x \in Backends /\ x # N
  <2>1. x \in Healthy /\ x \in Backends
    BY SelectedFacts DEF Healthy
  <2> HIDE DEF x
  <2> QED
    BY <1>2, <2>1 DEF Backends
<1>4. \A i \in 1 .. N :
        /\ f[i - 1] \in LoopState /\ f[i] \in LoopState
        /\ f[i - 1].chosen # N => f[i] = f[i - 1]
        /\ f[i - 1].attempted \subseteq f[i].attempted
        /\ f[i].chosen = f[i - 1].chosen \/ f[i].chosen \in Backends \ f[i - 1].attempted
        /\ f[i - 1].chosen = N =>
             /\ f[i].attempted = f[i - 1].attempted \cup {Selected(f[i - 1].next).index}
             /\ f[i].next = Selected(f[i - 1].next).next
  <2> SUFFICES ASSUME NEW i \in 1 .. N
               PROVE  /\ f[i - 1] \in LoopState /\ f[i] \in LoopState
                      /\ f[i - 1].chosen # N => f[i] = f[i - 1]
                      /\ f[i - 1].attempted \subseteq f[i].attempted
                      /\ f[i].chosen = f[i - 1].chosen \/ f[i].chosen \in Backends \ f[i - 1].attempted
                      /\ f[i - 1].chosen = N =>
                           /\ f[i].attempted = f[i - 1].attempted \cup {Selected(f[i - 1].next).index}
                           /\ f[i].next = Selected(f[i - 1].next).next
    OBVIOUS
  <2> DEFINE s == f[i - 1]
             t == f[i]
             begin == i = 1
  <2>1. s \in LoopState /\ t \in LoopState /\ begin \in BOOLEAN /\ t = ConnectStep(s, ip, begin, outcome)
    BY <1>1, <1>2
  <2> HIDE DEF s, t, begin
  <2>2. LET r == ConnectStep(s, ip, begin, outcome) IN
        /\ s.chosen # N => r = s
        /\ s.attempted \subseteq r.attempted
        /\ r.chosen = s.chosen \/ r.chosen \in Backends \ s.attempted
        /\ s.chosen = N => /\ r.attempted = s.attempted \cup {Selected(s.next).index}
                           /\ r.next = Selected(s.next).next
    BY <1>0, <2>1, ConnectStepFacts
  <2>3. /\ s.chosen # N => t = s
        /\ s.attempted \subseteq t.attempted
        /\ t.chosen = s.chosen \/ t.chosen \in Backends \ s.attempted
        /\ s.chosen = N => /\ t.attempted = s.attempted \cup {Selected(s.next).index}
                           /\ t.next = Selected(s.next).next
    BY <2>1, <2>2
  <2> QED
    BY <2>1, <2>3 DEF s, t
<1>5. f[1].attempted = {x} /\ f[1].next = first.next
  <2>1. f[0].chosen = N /\ f[0].attempted = {} /\ f[0].next = next_backend_index
    BY <1>1 DEF NoAttempt
  <2>2. f[0].chosen = N => /\ f[1].attempted = f[0].attempted \cup {Selected(f[0].next).index}
                           /\ f[1].next = Selected(f[0].next).next
    BY <1>2, <1>4
  <2> QED
    BY <2>1, <2>2
<1> HIDE DEF x, first
<1>6. ASSUME NEW j \in 0 .. N - 1, j \in T PROVE j + 1 \in T
  <2>1. j + 1 \in 1 .. N /\ (j + 1) - 1 = j /\ (j = 0 \/ j \in 1 .. N)
    BY <1>2
  <2>2. CASE j = 0
    <3>1. Later(1)
      BY <1>3, <1>5
    <3> HIDE DEF Later
    <3> QED
      BY <1>2, <2>2, <3>1
  <2>3. CASE j # 0
    <3>1. Later(j)
      BY <1>6, <2>3
    <3>2. /\ f[j].chosen # N => f[j + 1] = f[j]
          /\ f[j].attempted \subseteq f[j + 1].attempted
          /\ f[j + 1].chosen = f[j].chosen \/ f[j + 1].chosen \in Backends \ f[j].attempted
      BY <1>4, <2>1
    <3>3. Later(j + 1)
      BY <3>1, <3>2
    <3> HIDE DEF Later
    <3> QED
      BY <2>1, <3>3
  <2> QED
    BY <2>2, <2>3
<1>7. Later(N)
  <2>0. 0 \in T
    OBVIOUS
  <2>1. \A i \in 0 .. N : i \in T
    <3> HIDE DEF T, N
    <3> QED
      BY <1>2, <1>6, <2>0, UpTo
  <2> HIDE DEF Later
  <2> QED
    BY <1>2, <2>1
<1>8. f[N].attempted = {f[N].chosen} => f[N].chosen = x /\ f[N].next = first.next
  BY <1>5, <1>7
<1>9. x \in f[N].attempted
  BY <1>7
<1> QED
  BY <1>1, <1>8, <1>9 DEF x, first

\* The backends that have had a turn are those the rotation has just passed.
TurnsTaken ==
    routing_mode = "round_robin" =>
      /\ round \subseteq Healthy
      /\ \A b \in round, a \in Healthy :
           Ahead(next_backend_index, a) >= Ahead(next_backend_index, b) => a \in round
      /\ round = {} \/ ~(Healthy \subseteq round)

\* Behind the backend x that was first, what is left of the rotation keeps its
\* order, and x is last.
LEMMA OrderKept ==
    ASSUME NEW n \in Backends, NEW x \in Backends, NEW m \in Backends,
           m = IF x + 1 = BackendCount THEN 0 ELSE x + 1,
           NEW a \in Backends, NEW b \in Backends,
           Ahead(n, x) <= Ahead(n, a), Ahead(n, x) <= Ahead(n, b),
           Ahead(m, a) >= Ahead(m, b)
    PROVE  \/ a = x
           \/ b # x /\ Ahead(n, a) >= Ahead(n, b)
<1>1. /\ BackendCount \in Nat \ {0}
      /\ n \in 0 .. BackendCount - 1 /\ x \in 0 .. BackendCount - 1
      /\ a \in 0 .. BackendCount - 1 /\ b \in 0 .. BackendCount - 1
  BY ConsistentHashAssumption DEF Backends
<1> QED
  BY <1>1 DEF Ahead

\* The next in the rotation has not had its turn.
LEMMA NextIsDue ==
    ASSUME RotationType, TurnsTaken, routing_mode = "round_robin", Healthy # {}
    PROVE  Selected(next_backend_index).index \notin round
<1> DEFINE x == Selected(next_backend_index).index
<1>1. /\ x \in Healthy
      /\ \A b \in Healthy : Ahead(next_backend_index, x) <= Ahead(next_backend_index, b)
  BY SelectedFacts DEF RotationType
<1> HIDE DEF x
<1>2. Healthy \subseteq Backends
  BY DEF Healthy
<1>3. \A b \in Healthy : Ahead(next_backend_index, b) \in Nat
  <2>1. Backends \subseteq Nat
    BY RoutingAssumption DEF Backends
  <2>2. \A b \in Healthy : Ahead(next_backend_index, b) \in Backends
    BY <1>2, RotationBounds DEF RotationType
  <2> QED
    BY <2>1, <2>2
<1>4. \A b \in Healthy : Ahead(next_backend_index, b) >= Ahead(next_backend_index, x)
  BY <1>1, <1>3
<1>5. x \in round => Healthy \subseteq round
  BY <1>4 DEF TurnsTaken
<1> QED
  BY <1>5 DEF TurnsTaken, x

\* Only a verdict of the health checker changes who is healthy.
LEMMA HealthKept ==
    ASSUME InOrder, RotationType, Next, ~(\E b \in Backends : HealthVerdict(b))
    PROVE  Healthy' = Healthy
<1> SUFFICES ASSUME NEW b \in Backends PROVE pool'[b].healthy = pool[b].healthy
  BY DEF Healthy
<1>0. pool \in [Backends -> Backend]
  BY DEF InOrder, BooksType
<1>1. CASE pool' = pool
  BY <1>1
<1>2. ASSUME NEW c \in Fds, ConnectClient(c) PROVE pool'[b].healthy = pool[b].healthy
  <2>1. PICK s, outcome : pool' = Counted(pool, s, outcome, 0)
    BY <1>2 DEF ConnectClient
  <2> QED
    BY <1>0, <2>1, CountedTries
<1>3. ASSUME NEW h \in Backends PROVE Released(h)[b].healthy = pool[b].healthy
  BY <1>0 DEF Released, Backend
<1>4. ASSUME NEW fd \in Fds, FailoverConnection(fd) PROVE pool'[b].healthy = pool[b].healthy
  <2> DEFINE h == connections[ClientOf(fd)].backend_index
             released == [Released(h) EXCEPT ![h].failed_connections = @ + 1]
  <2>1. h \in Backends
    BY <1>4, EventFacts, PairFacts DEF FailoverConnection
  <2>2. PICK s, outcome : pool' = Counted(released, s, outcome, 1)
    BY <1>4 DEF FailoverConnection
  <2> HIDE DEF h
  <2>3. released \in [Backends -> Backend]
    BY <2>1, FailedFacts DEF InOrder
  <2>4. Released(h) \in [Backends -> Backend]
    BY <2>1, ReleasedFacts DEF InOrder
  <2>5. released[b].healthy = Released(h)[b].healthy
    BY <2>4 DEF Backend
  <2> HIDE DEF released
  <2>6. pool'[b].healthy = released[b].healthy
    BY <2>2, <2>3, CountedTries
  <2> QED
    BY <1>3, <2>1, <2>5, <2>6
<1>5. ASSUME NEW fd \in Fds, CloseConnection(fd) PROVE pool'[b].healthy = pool[b].healthy
  <2> DEFINE h == connections[ClientOf(fd)].backend_index
  <2>1. h \in Backends
    BY <1>5, EventFacts, PairFacts DEF CloseConnection
  <2>2. pool' = pool \/ pool' = Released(h)
    BY <1>5 DEF CloseConnection
  <2> HIDE DEF h
  <2> QED
    BY <1>3, <2>1, <2>2
<1>6. CASE CloseAllConnections
  BY <1>0, <1>6 DEF CloseAllConnections, Backend
<1> QED
  BY <1>1, <1>2, <1>4, <1>5, <1>6 DEF Next, Accept, TakeMetrics, Connected

\* Who takes a turn is behind the rotation then, and a round that everybody has
\* had a turn in gives way to the next one.
LEMMA NextTurnsTaken == InOrder /\ RotationType /\ TurnsTaken /\ [Next]_vars => TurnsTaken'
<1> SUFFICES ASSUME InOrder, RotationType, TurnsTaken, [Next]_vars PROVE TurnsTaken'
  OBVIOUS
<1>0. routing_mode' = routing_mode
  BY DEF Next, Accept, ConnectClient, TakeMetrics, Connected, FailoverConnection,
         CloseConnection, HealthVerdict, CloseAllConnections, vars
<1> SUFFICES ASSUME routing_mode = "round_robin" PROVE TurnsTaken'
  BY <1>0 DEF TurnsTaken
<1>1. ASSUME round' = {} PROVE TurnsTaken'
  BY <1>1 DEF TurnsTaken
<1>2. ASSUME round' = round, next_backend_index' = next_backend_index, Healthy' = Healthy
      PROVE  TurnsTaken'
  BY <1>2 DEF TurnsTaken, Ahead
<1>3. ASSUME NEW c \in Fds, ConnectClient(c), Next PROVE TurnsTaken'
  <2> DEFINE n == next_backend_index
             first == Selected(n)
             x == first.index
             ip == connections[c].client_ip
  <2>1. ip \in Ips
    BY <1>3, EventFacts, PairFacts DEF ConnectClient, Pair
  <2>2. PICK outcome \in [Healthy -> Outcomes] :
          LET s == ConnectLoop(ip, outcome) IN
          /\ pool' = Counted(pool, s, outcome, 0)
          /\ next_backend_index' = s.next
          /\ round' = IF s.attempted = {} THEN round ELSE NextRound(s)
    BY <1>3 DEF ConnectClient
  <2> DEFINE s == ConnectLoop(ip, outcome)
  <2>3. Healthy' = Healthy
    <3> HIDE DEF s, ip
    <3>1. \A b \in Backends : pool'[b].healthy = pool[b].healthy
      BY <2>2, CountedTries DEF InOrder, BooksType
    <3> QED
      BY <3>1 DEF Healthy
  <2>4. CASE Healthy = {}
    <3>1. s = NoAttempt
      BY <2>4 DEF ConnectLoop, Unserved
    <3>2. round' = round /\ next_backend_index' = next_backend_index
      BY <2>2, <3>1 DEF NoAttempt
    <3> QED
      BY <1>2, <2>3, <3>2
  <2>5. CASE Healthy # {}
    <3>1. /\ x \in s.attempted
          /\ s.attempted = {s.chosen} => s.chosen = x /\ s.next = first.next
      <4> HIDE DEF ip
      <4> QED
        BY <2>1, <2>5, FirstPass DEF RotationType
    <3>2. round' = NextRound(s) /\ next_backend_index' = s.next
      BY <2>2, <3>1
    <3> HIDE DEF s, ip
    <3>3. CASE NextRound(s) = {}
      BY <1>1, <3>2, <3>3
    <3>4. CASE NextRound(s) # {}
      <4>1. /\ s.attempted = {s.chosen}
            /\ round' = round \cup {x} /\ next_backend_index' = first.next
            /\ ~(Healthy \subseteq round \cup {x})
        BY <3>1, <3>2, <3>4 DEF NextRound
      <4>2. /\ x \in Healthy /\ first.next \in Backends
            /\ first.next = IF x + 1 = BackendCount THEN 0 ELSE x + 1
            /\ \A b \in Healthy : Ahead(n, x) <= Ahead(n, b)
        BY <2>5, SelectedFacts DEF RotationType
      <4>3. Healthy \subseteq Backends /\ n \in Backends
        BY DEF Healthy, RotationType
      <4> DEFINE m == first.next
      <4> HIDE DEF first, x, m, n
      <4>4. /\ round \subseteq Healthy
            /\ \A b \in round, a \in Healthy : Ahead(n, a) >= Ahead(n, b) => a \in round
        BY DEF TurnsTaken, n
      <4>5. ASSUME NEW b \in round \cup {x}, NEW a \in Healthy, Ahead(m, a) >= Ahead(m, b)
            PROVE  a \in round \cup {x}
        <5>1. b \in Healthy
          BY <4>2, <4>4
        <5>2. a = x \/ (b # x /\ Ahead(n, a) >= Ahead(n, b))
          BY <4>2, <4>3, <4>5, <5>1, OrderKept DEF m
        <5> QED
          BY <4>4, <4>5, <5>2
      <4>6. next_backend_index' = m
        BY <4>1 DEF m
      <4>7. \A b \in round', a \in Healthy' :
              Ahead(next_backend_index', a) >= Ahead(next_backend_index', b) => a \in round'
        BY <2>3, <4>1, <4>5, <4>6
      <4>8. round' \subseteq Healthy' /\ ~(Healthy' \subseteq round')
        BY <2>3, <4>1, <4>2, <4>4
      <4> QED
        BY <4>7, <4>8 DEF TurnsTaken, Ahead
    <3> QED
      BY <3>3, <3>4
  <2> QED
    BY <2>4, <2>5
<1>4. ASSUME NEW h \in Backends, HealthVerdict(h) PROVE TurnsTaken'
  BY <1>1, <1>4 DEF HealthVerdict
<1>5. CASE UNCHANGED vars
  BY <1>2, <1>5 DEF vars, Healthy
<1>6. ASSUME Next, \A c \in Fds : ~ConnectClient(c), \A h \in Backends : ~HealthVerdict(h)
      PROVE  TurnsTaken'
  <2>1. Healthy' = Healthy
    BY <1>6, HealthKept
  <2>2. round' = round /\ next_backend_index' = next_backend_index
    BY <1>6 DEF Next, Accept, TakeMetrics, Connected, FailoverConnection,
                CloseConnection, CloseAllConnections
  <2> QED
    BY <1>2, <2>1, <2>2
<1> QED
  BY <1>3, <1>4, <1>5, <1>6

\* A client that is dealt to a backend at the first attempt is dealt to the next
\* in the rotation.
LEMMA DealtIsFirst ==
    ASSUME InOrder, RotationType, Next, routing_mode = "round_robin",
           NEW b \in Backends, Dealt(b)
    PROVE  Healthy # {} /\ b = Selected(next_backend_index).index
<1>0. /\ pool \in [Backends -> Backend]
      /\ pool[b].connection_count \in Nat /\ pool[b].failovers \in Nat
  BY DEF InOrder, BooksType, Backend
<1>1. /\ pool'[b].connection_count > pool[b].connection_count
      /\ pool'[b].failovers = pool[b].failovers
      /\ \A y \in Backends \ {b} : pool'[y] = pool[y]
  BY DEF Dealt
<1>2. ASSUME NEW c \in Fds, ConnectClient(c)
      PROVE  Healthy # {} /\ b = Selected(next_backend_index).index
  <2> DEFINE ip == connections[c].client_ip
             x == Selected(next_backend_index).index
  <2>1. ip \in Ips
    BY <1>2, EventFacts, PairFacts DEF ConnectClient, Pair
  <2>2. PICK outcome \in [Healthy -> Outcomes] :
          pool' = Counted(pool, ConnectLoop(ip, outcome), outcome, 0)
    BY <1>2 DEF ConnectClient
  <2> DEFINE s == ConnectLoop(ip, outcome)
  <2> HIDE DEF ip
  <2>3. s.chosen = b
    <3> HIDE DEF s
    <3>1. pool' = Counted(pool, s, outcome, 0)
      BY <2>2 DEF s
    <3>2. b # s.chosen => pool'[b].connection_count = pool[b].connection_count
      BY <1>0, <3>1, CountedFacts
    <3> QED
      BY <1>0, <1>1, <3>2
  <2>4. Healthy # {}
    <3>1. b # BackendCount
      BY ConsistentHashAssumption DEF Backends
    <3> QED
      BY <2>3, <3>1 DEF ConnectLoop, Unserved, NoAttempt
  <2>5. x \in s.attempted
    BY <2>1, <2>4, FirstPass DEF RotationType
  <2>6. x \in Backends
    BY <2>4, SelectedFacts DEF RotationType, Healthy
  <2>7. x = b
    <3> HIDE DEF s, x
    <3>1. pool' = Counted(pool, s, outcome, 0)
      BY <2>2 DEF s
    <3>2. \/ pool'[x].failed_connections > pool[x].failed_connections
          \/ pool'[x].total_connections > pool[x].total_connections
      BY <1>0, <2>5, <2>6, <3>1, CountedTries
    <3>3. pool[x].failed_connections \in Nat /\ pool[x].total_connections \in Nat
      BY <1>0, <2>6 DEF Backend
    <3>4. pool'[x] # pool[x]
      BY <3>2, <3>3
    <3> QED
      BY <1>1, <2>6, <3>4
  <2> QED
    BY <2>4, <2>7
<1>3. ASSUME pool'[b].connection_count \in Nat,
             pool'[b].connection_count <= pool[b].connection_count
      PROVE  FALSE
  BY <1>0, <1>1, <1>3
<1>4. ASSUME pool' = pool PROVE FALSE
  BY <1>0, <1>3, <1>4
<1>5. ASSUME NEW fd \in Fds, FailoverConnection(fd) PROVE FALSE
  <2> DEFINE h == connections[ClientOf(fd)].backend_index
             released == [Released(h) EXCEPT ![h].failed_connections = @ + 1]
  <2>1. h \in Backends
    BY <1>5, EventFacts, PairFacts DEF FailoverConnection
  <2>2. PICK s, outcome : pool' = Counted(released, s, outcome, 1)
    BY <1>5 DEF FailoverConnection
  <2> HIDE DEF h
  <2>3. /\ released \in [Backends -> Backend]
        /\ released[h].connection_count = OneLess(pool[h].connection_count)
        /\ \A y \in Backends \ {h} : released[y] = pool[y]
    BY <2>1, FailedFacts DEF InOrder
  <2>4. released[b].failovers = pool[b].failovers
    BY <1>0, <2>1 DEF Released, Backend
  <2> HIDE DEF released
  <2>5. released[b].connection_count \in Nat
        /\ released[b].connection_count <= pool[b].connection_count
    BY <1>0, <2>1, <2>3 DEF OneLess
  <2>6. /\ pool'[b].connection_count = IF b = s.chosen THEN released[b].connection_count + 1
                                       ELSE released[b].connection_count
        /\ pool'[b].failovers = IF b = s.chosen THEN released[b].failovers + 1
                                ELSE released[b].failovers
    BY <2>2, <2>3, CountedFacts, CountedTries
  <2> QED
    BY <1>0, <1>1, <2>4, <2>5, <2>6
<1>6. ASSUME NEW fd \in Fds, CloseConnection(fd) PROVE FALSE
  <2> DEFINE h == connections[ClientOf(fd)].backend_index
  <2>1. h \in Backends
    BY <1>6, EventFacts, PairFacts DEF CloseConnection
  <2>2. pool' = pool \/ pool' = Released(h)
    BY <1>6 DEF CloseConnection
  <2> HIDE DEF h
  <2>3. Released(h)[b].connection_count \in Nat
        /\ Released(h)[b].connection_count <= pool[b].connection_count
    BY <1>0, <2>1, ReleasedFacts DEF InOrder, OneLess
  <2> QED
    BY <1>3, <1>4, <2>2, <2>3
<1>7. ASSUME NEW h \in Backends, HealthVerdict(h) PROVE FALSE
  <2>1. pool'[b].connection_count = pool[b].connection_count
    BY <1>0, <1>7 DEF HealthVerdict, Backend
  <2> QED
    BY <1>0, <1>3, <2>1
<1>8. ASSUME CloseAllConnections PROVE FALSE
  <2> DEFINE n == Cardinality(PairsOn(b))
  <2>1. n \in Nat
    BY PairsOnCardinality
  <2>2. pool'[b].connection_count =
          IF pool[b].connection_count > n THEN pool[b].connection_count - n ELSE 0
    BY <1>0, <1>8 DEF CloseAllConnections, Backend
  <2> HIDE DEF n
  <2> QED
    BY <1>0, <1>3, <2>1, <2>2
<1> QED
  BY <1>2, <1>4, <1>5, <1>6, <1>7, <1>8 DEF Next, Accept, TakeMetrics, Connected

\* selectRoundRobinBackend(): nobody gets a second client at the first attempt
\* before every healthy backend has had one, for any number of backends and
\* whatever failovers, refusals, closings and sick backends come in between.
THEOREM RoundRobinFair == Spec => RoundRobinTurns
<1> DEFINE I == InOrder /\ RotationType /\ TurnsTaken
           Fair == routing_mode = "round_robin" =>
                     \A b \in Backends : Dealt(b) => b \notin round
<1>1. Init => I
  <2> SUFFICES ASSUME Init PROVE I
    OBVIOUS
  <2>1. RotationType /\ TurnsTaken
    BY ConsistentHashAssumption DEF Init, RotationType, TurnsTaken, Backends
  <2> QED
    BY <2>1, InitInOrder
<1>2. I /\ [Next]_vars => I'
  BY NextInOrder, NextRotationType, NextTurnsTaken
<1>3. I /\ [Next]_vars => [Fair]_vars
  <2> SUFFICES ASSUME I, Next PROVE Fair
    OBVIOUS
  <2> QED
    BY DealtIsFirst, NextIsDue
<1> HIDE DEF I
<1> QED
  BY <1>1, <1>2, <1>3, PTL DEF Spec, RoundRobinTurns

=============================================================================
