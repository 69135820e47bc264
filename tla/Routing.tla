------------------------------ MODULE Routing ------------------------------
(***************************************************************************)
(* How a load balancer reactor assigns its clients to backends, and the    *)
(* books it keeps: the two maps that lead from a descriptor to its pair,   *)
(* the sockets it owns and the counters of each Backend                    *)
(* (lb/LoadBalancer.cpp, lb/BackendPool.cpp).                              *)
(*                                                                         *)
(* The reactor is one thread and each handler is one step. What goes       *)
(* through a pair is the subject of Relay; here an event on a descriptor   *)
(* makes, moves, completes or ends the connection it belongs to. Since any *)
(* of these may happen to any open descriptor at any time, an event of a   *)
(* batch that is out of date when it is handled, because its descriptor    *)
(* was closed and has been given out again, is among them.                 *)
(***************************************************************************)
EXTENDS ConsistentHash

CONSTANTS
    MAX_CONNECTIONS,
    Fds,              \* descriptors the kernel may give out
    NoFd,             \* -1
    NoPair,           \* no entry in `connections`
    Ips,              \* client addresses
    ClientHash,       \* ClientHash[ip]: the hash of an address
    Layouts,          \* what the hashes of the virtual nodes may be
    MaxAttempts       \* bound: connections that are tried

Pair ==
    [client_ip : Ips,
     backend_fd : Fds \cup {NoFd},
     backend_index : Backends,
     backend_connecting : BOOLEAN,
     metrics_connection : BOOLEAN]

ASSUME RoutingAssumption ==
    /\ MAX_CONNECTIONS \in Nat
    /\ IsFiniteSet(Fds) /\ NoFd \notin Fds /\ NoPair \notin Pair
    /\ ClientHash \in [Ips -> Hashes]
    /\ Layouts \subseteq Layout
    /\ MaxAttempts \in Nat

VARIABLES
    connections,         \* client descriptor -> ConnectionPair
    backend_to_client,   \* backend descriptor -> client descriptor
    pool,                \* backend_pool
    next_backend_index,
    routing_mode,
    layout,              \* hashes of the virtual nodes of each backend
    ring,                \* consistent_hash
    running,
    open,                \* kernel: sockets that are open
    round                \* history: who has had a turn in this round

vars == <<connections, backend_to_client, pool, next_backend_index,
          routing_mode, layout, ring, running, open, round>>

Backend ==
    [healthy : BOOLEAN,
     connection_count : Nat, total_connections : Nat,
     failed_connections : Nat, failovers : Nat]

Clients == {c \in Fds : connections[c] # NoPair}

\* The clients that have a socket to backend b.
PairsOn(b) == {c \in Clients : /\ connections[c].backend_fd # NoFd
                               /\ connections[c].backend_index = b}

\* Every variable has its type, and there are never too many pairs.
TypeOK ==
    /\ connections \in [Fds -> Pair \cup {NoPair}]
    /\ backend_to_client \in [Fds -> Fds \cup {NoFd}]
    /\ pool \in [Backends -> Backend]
    /\ next_backend_index \in Backends
    /\ routing_mode \in {"round_robin", "consistent_hash"}
    /\ layout \in Layout
    /\ ring \in [Hashes -> 0 .. BackendCount]
    /\ running \in BOOLEAN
    /\ open \subseteq Fds
    /\ round \subseteq Backends
    /\ Cardinality(Clients) <= MAX_CONNECTIONS

Init ==
    /\ connections = [c \in Fds |-> NoPair]
    /\ backend_to_client = [f \in Fds |-> NoFd]
    /\ pool = [b \in Backends |->
                [healthy |-> TRUE, connection_count |-> 0, total_connections |-> 0,
                 failed_connections |-> 0, failovers |-> 0]]
    /\ next_backend_index = 0
    /\ routing_mode \in {"round_robin", "consistent_hash"}
    /\ layout \in Layouts
    /\ ring = Build(layout)
    /\ running = TRUE
    /\ open = {}
    /\ round = {}

-----------------------------------------------------------------------------
(* Events and the pairs they belong to. *)

IsBackendFd(fd) == backend_to_client[fd] # NoFd

ClientOf(fd) == IF IsBackendFd(fd) THEN backend_to_client[fd] ELSE fd

\* The event loop has found the pair for an event on fd.
EventOn(fd) ==
    /\ running
    /\ fd \in open
    /\ connections[ClientOf(fd)] # NoPair

Healthy == {b \in Backends : pool[b].healthy}

-----------------------------------------------------------------------------
(* handleAccept *)

HasRoom == Cardinality(Clients) < MAX_CONNECTIONS

\* A client beyond the limit, or one that epoll does not take, is closed at
\* once and leaves no trace. emplace() keeps an entry that is already there.
Accept(fd, ip) ==
    /\ running
    /\ fd \notin open
    /\ HasRoom
    /\ connections' =
         IF connections[fd] # NoPair THEN connections
         ELSE [connections EXCEPT ![fd] =
                 [client_ip |-> ip, backend_fd |-> NoFd, backend_index |-> 0,
                  backend_connecting |-> FALSE, metrics_connection |-> FALSE]]
    /\ open' = open \cup {fd}
    /\ UNCHANGED <<backend_to_client, pool, next_backend_index, routing_mode, layout, ring,
                   running, round>>

-----------------------------------------------------------------------------
(* Selection. *)

\* connectToBackend() and then epoll.add(): no socket, a socket that cannot be
\* watched, a connection that is being made, or one that is made.
Outcomes == {"refused", "unwatched", "connecting", "connected"}

Reached(outcome) == outcome \in {"connecting", "connected"}

\* Mutant of Selected: the index after the old one comes next, not the index
\* after the backend that was selected.
SelectedWithoutSkipping(next) ==
    LET ahead == {k \in Backends : (next + k) % BackendCount \in Healthy}
    IN IF ahead = {} THEN [index |-> BackendCount, next |-> next]
       ELSE [index |-> (next + Min(ahead)) % BackendCount,
             next |-> (next + 1) % BackendCount]

\* selectRoundRobinBackend(): the first healthy one from next on.
Selected(next) ==
    LET ahead == {k \in Backends : (next + k) % BackendCount \in Healthy}
        index == (next + Min(ahead)) % BackendCount
    IN IF ahead = {} THEN [index |-> BackendCount, next |-> next]
       ELSE [index |-> index, next |-> (index + 1) % BackendCount]

\* What the ring has for a client; BackendCount if there is nothing on it.
OnRing(ip) == GetBackend(ring, ClientHash[ip], Healthy)

\* The index an attempt of connectClientToBackend() goes for, given the state s
\* of its loop; BackendCount if there is none.
Pick(s, ip, first) ==
    LET alternates == Healthy \ s.attempted
    IN CASE routing_mode = "round_robin" -> Selected(s.next)
         [] routing_mode # "round_robin" /\ first -> [index |-> OnRing(ip), next |-> s.next]
         [] routing_mode # "round_robin" /\ ~first ->
              [index |-> IF alternates = {} THEN BackendCount ELSE Min(alternates),
               next |-> s.next]

\* One attempt: a backend that has been tried is passed over.
Attempt(s, index, outcome) ==
    IF s.chosen # BackendCount \/ index \notin Healthy \ s.attempted THEN s
    ELSE [s EXCEPT !.attempted = @ \cup {index},
                   !.chosen = IF Reached(outcome[index]) THEN index ELSE @]

NoAttempt == [chosen |-> BackendCount, attempted |-> {}, next |-> next_backend_index]

\* hasHealthyBackend() says no, or selectBackend() finds nothing: there is no
\* attempt at all.
Unserved(ip) ==
    \/ Healthy = {}
    \/ routing_mode # "round_robin" /\ OnRing(ip) = BackendCount

\* Mutant of ConnectLoop: one attempt too few.
ConnectLoopShort(ip, outcome) ==
    LET loop[i \in 0 .. BackendCount] ==
          IF i = 0 THEN NoAttempt
          ELSE LET s == loop[i - 1]
                   pick == Pick(s, ip, i = 1)
               IN IF s.chosen # BackendCount THEN s
                  ELSE [Attempt(s, pick.index, outcome) EXCEPT !.next = pick.next]
    IN IF Unserved(ip) THEN NoAttempt ELSE loop[Max({1, BackendCount - 1})]

\* The loop of connectClientToBackend().
ConnectLoop(ip, outcome) ==
    LET loop[i \in 0 .. BackendCount] ==
          IF i = 0 THEN NoAttempt
          ELSE LET s == loop[i - 1]
                   pick == Pick(s, ip, i = 1)
               IN IF s.chosen # BackendCount THEN s
                  ELSE [Attempt(s, pick.index, outcome) EXCEPT !.next = pick.next]
    IN IF Unserved(ip) THEN NoAttempt ELSE loop[BackendCount]

\* The loop of failoverConnection(): from the backend after the failed one on.
FailoverLoop(failed, outcome) ==
    LET loop[i \in 0 .. BackendCount] ==
          IF i = 0 THEN NoAttempt
          ELSE LET index == (failed + i) % BackendCount
               IN IF index = failed THEN loop[i - 1]
                  ELSE Attempt(loop[i - 1], index, outcome)
    IN loop[BackendCount]

-----------------------------------------------------------------------------
(* Counters. *)

\* connection_count goes down, but not below zero.
OneLess(n) == IF n > 0 THEN n - 1 ELSE n

\* Mutant of Counted: a connection that cannot be watched stays counted.
CountedUnwatched(backends, s, outcome, moves) ==
    [b \in Backends |->
       LET got == b \in s.attempted /\ outcome[b] # "refused"
       IN [backends[b] EXCEPT
             !.connection_count = IF got THEN @ + 1 ELSE @,
             !.total_connections = IF got THEN @ + 1 ELSE @,
             !.failed_connections = IF b \in s.attempted /\ ~got THEN @ + 1 ELSE @,
             !.failovers = IF b = s.chosen THEN @ + moves ELSE @]]

\* What the attempts of a loop leave in the counters: a socket counts even if it
\* cannot be watched, but then not as a connection.
Counted(backends, s, outcome, moves) ==
    [b \in Backends |->
       LET got == b \in s.attempted /\ outcome[b] # "refused"
       IN [backends[b] EXCEPT
             !.connection_count = IF b = s.chosen THEN @ + 1 ELSE @,
             !.total_connections = IF got THEN @ + 1 ELSE @,
             !.failed_connections = IF b \in s.attempted /\ ~got THEN @ + 1 ELSE @,
             !.failovers = IF b = s.chosen THEN @ + moves ELSE @]]

\* The books without backend_fd of a pair that is on backend b.
Released(b) == [pool EXCEPT ![b].connection_count = OneLess(@)]

\* Mutant of Unmapped: the entry of a closed socket stays.
UnmappedLater(fd) == backend_to_client

Unmapped(fd) == IF fd = NoFd THEN backend_to_client
                ELSE [backend_to_client EXCEPT ![fd] = NoFd]

\* Bound.
Tried == MapThenSumSet(LAMBDA b : pool[b].total_connections + pool[b].failed_connections,
                       Backends)

-----------------------------------------------------------------------------
(* Handlers. *)

\* The pair of client c gets socket fd to backend b.
Assigned(c, fd, b, connecting) ==
    [connections EXCEPT ![c].backend_fd = fd, ![c].backend_index = b,
                        ![c].backend_connecting = connecting]

\* A complete round gives way to the next one; anything but a backend that takes
\* its turn at the first attempt starts the count anew.
NextRound(s) ==
    IF s.attempted # {s.chosen} THEN {}
    ELSE IF Healthy \subseteq round \cup {s.chosen} THEN {}
    ELSE round \cup {s.chosen}

\* First request of a client, and connectClientToBackend(); without a backend
\* the client is closed.
ConnectClient(c) ==
    /\ EventOn(c) /\ ~IsBackendFd(c)
    /\ connections[c].backend_fd = NoFd /\ ~connections[c].metrics_connection
    /\ Tried < MaxAttempts
    /\ \E outcome \in [Healthy -> Outcomes] :
         LET s == ConnectLoop(connections[c].client_ip, outcome) IN
         /\ \/ /\ s.chosen \in Backends
               /\ \E fd \in Fds \ open :
                    /\ connections' = Assigned(c, fd, s.chosen, outcome[s.chosen] = "connecting")
                    /\ backend_to_client' = [backend_to_client EXCEPT ![fd] = c]
                    /\ open' = open \cup {fd}
            \/ /\ s.chosen \notin Backends
               /\ connections' = [connections EXCEPT ![c] = NoPair]
               /\ open' = open \ {c}
               /\ UNCHANGED backend_to_client
         /\ pool' = Counted(pool, s, outcome, 0)
         /\ next_backend_index' = s.next
         /\ round' = IF s.attempted = {} THEN round ELSE NextRound(s)
    /\ UNCHANGED <<routing_mode, layout, ring, running>>

\* The first request is for the metrics.
TakeMetrics(c) ==
    /\ EventOn(c) /\ ~IsBackendFd(c)
    /\ connections[c].backend_fd = NoFd /\ ~connections[c].metrics_connection
    /\ connections' = [connections EXCEPT ![c].metrics_connection = TRUE]
    /\ UNCHANGED <<backend_to_client, pool, next_backend_index, routing_mode, layout, ring,
                   running, open, round>>

\* The backend's socket is writable and SO_ERROR is 0.
Connected(fd) ==
    /\ EventOn(fd) /\ IsBackendFd(fd)
    /\ connections[ClientOf(fd)].backend_connecting
    /\ connections' = [connections EXCEPT ![ClientOf(fd)].backend_connecting = FALSE]
    /\ UNCHANGED <<backend_to_client, pool, next_backend_index, routing_mode, layout, ring,
                   running, open, round>>

\* Mutant of OpenWithout: the socket of a failed attempt is forgotten.
OpenWithNothing(fd) == open

OpenWithout(fd) == open \ {fd}

\* The connection could not be made: failoverConnection(). The next backend may
\* be given the descriptor that has just been closed.
FailoverConnection(fd) ==
    LET c == ClientOf(fd)
        old == connections[c].backend_fd
        failed == connections[c].backend_index
        released == [Released(failed) EXCEPT ![failed].failed_connections = @ + 1]
    IN
    /\ EventOn(fd) /\ IsBackendFd(fd)
    /\ connections[c].backend_connecting
    /\ Tried < MaxAttempts
    /\ \E outcome \in [Healthy -> Outcomes] :
         LET s == FailoverLoop(failed, outcome) IN
         /\ \/ /\ s.chosen \in Backends
               /\ \E new \in Fds \ OpenWithout(old) :
                    /\ connections' = Assigned(c, new, s.chosen, outcome[s.chosen] = "connecting")
                    /\ backend_to_client' = [Unmapped(old) EXCEPT ![new] = c]
                    /\ open' = OpenWithout(old) \cup {new}
            \/ /\ s.chosen \notin Backends
               /\ connections' = [connections EXCEPT ![c] = NoPair]
               /\ backend_to_client' = Unmapped(old)
               /\ open' = OpenWithout(old) \ {c}
         /\ pool' = Counted(released, s, outcome, 1)
    /\ UNCHANGED <<next_backend_index, routing_mode, layout, ring, running, round>>

\* closeConnection(), for whatever reason and from either side.
CloseConnection(fd) ==
    LET c == ClientOf(fd)
        b == connections[c].backend_fd
    IN
    /\ EventOn(fd)
    /\ connections' = [connections EXCEPT ![c] = NoPair]
    /\ backend_to_client' = Unmapped(b)
    /\ pool' = IF b = NoFd THEN pool ELSE Released(connections[c].backend_index)
    /\ open' = open \ {b, c}
    /\ UNCHANGED <<next_backend_index, routing_mode, layout, ring, running, round>>

\* A verdict of the health checker on backend b.
HealthVerdict(b) ==
    /\ running
    /\ pool' = [pool EXCEPT ![b].healthy = ~@]
    /\ round' = {}
    /\ UNCHANGED <<connections, backend_to_client, next_backend_index,
                   routing_mode, layout, ring, running, open>>

\* The reactor stops: closeAllConnections().
CloseAllConnections ==
    LET count(b) == Cardinality(PairsOn(b))
    IN
    /\ running
    /\ running' = FALSE
    /\ open' = open \ (Clients \cup {connections[c].backend_fd : c \in Clients})
    /\ pool' = [b \in Backends |->
                  [pool[b] EXCEPT !.connection_count =
                     IF @ > count(b) THEN @ - count(b) ELSE 0]]
    /\ connections' = [c \in Fds |-> NoPair]
    /\ backend_to_client' = [f \in Fds |-> NoFd]
    /\ UNCHANGED <<next_backend_index, routing_mode, layout, ring, round>>

Next ==
    \/ \E fd \in Fds, ip \in Ips : Accept(fd, ip)
    \/ \E fd \in Fds : ConnectClient(fd)
    \/ \E fd \in Fds : TakeMetrics(fd)
    \/ \E fd \in Fds : Connected(fd)
    \/ \E fd \in Fds : FailoverConnection(fd)
    \/ \E fd \in Fds : CloseConnection(fd)
    \/ \E b \in Backends : HealthVerdict(b)
    \/ CloseAllConnections

Spec == Init /\ [][Next]_vars

-----------------------------------------------------------------------------
(* Properties. *)

(***************************************************************************)
(* A backend's descriptor leads to the pair that owns it and to no other,  *)
(* whatever was closed and reused in between: an event never reaches       *)
(* another client's pair, nor a data buffer the wrong peer.                *)
(***************************************************************************)
MapsAgree ==
    \A fd, c \in Fds :
        backend_to_client[fd] = c <=>
            connections[c] # NoPair /\ connections[c].backend_fd = fd

(***************************************************************************)
(* The reactor owns exactly the sockets of its pairs, each in one role: no *)
(* path through a failed attempt, a failover or a shutdown leaks one or    *)
(* closes one that is in use.                                              *)
(***************************************************************************)
SocketsOwned ==
    LET backendFds == {connections[c].backend_fd : c \in Clients} \ {NoFd}
    IN open = Clients \cup backendFds /\ Clients \cap backendFds = {}

(***************************************************************************)
(* connection_count, which the metrics report, is the number of pairs that *)
(* are on the backend; the tests against zero are never needed.            *)
(***************************************************************************)
CountsMatch ==
    \A b \in Backends :
        pool[b].connection_count = Cardinality(PairsOn(b))

\* Backend b has been tried in this step.
WasTried(b) ==
    \/ pool'[b].failed_connections > pool[b].failed_connections
    \/ pool'[b].total_connections > pool[b].total_connections

\* The nodes of backend b that no earlier backend has taken.
OwnNodes(b) == layout[b] \ UNION {layout[x] : x \in 0 .. b - 1}

\* The backends a hash may lead to: all that are healthy, but one that is listed
\* a second time has no nodes.
Eligible == {b \in Healthy : OwnNodes(b) # {}}

(***************************************************************************)
(* A client is turned away for want of a backend only after every healthy  *)
(* backend has been tried, wherever the rotation stood and whatever the    *)
(* ring begins with, unless nothing on the ring is healthy.                *)
(***************************************************************************)
NoBackendOverlooked ==
    [][\A fd \in Fds :
         /\ connections[ClientOf(fd)] # NoPair /\ connections'[ClientOf(fd)] = NoPair
         /\ \/ ConnectClient(fd) /\ (routing_mode = "round_robin" \/ Eligible # {})
            \/ FailoverConnection(fd)
         => \A b \in Healthy : WasTried(b)]_vars

\* A new client has got backend b at the first attempt.
Dealt(b) ==
    /\ pool'[b].connection_count > pool[b].connection_count
    /\ pool'[b].failovers = pool[b].failovers
    /\ \A x \in Backends \ {b} : pool'[x] = pool[x]

(***************************************************************************)
(* Round robin: among backends that stay healthy and reachable nobody gets *)
(* a second client before everybody has had one, sick backends in between  *)
(* and failovers notwithstanding.                                          *)
(***************************************************************************)
RoundRobinTurns ==
    [][routing_mode = "round_robin" =>
         \A b \in Backends : Dealt(b) => b \notin round]_vars

\* How far node h is from a hash, clockwise.
Clockwise(hash, h) == IF h >= hash THEN h - hash ELSE h + HashSize - hash

(***************************************************************************)
(* getBackend() returns the backend of the closest node clockwise of a     *)
(* hash whose backend is healthy, across the end of the ring, over nodes   *)
(* of sick backends and where backends collide; and it finds nothing only  *)
(* if there is no such node.                                               *)
(***************************************************************************)
ClosestNode ==
    \A hash \in Hashes :
        LET b == GetBackend(ring, hash, Healthy)
        IN IF Eligible = {} THEN b = BackendCount
           ELSE /\ b \in Eligible
                /\ \E h \in OwnNodes(b) :
                     \A x \in Eligible : \A g \in OwnNodes(x) : Clockwise(hash, h) <= Clockwise(hash, g)

(***************************************************************************)
(* When backends fall sick or recover, a hash moves only away from one     *)
(* that has fallen sick or to one that has recovered: the clients of all   *)
(* other backends stay where they are.                                     *)
(***************************************************************************)
RingMovesFew ==
    [][ring' # ring \/ Healthy' # Healthy =>
         \A hash \in Hashes :
           LET old == GetBackend(ring, hash, Healthy)
               new == GetBackend(ring', hash, Healthy')
           IN new # old => old \in Healthy \ Healthy' \/ new \in Healthy' \ Healthy]_vars
=============================================================================
