# Verification of AORTA

AORTA is an HTTP server and a load balancer in C++. Both are built on
level-triggered epoll loops ("reactors"); the server adds a pool of worker
threads for requests that need Redis. This directory holds TLA+ models of the
parts that carry its concurrency, failure and resource logic, the TLC runs that
check them on small instances, and TLAPS proofs of what matters most for every
instance.

`PROJECT.json` lists the components, the runs, the lines of the source each
definition stands for, the mutants that show each property can fail, the
hazards and the theorems.

## 1. Inventory

| Component (source) | State | Operations | What is hard | Model |
|---|---|---|---|---|
| WorkerPool (`worker/`) | job queue, condition variable, per reactor a completion queue and an eventfd, `stopping` | submit, worker loop, consumeCompletionEvent, popCompletion, stop | lost wake-ups, unannounced completions, stop against queued jobs, the queue's limit, jobs that throw | `WorkerPool`, contract `AsyncCalls` |
| Reactor + Connection (`server/Reactor`, `net/Connection`) | connections by descriptor with input buffer, output queue, event mask, deadline, pending flag and generation | accept, read and parse, dispatch, complete an asynchronous request, write, deadlines, remove | late completions after a descriptor is reused, input while a call is out, stalled output, several events of a batch on one connection | `Reactor` |
| Server (`server/Server`) | the running flag, threads | start, signal, join, stop of the pool | order of shutdown | in `WorkerPool` |
| LoadBalancer, one pair (`lb/LoadBalancer`) | two sockets, two buffers, half-close flags, masks | peek, metrics, connect, forward, drain, flush, half-close, close, failover | ends and data reported together, slow peers, half-closes, failover with a buffered request | `Relay` |
| LoadBalancer, all pairs | `connections`, `backend_to_client`, descriptors, counters, rotation index | accept, select, connect, failover, close, stop | reuse of descriptors across roles, counters on every failure path, rotation over sick backends | `Routing` |
| HealthChecker (`lb/HealthChecker`) | per backend a check with state, socket, deadline; healthy flag and failure counter | start a round, handle an event, expire, cancel | answer and hang-up in one event, stale events, names that take long to resolve, deadlines against the interval, how long a change goes unnoticed | `HealthChecker`, `HealthTiming` |
| BackendPool | backends and their counters | select | skipping sick backends | in `Routing` |
| ConsistentHash (`lb/ConsistentHash`) | the ring of virtual nodes | build, getBackend | the end of the ring, sick nodes, equal hashes, who moves when a backend is lost | `ConsistentHash` |
| Task handlers of HttpHandler, TaskManager, RedisClient (`http/`, `task/`, `redis/`) | per worker a Redis connection; in Redis a counter, a hash per task and the set of identifiers | list, create, update, remove; connect and reconnect | commands that time out and are carried out all the same, restarts of Redis, updates racing removals, one answer for two kinds of failure | `TaskStore`, contract `TaskService` |
| HttpParser (`http/HttpParser`) with the receive buffer of Connection | state, cursor, sizes and counts, the request so far | read, parse, consume, reset | input cut anywhere, limits of lines, headers, bodies and chunks, requests that pile up | `HttpParser` |
| HttpRouter, other handlers | routes | handle | what is synchronous and what is not | as request kinds in `Reactor` |
| StaticFileHandler, HTTP messages, Metrics, BackendConfig | - | formatting, file I/O, counters | - | not modelled |
| Epoll, Socket, TimerFd | kernel | system calls | - | environment actions and outcomes |

How they interact: a server reactor submits jobs to the shared pool with a
closure that holds descriptor and generation; a worker runs the job, pushes the
closure's result to that reactor's completion queue and writes its eventfd; the
reactor then answers the connection if it is still the same one. A load
balancer reactor owns its backends, pairs and health checks alone; the only
link between the checker and the routing is the `healthy` flag.

What makes each part correct: the pool neither loses nor repeats a job and
never lets work or a completion wait unnoticed; the reactor gives every client
its own answers in order and gets rid of every connection; the relay delivers
all data before an end and never loses part of a request; the routing's books
match reality and no healthy backend is overlooked; the ring leads to the
closest healthy node and moves no client without need; the checker's flag reflects
two failures in a row, within the interval; the task store is one atomic map
whatever happens to Redis, up to calls that were reported as failed; and what
the parser makes of a stream does not depend on how the network cut it.

## 2. Modules and the code

**WorkerPool** has one process per worker, per reactor and the main thread.
`jobs`, `completions`, `events` (the eventfds) and `stopping` are the shared
state. Steps are split where another thread can come in between: around the
mutex (take, run, push) and between pushing a completion and writing the
eventfd. The condition variable is modelled with its waiters, `notify_one`,
`notify_all` and spurious wake-ups. `submit` accepts or refuses; work returns
or throws; `stop` is begin, notify, join, clear.

**AsyncCalls** is the contract: a call is accepted or refused, ends once or
fails silently, is delivered to the reactor that made it in the order of
publication, and after closing nothing new is accepted. `WorkerPool`
implements it (`ImplementsAsyncCalls`), and `Reactor` uses it in place of the
pool.

**Reactor** walks through a batch of events with the order of the checks in
`handleEvent`; a handler that loops (read, parse) has a step per iteration.
Requests have kinds (synchronous, file, asynchronous, incomplete, bad) instead
of text. Removal, the event mask, deadlines and the gauge are as in the code.

**HealthChecker** has a check per backend with the states of the code, counted
time, and events with all flags epoll may report together. `AfterEvent`,
`AfterConnect`, `AfterWrite`, `AfterRead`, `AfterHangup` follow the handlers
with their fall-through. Stale events (a descriptor that was reused within a
batch) are an action of their own. A round takes time: `Start` reads the timer,
`Probe` is one turn of the loop in `start()`, and `Resolve` is a tick in which
`getaddrinfo` blocks the reactor, between two turns or, outside `start()`, for a
client on its way to a backend. Deadlines and the periodic timer run on
meanwhile, and `expire()` may then fail checks whose answers nobody has looked
at. `held` counts the ticks since the timer expired that were spent this way.

**HealthTiming** is `HealthChecker` with a clock per watched backend, which
counts the ticks since the backend last went or came back or was disturbed, and a
record of its spoilt checks. A backend that is up is disturbed by a stale event
that moves its check and by any `Resolve`; a check is spoilt by such an event, or
by a `Resolve` that its deadline passes in; a round that is lost, because checks
are still active or the timer expires twice before it is read, starts every clock
anew. Clocks and records watch and never restrict a step (`ClocksWatch`); they
turn "is detected" into a number.

**Relay** follows one pair through the body of the event loop with a step per
stage: checks, peek, forward, drain, connect result, flush, settle. Data is
counted in chunks. The kernel's reports are computed from the state of the
sockets: a peer that is gone shows `RDHUP`, and `HUP` as well once the
reactor has shut down its own side, whatever the mask says. `epoll_ctl` may
fail; `blind` remembers it, because the code then keeps the old mask.

**Routing** makes each handler one step over all pairs. The loops of
`connectClientToBackend` and `failoverConnection` are functions of the
outcomes of the attempts; each attempt may be refused, get a socket that
cannot be watched, be in progress or succeed. Descriptors are given out
arbitrarily among the closed ones. Since any open descriptor may see any event
at any time, stale events need no action of their own.

**ConsistentHash** has the ring that `Routing` looks clients up on. What FNV-1a
makes of a name is left open: the nodes of a backend are any set of hashes, and
those of two backends may overlap, or be the same if the configuration lists a
host and port twice. `Build` adds them backend by backend and keeps what is
there, as `emplace` does; `GetBackend` is the loop over the ring, from
`LowerBound` from node to node, with the wrap-around, back to its start.

**TaskStore** follows a call from the handler through the pool's queue and a
worker's connection to Redis and back. `EnsureConnected`, `Send`, `Receive` and
`Fail` are the steps of a RedisClient method; the scripts (`createTask`,
`updateTask`, `removeTask`) and the `SORT` of `getAllTasks` are atomic, as they
are in Redis. Redis may stall, refuse a command, go down and come back with its
data, and a connection may be cut; the worker's context then has an error only
once it is used (`context` against `link`). A command that was sent when its
worker gave up may have been lost or may lie before Redis (`loose`), to be
carried out at any later time. Text is a title or none and a flag that is true,
false or neither.

**TaskService** is the contract: one map of tasks. A call takes effect at most
once, between its invocation and its answer, and is answered with what it did;
or it is answered as failed (503 for listing and creating, 404 for updating and
removing), and then may have taken effect, may do so once later, or never.
`TaskStore` implements it (`ImplementsTaskService`).

**HttpParser** has the members of the class and the receive buffer of the
connection. `Parse` is one pass through the loop of `parse()` and, when that
returns, what `handleClient` does with the result. A line is a class of lines
(its letter) and a length; CR and LF are bytes like others, and may stand where
they do not belong. `Reference` folds the bytes read so far into a second
parser, which takes one byte at a time and has no buffer or cursor.

`MCWorkerPool`, `MCReactor`, `MCHealthTiming`, `MCRelay`, `MCRouting`,
`MCTaskStore` and `MCHttpParser` give the constants values. Definitions called "Mutant of X" are not part of the
model; substituted for X they must make the property in `PROJECT.json` fail.

## 3. Runs

| Run | Instance | Shows |
|---|---|---|
| worker_pool | 3 workers, 2 reactors, 3 jobs, queue of 2 | conservation of jobs, no unannounced completion, no lost wake-up, stop drains, accepted jobs end, shutdown terminates, refinement of `AsyncCalls` |
| reactor | 2 descriptors, 2 clients one after the other, 2 asynchronous requests (one asks to close) and 1 synchronous, output queue of 2 | answers in order and to the right client, one call per connection, masks, the gauge; events of a batch affect each other |
| reactor_liveness | 1 client; asynchronous, file, incomplete and bad requests | every connection ends |
| reactor_pipelined | 1 client, an asynchronous and a synchronous request | **violation**, see below |
| health | 2 backends, 1 stale event, interval of 4, time-outs of 1, a tick of resolving per round, a clock on one backend | flag and counter, rounds, what it takes to put out a backend that is up, how long a backend that goes is still routed to and one that returns is not, changes are detected |
| relay | requests and responses of 2 chunks, buffers and sockets of 1, 1 failover | nothing lost, ends after data, no stalled output, responses are delivered with their end, the pair ends |
| relay_halfclose | response of 2 chunks | **violation**, see below |
| routing | 3 backends, 2 clients, 4 descriptors, attempts up to 3, two rings of 5 hashes | maps, sockets and counters agree; all healthy backends are tried; the rotation is fair; the closest healthy node is found, and a verdict moves few |
| task_store | 2 workers, 2 open calls, queue of 1, 8 kinds of requests on 2 tasks, 2 faults | index and hashes agree, removed tasks stay removed, refinement of `TaskService` |
| task_store_liveness | 2 workers, 2 open calls, 2 faults | every call is answered, workers recover |
| http_parser | 8503 streams, reads of 1 to 9 bytes, lines of 2, headers of 9, bodies of 3, buffer of 10 | the cuts do not matter, limits hold, the buffer is never full |
| http_parser_limit | lines at the limit | **violation**, see below |

Why the bounds are enough to be interesting: three workers and three jobs
let a notification be consumed by the wrong worker while others sleep; two
clients on one descriptor are what reuse needs; two descriptors are the least
for one event to remove the other's connection; buffers and windows of one
chunk make two chunks stall; three backends with one sick are the least for a
rotation to skip; four descriptors let a backend's descriptor return as a
client's; on a ring of five hashes with three or four nodes a search begins at,
between and behind them, two backends share a node, and in one of the two rings
the third backend is the second one listed again; two workers and two faults let an update be abandoned, its task be
removed by the other worker and the update be carried out then; the streams of
the parser have lines of one less than, exactly and one more than the limits,
up to three headers where two are allowed and up to four chunk parts; a read
can end before, in and after every CR LF, or take a request and part of the
next, so that requests behind asynchronous ones pile up to the buffer's size; a
tick of resolving is the whole of a time-out, so that it can spoil a check of a
backend that is up, and the rest of the interval, so that a round can be lost
(two expirations before the timer is read need more, and are left to the proofs).
Counters that only grow are bounded by named constants
(`MaxClients`, `MaxRequest`, `MaxResponse`, `MaxFailovers`, `MaxAttempts`,
`MaxStale`, `MaxHeld`, `MaxTasks`, `MaxOutages`), and `FailureCap` saturates the failure counter above the
threshold the code compares it with.

Deadlock is checked except in `routing`, where the reactor stops for good and
the bound on attempts may end a behaviour.

### Three disagreements

*reactor_pipelined.* `handleClient` returns when it has handed a request to a
worker (Reactor.cpp:344). A further request that came in the same read stays
in the connection's buffer; the completion does not parse it, and the socket
has nothing left for epoll to report. `benchmarks/README.md:102-106` describes
parser state that "resets for keep-alive/pipelined requests". The synchronous
case does work, and is what the regression tests.

*relay_halfclose.* A client sends its request and half-closes; the balancer
passes the end on; the backend answers and closes. From then on `EPOLLHUP` is
reported for the backend's socket unconditionally. If the client is slow,
`backend_read_closed` has removed `EPOLLIN` from the mask while the rest of the
response is buffered, so the next event is a hang-up without input and
`closeConnection` drops the buffer (LoadBalancer.cpp:268-288).
`benchmarks/REPORT.md:118-125` reports the truncation of buffered responses as
fixed. It is for a client that keeps its side open until it has its response:
`ResponseDelivered` shows that it gets all of it and is told of its end, however
slowly it reads, unless a peer resets, a buffer overflows or `epoll_ctl` fails.
For the others, `LossConfined` (section 5) says that the case above is the only
one: no other ending in order loses anything, and what this one loses is in the
balancer's buffer.

*http_parser_limit.* `README.md:212-218` gives the parser's limits and says
that it "supports incremental parsing". A complete line is measured without its
CR LF, an incomplete one with whatever has arrived of it (HttpParser.cpp:153
and 225). A line of exactly 8 KiB passes if its CR and LF come in one read and
closes the connection if the read ends between them. `CutsDoNotMatter` shows
that this, and the trailers below, are the only influence of the cuts.

### Observations

Not contradicted by anything the repository says, but worth knowing:

- After a restart of Redis the first command of each worker fails, and is not
  repeated: `ensureConnected` cannot see that the connection is dead.
  `Recovers` shows that the second does not.
- An update that timed out may be carried out after a later one was
  acknowledged, and a creation that was answered with 503 may have created a
  task, so that a client that repeats it creates two. `TaskService` allows
  both; it does not allow a call that succeeded to happen again, nor a removed
  task to return.
- A backend that is configured twice has no nodes of its own for its second
  entry. If its first entry is marked sick while the second is not, and no other
  backend is healthy, consistent hashing turns clients away without an attempt,
  where round robin would not (`NoBackendOverlooked` leaves this case out, and
  `ClosestNode` says precisely when the ring has nothing).
- Names are resolved by the reactor's own thread, for every check and every
  client. A name server that takes longer than 500 ms lets `expire()` fail the
  checks that are running, of any backend; two such rounds in a row put out
  backends that are up. `SteadyBackendStaysHealthy` shows that it takes no less.
- Updating or removing a task answers 404 when Redis is unreachable.
- Trailer lines longer than the limit of a header line are accepted if they
  arrive whole and refused otherwise.
- `BufferFull` cannot occur (`RequestsBounded`): the line limits are below the
  size of the buffer, bodies are consumed as they arrive, and a buffer filled
  with pipelined requests loses one before the next read.

## 4. Fairness

- WorkerPool: every thread keeps being scheduled, jobs terminate (each Redis
  call has a time-out), `epoll_wait` returns at least once a second (timer).
  No request, signal or spurious wake-up is owed.
- Reactor: the reactor thread runs and time passes; neither clients nor
  workers owe anything, so that connections must end by their deadlines.
- HealthChecker: the loop runs, names are resolved in the end (`Probe`), time
  passes, and a backend that is up answers. That a backend returns for good is
  claimed if from some moment on no round is held up by resolving (`held = 0`).
  Detection is claimed for behaviours in which backends change finitely often
  (`ChangesEnd`): nothing else in the model limits how often another backend
  changes between two ticks of the clock.
- TaskStore: workers go on with their jobs, and Redis carries out what it has
  received while it is up. It owes nobody to come back from a stall or a crash,
  so calls must end by the time-outs of `connect` and of commands. `Recovers`
  is about behaviours in which Redis stays up from some moment on.
- Relay: the reactor runs, connection attempts are answered in the end, both
  peers read what they are sent, and a backend that sees the end of its client
  ends too. The client owes nobody its end.

## 5. Proofs

`WorkerPoolProofs` (any finite sets of workers and jobs, any reactors):

- `TypeCorrect`: types and the queue's limit.
- `CompletionsAnnounced`: `NoStrandedCompletion` is inductive with the types; the
  argument is by cases on the steps between push and write, and between read
  and the pop that finds nothing.
- `NoLostWakeup`: `WorkConserving` (if anybody sleeps, the awake are at least
  as many as the queued jobs) is inductive; the lemmas `AwakeGrows` and
  `AwakeShrinks` carry the counting.
- `StopRunsAcceptedJobs`: needs two strengthenings, `Accounted` (every accepted
  job is in the queue, with a worker or published) and `ExitOrder` (a worker
  exits only when stopping and the queue is empty, and nothing is accepted
  then).
- `JobsConserved`: `JobConservation` counts places, which the provers do not
  follow through a step. `PlaceInv` says the same without counting: `Accounted`
  (an accepted job has a place) and `OnceInv` (no deque holds a job twice, no two
  workers hold the same, a published job is in its own reactor's queue, and the
  three kinds of place exclude one another). The count follows at the end.
- `PoolImplementsCalls`: the pool implements `AsyncCalls`, except for its
  fairness. Publishing appends to the channel because the job was in no channel
  before (`PlaceInv`); closing needs `ReactorsGone` (`stop` begins after the
  reactors have returned) and `ExitOrder`.

`HealthCheckerProofs` (any finite set of backends, any of them watched, any
time-outs with
`CONNECT_TIMEOUT + 2 * RESPONSE_TIMEOUT < HEALTH_CHECK_INTERVAL`, any time spent
resolving; 500 ms, 500 ms and 5 s in the code):

- `TypeCorrect`: that `held` stays within its bound when a round takes over what
  has passed since the timer expired needs `UnreadInv`: until the timer is read,
  time passes only in `getaddrinfo`.
- `FlagFollowsCounter`: from lemmas on `Verdicts`.
- `NoRoundSkipped`: `RoundsDoNotOverlap` is not inductive. `RoundInv` bounds the
  time since the timer expired for this round (`Elapsed`) and what a check may
  still take by the budget of its phase and `held`. The property follows because
  the budget of the last phase and `held` are below the interval.
- `SteadyStaysHealthy`: the property speaks of the flag; `SpoiltInv` bounds the
  failures in a row of a backend by its spoilt checks, and says that a check past
  its deadline is spoilt and not yet counted. It rests on two facts: time does not
  pass in `epoll_wait` while a backend that is up is being asked, and a hang-up that
  comes with its answer finds the check reading (`ChecksInv`), so that the answer
  counts first (`UpNeverFails`).
- `OutageEnds`: a backend that is gone is out of rotation after
  `2 * HEALTH_CHECK_INTERVAL + CONNECT_TIMEOUT + 2 * RESPONSE_TIMEOUT` (11.5 s
  in the code) and `held`, whatever it did before and whenever it went, if no
  round is lost. It bounds, indirectly, how long a client is passed between
  backends that cannot be reached but are still marked healthy: the failover loop,
  which is in `Routing` and has no clock, takes only healthy ones. `TimingInv`
  compares a backend's clock with `Elapsed`: gone for longer than the round, it has
  no answer in its socket and the round counts against it once its check has ended;
  each interval more stands for a failure before. A check that is still running is
  within `RoundInv`, which gives the last terms of the sum.
- `ReturnNoticed`: a backend that is back is in rotation after one undisturbed
  interval. The other half of `TimingInv`: the first round in that time asks it as
  soon as the timer expires, time stands still until it has answered, and its check
  cannot have expired because its deadline is newer than the last disturbance.

`ReactorProofs` (any finite set of descriptors, any requests, clients, time-outs
and queue limit; `NoConnAssumption` says that the value for "no connection" is
not a connection):

- `TypeCorrect`, `GaugeExact`: neither is inductive. `CoreInv` has both, and that
  a handler beyond its look-up works on a connection that exists and has no
  call out, that there are generations left for the clients in the backlog, and
  that the channel holds accepted calls, each once.
- `OneCallOut`: `CallInv` adds that a generation is given to one connection and
  is never ahead of the counter (`OwnGeneration`), so that a new connection meets
  no old call, and states the property without counting (`OneCall`).
- `MasksMatch`: the masks are only right between handlers. `MaskInv` says what
  holds inside them, where output may be queued before the mask is changed.
- `AnswersOrdered`: `AnswerInv` accounts for all that a client asked: what was
  sent, then what is queued, then the request a worker has, then the complete
  requests that are not parsed, are together the complete requests it sent, in
  order. Each handler moves one item from one part to the next. What `Complete`
  does to a longer sequence is by induction over its length.

`RelayProofs` (any window, buffer limit and numbers of chunks and failovers):

- `TypeCorrect`: types, and no buffer beyond `MAX_BUFFER_SIZE`.
- `NoChunkLost`, `EndsFollowData`, `LossIsConfined`, `OutputIsWatched`: one
  invariant, `RelayInv`, because they need one another. `NothingLost` survives a
  failover only if nothing has gone to the failed backend (`ConnectingIsFresh`);
  an end follows the data only if end of file was read after the last chunk
  (`ReadClosedAtEnd`); a hang-up closes in order only if the flags of an event
  that may be out of date still mean what they meant (`BatchSound`).
  `LossIsConfined` is about the pairs that end in order (`done` or a hang-up, no
  error, reset, overflow, failed `epoll_ctl` or shutdown): that comes after the client's own
  end and after the whole response was read, and only a hang-up of the backend after
  both ends were passed on leaves part of the response in the buffer. It is stated in
  `RelayProofs` and in no run.

`RoutingProofs` (any number of backends, any finite set of descriptors, any
limit, any size of the ring and any nodes on it; descriptors are given out
arbitrarily):

- `EventsFindTheirPair` and `NoSocketLeaks`: neither `MapsAgree` nor
  `SocketsOwned` is inductive alone, since a stale entry does harm only when
  its descriptor is given out again. `InOrder` joins them with the types, with
  `Own` in place of `SocketsOwned`: an open descriptor is a key of exactly one
  of the two maps. All handlers are instances of three lemmas: a pair goes
  (`GoneInOrder`), a pair gets a socket in place of the one it had
  (`AssignInOrder`), a flag changes (`KeptInOrder`).
- `CountersExact`: `CountsMatch` is inductive relative to `InOrder`, by
  counting the pairs of one backend before and after (`GoneCounts`,
  `AssignCounts`). That the selection loops choose at most one backend is all
  that is used of them.
- `TypeCorrect`: adds to `InOrder` that the loops leave the index in range, what
  `build()` makes of the ring, and the limit on pairs.
- `EveryBackendTried`: an action property. By induction over the attempts of the
  loop, each selected backend is new, and a loop that ends without a socket has
  attempted all healthy backends. With consistent hashing the first attempt
  exists because of `ClosestIsChosen`.
- `ClosestIsChosen`: first about `getBackend()` on any map whatever. The start is
  the node closest to the hash clockwise (`StartIsClosest`), and from a node the
  loop goes to the next further away, or from the furthest to the closest,
  wherever the ring ends in between (`FollowingIsNext`). `Walk` says where it is
  after n passes: at a node at least n places away with nothing healthy before
  it, or at its end with the closest or with nothing; after as many passes as
  there are hashes it has ended (`GetBackendClosest`). Then about `build()`: a
  node belongs to the first backend that has it (`BuildFacts`), by induction over
  the backends.
- `VerdictMovesFew`: an action property. Two searches on one ring with different
  sets of healthy backends (`MovesFew`): if both results are healthy in both, each
  is at least as close as the other, and no two nodes are equally far.
- `RoundRobinFair`: an action property. `TurnsTaken` says that the backends which
  have had their turn are those the rotation has just passed; `OrderKept` that
  moving the index keeps the order of the rest.

`TaskStoreProofs` (any workers, calls, requests and bounds; any interleaving of
faults):

- `TypeCorrect`, `IndexExact`, `RemovalsFinal`: the index is inductive with the
  types once every command that runs is known to be a request. That needs
  `CallInv`: a call under way keeps its request, is in the queue at most once
  and with at most one worker, so that no worker's end takes the request from
  under another. The data itself changes only by `Run` (`StepOrRun`), about
  which two lemmas say what it keeps.
- `TasksAreAtomic`: `TaskStore` implements `TaskService`. A call has taken
  effect from the moment a worker's reply is on its way (`clientCalls`).
  `Seen` replaces the choice of that worker by its uniqueness, `Untouched`
  frames the calls a step does not concern, and each action is then one action
  of the service or none. That a listing equals the map needs `TasksIndexed`.

`HttpParserProofs` (any streams of bytes, any limits with both line limits below
the size of the receive buffer, any cuts):

- `LimitsHold`: `LimitsKept` bounds every field of the parser in each of its
  states, ties `headers_size` to the lines read (`Sum`), a body to what was
  announced, and says that a connection about to read has room (`RoomLeft`):
  every pass that needs more data has used up the body bytes and leaves at most
  a line within its limit.
- `CutsIrrelevant`: `ReferenceFollowed` says that the reference, fed with what it
  has not seen of the buffer from the state that matches the parser's, arrives
  where it arrives when fed with the whole input. `Feed` is the reference started
  anywhere, with the laws that make it useful: feeding two pieces is feeding
  their concatenation (`FeedConcat`), and requests are never taken back
  (`FeedGrows`). `Agrees` then compares one pass of `parse()` with `Feed` on the
  bytes it took, for each of the parser's states. The exception, a line at its
  limit, is `Refused`; the run `http_parser_limit` shows that it is real.

`Induction` has what these proofs need of induction. The library's induction
theorems take an operator as a parameter, which the provers cannot instantiate.
Its lemmas take sets and functions instead: the least-number principle, from
well-foundedness; `UpTo`, induction over a set of numbers; and `Recursion`, that
a function defined by recursion on an interval exists. Recursive definitions are
therefore written as recursive functions on `0 .. n`, and a property of one is
the set of the numbers at which it holds.

Only proved, and in no run: the `TypeOK` of `HealthChecker`, of `Routing` and of
`TaskStore`, and `LossConfined`.

Only model-checked: liveness under fairness, which the prover does not reach
(`AcceptedJobsEnd`, `ShutdownTerminates`, `EveryConnectionEnds`,
`ChangesDetected`, `PairEnds`, `ResponseDelivered`, `EveryCallAnswered`,
`Recovers`), and with it the fairness part of `ImplementsAsyncCalls`.

## 6. Not modelled

File and text formatting, metrics output, configuration files, the system call
wrappers, the web interface and the deployment files. The time
`getaddrinfo` takes is in `HealthChecker`; `Relay` and `Routing` have no clock.
Threads of different
load balancer reactors share nothing but the descriptor table, and one is
modelled.

Of the task API: the text of JSON and forms (only what is extracted counts),
the plain commands of RedisClient that nothing calls, the branch for a missing
TaskManager (the reactor always passes one), and data that Redis itself loses
in a crash (it is taken to come back with what it had). Of the parser: which
characters a method, target or header name may have, and a value's trimming;
they decide the class of a line and nothing else. `Connection: close` is in
`Reactor` only.

Cases that are known and excluded: a client that sends only a beginning of
`GET /metrics ` and closes is peeked at for ever (`PairEnds` leaves it out); a
failover whose `connect` succeeds at once waits for another event before the
request is flushed (`NoStalledOutput` leaves that interval out).

Limits of single models:

- In `TaskStore` a call is answered when the job's callback has run. The deadline
  of 10 s after which the reactor closes the connection, and drops an answer that
  comes later, is in `Reactor` only: `EveryCallAnswered` does not say that a client
  sees the answer.
- In `Routing` a socket that `epoll.add` refuses is closed within the step and never
  listed as open, so that `SocketsOwned` says nothing about it; `CountsMatch` does
  cover the counters on that path.
- `MaxHeld` bounds the time resolving takes per round in the run `health`; the
  proofs hold for every value. A name that is never resolved, so that `start()` does
  not return, is outside the fairness.

## 7. Plan

1. (done) `WorkerPool` with `AsyncCalls`, `Reactor`, `HealthChecker`, `Relay`,
   `Routing`, `TaskStore` with `TaskService`, `HttpParser`; the proofs above.
2. (done) Proofs of every safety property that a passing run checks, the
   refinements included.
3. (done) `ConsistentHash`: the ring with virtual nodes; what changes when a
   backend is lost.
4. (done) `HealthTiming`: how long failovers can go back and forth between
   backends that are gone before the checker ends it.
