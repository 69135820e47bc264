----------------------------- MODULE TaskStore -----------------------------
(***************************************************************************)
(* The task API from the handlers of HttpHandler through TaskManager and   *)
(* the RedisClient of each worker to Redis, which all workers of all       *)
(* servers share.                                                          *)
(*                                                                         *)
(* A call is one HTTP request to /tasks. The pool appears as its FIFO      *)
(* queue (WorkerPool models it in full); a worker runs one job at a time   *)
(* over a connection of its own. Redis runs each command or script         *)
(* atomically. It may stall, so that commands meet the time-out of         *)
(* redisSetTimeout() although they have reached it; it may go down and     *)
(* come back with its data; it may refuse a command; and a connection may  *)
(* be cut. A command whose connection the worker has given up may still be *)
(* carried out.                                                            *)
(***************************************************************************)
EXTENDS Naturals, Sequences, FiniteSets, SequencesExt

CONSTANTS
    Workers,
    Calls,            \* requests that clients have open at one time
    Requests,         \* requests clients may send
    MAX_QUEUED_JOBS,
    MaxTasks,         \* bound: tasks that are created
    MaxOutages,       \* bound: stalls, crashes, cut connections and refusals
    NoCall, NoTask, NoRequest

Ids == 1 .. MaxTasks

\* A target that parseTaskId() refuses has id 0; an absent title is "", and a
\* `completed` that is neither true nor false is "neither".
Request ==
    [op : {"list", "create", "update", "remove"},
     id : Nat, title : STRING, completed : {"true", "false", "neither"}]

ASSUME TaskStoreAssumption ==
    /\ Requests \subseteq Request
    /\ MAX_QUEUED_JOBS \in Nat \ {0}
    /\ MaxTasks \in Nat
    /\ MaxOutages \in Nat
    /\ NoCall \notin Calls
    /\ NoRequest \notin Request
    /\ NoTask \notin [title : STRING, completed : BOOLEAN]

VARIABLES
    calls,    \* phase, request and answer of each call
    queue,    \* the pool's queue, oldest first
    job,      \* the call each worker runs, or NoCall
    pc,       \* where the worker is in that job
    context,  \* the worker's redisContext: null, usable or with err set
    link,     \* the connection under it: up, cut, or dead with the server
    reply,    \* the reply that is on its way to the worker
    loose,    \* per call, its command that outlived the worker's connection
    redis,    \* "up", "stalled" or "down"
    outages,  \* number of faults so far
    next_id,  \* Redis: the counter task:next_id
    hash,     \* Redis: the hash task:<id>, or NoTask
    tasks     \* Redis: the set of identifiers `tasks`

dbVars == <<next_id, hash, tasks>>
workerVars == <<job, pc, context, link, reply>>
faultVars == <<redis, outages>>
vars == <<calls, queue, workerVars, loose, faultVars, dbVars>>

Task == [title : STRING, completed : BOOLEAN]
NoAnswer == <<0, <<>>>>

TypeOK ==
    /\ \A c \in Calls :
         /\ calls[c].phase \in {"idle", "queued", "running", "answered"}
         /\ calls[c].req \in Requests \cup {NoRequest}
         /\ calls[c].answer[1] \in {0, 200, 201, 204, 400, 404, 503}
    /\ queue \in Seq(Calls) /\ Len(queue) <= MAX_QUEUED_JOBS
    /\ job \in [Workers -> Calls \cup {NoCall}]
    /\ pc \in [Workers -> {"idle", "connect", "send", "sent", "replied"}]
    /\ context \in [Workers -> {"null", "ok", "err"}]
    /\ link \in [Workers -> {"up", "cut", "dead"}]
    /\ loose \in [Calls -> Requests \cup {NoRequest}]
    /\ redis \in {"up", "stalled", "down"} /\ outages \in 0 .. MaxOutages
    /\ next_id \in 0 .. MaxTasks
    /\ hash \in [Ids -> Task \cup {NoTask}]
    /\ tasks \subseteq Ids

Init ==
    /\ calls = [c \in Calls |-> [phase |-> "idle", req |-> NoRequest, answer |-> NoAnswer]]
    /\ queue = <<>>
    /\ job = [w \in Workers |-> NoCall]
    /\ pc = [w \in Workers |-> "idle"]
    /\ context = [w \in Workers |-> "null"]
    /\ link = [w \in Workers |-> "dead"]
    /\ reply = [w \in Workers |-> NoAnswer]
    /\ loose = [c \in Calls |-> NoRequest]
    /\ redis = "up" /\ outages = 0
    /\ next_id = 0
    /\ hash = [i \in Ids |-> NoTask]
    /\ tasks = {}

-----------------------------------------------------------------------------
(* Redis: the scripts of RedisClient, each run atomically, and their         *)
(* replies as the client reads them: the status of the handler's answer and  *)
(* the tasks it shows.                                                       *)

Exists(i) == i \in Ids /\ hash[i] # NoTask

\* Mutant of createTask: the identifier does not enter the set.
CreateUnlisted(r) ==
    /\ next_id < MaxTasks
    /\ next_id' = next_id + 1
    /\ hash' = [hash EXCEPT ![next_id + 1] = [title |-> r.title, completed |-> FALSE]]
    /\ UNCHANGED tasks

createTask(r) ==
    /\ next_id < MaxTasks  \* bound: Handle ensures it
    /\ next_id' = next_id + 1
    /\ hash' = [hash EXCEPT ![next_id + 1] = [title |-> r.title, completed |-> FALSE]]
    /\ tasks' = tasks \cup {next_id + 1}

\* An empty title keeps the current one.
Updated(r) ==
    [title |-> IF r.title = "" THEN hash[r.id].title ELSE r.title,
     completed |-> r.completed = "true"]

\* Mutant of updateTask: HSET without the EXISTS of the script, as a client
\* that had looked the task up before would do it.
UpdateUnchecked(r) ==
    /\ hash' = IF r.id \in Ids /\ r.id <= next_id
               THEN [hash EXCEPT ![r.id] = [title |-> r.title, completed |-> r.completed = "true"]]
               ELSE hash
    /\ UNCHANGED <<next_id, tasks>>

updateTask(r) ==
    /\ hash' = IF Exists(r.id) THEN [hash EXCEPT ![r.id] = Updated(r)] ELSE hash
    /\ UNCHANGED <<next_id, tasks>>

removeTask(r) ==
    /\ hash' = IF Exists(r.id) THEN [hash EXCEPT ![r.id] = NoTask] ELSE hash
    /\ tasks' = IF Exists(r.id) THEN tasks \ {r.id} ELSE tasks
    /\ UNCHANGED next_id

\* TaskManager::getAll() sorts by identifier.
Order == [S \in SUBSET Ids |-> SetToSortSeq(S, <)]

\* SORT ... GET reads the set and the hashes; a member without a hash comes
\* back as nil and is skipped.
getAllTasks ==
    LET ids == Order[{i \in tasks : hash[i] # NoTask}]
    IN  [n \in DOMAIN ids |-> <<ids[n], hash[ids[n]]>>]

Run(r) ==
    \/ r.op = "list" /\ UNCHANGED dbVars
    \/ r.op = "create" /\ createTask(r)
    \/ r.op = "update" /\ updateTask(r)
    \/ r.op = "remove" /\ removeTask(r)

NotFound == <<404, <<>>>>

GotAll == <<200, getAllTasks>>
Created(r) == <<201, <<<<next_id + 1, [title |-> r.title, completed |-> FALSE]>>>>>>
Changed(r) == IF Exists(r.id) THEN <<200, <<<<r.id, Updated(r)>>>>>> ELSE NotFound
Removed(r) == IF Exists(r.id) THEN <<204, <<>>>> ELSE NotFound

ReplyTo(r) ==
    CASE r.op = "list" -> GotAll
      [] r.op = "create" -> Created(r)
      [] r.op = "update" -> Changed(r)
      [] r.op = "remove" -> Removed(r)

\* What the callbacks of the handlers answer when the client returned false:
\* updating and removing do not tell a failed store from a missing task.
StorageFailed(r) == <<IF r.op \in {"list", "create"} THEN 503 ELSE 404, <<>>>>

-----------------------------------------------------------------------------
(* The handlers, in a reactor.                                               *)

Answered(answer) == [phase |-> "answered", req |-> NoRequest, answer |-> answer]

TitleMissing(r) == r.op = "create" /\ r.title = ""
IdInvalid(r) == r.op \in {"update", "remove"} /\ r.id = 0
CompletedInvalid(r) == r.op = "update" /\ r.completed = "neither"

BadRequest(r) == TitleMissing(r) \/ IdInvalid(r) \/ CompletedInvalid(r)

\* Creations under way, the abandoned ones too.
Creating == Cardinality({c \in Calls : /\ calls[c].phase \in {"queued", "running"}
                                       /\ calls[c].req.op = "create"})
          + Cardinality({c \in Calls : loose[c] # NoRequest /\ loose[c].op = "create"})

QueueFull == Len(queue) >= MAX_QUEUED_JOBS

\* handleGetTasks, handlePostTask, handlePutTask, handleDeleteTask and submit().
\* Bounds: MaxTasks, and a call is not reused while its command is loose.
Handle(c, r) ==
    /\ calls[c].phase \in {"idle", "answered"}
    /\ loose[c] = NoRequest
    /\ r.op = "create" => next_id + Creating < MaxTasks
    /\ \/ /\ BadRequest(r)
          /\ calls' = [calls EXCEPT ![c] = Answered(<<400, <<>>>>)]
          /\ UNCHANGED queue
       \/ /\ ~BadRequest(r) /\ QueueFull
          /\ calls' = [calls EXCEPT ![c] = Answered(<<503, <<>>>>)]
          /\ UNCHANGED queue
       \/ /\ ~BadRequest(r) /\ ~QueueFull
          /\ calls' = [calls EXCEPT ![c] = [phase |-> "queued", req |-> r, answer |-> NoAnswer]]
          /\ queue' = Append(queue, c)
    /\ UNCHANGED <<workerVars, loose, faultVars, dbVars>>

-----------------------------------------------------------------------------
(* A worker.                                                                 *)

Take(w) ==
    /\ job[w] = NoCall
    /\ queue # <<>>
    /\ job' = [job EXCEPT ![w] = Head(queue)]
    /\ queue' = Tail(queue)
    /\ calls' = [calls EXCEPT ![Head(queue)].phase = "running"]
    /\ pc' = [pc EXCEPT ![w] = "connect"]
    /\ UNCHANGED <<context, link, reply, loose, faultVars, dbVars>>

\* The job ends: its callback answers the client.
Finish(w, answer) ==
    /\ calls' = [calls EXCEPT ![job[w]] = Answered(answer)]
    /\ job' = [job EXCEPT ![w] = NoCall]
    /\ pc' = [pc EXCEPT ![w] = "idle"]
    /\ reply' = [reply EXCEPT ![w] = NoAnswer]

\* Mutant of Usable: a context is kept whatever happened on it.
UsableIfSet(w) == context[w] # "null"

Usable(w) == context[w] = "ok"

\* ensureConnected(): a context that has seen an error is freed and replaced.
\* A stalled server still accepts; one that is down does not.
EnsureConnected(w) ==
    /\ pc[w] = "connect"
    /\ Usable(w) \/ redis # "down"
    /\ pc' = [pc EXCEPT ![w] = "send"]
    /\ context' = IF Usable(w) THEN context ELSE [context EXCEPT ![w] = "ok"]
    /\ link' = IF Usable(w) THEN link ELSE [link EXCEPT ![w] = "up"]
    /\ UNCHANGED <<calls, queue, job, reply, loose, faultVars, dbVars>>

Unreachable(w) ==
    /\ pc[w] = "connect"
    /\ ~Usable(w) /\ redis = "down"
    /\ context' = [context EXCEPT ![w] = "null"]
    /\ Finish(w, StorageFailed(calls[job[w]].req))
    /\ UNCHANGED <<queue, link, loose, faultVars, dbVars>>

\* redisCommand() writes the command and waits for the reply.
Send(w) ==
    /\ pc[w] = "send"
    /\ pc' = [pc EXCEPT ![w] = "sent"]
    /\ UNCHANGED <<calls, queue, job, context, link, reply, loose, faultVars, dbVars>>

\* Redis carries the command out. A cut connection does not stop a command
\* that has arrived; hiredis writes nothing on a context that has an error.
Execute(w) ==
    /\ pc[w] = "sent" /\ context[w] = "ok"
    /\ redis = "up" /\ link[w] # "dead"
    /\ Run(calls[job[w]].req)
    /\ reply' = [reply EXCEPT ![w] = ReplyTo(calls[job[w]].req)]
    /\ pc' = [pc EXCEPT ![w] = "replied"]
    /\ UNCHANGED <<calls, queue, job, context, link, loose, faultVars>>

Receive(w) ==
    /\ pc[w] = "replied" /\ link[w] = "up"
    /\ Finish(w, reply[w])
    /\ UNCHANGED <<queue, context, link, loose, faultVars, dbVars>>

\* Mutant of Fail: the command is sent again over a new connection.
FailAndRetry(w) ==
    /\ pc[w] \in {"sent", "replied"} /\ (redis = "stalled" \/ link[w] # "up")
    /\ context' = [context EXCEPT ![w] = "err"]
    /\ pc' = [pc EXCEPT ![w] = "connect"]
    /\ reply' = [reply EXCEPT ![w] = NoAnswer]
    /\ \/ UNCHANGED loose
       \/ /\ pc[w] = "sent" /\ link[w] # "dead"
          /\ loose' = [loose EXCEPT ![job[w]] = calls[job[w]].req]
    /\ UNCHANGED <<calls, queue, job, link, faultVars, dbVars>>

\* Mutant of TimedOut: connections without redisSetTimeout().
NoTimeout(w) == FALSE

\* The time-out of the command, which only a stalled server lets pass.
TimedOut(w) == redis = "stalled"

\* redisCommand() returns no reply: the time-out has passed, the connection
\* is gone, or the context has an error. A command that Redis has not carried
\* out may be lost with the connection or still lie before it.
Fail(w) ==
    /\ pc[w] \in {"sent", "replied"}
    /\ TimedOut(w) \/ link[w] # "up" \/ context[w] # "ok"
    /\ context' = [context EXCEPT ![w] = "err"]
    /\ Finish(w, StorageFailed(calls[job[w]].req))
    /\ \/ UNCHANGED loose
       \/ /\ pc[w] = "sent" /\ link[w] # "dead"
          /\ loose' = [loose EXCEPT ![job[w]] = calls[job[w]].req]
    /\ UNCHANGED <<queue, link, faultVars, dbVars>>

-----------------------------------------------------------------------------
(* Redis and the network (external).                                         *)

Fault == outages < MaxOutages /\ outages' = outages + 1

\* Redis answers with an error, as it does while it loads its data: the worker
\* keeps the connection and its job has failed.
Refuse(w) ==
    /\ pc[w] = "sent" /\ context[w] = "ok"
    /\ redis = "up" /\ link[w] = "up" /\ Fault
    /\ Finish(w, StorageFailed(calls[job[w]].req))
    /\ UNCHANGED <<queue, context, link, loose, redis, dbVars>>

\* Redis reaches a command whose sender has gone.
ExecuteLoose(c) ==
    /\ loose[c] # NoRequest /\ redis = "up"
    /\ Run(loose[c])
    /\ loose' = [loose EXCEPT ![c] = NoRequest]
    /\ UNCHANGED <<calls, queue, workerVars, faultVars>>

Stall ==
    /\ redis = "up" /\ Fault
    /\ redis' = "stalled"
    /\ UNCHANGED <<calls, queue, workerVars, loose, dbVars>>

\* Commands that were not carried out are lost with the connections.
Crash ==
    /\ redis # "down" /\ Fault
    /\ redis' = "down"
    /\ link' = [w \in Workers |-> "dead"]
    /\ loose' = [c \in Calls |-> NoRequest]
    /\ UNCHANGED <<calls, queue, job, pc, context, reply, dbVars>>

Cut(w) ==
    /\ link[w] = "up" /\ Fault
    /\ link' = [link EXCEPT ![w] = "cut"]
    /\ UNCHANGED <<calls, queue, job, pc, context, reply, loose, redis, dbVars>>

ComeBack ==
    /\ redis # "up"
    /\ redis' = "up"
    /\ UNCHANGED <<calls, queue, workerVars, loose, outages, dbVars>>

-----------------------------------------------------------------------------

Work(w) ==
    Take(w) \/ EnsureConnected(w) \/ Unreachable(w) \/ Send(w) \/ Receive(w) \/ Fail(w)

Next ==
    \/ \E c \in Calls : ExecuteLoose(c) \/ \E r \in Requests : Handle(c, r)
    \/ \E w \in Workers : Work(w) \/ Execute(w) \/ Refuse(w) \/ Cut(w)
    \/ Stall \/ Crash \/ ComeBack

Spec == Init /\ [][Next]_vars

\* A worker thread goes on with its job, and Redis, while it is up, carries
\* out what it has received. Nothing makes it come back from an outage.
Fairness ==
    /\ \A w \in Workers : WF_vars(Work(w)) /\ WF_vars(Execute(w))
    /\ \A c \in Calls : WF_vars(ExecuteLoose(c))

FairSpec == Spec /\ Fairness

-----------------------------------------------------------------------------
(* Properties.                                                               *)

\* The identifiers in the set `tasks` are those that have a hash task:<id>,
\* and all of them were handed out by task:next_id: whatever the order of
\* creations, updates and removals of several workers, and of commands that
\* are carried out late, no task is invisible to the listing and none is
\* listed without its hash.
TasksIndexed ==
    /\ tasks = {i \in Ids : hash[i] # NoTask}
    /\ \A i \in tasks : i <= next_id

\* A task that has been removed never comes back, not even through an update
\* that was under way or a command carried out after its caller gave up, and
\* its identifier is never given to another task.
RemovedForGood ==
    [][\A i \in Ids : i <= next_id /\ hash[i] = NoTask => hash'[i] = NoTask]_vars

\* Every call that enters the queue is answered, with Redis up, stalled or
\* down for good: the time-outs of connect() and of the command see to it.
EveryCallAnswered ==
    \A c \in Calls : calls[c].phase = "queued" ~> calls[c].phase = "answered"

\* If Redis stays up, then from some moment on no command fails: every worker
\* drops a context that has seen an error and connects again.
Recovers ==
    (<>[](redis = "up")) => <>[][\A w \in Workers : ~(Fail(w) \/ Unreachable(w))]_vars

\* The calls as a client sees them, for TaskService.
Executed(c) == \E w \in Workers : job[w] = c /\ pc[w] = "replied"
clientCalls ==
    [c \in Calls |->
       [phase |-> CASE Executed(c) -> "applied"
                    [] calls[c].phase \in {"queued", "running"} /\ ~Executed(c) -> "pending"
                    [] OTHER -> calls[c].phase,
        req |-> calls[c].req,
        answer |-> IF Executed(c) THEN reply[CHOOSE w \in Workers : job[w] = c]
                                  ELSE calls[c].answer]]

Service == INSTANCE TaskService
           WITH store <- hash, last_id <- next_id, calls <- clientCalls

\* The task API is an atomic map from the outside: a successful answer tells
\* the one moment at which the call took effect, a call takes effect at most
\* once, and only a call that was answered as failed may do so late.
ImplementsTaskService == Service!Spec
=============================================================================
