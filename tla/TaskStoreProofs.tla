-------------------------- MODULE TaskStoreProofs --------------------------
(***************************************************************************)
(* Proofs about TaskStore, for any workers, calls, requests and bounds.    *)
(***************************************************************************)
EXTENDS TaskStore, TLAPS

Status == {0, 200, 201, 204, 400, 404, 503}

\* A call is a record, and it has a request until it is answered.
CallsInOrder ==
    /\ calls = [c \in Calls |-> calls[c]]
    /\ \A c \in Calls :
         /\ calls[c] = [phase |-> calls[c].phase, req |-> calls[c].req, answer |-> calls[c].answer]
         /\ calls[c].phase \in {"queued", "running"} => calls[c].req \in Requests

\* Each call is in the queue at most once.
QueueInOrder ==
    /\ \A i \in 1 .. Len(queue) : calls[queue[i]].phase = "queued"
    /\ \A i, k \in 1 .. Len(queue) : queue[i] = queue[k] => i = k

\* A running call is with one worker.
JobsInOrder ==
    /\ \A w \in Workers : IF pc[w] = "idle" THEN job[w] = NoCall
                          ELSE job[w] \in Calls /\ calls[job[w]].phase = "running"
    /\ \A v, w \in Workers : job[v] = job[w] /\ job[v] # NoCall => v = w

RepliesInOrder ==
    /\ reply = [w \in Workers |-> reply[w]]
    /\ \A w \in Workers : reply[w][1] \in Status

\* The part of TypeOK about the calls and the workers' jobs.
CallType ==
    /\ \A c \in Calls : /\ calls[c].phase \in {"idle", "queued", "running", "answered"}
                         /\ calls[c].req \in Requests \cup {NoRequest}
                         /\ calls[c].answer[1] \in Status
    /\ queue \in Seq(Calls) /\ Len(queue) <= MAX_QUEUED_JOBS
    /\ job \in [Workers -> Calls \cup {NoCall}]
    /\ pc \in [Workers -> {"idle", "connect", "send", "sent", "replied"}]

CallInv == CallType /\ CallsInOrder /\ QueueInOrder /\ JobsInOrder /\ RepliesInOrder

Inv == TypeOK /\ CallInv /\ TasksIndexed

-----------------------------------------------------------------------------
(* What the commands do to the data and answer. *)

\* A title and a flag make a task.
LEMMA TaskRecord ==
    ASSUME NEW s \in STRING, NEW b \in BOOLEAN
    PROVE  [title |-> s, completed |-> b] \in Task /\ [title |-> s, completed |-> b] # NoTask
<1>1. [title |-> s, completed |-> b] \in Task
  BY Zenon DEF Task
<1>2. NoTask \notin Task
  BY TaskStoreAssumption DEF Task
<1> QED
  BY <1>1, <1>2

\* Each command keeps the types of the data and the index of tasks.
LEMMA RunKeepsIndex ==
    ASSUME next_id \in 0 .. MaxTasks, hash \in [Ids -> Task \cup {NoTask}],
           TasksIndexed, NEW r \in Requests, Run(r)
    PROVE  /\ next_id' \in 0 .. MaxTasks
           /\ hash' \in [Ids -> Task \cup {NoTask}]
           /\ tasks' \subseteq Ids
           /\ TasksIndexed'
<1> USE TaskStoreAssumption DEF Ids, TasksIndexed
<1>0. r \in Request /\ r.title \in STRING /\ r.id \in Nat
  BY DEF Request
<1>1. CASE r.op = "list"
  BY <1>1, <1>0 DEF Run, dbVars, createTask, updateTask, removeTask
<1>2. CASE r.op = "create"
  <2> DEFINE t == [title |-> r.title, completed |-> FALSE]
  <2>1. t \in Task /\ t # NoTask
    BY <1>0, TaskRecord
  <2>2. /\ next_id < MaxTasks /\ next_id' = next_id + 1
        /\ hash' = [hash EXCEPT ![next_id + 1] = t]
        /\ tasks' = tasks \cup {next_id + 1}
    BY <1>2 DEF Run, createTask
  <2> HIDE DEF t
  <2> QED
    BY <2>1, <2>2
<1>3. CASE r.op = "update"
  <2> DEFINE t == Updated(r)
  <2>1. hash' = (IF Exists(r.id) THEN [hash EXCEPT ![r.id] = t] ELSE hash)
        /\ UNCHANGED <<next_id, tasks>>
    BY <1>3 DEF Run, updateTask
  <2>2. Exists(r.id) => t \in Task /\ t # NoTask
    <3> DEFINE s == IF r.title = "" THEN hash[r.id].title ELSE r.title
               b == r.completed = "true"
    <3>1. Exists(r.id) => s \in STRING
      BY <1>0 DEF Exists, Task
    <3>2. b \in BOOLEAN
      OBVIOUS
    <3>3. t = [title |-> s, completed |-> b]
      BY Zenon DEF Updated
    <3> HIDE DEF s, b, t
    <3> QED
      BY <3>1, <3>2, <3>3, TaskRecord
  <2> HIDE DEF t
  <2> QED
    BY <2>1, <2>2 DEF Exists
<1>4. CASE r.op = "remove"
  BY <1>4, <1>0 DEF Run, removeTask, Exists
<1> QED
  BY <1>0, <1>1, <1>2, <1>3, <1>4 DEF Request

\* A task that does not exist and whose identifier was given out stays away.
LEMMA RunKeepsRemoved ==
    ASSUME next_id \in 0 .. MaxTasks, hash \in [Ids -> Task \cup {NoTask}],
           NEW r \in Requests, Run(r),
           NEW i \in Ids, i <= next_id, hash[i] = NoTask
    PROVE  hash'[i] = NoTask
<1> USE TaskStoreAssumption DEF Ids
<1>1. CASE r.op = "list"
  BY <1>1 DEF Run, dbVars
<1>2. CASE r.op = "create"
  BY <1>2 DEF Run, createTask
<1>3. CASE r.op = "update"
  BY <1>3 DEF Run, updateTask, Exists
<1>4. CASE r.op = "remove"
  BY <1>4 DEF Run, removeTask, Exists
<1> QED
  BY <1>1, <1>2, <1>3, <1>4 DEF Request

\* Answers have a status the handlers use.
LEMMA ReplyStatus ==
    ASSUME NEW r \in Requests
    PROVE  ReplyTo(r)[1] \in Status /\ StorageFailed(r)[1] \in Status
BY TaskStoreAssumption
   DEF ReplyTo, GotAll, Created, Changed, Removed, NotFound, StorageFailed, Status, Request

-----------------------------------------------------------------------------
(* The calls. *)

\* The end of a job leaves the other calls and jobs alone.
LEMMA FinishInOrder ==
    ASSUME CallInv, NEW w \in Workers, pc[w] # "idle",
           NEW answer, answer[1] \in Status, Finish(w, answer), UNCHANGED queue
    PROVE  CallInv'
<1> USE TaskStoreAssumption
<1> DEFINE j == job[w]
<1>1. /\ j \in Calls /\ calls[j].phase = "running"
      /\ \A v \in Workers \ {w} : job[v] # j
  BY DEF CallInv, JobsInOrder
<1>2. /\ calls' = [c \in Calls |-> IF c = j THEN Answered(answer) ELSE calls[c]]
      /\ job' = [job EXCEPT ![w] = NoCall]
      /\ pc' = [pc EXCEPT ![w] = "idle"]
      /\ reply' = [reply EXCEPT ![w] = NoAnswer]
  BY <1>1 DEF CallInv, CallsInOrder, Finish
<1>3. /\ Answered(answer).phase = "answered"
      /\ Answered(answer).req = NoRequest
      /\ Answered(answer).answer = answer
      /\ Answered(answer) = [phase |-> "answered", req |-> NoRequest, answer |-> answer]
  BY DEF Answered
<1>4. CallType'
  BY <1>1, <1>2, <1>3 DEF CallInv, CallType
<1>5. CallsInOrder'
  BY <1>1, <1>2, <1>3 DEF CallInv, CallsInOrder
<1>6. QueueInOrder'
  BY <1>1, <1>2 DEF CallInv, CallType, QueueInOrder
<1>7. JobsInOrder'
  BY <1>1, <1>2 DEF CallInv, CallType, JobsInOrder
<1>8. RepliesInOrder'
  BY <1>2 DEF CallInv, RepliesInOrder, NoAnswer, Status
<1> QED
  BY <1>4, <1>5, <1>6, <1>7, <1>8 DEF CallInv

\* A call is answered at once or enters the queue.
LEMMA HandleInOrder ==
    ASSUME CallInv, NEW c \in Calls, NEW r \in Requests, Handle(c, r)
    PROVE  CallInv'
<1> USE TaskStoreAssumption
<1>0. UNCHANGED <<job, pc, reply>> /\ calls[c].phase \in {"idle", "answered"}
  BY DEF Handle, workerVars
<1>1. ASSUME NEW a, a[1] \in Status, UNCHANGED queue,
             calls' = [calls EXCEPT ![c] = Answered(a)]
      PROVE  CallInv'
  <2>1. calls' = [d \in Calls |-> IF d = c THEN Answered(a) ELSE calls[d]]
    BY <1>1 DEF CallInv, CallsInOrder
  <2>2. /\ Answered(a).phase = "answered" /\ Answered(a).req = NoRequest
        /\ Answered(a).answer = a
        /\ Answered(a) = [phase |-> "answered", req |-> NoRequest, answer |-> a]
    BY DEF Answered
  <2>3. CallType'
    BY <1>0, <1>1, <2>1, <2>2 DEF CallInv, CallType
  <2>4. CallsInOrder'
    BY <2>1, <2>2 DEF CallInv, CallsInOrder
  <2>5. QueueInOrder'
    BY <1>0, <1>1, <2>1 DEF CallInv, CallType, QueueInOrder
  <2>6. JobsInOrder'
    BY <1>0, <2>1 DEF CallInv, CallType, JobsInOrder
  <2> QED
    BY <1>0, <2>3, <2>4, <2>5, <2>6 DEF CallInv, RepliesInOrder
<1>2. ASSUME Len(queue) < MAX_QUEUED_JOBS, queue' = Append(queue, c),
             calls' = [calls EXCEPT ![c] = [phase |-> "queued", req |-> r, answer |-> NoAnswer]]
      PROVE  CallInv'
  <2> DEFINE rec == [phase |-> "queued", req |-> r, answer |-> NoAnswer]
  <2>1. calls' = [d \in Calls |-> IF d = c THEN rec ELSE calls[d]]
    BY <1>2 DEF CallInv, CallsInOrder
  <2>2. /\ rec.phase = "queued" /\ rec.req = r /\ rec.answer[1] = 0
        /\ rec = [phase |-> rec.phase, req |-> rec.req, answer |-> rec.answer]
    BY DEF NoAnswer
  <2> HIDE DEF rec
  <2>3. /\ queue \in Seq(Calls) /\ queue' \in Seq(Calls)
        /\ Len(queue') = Len(queue) + 1 /\ queue'[Len(queue) + 1] = c
        /\ \A i \in 1 .. Len(queue) : queue'[i] = queue[i] /\ queue[i] \in Calls
    BY <1>2 DEF CallInv, CallType
  <2>4. CallType'
    BY <1>0, <1>2, <2>1, <2>2, <2>3 DEF CallInv, CallType, Status
  <2>5. CallsInOrder'
    BY <2>1, <2>2 DEF CallInv, CallsInOrder
  <2>6. QueueInOrder'
    BY <1>0, <2>1, <2>2, <2>3, SMTT(60) DEF CallInv, QueueInOrder
  <2>7. JobsInOrder'
    BY <1>0, <2>1 DEF CallInv, CallType, JobsInOrder
  <2> QED
    BY <1>0, <2>4, <2>5, <2>6, <2>7 DEF CallInv, RepliesInOrder
<1>3. <<400, <<>>>>[1] \in Status /\ <<503, <<>>>>[1] \in Status
  BY DEF Status
<1>4. QueueFull \/ Len(queue) < MAX_QUEUED_JOBS
  BY DEF QueueFull, CallInv, CallType
<1> QED
  BY <1>1, <1>2, <1>3, <1>4 DEF Handle

\* A job that is taken leaves the queue and is with nobody else.
LEMMA TakeInOrder ==
    ASSUME CallInv, NEW w \in Workers, Take(w)
    PROVE  CallInv'
<1> USE TaskStoreAssumption
<1> DEFINE h == queue[1]
<1>1. /\ queue \in Seq(Calls) /\ queue # <<>> /\ Len(queue) \in Nat \ {0}
      /\ h = Head(queue) /\ h \in Calls /\ calls[h].phase = "queued"
      /\ job[w] = NoCall
  BY DEF Take, CallInv, CallType, QueueInOrder
<1>2. /\ queue' \in Seq(Calls) /\ Len(queue') = Len(queue) - 1
      /\ \A i \in 1 .. Len(queue') : queue'[i] = queue[i + 1] /\ queue[i + 1] \in Calls
  BY <1>1 DEF Take
<1> DEFINE rec == [calls[h] EXCEPT !.phase = "running"]
<1>3. calls' = [c \in Calls |-> IF c = h THEN rec ELSE calls[c]]
  BY <1>1 DEF Take, CallInv, CallsInOrder
<1>4. /\ rec.phase = "running" /\ rec.req = calls[h].req /\ rec.answer = calls[h].answer
      /\ rec = [phase |-> rec.phase, req |-> rec.req, answer |-> rec.answer]
  BY <1>1 DEF CallInv, CallsInOrder
<1>5. /\ job' = [job EXCEPT ![w] = h]
      /\ pc' = [pc EXCEPT ![w] = "connect"]
      /\ UNCHANGED reply
  BY <1>1 DEF Take
<1>6. \A i \in 1 .. Len(queue') : queue'[i] # h
  BY <1>1, <1>2 DEF CallInv, QueueInOrder
<1>7. \A v \in Workers : job[v] # h
  BY <1>1 DEF CallInv, JobsInOrder
<1> HIDE DEF h, rec
<1>8. CallType'
  BY <1>1, <1>2, <1>3, <1>4, <1>5 DEF CallInv, CallType
<1>9. CallsInOrder'
  BY <1>1, <1>3, <1>4 DEF CallInv, CallsInOrder
<1>10. QueueInOrder'
  <2>1. \A i \in 1 .. Len(queue') : i + 1 \in 1 .. Len(queue) /\ queue'[i] = queue[i + 1]
    BY <1>1, <1>2
  <2>2. \A i \in 1 .. Len(queue') : calls'[queue'[i]].phase = "queued"
    BY <1>2, <1>3, <1>6, <2>1 DEF CallInv, QueueInOrder
  <2>3. \A i, k \in 1 .. Len(queue') : queue'[i] = queue'[k] => i = k
    BY <1>1, <1>2, <2>1, SMTT(60) DEF CallInv, QueueInOrder
  <2> QED
    BY <2>2, <2>3 DEF QueueInOrder
<1>11. JobsInOrder'
  BY <1>1, <1>3, <1>4, <1>5, <1>7 DEF CallInv, CallType, JobsInOrder
<1> QED
  BY <1>5, <1>8, <1>9, <1>10, <1>11 DEF CallInv, RepliesInOrder

\* A worker that goes on within its job.
LEMMA StepInOrder ==
    ASSUME CallInv, NEW w \in Workers, pc[w] # "idle",
           NEW l \in {"connect", "send", "sent", "replied"}, pc' = [pc EXCEPT ![w] = l],
           UNCHANGED <<calls, queue, job>>, RepliesInOrder'
    PROVE  CallInv'
<1>1. CallType' /\ CallsInOrder' /\ QueueInOrder'
  BY DEF CallInv, CallType, CallsInOrder, QueueInOrder
<1>2. JobsInOrder'
  BY DEF CallInv, CallType, JobsInOrder
<1> QED
  BY <1>1, <1>2 DEF CallInv

\* The request of a running job.
LEMMA JobRequest ==
    ASSUME CallInv, NEW w \in Workers, pc[w] # "idle"
    PROVE  job[w] \in Calls /\ calls[job[w]].req \in Requests
BY DEF CallInv, CallsInOrder, JobsInOrder

-----------------------------------------------------------------------------
(* The invariant. *)

\* Nothing is under way at first.
LEMMA InvInit == Init => Inv
<1> SUFFICES ASSUME Init PROVE Inv
  OBVIOUS
<1> USE TaskStoreAssumption DEF Init, NoAnswer
<1>1. TypeOK
  BY DEF TypeOK, Ids
<1>2. CallType
  BY DEF CallType, Status
<1>3. CallsInOrder /\ QueueInOrder /\ JobsInOrder
  BY DEF CallsInOrder, QueueInOrder, JobsInOrder
<1>4. RepliesInOrder
  BY DEF RepliesInOrder, Status
<1>5. TasksIndexed
  BY DEF TasksIndexed, Ids
<1> QED
  BY <1>1, <1>2, <1>3, <1>4, <1>5 DEF Inv, CallInv

\* The steps of calls, workers, Redis and the network keep what concerns the calls.
LEMMA NextInOrder == Inv /\ [Next]_vars => CallInv'
<1> SUFFICES ASSUME Inv, [Next]_vars PROVE CallInv'
  OBVIOUS
<1>0. CallInv /\ TypeOK
  BY DEF Inv
<1>1. ASSUME UNCHANGED <<calls, queue, job, pc, reply>> PROVE CallInv'
  <2>1. CallType' /\ CallsInOrder' /\ QueueInOrder'
    BY <1>0, <1>1 DEF CallInv, CallType, CallsInOrder, QueueInOrder
  <2>2. JobsInOrder' /\ RepliesInOrder'
    BY <1>0, <1>1 DEF CallInv, JobsInOrder, RepliesInOrder
  <2> QED
    BY <2>1, <2>2 DEF CallInv
<1>2. ASSUME NEW c \in Calls, NEW r \in Requests, Handle(c, r) PROVE CallInv'
  BY <1>0, <1>2, HandleInOrder
<1>3. ASSUME NEW w \in Workers, Work(w) PROVE CallInv'
  <2>1. CASE Take(w)
    BY <1>0, <2>1, TakeInOrder
  <2>2. CASE EnsureConnected(w)
    <3>1. RepliesInOrder'
      BY <1>0, <2>2 DEF EnsureConnected, CallInv, RepliesInOrder
    <3> QED
      BY <1>0, <2>2, <3>1, StepInOrder DEF EnsureConnected
  <2>3. CASE Unreachable(w)
    BY <1>0, <2>3, JobRequest, ReplyStatus, FinishInOrder DEF Unreachable
  <2>4. CASE Send(w)
    <3>1. RepliesInOrder'
      BY <1>0, <2>4 DEF Send, CallInv, RepliesInOrder
    <3> QED
      BY <1>0, <2>4, <3>1, StepInOrder DEF Send
  <2>5. CASE Receive(w)
    BY <1>0, <2>5, FinishInOrder DEF Receive, CallInv, RepliesInOrder
  <2>6. CASE Fail(w)
    BY <1>0, <2>6, JobRequest, ReplyStatus, FinishInOrder DEF Fail
  <2> QED
    BY <1>3, <2>1, <2>2, <2>3, <2>4, <2>5, <2>6 DEF Work
<1>4. ASSUME NEW w \in Workers, Execute(w) PROVE CallInv'
  <2>1. pc[w] # "idle" /\ ReplyTo(calls[job[w]].req)[1] \in Status
    BY <1>0, <1>4, JobRequest, ReplyStatus DEF Execute
  <2>2. RepliesInOrder'
    BY <1>0, <1>4, <2>1 DEF Execute, CallInv, RepliesInOrder
  <2> QED
    BY <1>0, <1>4, <2>1, <2>2, StepInOrder DEF Execute
<1>5. ASSUME NEW w \in Workers, Refuse(w) PROVE CallInv'
  BY <1>0, <1>5, JobRequest, ReplyStatus, FinishInOrder DEF Refuse
<1>6. CASE \/ \E c \in Calls : ExecuteLoose(c)
           \/ \E w \in Workers : Cut(w)
           \/ Stall \/ Crash \/ ComeBack \/ UNCHANGED vars
  BY <1>1, <1>6 DEF ExecuteLoose, Cut, Stall, Crash, ComeBack, vars, workerVars
<1> QED
  BY <1>2, <1>3, <1>4, <1>5, <1>6 DEF Next

\* A step leaves the data alone or carries out one request.
LEMMA StepOrRun ==
    ASSUME Inv, [Next]_vars
    PROVE  UNCHANGED dbVars \/ \E r \in Requests : Run(r)
<1>1. ASSUME NEW w \in Workers, Execute(w) PROVE \E r \in Requests : Run(r)
  BY <1>1, JobRequest DEF Execute, Inv
<1>2. ASSUME NEW c \in Calls, ExecuteLoose(c) PROVE \E r \in Requests : Run(r)
  BY <1>2 DEF ExecuteLoose, Inv, TypeOK
<1> QED
  BY <1>1, <1>2
  DEF Next, Work, Handle, Take, EnsureConnected, Unreachable, Send, Receive, Fail, Refuse,
      Cut, Stall, Crash, ComeBack, vars

\* Every step keeps the invariant.
LEMMA InvNext == Inv /\ [Next]_vars => Inv'
<1> SUFFICES ASSUME Inv, [Next]_vars PROVE Inv'
  OBVIOUS
<1> USE TaskStoreAssumption
<1>0. TypeOK /\ CallInv /\ TasksIndexed
  BY DEF Inv
<1>1. CallInv'
  BY NextInOrder
<1>2. /\ next_id' \in 0 .. MaxTasks
      /\ hash' \in [Ids -> Task \cup {NoTask}]
      /\ tasks' \subseteq Ids
      /\ TasksIndexed'
  <2>1. CASE UNCHANGED dbVars
    BY <1>0, <2>1 DEF dbVars, TypeOK, TasksIndexed
  <2>2. ASSUME NEW r \in Requests, Run(r)
        PROVE  /\ next_id' \in 0 .. MaxTasks
               /\ hash' \in [Ids -> Task \cup {NoTask}]
               /\ tasks' \subseteq Ids
               /\ TasksIndexed'
    BY <1>0, <2>2, RunKeepsIndex DEF TypeOK
  <2> QED
    BY <2>1, <2>2, StepOrRun
<1> DEFINE Links == /\ context \in [Workers -> {"null", "ok", "err"}]
                    /\ link \in [Workers -> {"up", "cut", "dead"}]
           Faults == redis \in {"up", "stalled", "down"} /\ outages \in 0 .. MaxOutages
           Loose == loose \in [Calls -> Requests \cup {NoRequest}]
<1>3. Links /\ Faults /\ Loose
  BY <1>0 DEF TypeOK
<1>4. Links'
  BY <1>3
  DEF Next, Work, Handle, Take, EnsureConnected, Unreachable, Send, Receive, Fail, Execute,
      Refuse, ExecuteLoose, Cut, Stall, Crash, ComeBack, vars, workerVars
<1>5. Faults'
  BY <1>3
  DEF Next, Work, Handle, Take, EnsureConnected, Unreachable, Send, Receive, Fail, Execute,
      Refuse, ExecuteLoose, Cut, Stall, Crash, ComeBack, Fault, vars, faultVars
<1>6. Loose'
  <2>1. ASSUME NEW w \in Workers, Fail(w) PROVE Loose'
    BY <1>0, <1>3, <2>1, JobRequest DEF Fail
  <2> QED
    BY <1>3, <2>1
    DEF Next, Work, Handle, Take, EnsureConnected, Unreachable, Send, Receive, Execute,
        Refuse, ExecuteLoose, Cut, Stall, Crash, ComeBack, vars
<1>7. TypeOK'
  BY <1>1, <1>2, <1>4, <1>5, <1>6 DEF TypeOK, CallInv, CallType, Status
<1> QED
  BY <1>1, <1>2, <1>7 DEF Inv

\* The inductive invariant: each call under way has its request and is in the
\* queue or with one worker, and the index is exact.
THEOREM Invariance == Spec => []Inv
BY InvInit, InvNext, PTL DEF Spec

-----------------------------------------------------------------------------
(* Theorems. *)

\* The variables keep their types, and the queue its limit, for any numbers of
\* workers, calls and tasks and any sequence of faults of Redis.
THEOREM TypeCorrect == Spec => []TypeOK
<1>1. Inv => TypeOK
  BY DEF Inv
<1> QED
  BY <1>1, Invariance, PTL

\* The set `tasks` lists exactly the tasks that have a hash, whichever
\* commands of which workers Redis carries out, early or late.
THEOREM IndexExact == Spec => []TasksIndexed
<1>1. Inv => TasksIndexed
  BY DEF Inv
<1> QED
  BY <1>1, Invariance, PTL

\* A removed task does not come back and its identifier is not given out again.
THEOREM RemovalsFinal == Spec => RemovedForGood
<1>1. Inv /\ [Next]_vars =>
        [\A i \in Ids : i <= next_id /\ hash[i] = NoTask => hash'[i] = NoTask]_vars
  <2> SUFFICES ASSUME Inv, [Next]_vars, NEW i \in Ids, i <= next_id, hash[i] = NoTask
               PROVE  hash'[i] = NoTask
    OBVIOUS
  <2>1. CASE UNCHANGED dbVars
    BY <2>1 DEF dbVars
  <2>2. ASSUME NEW r \in Requests, Run(r) PROVE hash'[i] = NoTask
    BY <2>2, RunKeepsRemoved DEF Inv, TypeOK
  <2> QED
    BY <2>1, <2>2, StepOrRun
<1> QED
  BY <1>1, Invariance, PTL DEF Spec, RemovedForGood

-----------------------------------------------------------------------------
(* TaskStore implements TaskService. *)

\* What a client sees of each call, without the choice of a worker.
Seen ==
    \A c \in Calls :
        /\ \A w \in Workers : job[w] = c /\ pc[w] = "replied" =>
             clientCalls[c] = [phase |-> "applied", req |-> calls[c].req, answer |-> reply[w]]
        /\ (\A w \in Workers : ~(job[w] = c /\ pc[w] = "replied")) =>
             clientCalls[c] = [phase |-> IF calls[c].phase \in {"queued", "running"} THEN "pending"
                                         ELSE calls[c].phase,
                               req |-> calls[c].req, answer |-> calls[c].answer]

\* The worker with a reply is the only one that has the call.
LEMMA SeenAlways == CallInv => Seen
<1> SUFFICES ASSUME CallInv, NEW c \in Calls
             PROVE  /\ \A w \in Workers : job[w] = c /\ pc[w] = "replied" =>
                         clientCalls[c] = [phase |-> "applied", req |-> calls[c].req, answer |-> reply[w]]
                    /\ (\A w \in Workers : ~(job[w] = c /\ pc[w] = "replied")) =>
                         clientCalls[c] =
                           [phase |-> IF calls[c].phase \in {"queued", "running"} THEN "pending"
                                      ELSE calls[c].phase,
                            req |-> calls[c].req, answer |-> calls[c].answer]
  BY DEF Seen
<1>1. ASSUME NEW w \in Workers, job[w] = c, pc[w] = "replied"
      PROVE  clientCalls[c] = [phase |-> "applied", req |-> calls[c].req, answer |-> reply[w]]
  <2>1. Executed(c)
    BY <1>1 DEF Executed
  <2>2. (CHOOSE v \in Workers : job[v] = c) = w
    BY <1>1, TaskStoreAssumption DEF CallInv, JobsInOrder
  <2> QED
    BY <2>1, <2>2 DEF clientCalls
<1>2. ASSUME \A w \in Workers : ~(job[w] = c /\ pc[w] = "replied")
      PROVE  clientCalls[c] = [phase |-> IF calls[c].phase \in {"queued", "running"} THEN "pending"
                                         ELSE calls[c].phase,
                               req |-> calls[c].req, answer |-> calls[c].answer]
  <2>1. ~Executed(c)
    BY <1>2 DEF Executed
  <2> QED
    BY <2>1 DEF clientCalls
<1> QED
  BY <1>1, <1>2

\* A call that a step does not touch looks the same afterwards.
LEMMA Untouched ==
    ASSUME CallInv, CallInv', NEW c \in Calls,
           calls'[c].req = calls[c].req, calls'[c].answer = calls[c].answer,
           \/ calls'[c].phase = calls[c].phase
           \/ {calls'[c].phase, calls[c].phase} \subseteq {"queued", "running"},
           \A w \in Workers :
             /\ (job[w] = c /\ pc[w] = "replied") <=> (job'[w] = c /\ pc'[w] = "replied")
             /\ job[w] = c /\ pc[w] = "replied" => reply'[w] = reply[w]
    PROVE  clientCalls'[c] = clientCalls[c]
<1>1. Seen /\ Seen'
  BY SeenAlways, PTL
<1>2. CASE \E w \in Workers : job[w] = c /\ pc[w] = "replied"
  <2>1. PICK w \in Workers : job[w] = c /\ pc[w] = "replied"
    BY <1>2
  <2>2. clientCalls[c] = [phase |-> "applied", req |-> calls[c].req, answer |-> reply[w]]
    BY <1>1, <2>1 DEF Seen
  <2>3. job'[w] = c /\ pc'[w] = "replied" /\ reply'[w] = reply[w]
    BY <2>1
  <2>4. clientCalls'[c] = [phase |-> "applied", req |-> calls'[c].req, answer |-> reply'[w]]
    BY <1>1, <2>3 DEF Seen
  <2> QED
    BY <2>2, <2>3, <2>4
<1>3. CASE \A w \in Workers : ~(job[w] = c /\ pc[w] = "replied")
  <2> DEFINE p == IF calls[c].phase \in {"queued", "running"} THEN "pending" ELSE calls[c].phase
  <2>1. clientCalls[c] = [phase |-> p, req |-> calls[c].req, answer |-> calls[c].answer]
    BY <1>1, <1>3 DEF Seen
  <2>2. \A w \in Workers : ~(job'[w] = c /\ pc'[w] = "replied")
    BY <1>3
  <2>3. clientCalls'[c] = [phase |-> p', req |-> calls'[c].req, answer |-> calls'[c].answer]
    BY <1>1, <2>2 DEF Seen
  <2>4. p' = p
    OBVIOUS
  <2> QED
    BY <2>1, <2>3, <2>4
<1> QED
  BY <1>2, <1>3

\* The end of a job is the end of its call, and of no other.
LEMMA FinishSeen ==
    ASSUME CallInv, CallInv', NEW w \in Workers, pc[w] # "idle", NEW answer, Finish(w, answer)
    PROVE  Service!Close(job[w], answer)
<1> USE TaskStoreAssumption
<1> DEFINE j == job[w]
           rec == [phase |-> "answered", req |-> NoRequest, answer |-> answer]
<1>1. /\ j \in Calls
      /\ \A v \in Workers \ {w} : job[v] # j
  BY DEF CallInv, JobsInOrder
<1>2. /\ calls' = [c \in Calls |-> IF c = j THEN rec ELSE calls[c]]
      /\ job' = [job EXCEPT ![w] = NoCall]
      /\ pc' = [pc EXCEPT ![w] = "idle"]
      /\ reply' = [reply EXCEPT ![w] = NoAnswer]
  BY <1>1 DEF CallInv, CallsInOrder, Finish, Answered
<1>3. clientCalls'[j] = rec
  <2>1. Seen'
    BY SeenAlways, PTL
  <2>2. \A v \in Workers : job'[v] # j
    BY <1>1, <1>2 DEF CallInv, CallType
  <2>3. calls'[j] = rec
    BY <1>1, <1>2
  <2>4. clientCalls'[j] = [phase |-> IF calls'[j].phase \in {"queued", "running"} THEN "pending"
                                     ELSE calls'[j].phase,
                           req |-> calls'[j].req, answer |-> calls'[j].answer]
    BY <1>1, <2>1, <2>2 DEF Seen
  <2> QED
    BY <2>3, <2>4
<1>4. ASSUME NEW c \in Calls, c # j PROVE clientCalls'[c] = clientCalls[c]
  <2>1. calls'[c] = calls[c]
    BY <1>2, <1>4
  <2>2. ASSUME NEW v \in Workers
        PROVE  /\ (job[v] = c /\ pc[v] = "replied") <=> (job'[v] = c /\ pc'[v] = "replied")
               /\ job[v] = c /\ pc[v] = "replied" => reply'[v] = reply[v]
    BY <1>1, <1>2, <1>4 DEF CallInv, CallType, RepliesInOrder
  <2> QED
    BY <2>1, <2>2, Untouched
<1>5. clientCalls' = [c \in Calls |-> clientCalls'[c]] /\ clientCalls = [c \in Calls |-> clientCalls[c]]
  BY DEF clientCalls
<1> HIDE DEF j, rec
<1>6. clientCalls' = [clientCalls EXCEPT ![j] = rec]
  BY <1>3, <1>4, <1>5
<1> QED
  BY <1>6 DEF Service!Close, j, rec

\* A step that no client sees.
LEMMA NothingSeen ==
    ASSUME CallInv, CallInv',
           \A c \in Calls :
             /\ calls'[c].req = calls[c].req /\ calls'[c].answer = calls[c].answer
             /\ \/ calls'[c].phase = calls[c].phase
                \/ {calls'[c].phase, calls[c].phase} \subseteq {"queued", "running"},
           \A w \in Workers :
             /\ pc[w] = "replied" <=> pc'[w] = "replied"
             /\ pc[w] = "replied" => job'[w] = job[w] /\ reply'[w] = reply[w]
    PROVE  UNCHANGED clientCalls
<1>1. \A c \in Calls : clientCalls'[c] = clientCalls[c]
  BY Untouched
<1>2. clientCalls' = [c \in Calls |-> clientCalls'[c]] /\ clientCalls = [c \in Calls |-> clientCalls[c]]
  BY DEF clientCalls
<1> QED
  BY <1>1, <1>2

\* A call is invoked or rejected.
LEMMA HandleSeen ==
    ASSUME CallInv, CallInv', NEW c \in Calls, NEW r \in Requests, Handle(c, r)
    PROVE  Service!Invoke(c, r) \/ Service!Reject(c)
<1> USE TaskStoreAssumption
<1>1. /\ UNCHANGED <<job, pc, reply, loose, hash, next_id>>
      /\ calls[c].phase \in {"idle", "answered"}
  BY DEF Handle, workerVars, dbVars
<1>2. \A w \in Workers : job[w] # c
  BY <1>1 DEF CallInv, JobsInOrder
<1>3. clientCalls[c].phase = calls[c].phase
  <2>1. Seen
    BY SeenAlways
  <2>2. clientCalls[c] = [phase |-> IF calls[c].phase \in {"queued", "running"} THEN "pending"
                                    ELSE calls[c].phase,
                          req |-> calls[c].req, answer |-> calls[c].answer]
    BY <1>2, <2>1 DEF Seen
  <2> QED
    BY <1>1, <2>2
<1>4. ASSUME NEW d \in Calls, d # c PROVE clientCalls'[d] = clientCalls[d]
  <2>1. calls'[d] = calls[d]
    BY <1>4 DEF Handle, CallInv, CallsInOrder
  <2> QED
    BY <1>1, <2>1, Untouched
<1>5. clientCalls' = [d \in Calls |-> clientCalls'[d]] /\ clientCalls = [d \in Calls |-> clientCalls[d]]
  BY DEF clientCalls
<1>6. clientCalls'[c] = [phase |-> IF calls'[c].phase \in {"queued", "running"} THEN "pending"
                                   ELSE calls'[c].phase,
                         req |-> calls'[c].req, answer |-> calls'[c].answer]
  <2>1. Seen'
    BY SeenAlways, PTL
  <2> QED
    BY <1>1, <1>2, <2>1 DEF Seen
<1>7. ASSUME NEW a, calls' = [calls EXCEPT ![c] = Answered(a)]
      PROVE  Service!Close(c, a)
  <2> DEFINE rec == [phase |-> "answered", req |-> NoRequest, answer |-> a]
  <2>1. calls'[c] = rec
    BY <1>7 DEF Answered, CallInv, CallsInOrder
  <2>2. clientCalls'[c] = rec
    BY <1>6, <2>1
  <2> HIDE DEF rec
  <2>3. clientCalls' = [clientCalls EXCEPT ![c] = rec]
    BY <1>4, <1>5, <2>2
  <2> QED
    BY <2>3 DEF Service!Close, rec
<1>8. ASSUME calls' = [calls EXCEPT ![c] = [phase |-> "queued", req |-> r, answer |-> NoAnswer]]
      PROVE  Service!Invoke(c, r)
  <2> DEFINE rec == [phase |-> "pending", req |-> r, answer |-> <<0, <<>>>>]
  <2>1. calls'[c] = [phase |-> "queued", req |-> r, answer |-> NoAnswer]
    BY <1>8 DEF CallInv, CallsInOrder
  <2>2. clientCalls'[c] = rec
    BY <1>6, <2>1 DEF NoAnswer
  <2> HIDE DEF rec
  <2>3. clientCalls' = [clientCalls EXCEPT ![c] = rec]
    BY <1>4, <1>5, <2>2
  <2> QED
    BY <1>1, <1>3, <2>3 DEF Service!Invoke, rec
<1> QED
  BY <1>1, <1>3, <1>7, <1>8 DEF Handle, Service!Reject

\* The call of a worker that waits for a reply or has one, as its client sees it.
LEMMA RunningSeen ==
    ASSUME CallInv, NEW w \in Workers, pc[w] # "idle"
    PROVE  /\ job[w] \in Calls
           /\ clientCalls[job[w]].req = calls[job[w]].req
           /\ clientCalls[job[w]].phase = IF pc[w] = "replied" THEN "applied" ELSE "pending"
           /\ pc[w] = "replied" => clientCalls[job[w]].answer = reply[w]
<1>1. Seen
  BY SeenAlways
<1>2. job[w] \in Calls /\ calls[job[w]].phase = "running"
  BY DEF CallInv, JobsInOrder
<1>3. CASE pc[w] = "replied"
  <2>1. clientCalls[job[w]] = [phase |-> "applied", req |-> calls[job[w]].req, answer |-> reply[w]]
    BY <1>1, <1>2, <1>3 DEF Seen
  <2> QED
    BY <1>2, <1>3, <2>1
<1>4. CASE pc[w] # "replied"
  <2>1. \A v \in Workers : ~(job[v] = job[w] /\ pc[v] = "replied")
    BY <1>2, <1>4, TaskStoreAssumption DEF CallInv, JobsInOrder
  <2>2. clientCalls[job[w]] = [phase |-> IF calls[job[w]].phase \in {"queued", "running"} THEN "pending"
                                         ELSE calls[job[w]].phase,
                               req |-> calls[job[w]].req, answer |-> calls[job[w]].answer]
    BY <1>1, <1>2, <2>1 DEF Seen
  <2> QED
    BY <1>2, <1>4, <2>2
<1> QED
  BY <1>3, <1>4

\* A worker that gives up.
LEMMA FailureSeen ==
    ASSUME CallInv, CallInv', NEW w \in Workers, pc[w] # "idle",
           Finish(w, StorageFailed(calls[job[w]].req)),
           \/ UNCHANGED loose
           \/ pc[w] = "sent" /\ loose' = [loose EXCEPT ![job[w]] = calls[job[w]].req],
           UNCHANGED <<next_id, hash>>
    PROVE  Service!GiveUp(job[w])
<1>1. Service!Close(job[w], StorageFailed(calls[job[w]].req))
  BY FinishSeen
<1>2. /\ clientCalls[job[w]].req = calls[job[w]].req
      /\ clientCalls[job[w]].phase = IF pc[w] = "replied" THEN "applied" ELSE "pending"
  BY RunningSeen
<1>3. StorageFailed(calls[job[w]].req) = Service!FailureAnswer(clientCalls[job[w]].req)
  BY <1>2 DEF StorageFailed, Service!FailureAnswer
<1> QED
  BY <1>1, <1>2, <1>3 DEF Service!GiveUp

\* A command does and answers what the service says of its request.
LEMMA RunIsEffect ==
    ASSUME Inv, NEW r \in Requests, Run(r)
    PROVE  Service!Effect(r) /\ ReplyTo(r) = Service!AnswerNow(r)
<1> USE TaskStoreAssumption
<1>0. r \in Request /\ r.op \in {"list", "create", "update", "remove"}
  BY DEF Request
<1>1. Service!Found(r.id) <=> Exists(r.id)
  BY DEF Service!Found, Exists
<1>2. Service!After(r) = Updated(r)
  BY DEF Service!After, Updated
<1>3. CASE r.op = "list"
  <2>1. {i \in tasks : hash[i] # NoTask} = {i \in Ids : hash[i] # NoTask}
    BY DEF Inv, TasksIndexed
  <2>2. ReplyTo(r) = Service!AnswerNow(r)
    BY <1>3, <2>1 DEF ReplyTo, GotAll, getAllTasks, Service!AnswerNow, Service!Listed
  <2>3. Service!Effect(r)
    BY <1>3 DEF Run, dbVars, Service!Effect
  <2> QED
    BY <2>2, <2>3
<1>4. CASE r.op = "create"
  <2>1. ReplyTo(r) = Service!AnswerNow(r)
    BY <1>4 DEF ReplyTo, Created, Service!AnswerNow
  <2>2. Service!Effect(r)
    BY <1>4 DEF Run, createTask, Service!Effect
  <2> QED
    BY <2>1, <2>2
<1>5. CASE r.op = "update"
  <2>1. ReplyTo(r) = Service!AnswerNow(r)
    BY <1>1, <1>2, <1>5 DEF ReplyTo, Changed, NotFound, Service!AnswerNow
  <2>2. Service!Effect(r)
    BY <1>1, <1>2, <1>5 DEF Run, updateTask, Service!Effect
  <2> QED
    BY <2>1, <2>2
<1>6. CASE r.op = "remove"
  <2>1. ReplyTo(r) = Service!AnswerNow(r)
    BY <1>1, <1>6 DEF ReplyTo, Removed, NotFound, Service!AnswerNow
  <2>2. Service!Effect(r)
    BY <1>1, <1>6 DEF Run, removeTask, Service!Effect
  <2> QED
    BY <2>1, <2>2
<1> QED
  BY <1>0, <1>3, <1>4, <1>5, <1>6

\* Redis carries out the command of a call: the call takes effect.
LEMMA ExecuteSeen ==
    ASSUME Inv, CallInv', NEW w \in Workers, Execute(w)
    PROVE  Service!TakeEffect(job[w])
<1> USE TaskStoreAssumption
<1> DEFINE j == job[w]
           r == calls[j].req
<1>0. CallInv /\ pc[w] = "sent" /\ j \in Calls /\ r \in Requests
  BY JobRequest DEF Inv, Execute
<1>1. /\ UNCHANGED <<calls, job, loose>>
      /\ reply' = [reply EXCEPT ![w] = ReplyTo(r)]
      /\ pc' = [pc EXCEPT ![w] = "replied"]
      /\ Run(r)
  BY DEF Execute
<1>2. clientCalls[j].phase = "pending" /\ clientCalls[j].req = r
  BY <1>0, RunningSeen
<1>3. Service!Effect(r) /\ ReplyTo(r) = Service!AnswerNow(r)
  BY <1>0, <1>1, RunIsEffect
<1> HIDE DEF r
<1>4. clientCalls'[j] = [phase |-> "applied", req |-> r, answer |-> ReplyTo(r)]
  <2>1. Seen'
    BY SeenAlways, PTL
  <2>2. job'[w] = j /\ pc'[w] = "replied" /\ reply'[w] = ReplyTo(r) /\ calls'[j].req = r
    BY <1>0, <1>1 DEF CallInv, CallType, RepliesInOrder, r
  <2>3. clientCalls'[j] = [phase |-> "applied", req |-> calls'[j].req, answer |-> reply'[w]]
    BY <1>0, <2>1, <2>2 DEF Seen
  <2> QED
    BY <2>2, <2>3
<1>5. ASSUME NEW c \in Calls, c # j PROVE clientCalls'[c] = clientCalls[c]
  <2>1. ASSUME NEW v \in Workers
        PROVE  /\ (job[v] = c /\ pc[v] = "replied") <=> (job'[v] = c /\ pc'[v] = "replied")
               /\ job[v] = c /\ pc[v] = "replied" => reply'[v] = reply[v]
    BY <1>0, <1>1, <1>5 DEF CallInv, CallType, RepliesInOrder
  <2> QED
    BY <1>0, <1>1, <2>1, Untouched
<1>6. clientCalls' = [c \in Calls |-> clientCalls'[c]] /\ clientCalls = [c \in Calls |-> clientCalls[c]]
  BY DEF clientCalls
<1> HIDE DEF j
<1>7. clientCalls' = [clientCalls EXCEPT ![j] = [phase |-> "applied", req |-> r, answer |-> ReplyTo(r)]]
  BY <1>0, <1>4, <1>5, <1>6
<1>8. Service!TakeEffect(j)
  BY <1>1, <1>2, <1>3, <1>7 DEF Service!TakeEffect
<1> QED
  BY <1>8 DEF j

\* Every step is a step of the service or none.
LEMMA NextSeen == Inv /\ Inv' /\ [Next]_vars => [Service!Next]_(Service!vars)
<1> SUFFICES ASSUME Inv, Inv', [Next]_vars PROVE Service!Next \/ UNCHANGED Service!vars
  OBVIOUS
<1> USE TaskStoreAssumption
<1>0. CallInv /\ CallInv' /\ TypeOK
  BY DEF Inv
<1>1. ASSUME UNCHANGED <<calls, job, pc, reply, loose, next_id, hash>>
      PROVE  UNCHANGED Service!vars
  <2>1. UNCHANGED clientCalls
    BY <1>0, <1>1, NothingSeen
  <2> QED
    BY <1>1, <2>1 DEF Service!vars
<1>2. ASSUME NEW c \in Calls, NEW r \in Requests, Handle(c, r) PROVE Service!Next
  BY <1>0, <1>2, HandleSeen DEF Service!Next
<1>3. ASSUME NEW w \in Workers, Take(w) PROVE UNCHANGED Service!vars
  <2> DEFINE h == queue[1]
  <2>1. /\ h = Head(queue) /\ h \in Calls /\ calls[h].phase = "queued"
        /\ pc[w] = "idle" /\ job[w] = NoCall
    BY <1>0, <1>3 DEF Take, CallInv, CallType, QueueInOrder, JobsInOrder
  <2> DEFINE rec == [calls[h] EXCEPT !.phase = "running"]
  <2>2. /\ calls' = [c \in Calls |-> IF c = h THEN rec ELSE calls[c]]
        /\ job' = [job EXCEPT ![w] = h]
        /\ pc' = [pc EXCEPT ![w] = "connect"]
        /\ UNCHANGED <<reply, loose, next_id, hash>>
    <3>0. calls = [c \in Calls |-> calls[c]]
      BY <1>0 DEF CallInv, CallsInOrder
    <3>1. calls' = [c \in Calls |-> IF c = h THEN rec ELSE calls[c]]
      BY <1>3, <2>1, <3>0 DEF Take
    <3>2. /\ job' = [job EXCEPT ![w] = h]
          /\ pc' = [pc EXCEPT ![w] = "connect"]
          /\ UNCHANGED <<reply, loose, next_id, hash>>
      BY <1>3, <2>1 DEF Take, dbVars
    <3> QED
      BY <3>1, <3>2
  <2>3. /\ calls'[h].phase = "running" /\ calls'[h].req = calls[h].req
        /\ calls'[h].answer = calls[h].answer
    <3>1. rec.phase = "running" /\ rec.req = calls[h].req /\ rec.answer = calls[h].answer
      BY <1>0, <2>1 DEF CallInv, CallsInOrder
    <3> HIDE DEF rec, h
    <3> QED
      BY <2>1, <2>2, <3>1
  <2>4. UNCHANGED clientCalls
    <3> HIDE DEF h
    <3>1. ASSUME NEW c \in Calls
          PROVE  /\ calls'[c].req = calls[c].req /\ calls'[c].answer = calls[c].answer
                 /\ \/ calls'[c].phase = calls[c].phase
                    \/ {calls'[c].phase, calls[c].phase} \subseteq {"queued", "running"}
      BY <2>1, <2>2, <2>3
    <3>2. ASSUME NEW v \in Workers
          PROVE  /\ pc[v] = "replied" <=> pc'[v] = "replied"
                 /\ pc[v] = "replied" => job'[v] = job[v] /\ reply'[v] = reply[v]
      BY <1>0, <2>1, <2>2 DEF CallInv, CallType
    <3> QED
      BY <1>0, <3>1, <3>2, NothingSeen
  <2> QED
    BY <2>2, <2>4 DEF Service!vars
<1>4. ASSUME NEW w \in Workers, EnsureConnected(w) \/ Send(w) PROVE UNCHANGED Service!vars
  <2>1. /\ UNCHANGED <<calls, job, reply, loose, next_id, hash>>
        /\ \A v \in Workers : pc[v] = "replied" <=> pc'[v] = "replied"
    BY <1>0, <1>4 DEF EnsureConnected, Send, CallInv, CallType, dbVars
  <2>2. UNCHANGED clientCalls
    BY <1>0, <2>1, NothingSeen
  <2> QED
    BY <2>1, <2>2 DEF Service!vars
<1>5. ASSUME NEW w \in Workers, Unreachable(w) \/ Refuse(w) \/ Fail(w) PROVE Service!Next
  <2>1. /\ pc[w] # "idle"
        /\ Finish(w, StorageFailed(calls[job[w]].req))
        /\ \/ UNCHANGED loose
           \/ pc[w] = "sent" /\ loose' = [loose EXCEPT ![job[w]] = calls[job[w]].req]
        /\ UNCHANGED <<next_id, hash>>
    BY <1>5 DEF Unreachable, Refuse, Fail, dbVars
  <2>2. Service!GiveUp(job[w]) /\ job[w] \in Calls
    BY <1>0, <2>1, FailureSeen, JobRequest
  <2> QED
    BY <2>2 DEF Service!Next
<1>6. ASSUME NEW w \in Workers, Receive(w) PROVE Service!Next
  <2>1. /\ pc[w] = "replied" /\ Finish(w, reply[w])
        /\ UNCHANGED <<loose, next_id, hash>>
    BY <1>6 DEF Receive, dbVars
  <2>2. Service!Close(job[w], reply[w])
    BY <1>0, <2>1, FinishSeen
  <2>3. /\ job[w] \in Calls /\ clientCalls[job[w]].phase = "applied"
        /\ clientCalls[job[w]].answer = reply[w]
    BY <1>0, <2>1, RunningSeen
  <2>4. Service!Answer(job[w])
    BY <2>1, <2>2, <2>3 DEF Service!Answer
  <2> QED
    BY <2>3, <2>4 DEF Service!Next
<1>7. ASSUME NEW w \in Workers, Execute(w) PROVE Service!Next
  <2>1. job[w] \in Calls
    BY <1>0, <1>7, JobRequest DEF Execute
  <2> QED
    BY <1>0, <1>7, <2>1, ExecuteSeen DEF Service!Next
<1>8. ASSUME NEW c \in Calls, ExecuteLoose(c) PROVE Service!Next
  <2>1. /\ loose[c] \in Requests /\ loose[c] # NoRequest /\ Run(loose[c])
        /\ loose' = [loose EXCEPT ![c] = NoRequest]
        /\ UNCHANGED <<calls, job, pc, reply>>
    BY <1>0, <1>8 DEF ExecuteLoose, TypeOK, workerVars
  <2>2. UNCHANGED clientCalls
    BY <1>0, <2>1, NothingSeen
  <2>3. Service!Effect(loose[c])
    BY <2>1, RunIsEffect
  <2>4. Service!LateEffect(c)
    BY <2>1, <2>2, <2>3 DEF Service!LateEffect
  <2> QED
    BY <2>4 DEF Service!Next
<1>9. ASSUME Crash PROVE Service!Next
  <2>1. /\ loose' = [c \in Calls |-> IF c \in Calls THEN NoRequest ELSE loose[c]]
        /\ UNCHANGED <<calls, job, pc, reply, next_id, hash>>
    BY <1>9 DEF Crash, dbVars
  <2>2. UNCHANGED clientCalls
    BY <1>0, <2>1, NothingSeen
  <2>3. Service!Forget
    BY <2>1, <2>2 DEF Service!Forget
  <2> QED
    BY <2>3 DEF Service!Next
<1>10. ASSUME (\E w \in Workers : Cut(w)) \/ Stall \/ ComeBack \/ UNCHANGED vars
       PROVE  UNCHANGED Service!vars
  BY <1>1, <1>10 DEF Cut, Stall, ComeBack, vars, workerVars, dbVars
<1> QED
  BY <1>2, <1>3, <1>4, <1>5, <1>6, <1>7, <1>8, <1>9, <1>10 DEF Next, Work

\* Nothing is under way at first.
LEMMA InitSeen == Init => Service!Init
<1> SUFFICES ASSUME Init PROVE Service!Init
  OBVIOUS
<1>1. \A c \in Calls : ~Executed(c)
  BY DEF Init, Executed
<1>2. ASSUME NEW c \in Calls
      PROVE  clientCalls[c] = [phase |-> "idle", req |-> NoRequest, answer |-> <<0, <<>>>>]
  BY <1>1 DEF Init, NoAnswer, clientCalls
<1>3. clientCalls = [c \in Calls |-> [phase |-> "idle", req |-> NoRequest, answer |-> <<0, <<>>>>]]
  <2>1. clientCalls = [c \in Calls |-> clientCalls[c]]
    BY DEF clientCalls
  <2> QED
    BY <1>2, <2>1
<1> QED
  BY <1>3 DEF Init, Service!Init

\* The task API is an atomic map to its clients: for any numbers of workers,
\* calls and faults, every call takes effect at most once, at one moment, and
\* only calls that were answered as failed may do so after their answer.
THEOREM TasksAreAtomic == Spec => ImplementsTaskService
<1>1. Service!Init /\ [][Service!Next]_(Service!vars) => Service!Spec
  BY DEF Service!Spec
<1> QED
  BY <1>1, InitSeen, NextSeen, Invariance, PTL DEF Spec, ImplementsTaskService
=============================================================================
