----------------------------- MODULE WorkerPool -----------------------------
(***************************************************************************)
(* The worker pool of the HTTP server (worker/WorkerPool.cpp) with the two *)
(* parties that use it: the reactor threads, which submit blocking Redis   *)
(* work and run its completions, and the main thread, which stops the pool *)
(* once the reactors have been joined (server/Server.cpp).                 *)
(*                                                                         *)
(* A critical section of the code (jobs_mutex, or a channel's mutex) is    *)
(* one action; whatever the code does outside a lock is an action of its   *)
(* own, so that every interleaving of the real threads is a behaviour.     *)
(***************************************************************************)
EXTENDS Naturals, Sequences, FiniteSets

CONSTANTS
    Workers,          \* worker threads
    Reactors,         \* reactor threads, one completion channel each
    Jobs,             \* identities of the work that may be submitted
    ReactorOf,        \* Job::reactor_id: the reactor that submits the job
    MAX_QUEUED_JOBS,  \* 4096 in the code
    NoJob             \* a worker that holds no job

ASSUME PoolAssumption ==
    /\ IsFiniteSet(Workers) /\ Workers # {}
    /\ ReactorOf \in [Jobs -> Reactors]
    /\ MAX_QUEUED_JOBS \in Nat \ {0}
    /\ NoJob \notin Jobs

VARIABLES
    jobs,                \* the deque of accepted jobs, oldest first
    stopping,            \* set once by stop()
    pc,                  \* where each worker thread is in workerLoop()
    job,                 \* the local variable `job` of each worker
    completions,         \* each channel's deque of completions
    event_fd,            \* each channel's eventfd counter
    reactor,             \* where each reactor thread is
    shutdown_requested,  \* the flag the signal handler sets
    main,                \* where the main thread is in Server::start / stop()
    outcome              \* history: what became of each job

poolVars == <<jobs, stopping, pc, job, completions, event_fd>>
vars == <<jobs, stopping, pc, job, completions, event_fd,
          reactor, shutdown_requested, main, outcome>>

(***************************************************************************)
(* Worker thread positions: about to take jobs_mutex, blocked in           *)
(* jobs_condition.wait, running job.work(redis), holding a non-null        *)
(* completion, between the push and the write of the eventfd, returned.    *)
(***************************************************************************)
WorkerState == {"lock", "wait", "work", "publish", "signal", "exited"}
ReactorState == {"loop", "draining", "exited"}
MainState == {"serving", "notify", "join", "clear", "stopped"}
Outcome == {"none", "refused", "accepted", "failed", "delivered", "discarded"}

TypeOK ==
    /\ jobs \in Seq(Jobs) /\ Len(jobs) <= MAX_QUEUED_JOBS
    /\ stopping \in BOOLEAN
    /\ pc \in [Workers -> WorkerState]
    /\ job \in [Workers -> Jobs \cup {NoJob}]
    /\ \A w \in Workers : pc[w] \in {"work", "publish", "signal"} <=> job[w] \in Jobs
    /\ completions \in [Reactors -> Seq(Jobs)]
    /\ event_fd \in [Reactors -> Nat]
    /\ reactor \in [Reactors -> ReactorState]
    /\ shutdown_requested \in BOOLEAN
    /\ main \in MainState
    /\ outcome \in [Jobs -> Outcome]

Init ==
    /\ jobs = <<>>
    /\ stopping = FALSE
    /\ pc = [w \in Workers |-> "lock"]
    /\ job = [w \in Workers |-> NoJob]
    /\ completions = [r \in Reactors |-> <<>>]
    /\ event_fd = [r \in Reactors |-> 0]
    /\ reactor = [r \in Reactors |-> "loop"]
    /\ shutdown_requested = FALSE
    /\ main = "serving"
    /\ outcome = [j \in Jobs |-> "none"]

-----------------------------------------------------------------------------
(* Reactor threads. *)

Waiters == {w \in Workers : pc[w] = "wait"}

\* Mutant of NotifyOne: wake a worker only when the deque was empty.
NotifyOnlyFirst ==
    IF Waiters = {} \/ jobs # <<>>
      THEN UNCHANGED pc
      ELSE \E w \in Waiters : pc' = [pc EXCEPT ![w] = "lock"]

\* Mutant of NotifyOne: the notification is forgotten.
NotifyNobody == UNCHANGED pc

(***************************************************************************)
(* jobs_condition.notify_one(): if a worker is blocked, one of them leaves *)
(* the wait and has to take jobs_mutex again.                              *)
(***************************************************************************)
NotifyOne ==
    IF Waiters = {}
      THEN UNCHANGED pc
      ELSE \E w \in Waiters : pc' = [pc EXCEPT ![w] = "lock"]

\* Mutant of CanAccept: the limit is off by one.
CanAcceptOneMore == ~stopping /\ Len(jobs) <= MAX_QUEUED_JOBS

CanAccept == ~stopping /\ Len(jobs) < MAX_QUEUED_JOBS

SubmitAccepted(j) ==
    /\ reactor[ReactorOf[j]] = "loop"
    /\ outcome[j] = "none"
    /\ CanAccept
    /\ jobs' = Append(jobs, j)
    /\ outcome' = [outcome EXCEPT ![j] = "accepted"]
    /\ NotifyOne
    /\ UNCHANGED <<stopping, job, completions, event_fd, reactor,
                   shutdown_requested, main>>

\* submit() returns false; the caller answers 503 by itself.
SubmitRefused(j) ==
    /\ reactor[ReactorOf[j]] = "loop"
    /\ outcome[j] = "none"
    /\ ~CanAccept
    /\ outcome' = [outcome EXCEPT ![j] = "refused"]
    /\ UNCHANGED <<poolVars, reactor, shutdown_requested, main>>

(***************************************************************************)
(* handleCompletions(), entered when epoll reports the eventfd readable:   *)
(* first the counter is read down to zero ...                              *)
(***************************************************************************)
ConsumeCompletionEvent(r) ==
    /\ reactor[r] = "loop"
    /\ event_fd[r] > 0
    /\ event_fd' = [event_fd EXCEPT ![r] = 0]
    /\ reactor' = [reactor EXCEPT ![r] = "draining"]
    /\ UNCHANGED <<jobs, stopping, pc, job, completions,
                   shutdown_requested, main, outcome>>

\* Mutant of PopCompletion: one completion per wakeup instead of all of them.
PopOneCompletion(r) ==
    /\ reactor[r] = "draining"
    /\ completions[r] # <<>>
    /\ completions' = [completions EXCEPT ![r] = Tail(@)]
    /\ outcome' = [outcome EXCEPT ![Head(completions[r])] = "delivered"]
    /\ reactor' = [reactor EXCEPT ![r] = "loop"]
    /\ UNCHANGED <<jobs, stopping, pc, job, event_fd, shutdown_requested, main>>

\* ... then completions are popped and run until the deque is empty.
PopCompletion(r) ==
    /\ reactor[r] = "draining"
    /\ completions[r] # <<>>
    /\ completions' = [completions EXCEPT ![r] = Tail(@)]
    /\ outcome' = [outcome EXCEPT ![Head(completions[r])] = "delivered"]
    /\ UNCHANGED <<jobs, stopping, pc, job, event_fd, reactor,
                   shutdown_requested, main>>

PopNothing(r) ==
    /\ reactor[r] = "draining"
    /\ completions[r] = <<>>
    /\ reactor' = [reactor EXCEPT ![r] = "loop"]
    /\ UNCHANGED <<poolVars, shutdown_requested, main, outcome>>

\* Reactor::run leaves its loop at the first test of the flag after a batch.
ReactorExit(r) ==
    /\ reactor[r] = "loop"
    /\ shutdown_requested
    /\ reactor' = [reactor EXCEPT ![r] = "exited"]
    /\ UNCHANGED <<poolVars, shutdown_requested, main, outcome>>

-----------------------------------------------------------------------------
(* Worker threads. *)

\* The predicate of jobs_condition.wait.
Wake == stopping \/ jobs # <<>>

WorkerWait(w) ==
    /\ pc[w] = "lock"
    /\ ~Wake
    /\ pc' = [pc EXCEPT ![w] = "wait"]
    /\ UNCHANGED <<jobs, stopping, job, completions, event_fd, reactor,
                   shutdown_requested, main, outcome>>

\* The condition variable may return with nobody having notified it.
SpuriousWakeup(w) ==
    /\ pc[w] = "wait"
    /\ pc' = [pc EXCEPT ![w] = "lock"]
    /\ UNCHANGED <<jobs, stopping, job, completions, event_fd, reactor,
                   shutdown_requested, main, outcome>>

\* Mutant of WorkerTake: jobs.front() without jobs.pop_front().
WorkerPeek(w) ==
    /\ pc[w] = "lock"
    /\ jobs # <<>>
    /\ job' = [job EXCEPT ![w] = Head(jobs)]
    /\ pc' = [pc EXCEPT ![w] = "work"]
    /\ UNCHANGED <<jobs, stopping, completions, event_fd, reactor,
                   shutdown_requested, main, outcome>>

WorkerTake(w) ==
    /\ pc[w] = "lock"
    /\ jobs # <<>>
    /\ job' = [job EXCEPT ![w] = Head(jobs)]
    /\ jobs' = Tail(jobs)
    /\ pc' = [pc EXCEPT ![w] = "work"]
    /\ UNCHANGED <<stopping, completions, event_fd, reactor,
                   shutdown_requested, main, outcome>>

\* Mutant of MayExit: a stopping worker leaves queued jobs behind.
MayExitAtOnce == stopping

MayExit == stopping /\ jobs = <<>>

WorkerExit(w) ==
    /\ pc[w] = "lock"
    /\ MayExit
    /\ pc' = [pc EXCEPT ![w] = "exited"]
    /\ UNCHANGED <<jobs, stopping, job, completions, event_fd, reactor,
                   shutdown_requested, main, outcome>>

\* job.work(redis) returns a completion.
WorkReturns(w) ==
    /\ pc[w] = "work"
    /\ pc' = [pc EXCEPT ![w] = "publish"]
    /\ UNCHANGED <<jobs, stopping, job, completions, event_fd, reactor,
                   shutdown_requested, main, outcome>>

\* job.work(redis) throws (or returns null): nothing is ever published.
WorkThrows(w) ==
    /\ pc[w] = "work"
    /\ pc' = [pc EXCEPT ![w] = "lock"]
    /\ job' = [job EXCEPT ![w] = NoJob]
    /\ outcome' = [outcome EXCEPT ![job[w]] = "failed"]
    /\ UNCHANGED <<jobs, stopping, completions, event_fd, reactor,
                   shutdown_requested, main>>

\* Mutant of PushCompletion: push_front in place of push_back.
PushCompletionFront(w) ==
    /\ pc[w] = "publish"
    /\ completions' =
         [completions EXCEPT ![ReactorOf[job[w]]] = <<job[w]>> \o @]
    /\ pc' = [pc EXCEPT ![w] = "signal"]
    /\ UNCHANGED <<jobs, stopping, job, event_fd, reactor,
                   shutdown_requested, main, outcome>>

\* publishCompletion(): the push under the channel's mutex ...
PushCompletion(w) ==
    /\ pc[w] = "publish"
    /\ completions' =
         [completions EXCEPT ![ReactorOf[job[w]]] = Append(@, job[w])]
    /\ pc' = [pc EXCEPT ![w] = "signal"]
    /\ UNCHANGED <<jobs, stopping, job, event_fd, reactor,
                   shutdown_requested, main, outcome>>

\* ... and, after the unlock, the write that makes the eventfd readable.
SignalReactor(w) ==
    /\ pc[w] = "signal"
    /\ event_fd' = [event_fd EXCEPT ![ReactorOf[job[w]]] = @ + 1]
    /\ pc' = [pc EXCEPT ![w] = "lock"]
    /\ job' = [job EXCEPT ![w] = NoJob]
    /\ UNCHANGED <<jobs, stopping, completions, reactor,
                   shutdown_requested, main, outcome>>

-----------------------------------------------------------------------------
(* Main thread: Server::start joins the reactors, then calls stop(). *)

Signal ==
    /\ ~shutdown_requested
    /\ shutdown_requested' = TRUE
    /\ UNCHANGED <<poolVars, reactor, main, outcome>>

StopBegin ==
    /\ main = "serving"
    /\ shutdown_requested
    /\ \A r \in Reactors : reactor[r] = "exited"
    /\ stopping' = TRUE
    /\ main' = "notify"
    /\ UNCHANGED <<jobs, pc, job, completions, event_fd, reactor,
                   shutdown_requested, outcome>>

\* Mutant of StopNotifyAll: notify_one in place of notify_all.
StopNotifyOne ==
    /\ main = "notify"
    /\ NotifyOne
    /\ main' = "join"
    /\ UNCHANGED <<jobs, stopping, job, completions, event_fd, reactor,
                   shutdown_requested, outcome>>

StopNotifyAll ==
    /\ main = "notify"
    /\ pc' = [w \in Workers |-> IF pc[w] = "wait" THEN "lock" ELSE pc[w]]
    /\ main' = "join"
    /\ UNCHANGED <<jobs, stopping, job, completions, event_fd, reactor,
                   shutdown_requested, outcome>>

StopJoin ==
    /\ main = "join"
    /\ \A w \in Workers : pc[w] = "exited"
    /\ main' = "clear"
    /\ UNCHANGED <<poolVars, reactor, shutdown_requested, outcome>>

\* jobs.clear() and the channels' completions.clear(): what they still hold
\* is discarded. Nobody else runs any more.
StopClear ==
    /\ main = "clear"
    /\ jobs' = <<>>
    /\ completions' = [r \in Reactors |-> <<>>]
    /\ outcome' = [j \in Jobs |->
                     IF outcome[j] = "accepted" THEN "discarded" ELSE outcome[j]]
    /\ main' = "stopped"
    /\ UNCHANGED <<stopping, pc, job, event_fd, reactor, shutdown_requested>>

-----------------------------------------------------------------------------
ReactorNext(r) ==
    \/ ConsumeCompletionEvent(r)
    \/ PopCompletion(r)
    \/ PopNothing(r)
    \/ ReactorExit(r)

WorkerStep(w) ==
    \/ WorkerWait(w)
    \/ WorkerTake(w)
    \/ WorkerExit(w)
    \/ WorkReturns(w)
    \/ WorkThrows(w)
    \/ PushCompletion(w)
    \/ SignalReactor(w)

MainNext == StopBegin \/ StopNotifyAll \/ StopJoin \/ StopClear

\* stop() has returned and every thread has been joined.
Terminated == main = "stopped" /\ UNCHANGED vars

Next ==
    \/ \E j \in Jobs : SubmitAccepted(j) \/ SubmitRefused(j)
    \/ \E r \in Reactors : ReactorNext(r)
    \/ \E w \in Workers : WorkerStep(w) \/ SpuriousWakeup(w)
    \/ Signal
    \/ MainNext
    \/ Terminated

Spec == Init /\ [][Next]_vars

(***************************************************************************)
(* Every thread keeps being scheduled, jobs terminate (each Redis call has *)
(* a timeout) and epoll_wait keeps returning (eventfd or the 1s timer).    *)
(* Nothing forces a request or a signal to arrive, or a spurious wakeup.   *)
(***************************************************************************)
Fairness ==
    /\ \A r \in Reactors : WF_vars(ReactorNext(r))
    /\ \A w \in Workers : WF_vars(WorkerStep(w))
    /\ WF_vars(MainNext)

FairSpec == Spec /\ Fairness

-----------------------------------------------------------------------------
(* Properties. *)

\* The places that hold job j: the deque, a worker that has not published it
\* yet, a channel's deque.
Places(j) ==
    {<<"jobs", i>> : i \in {k \in DOMAIN jobs : jobs[k] = j}}
    \cup {<<"worker", w>> :
            w \in {v \in Workers : pc[v] \in {"work", "publish"} /\ job[v] = j}}
    \cup UNION {{<<"channel", r, i>> :
            i \in {k \in DOMAIN completions[r] : completions[r][k] = j}} : r \in Reactors}

(***************************************************************************)
(* An accepted job is in exactly one place until it has ended, and in none *)
(* afterwards: submit, workerLoop, publishCompletion, popCompletion and    *)
(* stop() together neither lose nor duplicate it.                          *)
(***************************************************************************)
JobConservation ==
    \A j \in Jobs :
        Cardinality(Places(j)) = IF outcome[j] = "accepted" THEN 1 ELSE 0

(***************************************************************************)
(* A completion a reactor has not popped is announced: while it is in the  *)
(* channel and the reactor may be sleeping in epoll_wait, the eventfd is   *)
(* readable or the worker that pushed is about to write it. This rests on  *)
(* publishCompletion pushing before it writes and on handleCompletions     *)
(* reading the eventfd before it pops.                                     *)
(***************************************************************************)
NoStrandedCompletion ==
    \A r \in Reactors :
        (completions[r] # <<>> /\ reactor[r] = "loop") =>
            \/ event_fd[r] > 0
            \/ \E w \in Workers : pc[w] = "signal" /\ ReactorOf[job[w]] = r

Awake == {w \in Workers : pc[w] = "lock"}

(***************************************************************************)
(* No job waits for a worker that nobody woke: as long as some worker is   *)
(* blocked on jobs_condition, there are at least as many awake workers on  *)
(* their way to the deque as there are jobs in it. One notify_one per push *)
(* is enough for this, in every interleaving with workers going to sleep.  *)
(***************************************************************************)
WorkConserving ==
    (Waiters # {}) => Len(jobs) <= Cardinality(Awake)

(***************************************************************************)
(* stop() runs what was accepted: when it has joined the workers, its      *)
(* jobs.clear() has nothing to throw away and no worker holds a job.       *)
(***************************************************************************)
StopDrains ==
    main \in {"clear", "stopped"} =>
        /\ jobs = <<>>
        /\ \A j \in Jobs : outcome[j] = "accepted" =>
              \E i \in DOMAIN completions[ReactorOf[j]] :
                  completions[ReactorOf[j]][i] = j

\* An accepted job ends: delivered to its reactor, failed, or, at shutdown
\* only, executed and its completion discarded.
AcceptedJobsEnd ==
    \A j \in Jobs : (outcome[j] = "accepted") ~> (outcome[j] # "accepted")

\* Server::start returns after a signal: every join() in it succeeds.
ShutdownTerminates == shutdown_requested ~> (main = "stopped")

(***************************************************************************)
(* The pool implements the abstract asynchronous call service.             *)
(***************************************************************************)
Calls == INSTANCE AsyncCalls WITH channel <- completions, closed <- stopping

\* The pool's threads, locks and wakeups are invisible to a reactor: every
\* step is a step of AsyncCalls or changes nothing, and the service's
\* progress is guaranteed.
ImplementsAsyncCalls == Calls!FairSpec
=============================================================================
