-------------------------- MODULE WorkerPoolProofs --------------------------
(***************************************************************************)
(* Proofs about WorkerPool, for any number of workers, reactors and jobs   *)
(* and any queue limit.                                                    *)
(***************************************************************************)
EXTENDS WorkerPool, FiniteSetTheorems, TLAPS

-----------------------------------------------------------------------------
(* Type correctness. *)

\* The initial state of the pool, reactors and main thread is well typed.
LEMMA InitTypeOK == Init => TypeOK
<1> SUFFICES ASSUME Init PROVE TypeOK
  OBVIOUS
<1> USE PoolAssumption DEF Init, WorkerState, ReactorState, MainState, Outcome
<1>1. jobs \in Seq(Jobs) /\ Len(jobs) <= MAX_QUEUED_JOBS
  OBVIOUS
<1>2. \A w \in Workers : pc[w] \in {"work", "publish", "signal"} <=> job[w] \in Jobs
  OBVIOUS
<1>3. completions \in [Reactors -> Seq(Jobs)]
  OBVIOUS
<1> QED
  BY <1>1, <1>2, <1>3 DEF TypeOK

\* Every step of a reactor, a worker or the main thread keeps the types, the
\* limit of the deque and the agreement of a worker's position with its job.
LEMMA NextTypeOK == TypeOK /\ [Next]_vars => TypeOK'
<1> SUFFICES ASSUME TypeOK, [Next]_vars PROVE TypeOK'
  OBVIOUS
<1> USE PoolAssumption DEF TypeOK, WorkerState, ReactorState, MainState, Outcome
<1>1. ASSUME NEW j \in Jobs, SubmitAccepted(j) PROVE TypeOK'
  <2>1. jobs' \in Seq(Jobs) /\ Len(jobs') <= MAX_QUEUED_JOBS
    BY <1>1 DEF SubmitAccepted, CanAccept
  <2>2. CASE Waiters = {}
    BY <1>1, <2>1, <2>2 DEF SubmitAccepted, NotifyOne
  <2>3. ASSUME NEW w \in Waiters, pc' = [pc EXCEPT ![w] = "lock"] PROVE TypeOK'
    BY <1>1, <2>1, <2>3 DEF SubmitAccepted, Waiters
  <2> QED
    BY <1>1, <2>2, <2>3 DEF SubmitAccepted, NotifyOne
<1>2. ASSUME NEW j \in Jobs, SubmitRefused(j) PROVE TypeOK'
  BY <1>2 DEF SubmitRefused, poolVars
<1>3. ASSUME NEW r \in Reactors, ConsumeCompletionEvent(r) PROVE TypeOK'
  BY <1>3 DEF ConsumeCompletionEvent
<1>4. ASSUME NEW r \in Reactors, PopCompletion(r) PROVE TypeOK'
  BY <1>4 DEF PopCompletion
<1>5. ASSUME NEW r \in Reactors, PopNothing(r) PROVE TypeOK'
  BY <1>5 DEF PopNothing, poolVars
<1>6. ASSUME NEW r \in Reactors, ReactorExit(r) PROVE TypeOK'
  BY <1>6 DEF ReactorExit, poolVars
<1>7. ASSUME NEW w \in Workers, WorkerWait(w) PROVE TypeOK'
  BY <1>7 DEF WorkerWait
<1>8. ASSUME NEW w \in Workers, SpuriousWakeup(w) PROVE TypeOK'
  BY <1>8 DEF SpuriousWakeup
<1>9. ASSUME NEW w \in Workers, WorkerTake(w) PROVE TypeOK'
  BY <1>9 DEF WorkerTake
<1>10. ASSUME NEW w \in Workers, WorkerExit(w) PROVE TypeOK'
  BY <1>10 DEF WorkerExit
<1>11. ASSUME NEW w \in Workers, WorkReturns(w) PROVE TypeOK'
  BY <1>11 DEF WorkReturns
<1>12. ASSUME NEW w \in Workers, WorkThrows(w) PROVE TypeOK'
  BY <1>12 DEF WorkThrows
<1>13. ASSUME NEW w \in Workers, PushCompletion(w) PROVE TypeOK'
  BY <1>13 DEF PushCompletion
<1>14. ASSUME NEW w \in Workers, SignalReactor(w) PROVE TypeOK'
  BY <1>14 DEF SignalReactor
<1>15. CASE Signal
  BY <1>15 DEF Signal, poolVars
<1>16. CASE StopBegin
  BY <1>16 DEF StopBegin
<1>17. CASE StopNotifyAll
  BY <1>17 DEF StopNotifyAll
<1>18. CASE StopJoin
  BY <1>18 DEF StopJoin, poolVars
<1>19. CASE StopClear
  BY <1>19 DEF StopClear
<1>20. CASE UNCHANGED vars
  BY <1>20 DEF vars
<1> QED
  BY <1>1, <1>2, <1>3, <1>4, <1>5, <1>6, <1>7, <1>8, <1>9, <1>10, <1>11, <1>12,
     <1>13, <1>14, <1>15, <1>16, <1>17, <1>18, <1>19, <1>20
     DEF Next, ReactorNext, WorkerStep, MainNext, Terminated

\* In every reachable state the variables have their types, the deque obeys
\* MAX_QUEUED_JOBS and exactly the busy workers hold a job.
THEOREM TypeCorrect == Spec => []TypeOK
BY InitTypeOK, NextTypeOK, PTL DEF Spec

-----------------------------------------------------------------------------
(* No completion is stranded. *)

\* The announcement of completions survives every step: only a push adds to
\* a channel, only a drain resets its eventfd, and a drain ends on an empty
\* channel.
LEMMA NextNoStranded ==
    TypeOK /\ NoStrandedCompletion /\ [Next]_vars => NoStrandedCompletion'
<1> SUFFICES ASSUME TypeOK, NoStrandedCompletion, [Next]_vars,
                    NEW q \in Reactors,
                    completions'[q] # <<>>, reactor'[q] = "loop"
             PROVE  \/ event_fd'[q] > 0
                    \/ \E v \in Workers : pc'[v] = "signal" /\ ReactorOf[job'[v]] = q
  BY DEF NoStrandedCompletion
<1> DEFINE Announced == \/ event_fd'[q] > 0
                        \/ \E v \in Workers : pc'[v] = "signal" /\ ReactorOf[job'[v]] = q
<1> SUFFICES Announced
  OBVIOUS
<1> HIDE DEF Announced
<1> USE PoolAssumption DEF TypeOK
\* Steps that leave the channels, the eventfds and every signalling worker alone.
<1>0. ASSUME UNCHANGED <<completions, event_fd, reactor>>,
             \A v \in Workers : pc[v] = "signal" =>
                                  pc'[v] = "signal" /\ job'[v] = job[v]
      PROVE  Announced
  <2>1. PICK e \in {0, 1} : \/ e = 0 /\ event_fd[q] > 0
                            \/ e = 1 /\ \E v \in Workers : pc[v] = "signal" /\ ReactorOf[job[v]] = q
    BY <1>0 DEF NoStrandedCompletion
  <2> QED
    BY <1>0, <2>1 DEF Announced
<1>1. ASSUME NEW j \in Jobs, SubmitAccepted(j) PROVE Announced
  <2>1. \A v \in Workers : pc[v] = "signal" => pc'[v] = "signal"
    BY <1>1 DEF SubmitAccepted, NotifyOne, Waiters
  <2> QED
    BY <1>0, <1>1, <2>1 DEF SubmitAccepted
<1>2. ASSUME NEW j \in Jobs, SubmitRefused(j) PROVE Announced
  BY <1>0, <1>2 DEF SubmitRefused, poolVars
<1>3. ASSUME NEW r \in Reactors, ConsumeCompletionEvent(r) PROVE Announced
  BY <1>3 DEF ConsumeCompletionEvent, NoStrandedCompletion, Announced
<1>4. ASSUME NEW r \in Reactors, PopCompletion(r) PROVE Announced
  BY <1>4 DEF PopCompletion, NoStrandedCompletion, Announced
<1>5. ASSUME NEW r \in Reactors, PopNothing(r) PROVE Announced
  BY <1>5 DEF PopNothing, poolVars, NoStrandedCompletion, Announced
<1>6. ASSUME NEW r \in Reactors, ReactorExit(r) PROVE Announced
  BY <1>6 DEF ReactorExit, poolVars, NoStrandedCompletion, Announced
<1>7. ASSUME NEW w \in Workers, WorkerWait(w) PROVE Announced
  BY <1>0, <1>7 DEF WorkerWait
<1>8. ASSUME NEW w \in Workers, SpuriousWakeup(w) PROVE Announced
  BY <1>0, <1>8 DEF SpuriousWakeup
<1>9. ASSUME NEW w \in Workers, WorkerTake(w) PROVE Announced
  BY <1>0, <1>9 DEF WorkerTake
<1>10. ASSUME NEW w \in Workers, WorkerExit(w) PROVE Announced
  BY <1>0, <1>10 DEF WorkerExit
<1>11. ASSUME NEW w \in Workers, WorkReturns(w) PROVE Announced
  BY <1>0, <1>11 DEF WorkReturns
<1>12. ASSUME NEW w \in Workers, WorkThrows(w) PROVE Announced
  BY <1>0, <1>12 DEF WorkThrows
<1>13. ASSUME NEW w \in Workers, PushCompletion(w) PROVE Announced
  <2>1. CASE ReactorOf[job[w]] = q
    BY <1>13, <2>1 DEF PushCompletion, Announced
  <2>2. CASE ReactorOf[job[w]] # q
    BY <1>13, <2>2 DEF PushCompletion, NoStrandedCompletion, Announced
  <2> QED
    BY <2>1, <2>2
<1>14. ASSUME NEW w \in Workers, SignalReactor(w) PROVE Announced
  <2>1. CASE ReactorOf[job[w]] = q
    BY <1>14, <2>1 DEF SignalReactor, Announced
  <2>2. CASE ReactorOf[job[w]] # q
    BY <1>14, <2>2 DEF SignalReactor, NoStrandedCompletion, Announced
  <2> QED
    BY <2>1, <2>2
<1>15. CASE Signal
  BY <1>0, <1>15 DEF Signal, poolVars
<1>16. CASE StopBegin
  BY <1>0, <1>16 DEF StopBegin
<1>17. CASE StopNotifyAll
  BY <1>0, <1>17 DEF StopNotifyAll
<1>18. CASE StopJoin
  BY <1>0, <1>18 DEF StopJoin, poolVars
<1>19. CASE StopClear
  BY <1>19 DEF StopClear
<1>20. CASE UNCHANGED vars
  BY <1>0, <1>20 DEF vars
<1> QED
  BY <1>1, <1>2, <1>3, <1>4, <1>5, <1>6, <1>7, <1>8, <1>9, <1>10, <1>11, <1>12,
     <1>13, <1>14, <1>15, <1>16, <1>17, <1>18, <1>19, <1>20
     DEF Next, ReactorNext, WorkerStep, MainNext, Terminated

\* publishCompletion and handleCompletions never leave a completion behind
\* for a reactor that sleeps with nothing to wake it.
THEOREM CompletionsAnnounced == Spec => []NoStrandedCompletion
<1>1. Init => NoStrandedCompletion
  BY DEF Init, NoStrandedCompletion
<1> QED
  BY <1>1, NextNoStranded, TypeCorrect, PTL DEF Spec
-----------------------------------------------------------------------------
(* No job waits for a worker that nobody woke. *)

\* The workers on their way to the deque form a finite set.
LEMMA AwakeFinite == IsFiniteSet(Awake) /\ IsFiniteSet(Awake')
BY PoolAssumption, FS_Subset DEF Awake

\* A worker that comes to the deque adds one to their number.
LEMMA AwakeGrows ==
    ASSUME NEW w, w \notin Awake, Awake' = Awake \cup {w}
    PROVE  Cardinality(Awake') = Cardinality(Awake) + 1
BY AwakeFinite, FS_AddElement

\* A worker that leaves the deque takes one from their number.
LEMMA AwakeShrinks ==
    ASSUME NEW w \in Awake, Awake' = Awake \ {w}
    PROVE  Cardinality(Awake') = Cardinality(Awake) - 1
BY AwakeFinite, FS_RemoveElement

\* submit() wakes one worker per job it adds; a worker goes to sleep only on
\* an empty deque; whoever leaves the deque takes a job with it.
LEMMA NextWorkConserving ==
    TypeOK /\ WorkConserving /\ [Next]_vars => WorkConserving'
<1> SUFFICES ASSUME TypeOK, WorkConserving, [Next]_vars, Waiters' # {}
             PROVE  Len(jobs') <= Cardinality(Awake')
  BY DEF WorkConserving
<1> USE PoolAssumption DEF TypeOK
<1>0. /\ Len(jobs) \in Nat /\ Len(jobs') \in Nat
      /\ Cardinality(Awake) \in Nat /\ Cardinality(Awake') \in Nat
  BY AwakeFinite, FS_CardinalityType, NextTypeOK
\* Steps of other threads.
<1>a. ASSUME UNCHANGED <<jobs, pc>> PROVE Len(jobs') <= Cardinality(Awake')
  BY <1>a DEF WorkConserving, Waiters, Awake
\* A worker arrives at the deque and the deque does not change.
<1>b. ASSUME NEW w \in Workers, pc[w] # "lock", pc' = [pc EXCEPT ![w] = "lock"],
             UNCHANGED jobs
      PROVE  Len(jobs') <= Cardinality(Awake')
  <2>1. Awake' = Awake \cup {w} /\ w \notin Awake
    BY <1>b DEF Awake
  <2>2. Waiters # {}
    BY <1>b DEF Waiters
  <2>3. Cardinality(Awake') = Cardinality(Awake) + 1
    BY <2>1, AwakeGrows
  <2> QED
    BY <1>0, <1>b, <2>2, <2>3 DEF WorkConserving
\* A worker that is not at the deque goes on to another position than it.
<1>c. ASSUME NEW w \in Workers, NEW s \in WorkerState \ {"lock", "wait"},
             pc[w] \notin {"lock", "wait"}, pc' = [pc EXCEPT ![w] = s],
             UNCHANGED jobs
      PROVE  Len(jobs') <= Cardinality(Awake')
  <2>1. Awake' = Awake /\ Waiters' = Waiters
    BY <1>c DEF Awake, Waiters
  <2> QED
    BY <1>c, <2>1 DEF WorkConserving
\* The deque is empty.
<1>d. ASSUME jobs' = <<>> PROVE Len(jobs') <= Cardinality(Awake')
  <2>1. Len(jobs') = 0
    BY <1>d
  <2> QED
    BY <1>0, <2>1
<1>1. ASSUME NEW j \in Jobs, SubmitAccepted(j) PROVE Len(jobs') <= Cardinality(Awake')
  <2>1. CASE Waiters = {}
    BY <1>1, <2>1 DEF SubmitAccepted, NotifyOne, Waiters
  <2>2. ASSUME NEW w \in Waiters, pc' = [pc EXCEPT ![w] = "lock"]
        PROVE  Len(jobs') <= Cardinality(Awake')
    <3>1. Awake' = Awake \cup {w} /\ w \notin Awake
      BY <2>2 DEF Awake, Waiters
    <3>2. Len(jobs') = Len(jobs) + 1
      BY <1>1 DEF SubmitAccepted
    <3>3. Cardinality(Awake') = Cardinality(Awake) + 1
      BY <3>1, AwakeGrows
    <3> QED
      BY <1>0, <2>2, <3>2, <3>3 DEF WorkConserving
  <2> QED
    BY <1>1, <2>1, <2>2 DEF SubmitAccepted, NotifyOne
<1>2. ASSUME NEW w \in Workers, WorkerTake(w) PROVE Len(jobs') <= Cardinality(Awake')
  <2>1. Awake' = Awake \ {w} /\ w \in Awake
    BY <1>2 DEF WorkerTake, Awake
  <2>2. Waiters' = Waiters
    BY <1>2 DEF WorkerTake, Waiters
  <2>3. Len(jobs') = Len(jobs) - 1
    BY <1>2 DEF WorkerTake
  <2>4. Cardinality(Awake') = Cardinality(Awake) - 1
    BY <2>1, AwakeShrinks
  <2> QED
    BY <1>0, <2>2, <2>3, <2>4 DEF WorkConserving
<1>3. CASE StopNotifyAll
  BY <1>3 DEF StopNotifyAll, Waiters
<1>4. ASSUME NEW w \in Workers, WorkerStep(w) PROVE Len(jobs') <= Cardinality(Awake')
  <2>1. CASE WorkerWait(w)
    BY <1>d, <2>1 DEF WorkerWait, Wake
  <2>2. CASE WorkerTake(w)
    BY <1>2, <2>2
  <2>3. CASE WorkerExit(w)
    BY <1>d, <2>3 DEF WorkerExit, MayExit
  <2>4. CASE WorkReturns(w)
    BY <1>c, <2>4 DEF WorkReturns, WorkerState
  <2>5. CASE WorkThrows(w)
    BY <1>b, <2>5 DEF WorkThrows
  <2>6. CASE PushCompletion(w)
    BY <1>c, <2>6 DEF PushCompletion, WorkerState
  <2>7. CASE SignalReactor(w)
    BY <1>b, <2>7 DEF SignalReactor
  <2> QED
    BY <1>4, <2>1, <2>2, <2>3, <2>4, <2>5, <2>6, <2>7 DEF WorkerStep
<1>5. ASSUME NEW w \in Workers, SpuriousWakeup(w) PROVE Len(jobs') <= Cardinality(Awake')
  BY <1>b, <1>5 DEF SpuriousWakeup
<1>6. ASSUME NEW r \in Reactors, ReactorNext(r) PROVE UNCHANGED <<jobs, pc>>
  BY <1>6 DEF ReactorNext, ConsumeCompletionEvent, PopCompletion, PopNothing,
              ReactorExit, poolVars
<1>7. ASSUME NEW j \in Jobs, SubmitRefused(j) PROVE UNCHANGED <<jobs, pc>>
  BY <1>7 DEF SubmitRefused, poolVars
<1>8. ASSUME Signal \/ StopBegin \/ StopJoin \/ Terminated \/ UNCHANGED vars
      PROVE  UNCHANGED <<jobs, pc>>
  BY <1>8 DEF Signal, StopBegin, StopJoin, Terminated, vars, poolVars
<1>9. CASE StopClear
  BY <1>d, <1>9 DEF StopClear
<1> QED
  BY <1>a, <1>1, <1>3, <1>4, <1>5, <1>6, <1>7, <1>8, <1>9 DEF Next, MainNext

\* One notify_one per submitted job is enough: in every reachable state with
\* a sleeping worker, the awake workers suffice for the queued jobs.
THEOREM NoLostWakeup == Spec => []WorkConserving
<1>1. Init => WorkConserving
  BY DEF Init, WorkConserving, Waiters
<1> QED
  BY <1>1, NextWorkConserving, TypeCorrect, PTL DEF Spec
-----------------------------------------------------------------------------
(* stop() runs everything that was accepted. *)

InJobs(j) == \E i \in DOMAIN jobs : jobs[i] = j
AtWorker(j) == \E w \in Workers : pc[w] \in {"work", "publish"} /\ job[w] = j
Published(j) ==
    \E i \in DOMAIN completions[ReactorOf[j]] : completions[ReactorOf[j]][i] = j

\* An accepted job is still somewhere.
Accounted ==
    \A j \in Jobs : outcome[j] = "accepted" => InJobs(j) \/ AtWorker(j) \/ Published(j)

\* A worker returns only from a stopping pool with an empty deque, and stop()
\* gets past its joins only when all of them have returned.
ExitOrder ==
    /\ (main = "serving") <=> ~stopping
    /\ \A w \in Workers : pc[w] = "exited" => stopping /\ jobs = <<>>
    /\ main \in {"clear", "stopped"} => \A w \in Workers : pc[w] = "exited"

DrainInv == Accounted /\ ExitOrder

\* push_back leaves what is in the deque where it is.
LEMMA AppendKeeps ==
    ASSUME NEW S, NEW q \in Seq(S), NEW x \in S
    PROVE  \A i \in DOMAIN q : i \in DOMAIN Append(q, x) /\ Append(q, x)[i] = q[i]
OBVIOUS

\* A job moves from the deque to a worker to its channel and nowhere else
\* until its outcome changes.
LEMMA NextAccounted == TypeOK /\ Accounted /\ [Next]_vars => Accounted'
<1> SUFFICES ASSUME TypeOK, Accounted, [Next]_vars,
                    NEW k \in Jobs, outcome'[k] = "accepted"
             PROVE  (InJobs(k) \/ AtWorker(k) \/ Published(k))'
  BY DEF Accounted
<1> DEFINE Goal == (InJobs(k) \/ AtWorker(k) \/ Published(k))'
<1> SUFFICES Goal
  OBVIOUS
<1> HIDE DEF Goal
<1> USE PoolAssumption DEF TypeOK, Outcome
\* Steps that take no job from the place where it is.
<1>0. ASSUME outcome[k] = "accepted",
             InJobs(k) => InJobs(k)', AtWorker(k) => AtWorker(k)',
             Published(k) => Published(k)'
      PROVE  Goal
  BY <1>0 DEF Accounted, Goal
<1>1. ASSUME NEW j \in Jobs, SubmitAccepted(j) PROVE Goal
  <2>1. CASE k = j
    <3>1. jobs' = Append(jobs, k)
      BY <1>1, <2>1 DEF SubmitAccepted
    <3>2. InJobs(k)'
      <4>1. Len(jobs) + 1 \in DOMAIN jobs' /\ jobs'[Len(jobs) + 1] = k
        BY <3>1
      <4> QED
        BY <4>1 DEF InJobs
    <3> QED
      BY <3>2 DEF Goal
  <2>2. CASE k # j
    <3>1. outcome[k] = "accepted"
      BY <1>1, <2>2 DEF SubmitAccepted
    <3>2. InJobs(k) => InJobs(k)'
      <4>1. jobs' = Append(jobs, j)
        BY <1>1 DEF SubmitAccepted
      <4> QED
        BY <4>1, AppendKeeps DEF InJobs
    <3>3. AtWorker(k) => AtWorker(k)'
      BY <1>1 DEF SubmitAccepted, NotifyOne, Waiters, AtWorker
    <3>4. Published(k) => Published(k)'
      BY <1>1 DEF SubmitAccepted, Published
    <3> QED
      BY <1>0, <3>1, <3>2, <3>3, <3>4
  <2> QED
    BY <2>1, <2>2
<1>2. ASSUME NEW j \in Jobs, SubmitRefused(j) PROVE Goal
  BY <1>0, <1>2 DEF SubmitRefused, poolVars, InJobs, AtWorker, Published
<1>3. ASSUME NEW r \in Reactors, ConsumeCompletionEvent(r) PROVE Goal
  BY <1>0, <1>3 DEF ConsumeCompletionEvent, InJobs, AtWorker, Published
<1>4. ASSUME NEW r \in Reactors, PopCompletion(r) PROVE Goal
  <2>1. outcome[k] = "accepted" /\ k # Head(completions[r])
    BY <1>4 DEF PopCompletion
  <2>2. (InJobs(k) => InJobs(k)') /\ (AtWorker(k) => AtWorker(k)')
    BY <1>4 DEF PopCompletion, InJobs, AtWorker
  <2>3. Published(k) => Published(k)'
    <3>1. SUFFICES ASSUME NEW i \in DOMAIN completions[ReactorOf[k]],
                          completions[ReactorOf[k]][i] = k
                   PROVE  Published(k)'
      BY DEF Published
    <3>2. CASE ReactorOf[k] # r
      BY <1>4, <3>1, <3>2 DEF PopCompletion, Published
    <3>3. CASE ReactorOf[k] = r
      <4>1. completions'[r] = Tail(completions[r]) /\ i # 1
        BY <1>4, <2>1, <3>1, <3>3 DEF PopCompletion
      <4>2. i - 1 \in DOMAIN completions'[r] /\ completions'[r][i - 1] = k
        BY <1>4, <3>1, <3>3, <4>1
      <4> QED
        BY <3>3, <4>2 DEF Published
    <3> QED
      BY <3>2, <3>3
  <2> QED
    BY <1>0, <2>1, <2>2, <2>3
<1>5. ASSUME NEW r \in Reactors, PopNothing(r) PROVE Goal
  BY <1>0, <1>5 DEF PopNothing, poolVars, InJobs, AtWorker, Published
<1>6. ASSUME NEW r \in Reactors, ReactorExit(r) PROVE Goal
  BY <1>0, <1>6 DEF ReactorExit, poolVars, InJobs, AtWorker, Published
<1>7. ASSUME NEW w \in Workers, WorkerWait(w) PROVE Goal
  BY <1>0, <1>7 DEF WorkerWait, InJobs, AtWorker, Published
<1>8. ASSUME NEW w \in Workers, SpuriousWakeup(w) PROVE Goal
  BY <1>0, <1>8 DEF SpuriousWakeup, InJobs, AtWorker, Published
<1>9. ASSUME NEW w \in Workers, WorkerTake(w) PROVE Goal
  <2>1. AtWorker(k) => AtWorker(k)'
    BY <1>9 DEF WorkerTake, AtWorker
  <2>2. Published(k) => Published(k)'
    BY <1>9 DEF WorkerTake, Published
  <2>3. InJobs(k) => InJobs(k)' \/ AtWorker(k)'
    <3>1. SUFFICES ASSUME NEW i \in DOMAIN jobs, jobs[i] = k
                   PROVE  InJobs(k)' \/ AtWorker(k)'
      BY DEF InJobs
    <3>2. CASE i = 1
      BY <1>9, <3>1, <3>2 DEF WorkerTake, AtWorker
    <3>3. CASE i # 1
      <4>1. i - 1 \in DOMAIN jobs' /\ jobs'[i - 1] = k
        BY <1>9, <3>1, <3>3 DEF WorkerTake
      <4> QED
        BY <4>1 DEF InJobs
    <3> QED
      BY <3>2, <3>3
  <2>4. outcome[k] = "accepted"
    BY <1>9 DEF WorkerTake
  <2> QED
    BY <2>1, <2>2, <2>3, <2>4 DEF Accounted, Goal
<1>10. ASSUME NEW w \in Workers, WorkerExit(w) PROVE Goal
  BY <1>0, <1>10 DEF WorkerExit, InJobs, AtWorker, Published
<1>11. ASSUME NEW w \in Workers, WorkReturns(w) PROVE Goal
  BY <1>0, <1>11 DEF WorkReturns, InJobs, AtWorker, Published
<1>12. ASSUME NEW w \in Workers, WorkThrows(w) PROVE Goal
  BY <1>0, <1>12 DEF WorkThrows, InJobs, AtWorker, Published
<1>13. ASSUME NEW w \in Workers, PushCompletion(w) PROVE Goal
  <2>1. outcome[k] = "accepted" /\ (InJobs(k) => InJobs(k)')
    BY <1>13 DEF PushCompletion, InJobs
  <2>2. Published(k) => Published(k)'
    <3>1. CASE ReactorOf[job[w]] = ReactorOf[k]
      <4>1. completions'[ReactorOf[k]] = Append(completions[ReactorOf[k]], job[w])
        BY <1>13, <3>1 DEF PushCompletion
      <4>2. job[w] \in Jobs /\ completions[ReactorOf[k]] \in Seq(Jobs)
        BY <1>13 DEF PushCompletion
      <4> QED
        BY <4>1, <4>2, AppendKeeps DEF Published
    <3>2. CASE ReactorOf[job[w]] # ReactorOf[k]
      BY <1>13, <3>2 DEF PushCompletion, Published
    <3> QED
      BY <3>1, <3>2
  <2>3. CASE job[w] = k
    <3>1. completions'[ReactorOf[k]] = Append(completions[ReactorOf[k]], k)
      BY <1>13, <2>3 DEF PushCompletion
    <3>2. Published(k)'
      <4> DEFINE q == completions[ReactorOf[k]]
      <4>1. q \in Seq(Jobs)
        OBVIOUS
      <4>2. /\ Len(q) + 1 \in DOMAIN completions'[ReactorOf[k]]
            /\ completions'[ReactorOf[k]][Len(q) + 1] = k
        BY <3>1, <4>1
      <4> QED
        BY <4>2 DEF Published
    <3> QED
      BY <3>2 DEF Goal
  <2>4. CASE job[w] # k
    <3>1. AtWorker(k) => AtWorker(k)'
      BY <1>13, <2>4 DEF PushCompletion, AtWorker
    <3> QED
      BY <1>0, <2>1, <2>2, <3>1
  <2> QED
    BY <2>3, <2>4
<1>14. ASSUME NEW w \in Workers, SignalReactor(w) PROVE Goal
  BY <1>0, <1>14 DEF SignalReactor, InJobs, AtWorker, Published
<1>15. CASE Signal
  BY <1>0, <1>15 DEF Signal, poolVars, InJobs, AtWorker, Published
<1>16. CASE StopBegin
  BY <1>0, <1>16 DEF StopBegin, InJobs, AtWorker, Published
<1>17. CASE StopNotifyAll
  BY <1>0, <1>17 DEF StopNotifyAll, InJobs, AtWorker, Published
<1>18. CASE StopJoin
  BY <1>0, <1>18 DEF StopJoin, poolVars, InJobs, AtWorker, Published
<1>19. CASE StopClear
  BY <1>19 DEF StopClear
<1>20. CASE UNCHANGED vars
  BY <1>0, <1>20 DEF vars, InJobs, AtWorker, Published
<1> QED
  BY <1>1, <1>2, <1>3, <1>4, <1>5, <1>6, <1>7, <1>8, <1>9, <1>10, <1>11, <1>12,
     <1>13, <1>14, <1>15, <1>16, <1>17, <1>18, <1>19, <1>20
     DEF Next, ReactorNext, WorkerStep, MainNext, Terminated

\* Once a worker has returned, no job can enter the deque any more.
LEMMA NextExitOrder == TypeOK /\ ExitOrder /\ [Next]_vars => ExitOrder'
<1> SUFFICES ASSUME TypeOK, ExitOrder, [Next]_vars PROVE ExitOrder'
  OBVIOUS
<1> USE PoolAssumption DEF TypeOK, ExitOrder, WorkerState, MainState
<1>1. ASSUME NEW j \in Jobs, SubmitAccepted(j) PROVE ExitOrder'
  <2>1. ~stopping /\ \A w \in Workers : pc[w] # "exited" /\ pc'[w] # "exited"
    BY <1>1 DEF SubmitAccepted, CanAccept, NotifyOne, Waiters
  <2> QED
    BY <1>1, <2>1 DEF SubmitAccepted
<1>2. ASSUME NEW j \in Jobs, SubmitRefused(j) PROVE ExitOrder'
  BY <1>2 DEF SubmitRefused, poolVars
<1>3. ASSUME NEW r \in Reactors, ReactorNext(r) PROVE ExitOrder'
  BY <1>3 DEF ReactorNext, ConsumeCompletionEvent, PopCompletion, PopNothing,
              ReactorExit, poolVars
<1>4. ASSUME NEW w \in Workers, WorkerStep(w) PROVE ExitOrder'
  BY <1>4 DEF WorkerStep, WorkerWait, WorkerTake, WorkerExit, MayExit, WorkReturns,
              WorkThrows, PushCompletion, SignalReactor
<1>5. ASSUME NEW w \in Workers, SpuriousWakeup(w) PROVE ExitOrder'
  BY <1>5 DEF SpuriousWakeup
<1>6. CASE Signal
  BY <1>6 DEF Signal, poolVars
<1>7. CASE MainNext
  BY <1>7 DEF MainNext, StopBegin, StopNotifyAll, StopJoin, StopClear, poolVars
<1>8. CASE UNCHANGED vars
  BY <1>8 DEF vars
<1> QED
  BY <1>1, <1>2, <1>3, <1>4, <1>5, <1>6, <1>7, <1>8 DEF Next, Terminated

\* When stop() has joined the workers, the deque is empty and every accepted
\* job that has not ended has been executed and published.
THEOREM StopRunsAcceptedJobs == Spec => []StopDrains
<1>1. Init => DrainInv
  BY PoolAssumption DEF Init, DrainInv, Accounted, ExitOrder
<1>2. TypeOK /\ DrainInv /\ [Next]_vars => DrainInv'
  BY NextAccounted, NextExitOrder DEF DrainInv
<1>3. DrainInv => StopDrains
  BY PoolAssumption DEF DrainInv, Accounted, ExitOrder, StopDrains, InJobs, AtWorker,
                        Published
<1> QED
  BY <1>1, <1>2, <1>3, TypeCorrect, PTL DEF Spec
-----------------------------------------------------------------------------
(* No job is lost or executed twice. *)

Busy(w) == pc[w] \in {"work", "publish"}

\* No job is twice in the deque, with two workers or twice in a channel.
JobsOnce == \A m, n \in DOMAIN jobs : jobs[m] = jobs[n] => m = n
WorkersOnce ==
    \A v, w \in Workers : Busy(v) /\ Busy(w) /\ job[v] = job[w] => v = w
ChannelsOnce ==
    \A r \in Reactors : \A m, n \in DOMAIN completions[r] :
        completions[r][m] = completions[r][n] => m = n

\* A completion is in the channel of the reactor that submitted the job.
OwnChannel ==
    \A r \in Reactors : \A n \in DOMAIN completions[r] : ReactorOf[completions[r][n]] = r

\* The three places exclude each other, and what is in one of them is a job
\* that was accepted and has not ended.
OnePlace ==
    \A j \in Jobs : /\ ~(InJobs(j) /\ AtWorker(j))
                    /\ ~(InJobs(j) /\ Published(j))
                    /\ ~(AtWorker(j) /\ Published(j))
HeldAccepted ==
    \A j \in Jobs : InJobs(j) \/ AtWorker(j) \/ Published(j) => outcome[j] = "accepted"

OnceInv == JobsOnce /\ WorkersOnce /\ ChannelsOnce /\ OwnChannel /\ OnePlace /\ HeldAccepted

PlaceInv == Accounted /\ OnceInv

\* push_back of something new keeps the elements of a deque distinct.
LEMMA AppendDistinct ==
    ASSUME NEW S, NEW q \in Seq(S), NEW x \in S,
           \A m, n \in DOMAIN q : q[m] = q[n] => m = n,
           \A n \in DOMAIN q : q[n] # x
    PROVE  \A m, n \in DOMAIN Append(q, x) : Append(q, x)[m] = Append(q, x)[n] => m = n
OBVIOUS

\* pop_front keeps the elements of a deque distinct ...
LEMMA TailDistinct ==
    ASSUME NEW S, NEW q \in Seq(S), q # <<>>,
           \A m, n \in DOMAIN q : q[m] = q[n] => m = n
    PROVE  \A m, n \in DOMAIN Tail(q) : Tail(q)[m] = Tail(q)[n] => m = n
<1>1. \A n \in DOMAIN Tail(q) : n + 1 \in DOMAIN q /\ Tail(q)[n] = q[n + 1] /\ n \in Nat
  OBVIOUS
<1> QED
  BY <1>1

\* ... and takes exactly its first one away.
LEMMA TailHolds ==
    ASSUME NEW S, NEW q \in Seq(S), q # <<>>,
           \A m, n \in DOMAIN q : q[m] = q[n] => m = n,
           NEW y
    PROVE  (\E n \in DOMAIN Tail(q) : Tail(q)[n] = y)
             <=> (\E n \in DOMAIN q : q[n] = y) /\ y # Head(q)
<1>1. \A n \in DOMAIN Tail(q) : n + 1 \in DOMAIN q /\ Tail(q)[n] = q[n + 1] /\ n \in Nat
                                /\ n + 1 # 1
  OBVIOUS
<1>2. \A n \in DOMAIN q : n # 1 => n - 1 \in DOMAIN Tail(q) /\ Tail(q)[n - 1] = q[n]
  OBVIOUS
<1>3. 1 \in DOMAIN q /\ Head(q) = q[1]
  OBVIOUS
<1> QED
  BY <1>1, <1>2, <1>3

\* A step that neither moves a job nor changes an outcome.
LEMMA StillOnce ==
    ASSUME TypeOK, OnceInv, UNCHANGED <<jobs, job, completions>>,
           \A w \in Workers : Busy(w)' => Busy(w),
           \A j \in Jobs : outcome[j] = "accepted" => outcome'[j] = "accepted"
    PROVE  OnceInv'
<1> USE PoolAssumption DEF TypeOK
<1>1. \A j \in Jobs : (InJobs(j)' <=> InJobs(j)) /\ (Published(j)' <=> Published(j))
  BY DEF InJobs, Published
<1>2. \A j \in Jobs : AtWorker(j)' => AtWorker(j)
  BY DEF AtWorker, Busy
<1>3. JobsOnce' /\ WorkersOnce' /\ ChannelsOnce' /\ OwnChannel'
  BY DEF OnceInv, JobsOnce, WorkersOnce, ChannelsOnce, OwnChannel
<1>4. OnePlace' /\ HeldAccepted'
  BY <1>1, <1>2 DEF OnceInv, OnePlace, HeldAccepted
<1> QED
  BY <1>3, <1>4 DEF OnceInv

\* submit(), workerLoop(), publishCompletion() and popCompletion() move a job
\* from one place to the next and never copy it.
LEMMA NextOnce == TypeOK /\ OnceInv /\ ExitOrder /\ [Next]_vars => OnceInv'
<1> SUFFICES ASSUME TypeOK, OnceInv, ExitOrder, [Next]_vars PROVE OnceInv'
  OBVIOUS
<1> USE PoolAssumption DEF TypeOK
<1>1. ASSUME NEW j \in Jobs, SubmitAccepted(j) PROVE OnceInv'
  <2>1. jobs' = Append(jobs, j) /\ outcome[j] = "none" /\ UNCHANGED <<job, completions>>
    BY <1>1 DEF SubmitAccepted
  <2>2. \A w \in Workers : Busy(w)' <=> Busy(w)
    BY <1>1 DEF SubmitAccepted, NotifyOne, Waiters, Busy
  <2>3. \A k \in Jobs : InJobs(k)' <=> InJobs(k) \/ k = j
    <3>1. /\ Len(jobs) + 1 \in DOMAIN jobs' /\ jobs'[Len(jobs) + 1] = j
          /\ \A n \in DOMAIN jobs : n \in DOMAIN jobs' /\ jobs'[n] = jobs[n]
          /\ \A n \in DOMAIN jobs' : jobs'[n] = j \/ (n \in DOMAIN jobs /\ jobs'[n] = jobs[n])
      BY <2>1
    <3> QED
      BY <3>1 DEF InJobs
  <2>4. \A k \in Jobs : (AtWorker(k)' <=> AtWorker(k)) /\ (Published(k)' <=> Published(k))
    BY <2>1, <2>2 DEF AtWorker, Published, Busy
  <2>5. ~InJobs(j) /\ ~AtWorker(j) /\ ~Published(j)
    BY <2>1 DEF OnceInv, HeldAccepted
  <2>6. \A k \in Jobs : outcome'[k] = IF k = j THEN "accepted" ELSE outcome[k]
    BY <1>1 DEF SubmitAccepted
  <2>7. JobsOnce'
    BY <2>1, <2>5, AppendDistinct DEF OnceInv, JobsOnce, InJobs
  <2>8. WorkersOnce' /\ ChannelsOnce' /\ OwnChannel'
    BY <2>1, <2>2 DEF OnceInv, WorkersOnce, ChannelsOnce, OwnChannel
  <2>9. OnePlace' /\ HeldAccepted'
    BY <2>3, <2>4, <2>5, <2>6 DEF OnceInv, OnePlace, HeldAccepted
  <2> QED
    BY <2>7, <2>8, <2>9 DEF OnceInv
<1>2. ASSUME NEW w \in Workers, WorkerTake(w) PROVE OnceInv'
  <2>1. /\ jobs # <<>> /\ jobs' = Tail(jobs) /\ Head(jobs) \in Jobs
        /\ UNCHANGED <<completions, outcome>>
    BY <1>2 DEF WorkerTake
  <2>2. \A v \in Workers : /\ Busy(v)' <=> Busy(v) \/ v = w
                           /\ job'[v] = IF v = w THEN Head(jobs) ELSE job[v]
    BY <1>2 DEF WorkerTake, Busy
  <2>3. ~Busy(w)
    BY <1>2 DEF WorkerTake, Busy
  <2>4. \A k \in Jobs : InJobs(k)' <=> InJobs(k) /\ k # Head(jobs)
    BY <2>1, TailHolds DEF OnceInv, JobsOnce, InJobs
  <2>5. \A k \in Jobs : AtWorker(k)' <=> AtWorker(k) \/ k = Head(jobs)
    BY <2>2, <2>3 DEF AtWorker, Busy
  <2>6. \A k \in Jobs : Published(k)' <=> Published(k)
    BY <2>1 DEF Published
  <2>7. InJobs(Head(jobs))
    <3>1. 1 \in DOMAIN jobs /\ Head(jobs) = jobs[1]
      BY <2>1
    <3> QED
      BY <3>1 DEF InJobs
  <2>8. JobsOnce'
    BY <2>1, TailDistinct DEF OnceInv, JobsOnce
  <2>9. ~AtWorker(Head(jobs))
    BY <2>1, <2>7 DEF OnceInv, OnePlace
  <2>10. WorkersOnce'
    BY <2>2, <2>9 DEF OnceInv, WorkersOnce, AtWorker, Busy
  <2>11. ChannelsOnce' /\ OwnChannel'
    BY <2>1 DEF OnceInv, ChannelsOnce, OwnChannel
  <2>12. OnePlace' /\ HeldAccepted'
    BY <2>1, <2>4, <2>5, <2>6, <2>7 DEF OnceInv, OnePlace, HeldAccepted
  <2> QED
    BY <2>8, <2>10, <2>11, <2>12 DEF OnceInv
<1>3. ASSUME NEW w \in Workers, WorkThrows(w) PROVE OnceInv'
  <2>1. job[w] \in Jobs /\ Busy(w) /\ UNCHANGED <<jobs, completions>>
    BY <1>3 DEF WorkThrows, Busy
  <2>2. \A v \in Workers : (Busy(v)' <=> Busy(v) /\ v # w) /\ (v # w => job'[v] = job[v])
    BY <1>3 DEF WorkThrows, Busy
  <2>3. \A k \in Jobs : AtWorker(k)' <=> AtWorker(k) /\ k # job[w]
    BY <2>1, <2>2 DEF AtWorker, Busy, OnceInv, WorkersOnce
  <2>4. \A k \in Jobs : (InJobs(k)' <=> InJobs(k)) /\ (Published(k)' <=> Published(k))
    BY <2>1 DEF InJobs, Published
  <2>5. AtWorker(job[w])
    BY <2>1 DEF AtWorker, Busy
  <2>6. \A k \in Jobs : k # job[w] => outcome'[k] = outcome[k]
    BY <1>3 DEF WorkThrows
  <2>7. JobsOnce' /\ ChannelsOnce' /\ OwnChannel'
    BY <2>1 DEF OnceInv, JobsOnce, ChannelsOnce, OwnChannel
  <2>8. WorkersOnce'
    BY <2>2 DEF OnceInv, WorkersOnce
  <2>9. OnePlace' /\ HeldAccepted'
    BY <2>1, <2>3, <2>4, <2>5, <2>6 DEF OnceInv, OnePlace, HeldAccepted
  <2> QED
    BY <2>7, <2>8, <2>9 DEF OnceInv
<1>4. ASSUME NEW w \in Workers, PushCompletion(w) PROVE OnceInv'
  <2> DEFINE o == ReactorOf[job[w]]
  <2>1. job[w] \in Jobs /\ o \in Reactors /\ Busy(w) /\ UNCHANGED <<jobs, job, outcome>>
    BY <1>4 DEF PushCompletion, Busy
  <2>2. \A v \in Workers : Busy(v)' <=> Busy(v) /\ v # w
    BY <1>4 DEF PushCompletion, Busy
  <2>3. \A r \in Reactors : completions'[r] = IF r = o THEN Append(completions[r], job[w])
                                              ELSE completions[r]
    BY <1>4, <2>1 DEF PushCompletion
  <2>4. AtWorker(job[w])
    BY <2>1 DEF AtWorker, Busy
  <2>5. ~Published(job[w])
    BY <2>1, <2>4 DEF OnceInv, OnePlace
  <2>6. \A k \in Jobs : AtWorker(k)' <=> AtWorker(k) /\ k # job[w]
    BY <2>1, <2>2 DEF AtWorker, Busy, OnceInv, WorkersOnce
  <2>7. \A k \in Jobs : Published(k)' <=> Published(k) \/ k = job[w]
    <3> SUFFICES ASSUME NEW k \in Jobs PROVE Published(k)' <=> Published(k) \/ k = job[w]
      OBVIOUS
    <3>1. CASE ReactorOf[k] = o
      <4>1. completions'[o] = Append(completions[o], job[w]) /\ completions[o] \in Seq(Jobs)
        BY <2>1, <2>3
      <4> DEFINE q == completions[o]
                 p == completions'[o]
      <4>2. /\ Len(q) + 1 \in DOMAIN p /\ p[Len(q) + 1] = job[w]
            /\ \A n \in DOMAIN q : n \in DOMAIN p /\ p[n] = q[n]
            /\ \A n \in DOMAIN p : p[n] = job[w] \/ (n \in DOMAIN q /\ p[n] = q[n])
        BY <2>1, <4>1, SMTT(60)
      <4> QED
        BY <3>1, <4>2 DEF Published
    <3>2. CASE ReactorOf[k] # o
      BY <2>3, <3>2 DEF Published
    <3> QED
      BY <3>1, <3>2
  <2>8. \A k \in Jobs : InJobs(k)' <=> InJobs(k)
    BY <2>1 DEF InJobs
  <2>9. JobsOnce' /\ WorkersOnce'
    BY <2>1, <2>2 DEF OnceInv, JobsOnce, WorkersOnce
  <2>10. ChannelsOnce' /\ OwnChannel'
    <3> SUFFICES ASSUME NEW r \in Reactors
                 PROVE  /\ \A m, n \in DOMAIN completions'[r] :
                             completions'[r][m] = completions'[r][n] => m = n
                        /\ \A n \in DOMAIN completions'[r] : ReactorOf[completions'[r][n]] = r
      BY DEF ChannelsOnce, OwnChannel
    <3>1. CASE r # o
      BY <2>3, <3>1 DEF OnceInv, ChannelsOnce, OwnChannel
    <3>2. CASE r = o
      <4> DEFINE q == completions[o]
      <4>1. q \in Seq(Jobs) /\ completions'[r] = Append(q, job[w])
        BY <2>1, <2>3, <3>2
      <4>2. \A m, n \in DOMAIN q : q[m] = q[n] => m = n
        BY <2>1 DEF OnceInv, ChannelsOnce
      <4>3. \A n \in DOMAIN q : q[n] # job[w]
        BY <2>1, <2>5 DEF Published
      <4>4. \A n \in DOMAIN q : ReactorOf[q[n]] = o
        BY <2>1 DEF OnceInv, OwnChannel
      <4> HIDE DEF q
      <4>5. \A m, n \in DOMAIN Append(q, job[w]) :
               Append(q, job[w])[m] = Append(q, job[w])[n] => m = n
        BY <2>1, <4>1, <4>2, <4>3, AppendDistinct
      <4>6. \A n \in DOMAIN completions'[r] : ReactorOf[completions'[r][n]] = o
        BY <2>1, <4>1, <4>4
      <4> QED
        BY <3>2, <4>1, <4>5, <4>6
    <3> QED
      BY <3>1, <3>2
  <2>11. OnePlace' /\ HeldAccepted'
    BY <2>1, <2>4, <2>6, <2>7, <2>8 DEF OnceInv, OnePlace, HeldAccepted
  <2> QED
    BY <2>9, <2>10, <2>11 DEF OnceInv
<1>5. ASSUME NEW r \in Reactors, PopCompletion(r) PROVE OnceInv'
  <2> DEFINE q == completions[r]
  <2>1. /\ q \in Seq(Jobs) /\ q # <<>> /\ Head(q) \in Jobs
        /\ UNCHANGED <<jobs, job, pc>>
        /\ \A s \in Reactors : completions'[s] = IF s = r THEN Tail(q) ELSE completions[s]
    BY <1>5 DEF PopCompletion
  <2>2. \A m, n \in DOMAIN q : q[m] = q[n] => m = n
    BY DEF OnceInv, ChannelsOnce
  <2>3. 1 \in DOMAIN q /\ Head(q) = q[1]
    BY <2>1
  <2>4. ReactorOf[Head(q)] = r
    BY <2>3 DEF OnceInv, OwnChannel
  <2>5. \A k \in Jobs : Published(k)' <=> Published(k) /\ k # Head(q)
    <3> SUFFICES ASSUME NEW k \in Jobs PROVE Published(k)' <=> Published(k) /\ k # Head(q)
      OBVIOUS
    <3>1. CASE ReactorOf[k] = r
      <4> HIDE DEF q
      <4>1. (\E n \in DOMAIN Tail(q) : Tail(q)[n] = k)
              <=> (\E n \in DOMAIN q : q[n] = k) /\ k # Head(q)
        BY <2>1, <2>2, TailHolds
      <4> QED
        BY <2>1, <3>1, <4>1 DEF Published, q
    <3>2. CASE ReactorOf[k] # r
      BY <2>1, <2>4, <3>2 DEF Published
    <3> QED
      BY <3>1, <3>2
  <2>6. Published(Head(q))
    BY <2>1, <2>3, <2>4 DEF Published
  <2>7. \A k \in Jobs : (InJobs(k)' <=> InJobs(k)) /\ (AtWorker(k)' <=> AtWorker(k))
    BY <2>1 DEF InJobs, AtWorker
  <2>8. \A k \in Jobs : k # Head(q) => outcome'[k] = outcome[k]
    BY <1>5 DEF PopCompletion
  <2>9. JobsOnce' /\ WorkersOnce'
    BY <2>1 DEF OnceInv, JobsOnce, WorkersOnce, Busy
  <2>10. ChannelsOnce' /\ OwnChannel'
    <3>1. \A n \in DOMAIN Tail(q) : ReactorOf[Tail(q)[n]] = r
      <4>1. \A n \in DOMAIN Tail(q) : n + 1 \in DOMAIN q /\ Tail(q)[n] = q[n + 1]
        BY <2>1
      <4> QED
        BY <4>1 DEF OnceInv, OwnChannel
    <3>2. \A m, n \in DOMAIN Tail(q) : Tail(q)[m] = Tail(q)[n] => m = n
      <4> HIDE DEF q
      <4> QED
        BY <2>1, <2>2, TailDistinct
    <3> HIDE DEF q
    <3> QED
      BY <2>1, <3>1, <3>2 DEF OnceInv, ChannelsOnce, OwnChannel
  <2>11. OnePlace' /\ HeldAccepted'
    BY <2>1, <2>5, <2>6, <2>7, <2>8 DEF OnceInv, OnePlace, HeldAccepted
  <2> QED
    BY <2>9, <2>10, <2>11 DEF OnceInv
<1>6. CASE StopClear
  <2>1. /\ jobs' = <<>> /\ UNCHANGED <<pc, job>>
        /\ \A r \in Reactors : completions'[r] = <<>>
        /\ \A w \in Workers : ~Busy(w) /\ ~Busy(w)'
    BY <1>6 DEF StopClear, ExitOrder, Busy
  <2>2. \A k \in Jobs : ~InJobs(k)' /\ ~AtWorker(k)' /\ ~Published(k)'
    BY <2>1 DEF InJobs, AtWorker, Published, Busy
  <2>3. JobsOnce' /\ WorkersOnce' /\ ChannelsOnce' /\ OwnChannel'
    BY <2>1 DEF JobsOnce, WorkersOnce, ChannelsOnce, OwnChannel
  <2>4. OnePlace' /\ HeldAccepted'
    BY <2>2 DEF OnePlace, HeldAccepted
  <2> QED
    BY <2>3, <2>4 DEF OnceInv
<1>7. ASSUME NEW j \in Jobs, SubmitRefused(j) PROVE OnceInv'
  BY <1>7, StillOnce DEF SubmitRefused, poolVars, Busy
<1>8. ASSUME NEW r \in Reactors, ConsumeCompletionEvent(r) \/ PopNothing(r) \/ ReactorExit(r)
      PROVE  OnceInv'
  BY <1>8, StillOnce DEF ConsumeCompletionEvent, PopNothing, ReactorExit, poolVars, Busy
<1>9. ASSUME NEW w \in Workers,
             WorkerWait(w) \/ SpuriousWakeup(w) \/ WorkerExit(w) \/ WorkReturns(w)
      PROVE  OnceInv'
  BY <1>9, StillOnce DEF WorkerWait, SpuriousWakeup, WorkerExit, WorkReturns, Busy
<1>10. ASSUME NEW w \in Workers, SignalReactor(w) PROVE OnceInv'
  <2>1. /\ ~Busy(w) /\ UNCHANGED <<jobs, completions, outcome>>
        /\ \A v \in Workers : (Busy(v)' <=> Busy(v)) /\ (v # w => job'[v] = job[v])
    BY <1>10 DEF SignalReactor, Busy
  <2>2. \A k \in Jobs : /\ InJobs(k)' <=> InJobs(k)
                        /\ AtWorker(k)' <=> AtWorker(k)
                        /\ Published(k)' <=> Published(k)
    BY <2>1 DEF InJobs, AtWorker, Published, Busy
  <2>3. JobsOnce' /\ ChannelsOnce' /\ OwnChannel'
    BY <2>1 DEF OnceInv, JobsOnce, ChannelsOnce, OwnChannel
  <2>4. WorkersOnce'
    BY <2>1 DEF OnceInv, WorkersOnce
  <2> QED
    BY <2>1, <2>2, <2>3, <2>4 DEF OnceInv, OnePlace, HeldAccepted
<1>11. CASE Signal
  BY <1>11, StillOnce DEF Signal, poolVars, Busy
<1>12. CASE StopBegin
  BY <1>12, StillOnce DEF StopBegin, Busy
<1>13. CASE StopNotifyAll
  BY <1>13, StillOnce DEF StopNotifyAll, Busy
<1>14. CASE StopJoin
  BY <1>14, StillOnce DEF StopJoin, poolVars, Busy
<1>15. CASE UNCHANGED vars
  BY <1>15, StillOnce DEF vars, Busy
<1> QED
  BY <1>1, <1>2, <1>3, <1>4, <1>5, <1>6, <1>7, <1>8, <1>9, <1>10, <1>11, <1>12, <1>13,
     <1>14, <1>15 DEF Next, ReactorNext, WorkerStep, MainNext, Terminated

\* Initially no job has been submitted and every place is empty.
LEMMA InitPlaces == Init => PlaceInv
<1> SUFFICES ASSUME Init PROVE PlaceInv
  OBVIOUS
<1>1. \A j \in Jobs : ~InJobs(j) /\ ~AtWorker(j) /\ ~Published(j) /\ outcome[j] = "none"
  BY PoolAssumption DEF Init, InJobs, AtWorker, Published
<1> QED
  BY <1>1 DEF Init, PlaceInv, Accounted, OnceInv, JobsOnce, WorkersOnce, ChannelsOnce,
              OwnChannel, OnePlace, HeldAccepted, Busy

\* A job that is accounted for, and once only, has exactly one place.
LEMMA PlacesCounted ==
    ASSUME TypeOK, PlaceInv, NEW j \in Jobs
    PROVE  Cardinality(Places(j)) = IF outcome[j] = "accepted" THEN 1 ELSE 0
<1> USE PoolAssumption DEF TypeOK
<1> DEFINE InDeque == {<<"jobs", i>> : i \in {k \in DOMAIN jobs : jobs[k] = j}}
           WithWorker == {<<"worker", w>> :
              w \in {v \in Workers : pc[v] \in {"work", "publish"} /\ job[v] = j}}
           At(r) == {k \in DOMAIN completions[r] : completions[r][k] = j}
           InChannel == UNION {{<<"channel", r, i>> : i \in At(r)} : r \in Reactors}
<1>0. Places(j) = InDeque \cup WithWorker \cup InChannel
  BY DEF Places
<1>1. ~InJobs(j) => InDeque = {}
  BY DEF InJobs
<1>2. ~AtWorker(j) => WithWorker = {}
  BY DEF AtWorker
<1>3. \A r \in Reactors : At(r) # {} => r = ReactorOf[j] /\ Published(j)
  BY DEF PlaceInv, OnceInv, OwnChannel, Published
<1>4. ~Published(j) => InChannel = {}
  BY <1>3
<1>5. InJobs(j) => \E p : InDeque = {p}
  <2> SUFFICES ASSUME NEW m \in DOMAIN jobs, jobs[m] = j PROVE InDeque = {<<"jobs", m>>}
    BY DEF InJobs
  <2>1. {k \in DOMAIN jobs : jobs[k] = j} = {m}
    BY DEF PlaceInv, OnceInv, JobsOnce
  <2> QED
    BY <2>1
<1>6. AtWorker(j) => \E p : WithWorker = {p}
  <2> SUFFICES ASSUME NEW w \in Workers, Busy(w), job[w] = j
               PROVE  WithWorker = {<<"worker", w>>}
    BY DEF AtWorker, Busy
  <2>1. {v \in Workers : pc[v] \in {"work", "publish"} /\ job[v] = j} = {w}
    BY DEF PlaceInv, OnceInv, WorkersOnce, Busy
  <2> QED
    BY <2>1
<1>7. Published(j) => \E p : InChannel = {p}
  <2> DEFINE o == ReactorOf[j]
  <2> SUFFICES ASSUME NEW m \in DOMAIN completions[o], completions[o][m] = j
               PROVE  InChannel = {<<"channel", o, m>>}
    BY DEF Published
  <2>1. o \in Reactors /\ At(o) = {m}
    BY DEF PlaceInv, OnceInv, ChannelsOnce
  <2>2. \A r \in Reactors : r # o => At(r) = {}
    BY <1>3
  <2> HIDE DEF At, o
  <2> QED
    BY <2>1, <2>2
<1> HIDE DEF InDeque, WithWorker, InChannel
<1>8. outcome[j] # "accepted" => Places(j) = {}
  BY <1>0, <1>1, <1>2, <1>4 DEF PlaceInv, OnceInv, HeldAccepted
<1>9. outcome[j] = "accepted" => \E p : Places(j) = {p}
  <2> SUFFICES ASSUME outcome[j] = "accepted" PROVE \E p : Places(j) = {p}
    OBVIOUS
  <2>1. CASE InJobs(j)
    <3>1. WithWorker = {} /\ InChannel = {}
      BY <1>2, <1>4, <2>1 DEF PlaceInv, OnceInv, OnePlace
    <3> QED
      BY <1>0, <1>5, <2>1, <3>1
  <2>2. CASE AtWorker(j)
    <3>1. InDeque = {} /\ InChannel = {}
      BY <1>1, <1>4, <2>2 DEF PlaceInv, OnceInv, OnePlace
    <3> QED
      BY <1>0, <1>6, <2>2, <3>1
  <2>3. CASE Published(j)
    <3>1. InDeque = {} /\ WithWorker = {}
      BY <1>1, <1>2, <2>3 DEF PlaceInv, OnceInv, OnePlace
    <3> QED
      BY <1>0, <1>7, <2>3, <3>1
  <2> QED
    BY <2>1, <2>2, <2>3 DEF PlaceInv, Accounted
<1> QED
  BY <1>8, <1>9, FS_EmptySet, FS_Singleton

\* The places of the jobs are kept by every step of the pool.
LEMMA PlacesInvariant == Spec => [](TypeOK /\ ExitOrder /\ PlaceInv)
<1>1. Init => ExitOrder
  BY PoolAssumption DEF Init, ExitOrder
<1>2. TypeOK /\ ExitOrder /\ PlaceInv /\ [Next]_vars => ExitOrder' /\ PlaceInv'
  BY NextAccounted, NextExitOrder, NextOnce DEF PlaceInv
<1> QED
  BY <1>1, <1>2, InitPlaces, TypeCorrect, PTL DEF Spec

\* An accepted job is in exactly one place until it has ended, and in none
\* before and afterwards, for every number of threads and every interleaving.
THEOREM JobsConserved == Spec => []JobConservation
<1>1. TypeOK /\ PlaceInv => JobConservation
  BY PlacesCounted DEF JobConservation
<1> QED
  BY <1>1, PlacesInvariant, PTL

-----------------------------------------------------------------------------
(* The pool implements the abstract call service. *)

\* stop() begins when the reactors have returned.
ReactorsGone == stopping => \A r \in Reactors : reactor[r] = "exited"

\* A reactor that has returned does not come back.
LEMMA NextReactorsGone == TypeOK /\ ReactorsGone /\ [Next]_vars => ReactorsGone'
<1> SUFFICES ASSUME TypeOK, ReactorsGone, [Next]_vars PROVE ReactorsGone'
  OBVIOUS
<1> USE DEF TypeOK, ReactorsGone
<1>1. ASSUME NEW j \in Jobs, SubmitAccepted(j) \/ SubmitRefused(j) PROVE ReactorsGone'
  BY <1>1 DEF SubmitAccepted, SubmitRefused, poolVars
<1>2. ASSUME NEW r \in Reactors, ReactorNext(r) PROVE ReactorsGone'
  BY <1>2 DEF ReactorNext, ConsumeCompletionEvent, PopCompletion, PopNothing,
              ReactorExit, poolVars
<1>3. ASSUME NEW w \in Workers, WorkerStep(w) \/ SpuriousWakeup(w) PROVE ReactorsGone'
  BY <1>3 DEF WorkerStep, WorkerWait, WorkerTake, WorkerExit, WorkReturns, WorkThrows,
              PushCompletion, SignalReactor, SpuriousWakeup
<1>4. CASE Signal \/ MainNext \/ Terminated \/ UNCHANGED vars
  BY <1>4 DEF Signal, MainNext, StopBegin, StopNotifyAll, StopJoin, StopClear, Terminated,
              vars, poolVars
<1> QED
  BY <1>1, <1>2, <1>3, <1>4 DEF Next

\* A step of a thread is a step of the service or changes nothing it shows:
\* submit() accepts or refuses, a worker that pushes publishes, one whose work
\* throws fails, a pop delivers, stop() closes and later discards.
LEMMA StepRefines ==
    ASSUME TypeOK, ExitOrder, PlaceInv, ReactorsGone, [Next]_vars
    PROVE  [Calls!Next]_(Calls!vars)
<1> USE PoolAssumption DEF TypeOK
<1>0. \A k \in Jobs : Calls!InChannel(k) <=> Published(k)
  BY DEF Calls!InChannel, Published
<1>1. ASSUME NEW j \in Jobs, SubmitAccepted(j) PROVE Calls!Accept(j)
  BY <1>1 DEF SubmitAccepted, CanAccept, Calls!Accept
<1>2. ASSUME NEW j \in Jobs, SubmitRefused(j) PROVE Calls!Refuse(j)
  BY <1>2 DEF SubmitRefused, poolVars, Calls!Refuse
<1>3. ASSUME NEW r \in Reactors, PopCompletion(r) PROVE Calls!Deliver(r)
  BY <1>3 DEF PopCompletion, ReactorsGone, Calls!Deliver
<1>4. ASSUME NEW w \in Workers, Busy(w)
      PROVE  job[w] \in Jobs /\ Calls!Running(job[w])
  <2>1. job[w] \in Jobs /\ AtWorker(job[w])
    BY <1>4 DEF Busy, AtWorker
  <2> QED
    BY <1>0, <2>1 DEF PlaceInv, OnceInv, OnePlace, HeldAccepted, Calls!Running
<1>5. ASSUME NEW w \in Workers, WorkThrows(w) PROVE Calls!Fail(job[w])
  <2>1. Calls!Running(job[w])
    BY <1>4, <1>5 DEF WorkThrows, Busy
  <2> QED
    BY <1>5, <2>1 DEF WorkThrows, Calls!Fail
<1>6. ASSUME NEW w \in Workers, PushCompletion(w) PROVE Calls!Publish(job[w])
  <2>1. Calls!Running(job[w])
    BY <1>4, <1>6 DEF PushCompletion, Busy
  <2> QED
    BY <1>6, <2>1 DEF PushCompletion, Calls!Publish
<1>7. CASE StopBegin
  BY <1>7 DEF StopBegin, ExitOrder, Calls!Next, Calls!Close
<1>8. CASE StopClear
  <2>0. stopping /\ jobs = <<>> /\ \A w \in Workers : pc[w] = "exited"
    BY <1>8 DEF StopClear, ExitOrder
  <2>1. stopping /\ \A k \in Jobs : outcome[k] = "accepted" => Published(k)
    <3>1. \A k \in Jobs : ~InJobs(k) /\ ~AtWorker(k)
      BY <2>0 DEF InJobs, AtWorker
    <3> QED
      BY <2>0, <3>1 DEF PlaceInv, Accounted
  <2>2. \A k \in Jobs : ~Calls!Running(k)
    BY <1>0, <2>1 DEF Calls!Running
  <2> QED
    BY <1>8, <2>1, <2>2 DEF StopClear, Calls!Next, Calls!Discard
<1>9. ASSUME NEW w \in Workers,
             WorkerWait(w) \/ WorkerTake(w) \/ WorkerExit(w) \/ WorkReturns(w)
               \/ SignalReactor(w) \/ SpuriousWakeup(w)
      PROVE  UNCHANGED Calls!vars
  BY <1>9 DEF WorkerWait, WorkerTake, WorkerExit, WorkReturns, SignalReactor,
              SpuriousWakeup, Calls!vars
<1>10. ASSUME NEW r \in Reactors, ConsumeCompletionEvent(r) \/ PopNothing(r) \/ ReactorExit(r)
       PROVE  UNCHANGED Calls!vars
  BY <1>10 DEF ConsumeCompletionEvent, PopNothing, ReactorExit, poolVars, Calls!vars
<1>11. CASE Signal \/ StopNotifyAll \/ StopJoin \/ Terminated \/ UNCHANGED vars
  BY <1>11 DEF Signal, StopNotifyAll, StopJoin, Terminated, vars, poolVars, Calls!vars
<1> QED
  BY <1>1, <1>2, <1>3, <1>4, <1>5, <1>6, <1>7, <1>8, <1>9, <1>10, <1>11
     DEF Next, ReactorNext, WorkerStep, MainNext, Calls!Next, WorkThrows, PushCompletion, Busy

\* What the pool promises a reactor it keeps, whatever its threads do: every
\* behaviour of the pool is a behaviour of AsyncCalls (the safety part of
\* ImplementsAsyncCalls).
THEOREM PoolImplementsCalls == Spec => Calls!Spec
<1>1. Init => Calls!Init /\ ReactorsGone
  BY DEF Init, Calls!Init, ReactorsGone
<1>2. Spec => []ReactorsGone
  BY <1>1, NextReactorsGone, TypeCorrect, PTL DEF Spec
<1>3. TypeOK /\ ExitOrder /\ PlaceInv /\ ReactorsGone /\ [Next]_vars
        => [Calls!Next]_(Calls!vars)
  BY StepRefines
<1> QED
  BY <1>1, <1>2, <1>3, PlacesInvariant, PTL DEF Spec, Calls!Spec
=============================================================================
