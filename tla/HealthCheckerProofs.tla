------------------------ MODULE HealthCheckerProofs ------------------------
(***************************************************************************)
(* Proofs about HealthChecker and HealthTiming for any backends, any time- *)
(* outs whose sum is below the interval, any time spent in getaddrinfo()   *)
(* and any bound on the failure counter.                                   *)
(***************************************************************************)
EXTENDS HealthTiming, TLAPS

-----------------------------------------------------------------------------
(* Facts about the operators the actions are built from. *)

\* One more failure stays within the cap and is a number below 2 exactly if
\* there was none before.
LEMMA OneMoreFacts ==
    ASSUME NEW n \in 0 .. FailureCap
    PROVE  /\ OneMore(n) \in 0 .. FailureCap
           /\ Unhealthy(OneMore(n)) <=> ~(OneMore(n) < 2)
           /\ OneMore(n) < 2 => n < 2
BY HealthAssumption DEF OneMore, Unhealthy

\* A verdict keeps the types of the flag and of the counter.
LEMMA VerdictsType ==
    ASSUME NEW ok, NEW fail, TypeOK, Verdicts(ok, fail)
    PROVE  /\ healthy' \in [Backends -> BOOLEAN]
           /\ consecutive_failures' \in [Backends -> 0 .. FailureCap]
<1>1. \A b \in Backends : OneMore(consecutive_failures[b]) \in 0 .. FailureCap
  BY OneMoreFacts DEF TypeOK
<1>2. 0 \in 0 .. FailureCap
  BY HealthAssumption
<1>3. consecutive_failures' \in [Backends -> 0 .. FailureCap]
  BY <1>1, <1>2 DEF TypeOK, Verdicts
<1>4. healthy' \in [Backends -> BOOLEAN]
  BY Zenon DEF TypeOK, Verdicts
<1> QED
  BY <1>3, <1>4

\* A verdict keeps flag and counter in agreement.
LEMMA VerdictsAgree ==
    ASSUME NEW ok, NEW fail, TypeOK, HealthyBelowThreshold, Verdicts(ok, fail)
    PROVE  HealthyBelowThreshold'
<1> SUFFICES ASSUME NEW b \in Backends
             PROVE  healthy'[b] <=> consecutive_failures'[b] < 2
  BY DEF HealthyBelowThreshold
<1> DEFINE n == consecutive_failures[b]
<1>1. /\ Unhealthy(OneMore(n)) <=> ~(OneMore(n) < 2)
      /\ OneMore(n) < 2 => n < 2
  <2>1. n \in 0 .. FailureCap
    BY DEF TypeOK
  <2> QED
    BY <2>1, OneMoreFacts
<1>2. healthy[b] <=> n < 2
  BY DEF HealthyBelowThreshold
<1>3. CASE b \in ok
  BY <1>3 DEF Verdicts
<1>4. CASE b \notin ok /\ b \in fail
  <2>1. consecutive_failures'[b] = OneMore(n)
    BY <1>4 DEF Verdicts
  <2>2. healthy'[b] = IF Unhealthy(OneMore(n)) THEN FALSE ELSE healthy[b]
    BY <1>4 DEF Verdicts
  <2> QED
    BY <2>1, <2>2, <1>1, <1>2
<1>5. CASE b \notin ok /\ b \notin fail
  BY <1>5, <1>2 DEF Verdicts
<1> QED
  BY <1>3, <1>4, <1>5

\* An event leaves a check in its state, moves it forward or ends it.
LEMMA EventMovesForward ==
    ASSUME TypeOK, NEW b \in Active, NEW events,
           NEW s \in AfterEvent(b, events)
    PROVE  /\ s \in CheckState \cup {"ok", "fail"}
           /\ state[b] = "Writing" => s # "Connecting"
           /\ state[b] = "Reading" => s \notin {"Connecting", "Writing"}
<1>0. b \in Backends /\ state[b] \in CheckState
  BY DEF Active, TypeOK
<1>1. PICK s1 \in AfterConnect(b, state[b], events) :
      \E s2 \in AfterWrite(b, s1, events) :
      \E s3 \in AfterRead(b, s2, events) : s \in AfterHangup(s3, events)
  BY DEF AfterEvent
<1>2. PICK s2 \in AfterWrite(b, s1, events) :
      \E s3 \in AfterRead(b, s2, events) : s \in AfterHangup(s3, events)
  BY <1>1
<1>3. PICK s3 \in AfterRead(b, s2, events) : s \in AfterHangup(s3, events)
  BY <1>2
<1>4. s1 \in {state[b], "Writing", "fail"} /\ (s1 = "Writing" => state[b] \in {"Connecting", "Writing"})
  BY <1>1 DEF AfterConnect
<1>5. s2 \in {s1, "Writing", "Reading", "fail"} /\ (s2 # s1 => s1 = "Writing")
  BY <1>2 DEF AfterWrite
<1>6. s3 = s2 \/ (s3 \in {"ok", "fail", "Reading"} /\ s2 = "Reading")
  <2>1. answered[b] \in BOOLEAN /\ status[b] \in Status
    BY <1>0 DEF TypeOK
  <2>2. CASE s2 = "Reading" /\ "IN" \in events
    BY <2>1, <2>2, <1>3 DEF AfterRead, Status
  <2>3. CASE ~(s2 = "Reading" /\ "IN" \in events)
    BY <2>3, <1>3 DEF AfterRead
  <2> QED
    BY <2>2, <2>3
<1>7. s \in {s3, "fail"}
  BY <1>3 DEF AfterHangup
<1> QED
  BY <1>0, <1>4, <1>5, <1>6, <1>7 DEF CheckState

\* What an event on the check of backend b does.
LEMMA HandleOutcome ==
    ASSUME TypeOK, NEW b \in Active, NEW events, Handle(b, events)
    PROVE  \E s \in AfterEvent(b, events) :
             /\ s \in CheckState \cup {"ok", "fail"}
             /\ consecutive_failures'[b] =
                  IF s = "ok" THEN 0
                  ELSE IF s = "fail" THEN OneMore(consecutive_failures[b])
                  ELSE consecutive_failures[b]
             /\ state'[b] = IF s \in CheckState THEN s ELSE "none"
             /\ s \in CheckState => deadline'[b] = DeadlineAfter(b, s) /\ answered'[b] = answered[b]
             /\ s \notin CheckState => answered'[b] = FALSE
             /\ \A c \in Backends \ {b} :
                  /\ consecutive_failures'[c] = consecutive_failures[c]
                  /\ state'[c] = state[c]
                  /\ deadline'[c] = deadline[c]
                  /\ answered'[c] = answered[c]
<1>1. PICK s \in AfterEvent(b, events) :
        /\ Verdicts({c \in {b} : s = "ok"}, {c \in {b} : s = "fail"})
        /\ IF s \in CheckState
             THEN /\ state' = [state EXCEPT ![b] = s]
                  /\ deadline' = [deadline EXCEPT ![b] = DeadlineAfter(b, s)]
                  /\ answered' = answered
             ELSE /\ state' = [state EXCEPT ![b] = "none"]
                  /\ deadline' = [deadline EXCEPT ![b] = 0]
                  /\ answered' = [answered EXCEPT ![b] = FALSE]
  BY Zenon DEF Handle
<1>2. s \in CheckState \cup {"ok", "fail"}
  BY <1>1, EventMovesForward
<1>3. b \in Backends
  BY DEF Active
<1>4. /\ consecutive_failures'[b] =
           IF s = "ok" THEN 0
           ELSE IF s = "fail" THEN OneMore(consecutive_failures[b])
           ELSE consecutive_failures[b]
      /\ \A c \in Backends \ {b} : consecutive_failures'[c] = consecutive_failures[c]
  BY <1>1, <1>3 DEF Verdicts
<1>5. /\ state'[b] = IF s \in CheckState THEN s ELSE "none"
      /\ s \in CheckState => deadline'[b] = DeadlineAfter(b, s)
      /\ \A c \in Backends \ {b} : state'[c] = state[c] /\ deadline'[c] = deadline[c]
  BY <1>1, <1>3 DEF TypeOK
<1>6. /\ s \in CheckState => answered'[b] = answered[b]
      /\ s \notin CheckState => answered'[b] = FALSE
      /\ \A c \in Backends \ {b} : answered'[c] = answered[c]
  BY <1>1, <1>3 DEF TypeOK
<1> QED
  BY <1>1, <1>2, <1>4, <1>5, <1>6

\* What one turn of start() does.
LEMMA ProbeOutcome ==
    ASSUME TypeOK, NEW b \in Backends, Probe(b)
    PROVE  /\ \/ /\ state'[b] = "none"
                 /\ consecutive_failures'[b] = OneMore(consecutive_failures[b])
                 /\ status[b] # "up"
              \/ /\ state'[b] = "Connecting" /\ deadline'[b] = CONNECT_TIMEOUT
                 /\ consecutive_failures'[b] = consecutive_failures[b]
              \/ /\ state'[b] = "Writing" /\ deadline'[b] = RESPONSE_TIMEOUT
                 /\ consecutive_failures'[b] = consecutive_failures[b]
           /\ \A c \in Backends \ {b} :
                /\ consecutive_failures'[c] = consecutive_failures[c]
                /\ state'[c] = state[c]
                /\ deadline'[c] = deadline[c]
           /\ pending' = pending \ {b} /\ b \in pending
           /\ UNCHANGED <<answered, next_round, expired, held, stopped, status, stale>>
<1>1. PICK s \in Opened(b) :
        /\ Verdicts({}, {c \in {b} : s = "fail"})
        /\ state' = [state EXCEPT ![b] = IF s = "fail" THEN "none" ELSE s]
        /\ deadline' = [deadline EXCEPT ![b] =
             IF s = "Connecting" THEN CONNECT_TIMEOUT
             ELSE IF s = "Writing" THEN RESPONSE_TIMEOUT ELSE 0]
  BY DEF Probe
<1>2. s \in {"Connecting", "Writing", "fail"} /\ (s = "fail" => status[b] # "up")
  BY DEF Opened
<1>3. \A c \in Backends :
        consecutive_failures'[c] = IF c = b /\ s = "fail" THEN OneMore(consecutive_failures[c])
                                                         ELSE consecutive_failures[c]
  BY <1>1 DEF Verdicts
<1>4. /\ state'[b] = IF s = "fail" THEN "none" ELSE s
      /\ deadline'[b] = IF s = "Connecting" THEN CONNECT_TIMEOUT
                        ELSE IF s = "Writing" THEN RESPONSE_TIMEOUT ELSE 0
      /\ \A c \in Backends \ {b} : state'[c] = state[c] /\ deadline'[c] = deadline[c]
  BY <1>1 DEF TypeOK
<1>5. /\ pending' = pending \ {b} /\ b \in pending
      /\ UNCHANGED <<answered, next_round, expired, held, stopped, status, stale>>
  BY DEF Probe, timer
<1>6. CASE s = "fail"
  BY <1>2, <1>3, <1>4, <1>5, <1>6
<1>7. CASE s = "Connecting"
  BY <1>2, <1>3, <1>4, <1>5, <1>7
<1>8. CASE s = "Writing"
  BY <1>2, <1>3, <1>4, <1>5, <1>8
<1> QED
  BY <1>2, <1>6, <1>7, <1>8

\* What expire() does.
LEMMA ExpireOutcome ==
    ASSUME Expire
    PROVE  /\ \A c \in Backends :
                /\ consecutive_failures'[c] = IF c \in TimedOut THEN OneMore(consecutive_failures[c])
                                                               ELSE consecutive_failures[c]
                /\ state'[c] = IF c \in TimedOut THEN "none" ELSE state[c]
                /\ answered'[c] = (c \notin TimedOut /\ answered[c])
           /\ UNCHANGED <<deadline, next_round, expired, held, pending, stopped, status, stale>>
<1>1. \A c \in Backends :
        /\ consecutive_failures'[c] = IF c \in TimedOut THEN OneMore(consecutive_failures[c])
                                                       ELSE consecutive_failures[c]
        /\ state'[c] = IF c \in TimedOut THEN "none" ELSE state[c]
  BY DEF Expire, Verdicts
<1>2. \A c \in Backends : answered'[c] = (c \notin TimedOut /\ answered[c])
  BY Zenon DEF Expire
<1> QED
  BY <1>1, <1>2, Zenon DEF Expire, timer

\* What a tick does to the clocks.
LEMMA TimeOutcome ==
    ASSUME TypeOK, TimePasses
    PROVE  /\ \A c \in Backends :
                /\ deadline[c] \in Nat /\ deadline'[c] \in Nat
                /\ state[c] # "none" /\ deadline[c] > 0 => deadline'[c] = deadline[c] - 1
                /\ state[c] = "none" \/ deadline[c] = 0 => deadline'[c] = deadline[c]
           /\ next_round # 1 => next_round' = next_round - 1 /\ expired' = expired
           /\ next_round = 1 => next_round' = HEALTH_CHECK_INTERVAL /\ expired'
           /\ next_round' # next_round
           /\ UNCHANGED <<healthy, consecutive_failures, state, answered, pending, stopped,
                          status, stale>>
<1>1. ASSUME NEW c \in Backends
      PROVE  /\ deadline[c] \in Nat /\ deadline'[c] \in Nat
             /\ state[c] # "none" /\ deadline[c] > 0 => deadline'[c] = deadline[c] - 1
             /\ state[c] = "none" \/ deadline[c] = 0 => deadline'[c] = deadline[c]
  <2>1. deadline[c] \in Nat
    BY DEF TypeOK
  <2>2. deadline'[c] = IF c \in Active /\ deadline[c] > 0 THEN deadline[c] - 1 ELSE deadline[c]
    BY DEF TimePasses
  <2> QED
    BY <2>1, <2>2 DEF Active
<1>2. /\ next_round # 1 => next_round' = next_round - 1
      /\ next_round = 1 => next_round' = HEALTH_CHECK_INTERVAL
      /\ next_round' # next_round
  BY HealthAssumption DEF TimePasses, TypeOK
<1>3. next_round # 1 => expired' = expired
  BY Zenon DEF TimePasses, TypeOK
<1>4. next_round = 1 => expired'
  BY Zenon DEF TimePasses
<1> QED
  BY <1>1, <1>2, <1>3, <1>4 DEF TimePasses

-----------------------------------------------------------------------------
(* Type correctness. *)

\* The checker starts with well-typed variables.
LEMMA InitTypeOK == Init => TypeOK
<1> SUFFICES ASSUME Init PROVE TypeOK
  OBVIOUS
<1>1. expired \in BOOLEAN /\ pending \subseteq Backends
  BY Zenon DEF Init
<1>2. healthy \in [Backends -> BOOLEAN] /\ answered \in [Backends -> BOOLEAN]
  BY Zenon DEF Init
<1>3. /\ consecutive_failures \in [Backends -> 0 .. FailureCap]
      /\ next_round \in 1 .. HEALTH_CHECK_INTERVAL
      /\ held \in 0 .. MaxHeld
      /\ stale \in 0 .. MaxStale
  <2>1. /\ consecutive_failures = [b \in Backends |-> 0] /\ next_round = HEALTH_CHECK_INTERVAL
        /\ held = 0 /\ stale = 0
    BY DEF Init
  <2> QED
    BY <2>1, HealthAssumption
<1>4. /\ state \in [Backends -> CheckState \cup {"none"}]
      /\ deadline \in [Backends -> Nat]
  <2>1. state = [b \in Backends |-> "none"] /\ deadline = [b \in Backends |-> 0]
    BY DEF Init
  <2> QED
    BY <2>1
<1>5. stopped \in BOOLEAN /\ status \in [Backends -> Status]
  BY Zenon DEF Init
<1> QED
  BY <1>1, <1>2, <1>3, <1>4, <1>5 DEF TypeOK

\* A handler that moves a check to another state leaves a check.
LEMMA HandleType ==
    ASSUME TypeOK, NEW b \in Active, NEW events, Handle(b, events)
    PROVE  /\ healthy' \in [Backends -> BOOLEAN]
           /\ consecutive_failures' \in [Backends -> 0 .. FailureCap]
           /\ state' \in [Backends -> CheckState \cup {"none"}]
           /\ deadline' \in [Backends -> Nat]
           /\ answered' \in [Backends -> BOOLEAN]
<1>1. PICK s \in AfterEvent(b, events) :
        /\ Verdicts({c \in {b} : s = "ok"}, {c \in {b} : s = "fail"})
        /\ IF s \in CheckState
             THEN /\ state' = [state EXCEPT ![b] = s]
                  /\ deadline' = [deadline EXCEPT ![b] = DeadlineAfter(b, s)]
                  /\ answered' = answered
             ELSE /\ state' = [state EXCEPT ![b] = "none"]
                  /\ deadline' = [deadline EXCEPT ![b] = 0]
                  /\ answered' = [answered EXCEPT ![b] = FALSE]
  BY Zenon DEF Handle
<1>2. /\ healthy' \in [Backends -> BOOLEAN]
      /\ consecutive_failures' \in [Backends -> 0 .. FailureCap]
  BY <1>1, VerdictsType, Zenon
<1>3. DeadlineAfter(b, s) \in Nat
  BY HealthAssumption DEF DeadlineAfter, TypeOK, Active
<1>4. state' \in [Backends -> CheckState \cup {"none"}]
  BY <1>1 DEF TypeOK
<1>5. deadline' \in [Backends -> Nat]
  BY <1>1, <1>3 DEF TypeOK
<1>6. answered' \in [Backends -> BOOLEAN]
  BY <1>1 DEF TypeOK
<1> QED
  BY <1>2, <1>4, <1>5, <1>6

\* Time keeps the types: a deadline that has passed stays at zero.
LEMMA TimeType ==
    ASSUME TypeOK, TimePasses, held' \in 0 .. MaxHeld
    PROVE  TypeOK'
<1>1. deadline' \in [Backends -> Nat]
  BY DEF TimePasses, TypeOK
<1>2. next_round' \in 1 .. HEALTH_CHECK_INTERVAL
  BY HealthAssumption DEF TimePasses, TypeOK
<1>3. expired' \in BOOLEAN
  BY Zenon DEF TimePasses
<1> QED
  BY <1>1, <1>2, <1>3 DEF TimePasses, TypeOK

\* Every step of the checker keeps the types; that held stays within its bound
\* when a round begins is shown below, with RoundInv.
LEMMA NextTypeOK ==
    ASSUME TypeOK, [Next]_vars, expired => HEALTH_CHECK_INTERVAL - next_round <= held
    PROVE  TypeOK'
<1>1. CASE Start
  <2>1. pending' \subseteq Backends
    BY <1>1 DEF Start, Probed
  <2>2. held' \in 0 .. MaxHeld
    <3>1. expired /\ next_round \in 1 .. HEALTH_CHECK_INTERVAL /\ held \in 0 .. MaxHeld
      BY <1>1 DEF Start, TypeOK
    <3>2. HEALTH_CHECK_INTERVAL - next_round \in 0 .. MaxHeld
      BY <3>1, HealthAssumption
    <3> QED
      BY <1>1, <3>1, <3>2 DEF Start
  <2>3. expired' \in BOOLEAN
    BY <1>1, Zenon DEF Start
  <2> QED
    BY <1>1, <2>1, <2>2, <2>3 DEF Start, TypeOK, checks
<1>2. CASE Expire
  <2>1. /\ healthy' \in [Backends -> BOOLEAN]
        /\ consecutive_failures' \in [Backends -> 0 .. FailureCap]
    BY <1>2, VerdictsType, Zenon DEF Expire
  <2>2. state' \in [Backends -> CheckState \cup {"none"}]
    BY <1>2 DEF Expire, TypeOK
  <2>3. answered' \in [Backends -> BOOLEAN]
    BY <1>2, Zenon DEF Expire
  <2> QED
    BY <1>2, <2>1, <2>2, <2>3 DEF Expire, TypeOK, timer
<1>3. CASE CancelAll
  BY <1>3 DEF CancelAll, TypeOK, timer
<1>4. CASE Tick
  BY <1>4, TimeType DEF Tick, TypeOK
<1>5. CASE Resolve
  <2>1. held' \in 0 .. MaxHeld
    BY <1>5, HealthAssumption DEF Resolve, TypeOK
  <2> QED
    BY <1>5, <2>1, TimeType DEF Resolve
<1>6. ASSUME NEW b \in Backends, Probe(b) PROVE TypeOK'
  <2>1. PICK s \in Opened(b) :
          /\ Verdicts({}, {c \in {b} : s = "fail"})
          /\ state' = [state EXCEPT ![b] = IF s = "fail" THEN "none" ELSE s]
          /\ deadline' = [deadline EXCEPT ![b] =
               IF s = "Connecting" THEN CONNECT_TIMEOUT
               ELSE IF s = "Writing" THEN RESPONSE_TIMEOUT ELSE 0]
    BY <1>6, Zenon DEF Probe
  <2>2. /\ healthy' \in [Backends -> BOOLEAN]
        /\ consecutive_failures' \in [Backends -> 0 .. FailureCap]
    BY <2>1, VerdictsType, Zenon
  <2>3. s \in {"Connecting", "Writing", "fail"}
    BY DEF Opened
  <2>4. state' \in [Backends -> CheckState \cup {"none"}]
    BY <2>1, <2>3 DEF TypeOK, CheckState
  <2>5. deadline' \in [Backends -> Nat]
    BY <2>1, HealthAssumption DEF TypeOK
  <2>6. pending' \subseteq Backends
    BY <1>6 DEF Probe, TypeOK
  <2> QED
    BY <1>6, <2>2, <2>4, <2>5, <2>6 DEF Probe, TypeOK, timer
<1>7. ASSUME NEW b \in Backends, HandleEvent(b) PROVE TypeOK'
  <2>1. PICK events \in Reported(b) : Handle(b, events)
    BY <1>7 DEF HandleEvent
  <2>2. b \in Active
    BY <1>7 DEF HandleEvent
  <2> QED
    BY <1>7, <2>1, <2>2, HandleType DEF HandleEvent, TypeOK, timer
<1>8. ASSUME NEW b \in Backends, StaleEvent(b) PROVE TypeOK'
  <2>1. PICK events : Handle(b, events)
    BY <1>8 DEF StaleEvent
  <2>2. b \in Active
    BY <1>8 DEF StaleEvent
  <2>3. stale' \in 0 .. MaxStale
    BY <1>8, HealthAssumption DEF StaleEvent, TypeOK
  <2> QED
    BY <1>8, <2>1, <2>2, <2>3, HandleType DEF StaleEvent, TypeOK, timer
<1>9. ASSUME NEW b \in Backends, Answer(b) PROVE TypeOK'
  BY <1>9 DEF Answer, TypeOK, timer
<1>10. ASSUME NEW b \in Backends, NEW s \in Status, Change(b, s) PROVE TypeOK'
  BY <1>10 DEF Change, TypeOK, timer, checks
<1>11. CASE UNCHANGED vars
  BY <1>11 DEF vars, TypeOK, timer, checks
<1> QED
  BY <1>1, <1>2, <1>3, <1>4, <1>5, <1>6, <1>7, <1>8, <1>9, <1>10, <1>11 DEF Next, Terminated

\* While the timer is expired and unread, time passes only in getaddrinfo().
UnreadInv == expired => HEALTH_CHECK_INTERVAL - next_round <= held

\* Every step keeps UnreadInv.
LEMMA NextUnread == TypeOK /\ UnreadInv /\ [Next]_vars => UnreadInv'
<1> SUFFICES ASSUME TypeOK, UnreadInv, [Next]_vars PROVE UnreadInv'
  OBVIOUS
<1> DEFINE I == HEALTH_CHECK_INTERVAL
<1>0. /\ next_round \in 1 .. I /\ held \in Nat /\ I \in Nat
  BY HealthAssumption DEF TypeOK
<1>1. CASE Start
  BY <1>1 DEF Start, UnreadInv
<1>2. CASE Tick
  <2>1. ~expired /\ held' = held /\ TimePasses
    BY <1>2 DEF Tick
  <2>2. CASE next_round = 1
    <3>1. I - next_round' = 0
      BY <1>0, <2>1, <2>2, TimeOutcome
    <3> QED
      BY <1>0, <2>1, <3>1 DEF UnreadInv
  <2>3. CASE next_round # 1
    BY <2>1, <2>3, TimeOutcome DEF UnreadInv
  <2> QED
    BY <2>2, <2>3
<1>3. CASE Resolve
  <2>1. held' = held + 1 /\ TimePasses
    BY <1>3 DEF Resolve
  <2>2. CASE next_round = 1
    <3>1. I - next_round' = 0
      BY <1>0, <2>1, <2>2, TimeOutcome
    <3> QED
      BY <1>0, <2>1, <3>1 DEF UnreadInv
  <2>3. CASE next_round # 1
    <3>1. I - next_round' = (I - next_round) + 1 /\ expired' = expired
      BY <1>0, <2>1, <2>3, TimeOutcome
    <3> QED
      BY <1>0, <2>1, <3>1 DEF UnreadInv
  <2> QED
    BY <2>2, <2>3
<1>4. ASSUME UNCHANGED timer PROVE UnreadInv'
  BY <1>4 DEF timer, UnreadInv
<1>5. ASSUME NEW b \in Backends, HandleEvent(b) \/ StaleEvent(b) \/ Probe(b) \/ Answer(b)
      PROVE  UnreadInv'
  BY <1>5, <1>4 DEF HandleEvent, StaleEvent, Probe, Answer
<1>6. ASSUME NEW b \in Backends, NEW s \in Status, Change(b, s) PROVE UnreadInv'
  BY <1>6, <1>4 DEF Change
<1>7. CASE Expire \/ CancelAll
  BY <1>7, <1>4 DEF Expire, CancelAll
<1>8. CASE UNCHANGED vars
  BY <1>8, <1>4 DEF vars
<1> QED
  BY <1>1, <1>2, <1>3, <1>5, <1>6, <1>7, <1>8 DEF Next, Terminated

\* What every later argument starts from.
LEMMA BasicInvariant == Spec => [](TypeOK /\ UnreadInv)
<1>1. Init => TypeOK /\ UnreadInv
  BY InitTypeOK DEF Init, UnreadInv
<1>2. TypeOK /\ UnreadInv /\ [Next]_vars => TypeOK' /\ UnreadInv'
  BY NextTypeOK, NextUnread DEF UnreadInv
<1> QED
  BY <1>1, <1>2, PTL DEF Spec

\* The variables keep their types: no deadline falls below zero, and a new round
\* takes over at most the time that the reactor was held up before it.
THEOREM TypeCorrect == Spec => []TypeOK
BY BasicInvariant, PTL

-----------------------------------------------------------------------------
(* Flag and counter. *)

\* Every step keeps the flag of a backend in step with its failure count.
LEMMA NextAgree == TypeOK /\ HealthyBelowThreshold /\ [Next]_vars => HealthyBelowThreshold'
<1> SUFFICES ASSUME TypeOK, HealthyBelowThreshold, [Next]_vars
             PROVE  HealthyBelowThreshold'
  OBVIOUS
<1>1. ASSUME NEW ok, NEW fail, Verdicts(ok, fail) PROVE HealthyBelowThreshold'
  BY <1>1, VerdictsAgree
<1>2. ASSUME UNCHANGED <<healthy, consecutive_failures>> PROVE HealthyBelowThreshold'
  BY <1>2 DEF HealthyBelowThreshold
<1>3. ASSUME NEW b, NEW events, Handle(b, events) PROVE HealthyBelowThreshold'
  <2>1. PICK s : Verdicts({c \in {b} : s = "ok"}, {c \in {b} : s = "fail"})
    BY <1>3, Zenon DEF Handle
  <2> QED
    BY <2>1, <1>1, Zenon
<1>4. ASSUME NEW b \in Backends, Probe(b) PROVE HealthyBelowThreshold'
  <2>1. PICK fail : Verdicts({}, fail)
    BY <1>4, Zenon DEF Probe
  <2> QED
    BY <2>1, <1>1, Zenon
<1>5. CASE Expire
  BY <1>5, <1>1, Zenon DEF Expire
<1>6. CASE Start \/ CancelAll
  BY <1>6, <1>2 DEF Start, CancelAll, checks
<1>7. CASE Tick \/ Resolve
  BY <1>7, <1>2 DEF Tick, Resolve, TimePasses
<1>8. ASSUME NEW b \in Backends, HandleEvent(b) PROVE HealthyBelowThreshold'
  BY <1>8, <1>3, Zenon DEF HandleEvent
<1>9. ASSUME NEW b \in Backends, StaleEvent(b) PROVE HealthyBelowThreshold'
  BY <1>9, <1>3, Zenon DEF StaleEvent
<1>10. ASSUME NEW b \in Backends, Answer(b) PROVE HealthyBelowThreshold'
  BY <1>10, <1>2 DEF Answer
<1>11. ASSUME NEW b \in Backends, NEW s \in Status, Change(b, s) PROVE HealthyBelowThreshold'
  BY <1>11, <1>2 DEF Change, checks
<1>12. CASE UNCHANGED vars
  BY <1>12, <1>2 DEF vars, checks
<1> QED
  BY <1>4, <1>5, <1>6, <1>7, <1>8, <1>9, <1>10, <1>11, <1>12 DEF Next, Terminated

\* Whatever way a check ends, a backend is in rotation exactly as long as
\* fewer than two checks in a row have failed.
THEOREM FlagFollowsCounter == Spec => []HealthyBelowThreshold
<1>1. Init => HealthyBelowThreshold
  BY DEF Init, HealthyBelowThreshold
<1> QED
  BY <1>1, TypeCorrect, NextAgree, PTL DEF Spec

-----------------------------------------------------------------------------
(* Checks and the round they belong to. *)

\* start() begins checks where there are none, and an answer that is in a
\* socket is in one that is being read.
ChecksInv ==
    /\ \A b \in pending : state[b] = "none"
    /\ \A b \in Backends : answered[b] => state[b] = "Reading"

\* An event keeps ChecksInv: an answered check goes on reading or ends.
LEMMA HandleChecks ==
    ASSUME TypeOK, ChecksInv, pending = {}, pending' = {}, NEW b \in Active, NEW events,
           Handle(b, events)
    PROVE  ChecksInv'
<1>1. PICK s \in AfterEvent(b, events) :
        /\ state'[b] = IF s \in CheckState THEN s ELSE "none"
        /\ s \in CheckState => answered'[b] = answered[b]
        /\ s \notin CheckState => answered'[b] = FALSE
        /\ \A c \in Backends \ {b} : state'[c] = state[c] /\ answered'[c] = answered[c]
  BY HandleOutcome
<1>2. answered'[b] => state'[b] = "Reading"
  <2> SUFFICES ASSUME answered'[b] PROVE state'[b] = "Reading"
    OBVIOUS
  <2>1. s \in CheckState /\ answered[b]
    BY <1>1
  <2>2. state[b] = "Reading"
    BY <2>1 DEF ChecksInv, Active
  <2>3. s \notin {"Connecting", "Writing"}
    BY <2>2, EventMovesForward
  <2> QED
    BY <1>1, <2>1, <2>3 DEF CheckState
<1> QED
  BY <1>1, <1>2 DEF ChecksInv

\* Every step keeps ChecksInv.
LEMMA NextChecks == TypeOK /\ ChecksInv /\ [Next]_vars => ChecksInv'
<1> SUFFICES ASSUME TypeOK, ChecksInv, [Next]_vars PROVE ChecksInv'
  OBVIOUS
<1>1. CASE Start
  <2>1. \A b \in Probed : state[b] = "none"
    BY DEF Probed, Active
  <2> QED
    BY <1>1, <2>1 DEF Start, ChecksInv, checks
<1>2. CASE Expire
  <2>1. \A c \in Backends : /\ state'[c] = IF c \in TimedOut THEN "none" ELSE state[c]
                            /\ answered'[c] = (c \notin TimedOut /\ answered[c])
    BY <1>2, ExpireOutcome
  <2>2. pending' = {}
    BY <1>2 DEF Expire, InLoop
  <2> QED
    BY <2>1, <2>2 DEF ChecksInv
<1>3. CASE CancelAll
  BY <1>3 DEF CancelAll, ChecksInv, InLoop
<1>4. CASE Tick \/ Resolve
  <2>1. UNCHANGED <<state, answered, pending>>
    BY <1>4 DEF Tick, Resolve, TimePasses
  <2> QED
    BY <2>1 DEF ChecksInv
<1>5. ASSUME NEW b \in Backends, Probe(b) PROVE ChecksInv'
  <2>1. /\ pending' = pending \ {b} /\ b \in pending /\ answered' = answered
        /\ \A c \in Backends \ {b} : state'[c] = state[c]
    BY <1>5, ProbeOutcome
  <2>2. ~answered[b]
    BY <2>1 DEF ChecksInv
  <2>3. pending \subseteq Backends
    BY DEF TypeOK
  <2> QED
    BY <2>1, <2>2, <2>3 DEF ChecksInv
<1>6. ASSUME NEW b \in Backends, HandleEvent(b) PROVE ChecksInv'
  <2>1. b \in Active /\ pending = {} /\ pending' = {} /\ \E events : Handle(b, events)
    BY <1>6, Zenon DEF HandleEvent, InLoop
  <2> QED
    BY <2>1, HandleChecks
<1>7. ASSUME NEW b \in Backends, StaleEvent(b) PROVE ChecksInv'
  <2>1. b \in Active /\ pending = {} /\ pending' = {} /\ \E events : Handle(b, events)
    BY <1>7, Zenon DEF StaleEvent, InLoop
  <2> QED
    BY <2>1, HandleChecks
<1>8. ASSUME NEW b \in Backends, Answer(b) PROVE ChecksInv'
  BY <1>8 DEF Answer, ChecksInv, TypeOK
<1>9. ASSUME NEW b \in Backends, NEW s \in Status, Change(b, s) PROVE ChecksInv'
  BY <1>9 DEF Change, ChecksInv, checks
<1>10. CASE UNCHANGED vars
  BY <1>10 DEF vars, ChecksInv, checks
<1> QED
  BY <1>1, <1>2, <1>3, <1>4, <1>5, <1>6, <1>7, <1>8, <1>9, <1>10 DEF Next, Terminated

\* The time since the timer expired for the current round.
Elapsed ==
    (HEALTH_CHECK_INTERVAL - next_round) + (IF expired THEN HEALTH_CHECK_INTERVAL ELSE 0)

\* The time the phases up to s may take together.
Budget(s) ==
    IF s = "Connecting" THEN CONNECT_TIMEOUT
    ELSE IF s = "Writing" THEN CONNECT_TIMEOUT + RESPONSE_TIMEOUT
    ELSE CONNECT_TIMEOUT + 2 * RESPONSE_TIMEOUT

\* The inductive invariant behind RoundsDoNotOverlap: what the round has taken
\* so far and what the check may still take are within the budget of its phase,
\* but for the time the reactor has been held up.
RoundInv ==
    /\ pending # {} => Elapsed <= held
    /\ \A b \in Active : Elapsed + deadline[b] <= Budget(state[b]) + held

\* What is a number.
LEMMA Numbers ==
    ASSUME TypeOK
    PROVE  /\ HEALTH_CHECK_INTERVAL \in Nat /\ next_round \in 1 .. HEALTH_CHECK_INTERVAL
           /\ held \in Nat /\ Elapsed \in Nat
           /\ CONNECT_TIMEOUT \in Nat /\ RESPONSE_TIMEOUT \in Nat /\ CheckTime \in Nat
           /\ \A s : Budget(s) \in Nat /\ Budget(s) <= CheckTime
           /\ \A b \in Backends :
                /\ deadline[b] \in Nat
                /\ consecutive_failures[b] \in Nat /\ consecutive_failures[b] \in 0 .. FailureCap
<1>1. /\ HEALTH_CHECK_INTERVAL \in Nat /\ next_round \in 1 .. HEALTH_CHECK_INTERVAL
      /\ held \in Nat
  BY HealthAssumption DEF TypeOK
<1>2. Elapsed \in Nat
  BY <1>1 DEF Elapsed
<1>3. /\ CONNECT_TIMEOUT \in Nat /\ RESPONSE_TIMEOUT \in Nat /\ CheckTime \in Nat
      /\ \A s : Budget(s) \in Nat /\ Budget(s) <= CheckTime
  BY HealthAssumption DEF Budget, CheckTime
<1>4. \A b \in Backends :
        /\ deadline[b] \in Nat
        /\ consecutive_failures[b] \in Nat /\ consecutive_failures[b] \in 0 .. FailureCap
  BY HealthAssumption DEF TypeOK
<1> QED
  BY <1>1, <1>2, <1>3, <1>4

\* A tick on the clock of the round, unless a second expiration goes unread.
LEMMA ElapsedTick ==
    ASSUME TypeOK, TimePasses
    PROVE  /\ Elapsed' \in Nat
           /\ Elapsed' <= Elapsed + 1
           /\ ~(expired /\ next_round = 1) => Elapsed' = Elapsed + 1
<1> DEFINE I == HEALTH_CHECK_INTERVAL
<1>1. I \in Nat /\ next_round \in 1 .. I
  BY Numbers
<1>2. Elapsed' = (I - next_round') + (IF expired' THEN I ELSE 0)
  BY DEF Elapsed
<1>3. CASE next_round = 1
  <2>1. next_round' = I /\ expired'
    BY <1>3, TimeOutcome
  <2>2. Elapsed' = I
    BY <1>1, <1>2, <2>1
  <2>3. Elapsed = IF expired THEN (I - 1) + I ELSE I - 1
    BY <1>1, <1>3 DEF Elapsed
  <2> QED
    BY <1>1, <1>3, <2>2, <2>3
<1>4. CASE next_round # 1
  <2>1. next_round' = next_round - 1 /\ expired' = expired
    BY <1>4, TimeOutcome
  <2>2. Elapsed' = (I - (next_round - 1)) + (IF expired THEN I ELSE 0)
    BY <1>2, <2>1
  <2>3. Elapsed' = Elapsed + 1 /\ Elapsed \in Nat
    BY <1>1, <2>2 DEF Elapsed
  <2> QED
    BY <2>3
<1> QED
  BY <1>3, <1>4

\* Reading the timer takes an interval off the clock of the round.
LEMMA ElapsedStart ==
    ASSUME TypeOK, Start
    PROVE  /\ Elapsed' = HEALTH_CHECK_INTERVAL - next_round
           /\ Elapsed = Elapsed' + HEALTH_CHECK_INTERVAL
           /\ Elapsed' \in Nat
<1>1. expired /\ ~expired' /\ next_round' = next_round
  BY DEF Start
<1>2. /\ Elapsed' = (HEALTH_CHECK_INTERVAL - next_round) + 0
      /\ Elapsed = (HEALTH_CHECK_INTERVAL - next_round) + HEALTH_CHECK_INTERVAL
  BY <1>1 DEF Elapsed
<1> QED
  BY <1>2, Numbers

\* A check within its budget is over when the timer expires.
LEMMA BudgetBelowInterval == TypeOK /\ RoundInv => RoundsDoNotOverlap
<1> SUFFICES ASSUME TypeOK, RoundInv, expired, CheckTime + held < HEALTH_CHECK_INTERVAL,
                    NEW b \in Active
             PROVE  FALSE
  BY DEF RoundsDoNotOverlap
<1>1. deadline[b] \in Nat
  BY Numbers DEF Active
<1>2. Budget(state[b]) \in Nat /\ Budget(state[b]) <= CheckTime
  BY Numbers
<1>3. Elapsed + deadline[b] <= Budget(state[b]) + held
  BY DEF RoundInv
<1>4. Elapsed = (HEALTH_CHECK_INTERVAL - next_round) + HEALTH_CHECK_INTERVAL
  BY DEF Elapsed
<1> QED
  BY <1>1, <1>2, <1>3, <1>4, Numbers

\* An event may start a new phase, whose deadline the budget allows for.
LEMMA HandleBudget ==
    ASSUME TypeOK, RoundInv, NEW b \in Active, NEW events, Handle(b, events),
           UNCHANGED <<timer, pending>>
    PROVE  RoundInv'
<1>1. PICK s \in AfterEvent(b, events) :
        /\ s \in CheckState \cup {"ok", "fail"}
        /\ state'[b] = IF s \in CheckState THEN s ELSE "none"
        /\ s \in CheckState => deadline'[b] = DeadlineAfter(b, s)
        /\ \A c \in Backends \ {b} : state'[c] = state[c] /\ deadline'[c] = deadline[c]
  BY HandleOutcome
<1>2. Elapsed' = Elapsed /\ held' = held /\ pending' = pending
  BY DEF Elapsed, timer
<1>3. ASSUME NEW c \in Active' PROVE Elapsed + deadline'[c] <= Budget(state'[c]) + held
  <2>0. c \in Backends /\ state'[c] # "none"
    BY DEF Active
  <2>1. CASE c # b
    <3>1. c \in Active /\ state'[c] = state[c] /\ deadline'[c] = deadline[c]
      BY <1>1, <2>0, <2>1 DEF Active
    <3> QED
      BY <3>1 DEF RoundInv
  <2>2. CASE c = b
    <3>1. b \in Backends /\ state[b] \in CheckState /\ deadline[b] \in Nat
      BY DEF Active, TypeOK
    <3>2. s \in CheckState /\ state'[b] = s /\ deadline'[b] = DeadlineAfter(b, s)
      BY <1>1, <2>0, <2>2
    <3>3. /\ state[b] = "Writing" => s # "Connecting"
          /\ state[b] = "Reading" => s \notin {"Connecting", "Writing"}
      BY <1>1, EventMovesForward
    <3>4. Elapsed + deadline[b] <= Budget(state[b]) + held
      BY DEF RoundInv
    <3>5. CASE s = state[b]
      BY <2>2, <3>2, <3>4, <3>5 DEF DeadlineAfter
    <3>6. CASE s # state[b]
      <4>1. Budget(state[b]) + RESPONSE_TIMEOUT <= Budget(s)
        BY <3>1, <3>2, <3>3, <3>6, HealthAssumption DEF Budget, CheckState
      <4>2. DeadlineAfter(b, s) = RESPONSE_TIMEOUT
        BY <3>6 DEF DeadlineAfter
      <4>3. Budget(state[b]) \in Nat /\ Budget(s) \in Nat
        BY Numbers
      <4> QED
        BY <2>2, <3>1, <3>2, <3>4, <4>1, <4>2, <4>3, Numbers
    <3> QED
      BY <3>5, <3>6
  <2> QED
    BY <2>1, <2>2
<1> QED
  BY <1>2, <1>3 DEF RoundInv, Budget

\* Every step keeps each check within its budget and the time held up.
LEMMA NextRoundInv == TypeOK /\ RoundInv /\ [Next]_vars => RoundInv'
<1> SUFFICES ASSUME TypeOK, RoundInv, [Next]_vars PROVE RoundInv'
  OBVIOUS
<1>1. ASSUME UNCHANGED <<deadline, timer, pending>>,
             \A b \in Backends : state'[b] \in {state[b], "none"}
      PROVE  RoundInv'
  <2>1. Elapsed' = Elapsed /\ held' = held
    BY <1>1 DEF Elapsed, timer
  <2>2. \A b \in Active' : b \in Active /\ state'[b] = state[b] /\ deadline'[b] = deadline[b]
    BY <1>1 DEF Active
  <2> QED
    BY <1>1, <2>1, <2>2 DEF RoundInv, Budget
<1>2. CASE Start
  <2>1. UNCHANGED <<state, deadline>> /\ Active' = Active
    BY <1>2 DEF Start, checks, Active
  <2>2. /\ Elapsed' = HEALTH_CHECK_INTERVAL - next_round /\ Elapsed' <= Elapsed
        /\ Elapsed' \in Nat
    BY <1>2, ElapsedStart, Numbers
  <2>3. CASE Active = {}
    <3>1. held' = Elapsed'
      BY <1>2, <2>2, <2>3 DEF Start
    <3> QED
      BY <2>1, <2>2, <2>3, <3>1 DEF RoundInv
  <2>4. CASE Active # {}
    <3>1. held' = held /\ pending' = {}
      BY <1>2, <2>4 DEF Start, Probed
    <3>2. ASSUME NEW b \in Active PROVE Elapsed' + deadline[b] <= Budget(state[b]) + held
      <4>1. Elapsed + deadline[b] <= Budget(state[b]) + held
        BY DEF RoundInv
      <4>2. deadline[b] \in Nat /\ Budget(state[b]) \in Nat
        BY Numbers DEF Active
      <4> QED
        BY <2>2, <4>1, <4>2, Numbers
    <3> QED
      BY <2>1, <3>1, <3>2 DEF RoundInv, Budget
  <2> QED
    BY <2>3, <2>4
<1>3. ASSUME TimePasses, held' \in {held, held + 1},
             held' = held => /\ pending = {}
                             /\ \A b \in Active : deadline[b] > 0
      PROVE  RoundInv'
  <2>1. Elapsed' \in Nat /\ Elapsed' <= Elapsed + 1
    BY <1>3, ElapsedTick
  <2>2. pending' = pending /\ state' = state /\ Active' = Active
    BY <1>3 DEF TimePasses, Active
  <2>3. pending' # {} => Elapsed' <= held'
    <3>1. pending # {} => held' = held + 1 /\ Elapsed <= held
      BY <1>3 DEF RoundInv
    <3> QED
      BY <2>1, <2>2, <3>1, Numbers
  <2>4. ASSUME NEW b \in Active PROVE Elapsed' + deadline'[b] <= Budget(state[b]) + held'
    <3>1. Elapsed + deadline[b] <= Budget(state[b]) + held
      BY DEF RoundInv
    <3>2. deadline[b] \in Nat /\ Budget(state[b]) \in Nat /\ Elapsed \in Nat /\ held \in Nat
      BY Numbers DEF Active
    <3>3. /\ state[b] # "none" /\ b \in Backends
          /\ deadline'[b] \in Nat
          /\ deadline[b] > 0 => deadline'[b] = deadline[b] - 1
          /\ deadline[b] = 0 => deadline'[b] = deadline[b]
      BY <1>3, TimeOutcome DEF Active
    <3>4. CASE held' = held
      BY <1>3, <2>1, <3>1, <3>2, <3>3, <3>4
    <3>5. CASE held' = held + 1
      BY <2>1, <3>1, <3>2, <3>3, <3>5
    <3> QED
      BY <1>3, <3>4, <3>5
  <2> QED
    BY <2>2, <2>3, <2>4 DEF RoundInv, Budget
<1>4. CASE Tick
  BY <1>4, <1>3 DEF Tick, InLoop
<1>5. CASE Resolve
  <2>1. held' # held
    BY <1>5, Numbers DEF Resolve
  <2> QED
    BY <1>5, <1>3, <2>1 DEF Resolve
<1>6. ASSUME NEW b \in Backends, Probe(b) PROVE RoundInv'
  <2>1. /\ \/ state'[b] = "none"
           \/ state'[b] = "Connecting" /\ deadline'[b] = CONNECT_TIMEOUT
           \/ state'[b] = "Writing" /\ deadline'[b] = RESPONSE_TIMEOUT
        /\ \A c \in Backends \ {b} : state'[c] = state[c] /\ deadline'[c] = deadline[c]
        /\ pending' \subseteq pending /\ b \in pending
        /\ UNCHANGED <<next_round, expired, held>>
    BY <1>6, ProbeOutcome
  <2>2. Elapsed' = Elapsed /\ Elapsed <= held
    BY <2>1 DEF Elapsed, RoundInv
  <2>3. ASSUME NEW c \in Active' PROVE Elapsed + deadline'[c] <= Budget(state'[c]) + held
    <3>0. c \in Backends /\ state'[c] # "none"
      BY DEF Active
    <3>1. CASE c # b
      <4>1. c \in Active /\ state'[c] = state[c] /\ deadline'[c] = deadline[c]
        BY <2>1, <3>0, <3>1 DEF Active
      <4> QED
        BY <4>1 DEF RoundInv
    <3>2. CASE c = b
      <4>1. /\ deadline'[c] \in Nat /\ deadline'[c] <= Budget(state'[c])
            /\ Budget(state'[c]) \in Nat
        BY <2>1, <3>0, <3>2, HealthAssumption DEF Budget
      <4> QED
        BY <2>2, <4>1, Numbers
    <3> QED
      BY <3>1, <3>2
  <2> QED
    BY <2>1, <2>2, <2>3 DEF RoundInv, Budget
<1>7. CASE Expire
  <2>1. \A b \in Backends : state'[b] \in {state[b], "none"}
    BY <1>7 DEF Expire
  <2> QED
    BY <2>1, <1>1, <1>7 DEF Expire
<1>8. CASE CancelAll
  <2>1. \A b \in Backends : state'[b] \in {state[b], "none"}
    BY <1>8 DEF CancelAll
  <2> QED
    BY <2>1, <1>1, <1>8 DEF CancelAll
<1>9. ASSUME NEW b \in Backends, HandleEvent(b) PROVE RoundInv'
  <2>1. b \in Active /\ UNCHANGED <<timer, pending>> /\ \E events : Handle(b, events)
    BY <1>9, Zenon DEF HandleEvent
  <2> QED
    BY <2>1, HandleBudget
<1>10. ASSUME NEW b \in Backends, StaleEvent(b) PROVE RoundInv'
  <2>1. b \in Active /\ UNCHANGED <<timer, pending>> /\ \E events : Handle(b, events)
    BY <1>10, Zenon DEF StaleEvent
  <2> QED
    BY <2>1, HandleBudget
<1>11. ASSUME NEW b \in Backends, Answer(b) PROVE RoundInv'
  BY <1>11, <1>1 DEF Answer
<1>12. ASSUME NEW b \in Backends, NEW s \in Status, Change(b, s) PROVE RoundInv'
  BY <1>12, <1>1 DEF Change, checks
<1>13. CASE UNCHANGED vars
  BY <1>13, <1>1 DEF vars, checks
<1> QED
  BY <1>2, <1>4, <1>5, <1>6, <1>7, <1>8, <1>9, <1>10, <1>11, <1>12, <1>13 DEF Next, Terminated

\* What the steps of the checker rely on.
CheckerInv == TypeOK /\ UnreadInv /\ ChecksInv /\ RoundInv

\* CheckerInv holds throughout.
LEMMA CheckerInvariant == Spec => []CheckerInv
<1>1. Init => ChecksInv /\ RoundInv
  BY DEF Init, ChecksInv, RoundInv, Active
<1>2. TypeOK /\ UnreadInv /\ ChecksInv /\ RoundInv => CheckerInv
  BY DEF CheckerInv
<1> QED
  BY <1>1, <1>2, BasicInvariant, NextChecks, NextRoundInv, PTL DEF Spec

(***************************************************************************)
(* No check outlives its round, for any time-outs with                     *)
(* CONNECT_TIMEOUT + 2 * RESPONSE_TIMEOUT < HEALTH_CHECK_INTERVAL and      *)
(* however the phases and the events fall, unless getaddrinfo() has taken  *)
(* the rest of the interval: start() does not skip a round because of a    *)
(* slow backend.                                                           *)
(***************************************************************************)
THEOREM NoRoundSkipped == Spec => []RoundsDoNotOverlap
<1>1. CheckerInv => RoundsDoNotOverlap
  BY BudgetBelowInterval DEF CheckerInv
<1> QED
  BY <1>1, CheckerInvariant, PTL

-----------------------------------------------------------------------------
(* Backends that are up. *)

\* The clocks only watch: the checker with clocks is the checker.
LEMMA ClocksWatch == TimedSpec => Spec
<1>1. TimedInit => Init
  BY DEF TimedInit
<1>2. [TimedNext]_timedVars => [Next]_vars
  BY DEF TimedNext, timedVars
<1> QED
  BY <1>1, <1>2, PTL DEF TimedSpec, Spec

(***************************************************************************)
(* The inductive invariant behind SteadyBackendStaysHealthy: each failure  *)
(* of a backend that has been up goes back to a check that was spoilt, and *)
(* a check past its deadline is one that is spoilt and not yet counted,    *)
(* for time stands still while epoll_wait() is asked about it.             *)
(***************************************************************************)
Spared(b) ==
    spoilt[b] < 2 =>
        /\ Up(b)
        /\ consecutive_failures[b] <= spoilt[b]
        /\ state[b] # "none" /\ deadline[b] = 0 => consecutive_failures[b] < spoilt[b]

SpoiltInv == spoilt \in [Watched -> 0 .. 2] /\ \A b \in Watched : Spared(b)

\* What epoll reports never fails the check on a backend that is up: a HUP that
\* comes with its answer finds the check reading and is not looked at before
\* the answer.
LEMMA UpNeverFails ==
    ASSUME TypeOK, ChecksInv, NEW b \in Active, status[b] = "up",
           NEW events \in Reported(b), NEW s \in AfterEvent(b, events)
    PROVE  s # "fail"
<1>0. b \in Backends /\ state[b] \in CheckState /\ answered[b] \in BOOLEAN
  BY DEF Active, TypeOK
<1>1. PICK s1 \in AfterConnect(b, state[b], events) :
      \E s2 \in AfterWrite(b, s1, events) :
      \E s3 \in AfterRead(b, s2, events) : s \in AfterHangup(s3, events)
  BY DEF AfterEvent
<1>2. PICK s2 \in AfterWrite(b, s1, events) :
      \E s3 \in AfterRead(b, s2, events) : s \in AfterHangup(s3, events)
  BY <1>1
<1>3. PICK s3 \in AfterRead(b, s2, events) : s \in AfterHangup(s3, events)
  BY <1>2
<1>4. s1 \in CheckState /\ (s1 = state[b] \/ state[b] = "Connecting")
  BY <1>0, <1>1 DEF AfterConnect, CheckState
<1>5. s2 \in CheckState /\ (s2 = s1 \/ s1 = "Writing")
  BY <1>2, <1>4 DEF AfterWrite, CheckState
<1>6. s3 \in CheckState \cup {"ok"} /\ (answered[b] /\ s2 = "Reading" /\ "IN" \in events => s3 = "ok")
  <2>1. CASE s2 = "Reading" /\ "IN" \in events
    BY <1>0, <1>3, <2>1 DEF AfterRead, CheckState
  <2>2. CASE ~(s2 = "Reading" /\ "IN" \in events)
    BY <1>3, <1>5, <2>2 DEF AfterRead
  <2> QED
    BY <2>1, <2>2
<1>7. "HUP" \in events => answered[b] /\ "IN" \in events
  BY DEF Reported
<1>8. answered[b] => s2 = "Reading"
  BY <1>0, <1>4, <1>5 DEF ChecksInv, CheckState
<1> QED
  BY <1>3, <1>6, <1>7, <1>8 DEF AfterHangup, CheckState

\* The record of disturbances after a step.
LEMMA SpoiltStep ==
    ASSUME SpoiltInv, TimedNext, NEW b \in Watched
    PROVE  /\ spoilt'[b] = SpoiltAfter(b)
           /\ spoilt[b] \in 0 .. 2 /\ spoilt'[b] \in 0 .. 2
<1>1. spoilt'[b] = SpoiltAfter(b) /\ spoilt[b] \in 0 .. 2
  BY DEF TimedNext, SpoiltInv
<1>2. SpoiltAfter(b) \in {2, 0, spoilt[b]} \/ (spoilt[b] < 2 /\ SpoiltAfter(b) = spoilt[b] + 1)
  BY DEF SpoiltAfter
<1> QED
  BY <1>1, <1>2

\* A backend that goes on, or passes a check, without a failure.
LEMMA SpareUnharmed ==
    ASSUME TypeOK, SpoiltInv, TimedNext, NEW b \in Watched,
           Up(b)' = Up(b),
           \/ consecutive_failures'[b] = consecutive_failures[b] /\ ~Passed(b)
           \/ consecutive_failures'[b] = 0,
           state'[b] # "none" /\ deadline'[b] = 0 =>
               /\ state[b] # "none" /\ deadline[b] = 0
               /\ consecutive_failures'[b] = consecutive_failures[b]
    PROVE  Spared(b)'
<1> SUFFICES ASSUME spoilt'[b] < 2
             PROVE  /\ Up(b)'
                    /\ consecutive_failures'[b] <= spoilt'[b]
                    /\ state'[b] # "none" /\ deadline'[b] = 0 =>
                           consecutive_failures'[b] < spoilt'[b]
  BY DEF Spared
<1>1. spoilt'[b] = SpoiltAfter(b) /\ spoilt[b] \in 0 .. 2 /\ spoilt'[b] \in 0 .. 2
  BY SpoiltStep
<1>2. Up(b)' /\ Up(b)
  BY <1>1 DEF SpoiltAfter
<1>3. consecutive_failures[b] \in Nat
  BY Numbers, WatchedAssumption
<1>4. CASE Passed(b)
  BY <1>1, <1>2, <1>4 DEF Passed
<1>5. CASE ~Passed(b)
  <2>1. spoilt'[b] >= spoilt[b]
    BY <1>1, <1>2, <1>5 DEF SpoiltAfter
  <2>2. Spared(b) /\ spoilt[b] < 2
    BY <1>1, <2>1 DEF SpoiltInv
  <2>3. consecutive_failures'[b] <= spoilt'[b]
    BY <1>1, <1>3, <2>1, <2>2 DEF Spared
  <2> QED
    BY <1>1, <1>2, <1>3, <2>1, <2>2, <2>3 DEF Spared
<1> QED
  BY <1>4, <1>5

\* One more failure is at most one more, and is none that passes.
LEMMA OneMoreStep ==
    ASSUME NEW n \in 0 .. FailureCap
    PROVE  OneMore(n) <= n + 1 /\ OneMore(n) >= 1 /\ OneMore(n) # 0 /\ OneMore(n) \in Nat
BY HealthAssumption DEF OneMore

\* A failure that the record has counted, now or when time passed.
LEMMA SpareCounted ==
    ASSUME TypeOK, SpoiltInv, TimedNext, NEW b \in Watched,
           Up(b)' = Up(b),
           consecutive_failures'[b] = OneMore(consecutive_failures[b]),
           state'[b] = "none",
           Astray(b) \/ (state[b] # "none" /\ deadline[b] = 0)
    PROVE  Spared(b)'
<1> SUFFICES ASSUME spoilt'[b] < 2
             PROVE  Up(b)' /\ consecutive_failures'[b] <= spoilt'[b]
  BY DEF Spared
<1>1. spoilt'[b] = SpoiltAfter(b) /\ spoilt[b] \in 0 .. 2 /\ spoilt'[b] \in 0 .. 2
  BY SpoiltStep
<1>2. Up(b)' /\ Up(b)
  BY <1>1 DEF SpoiltAfter
<1>3. consecutive_failures[b] \in 0 .. FailureCap /\ consecutive_failures[b] \in Nat
  BY Numbers, WatchedAssumption
<1>4. /\ consecutive_failures'[b] <= consecutive_failures[b] + 1
      /\ consecutive_failures'[b] # 0 /\ consecutive_failures'[b] \in Nat
  BY <1>3, OneMoreStep
<1>5. ~Passed(b)
  BY <1>4 DEF Passed
<1>6. /\ spoilt'[b] >= spoilt[b]
      /\ Astray(b) => spoilt'[b] = spoilt[b] + 1
  BY <1>1, <1>2, <1>5 DEF SpoiltAfter
<1>7. Spared(b) /\ spoilt[b] < 2
  BY <1>1, <1>6 DEF SpoiltInv
<1> QED
  BY <1>1, <1>2, <1>3, <1>4, <1>6, <1>7 DEF Spared

\* Events: on the check of a backend that is up only a stale one does harm.
LEMMA HandleSpared ==
    ASSUME TypeOK, SpoiltInv, TimedNext, NEW b \in Active, NEW events, Handle(b, events),
           status' = status,
           \/ stale' # stale
           \/ status[b] = "up" => "fail" \notin AfterEvent(b, events)
    PROVE  \A c \in Watched : Spared(c)'
<1>1. PICK s \in AfterEvent(b, events) :
        /\ s \in CheckState \cup {"ok", "fail"}
        /\ consecutive_failures'[b] =
             IF s = "ok" THEN 0
             ELSE IF s = "fail" THEN OneMore(consecutive_failures[b])
             ELSE consecutive_failures[b]
        /\ state'[b] = IF s \in CheckState THEN s ELSE "none"
        /\ s \in CheckState => deadline'[b] = DeadlineAfter(b, s)
        /\ \A c \in Backends \ {b} :
             /\ consecutive_failures'[c] = consecutive_failures[c]
             /\ state'[c] = state[c]
             /\ deadline'[c] = deadline[c]
  BY HandleOutcome
<1> SUFFICES ASSUME NEW c \in Watched PROVE Spared(c)'
  OBVIOUS
<1>2. Up(c)' = Up(c) /\ c \in Backends
  BY WatchedAssumption DEF Up
<1>3. CASE c # b
  <2>1. /\ consecutive_failures'[c] = consecutive_failures[c]
        /\ state'[c] = state[c] /\ deadline'[c] = deadline[c]
    BY <1>1, <1>2, <1>3
  <2>2. ~Passed(c)
    BY <2>1 DEF Passed
  <2> QED
    BY <1>2, <2>1, <2>2, SpareUnharmed
<1>4. CASE c = b
  <2>0. state[b] \in CheckState /\ state[b] # "none"
    BY DEF Active, TypeOK, CheckState
  <2>1. CASE s = "ok"
    <3>1. consecutive_failures'[c] = 0 /\ state'[c] = "none"
      BY <1>1, <1>4, <2>1 DEF CheckState
    <3> QED
      BY <1>2, <3>1, SpareUnharmed
  <2>2. CASE s \in CheckState
    <3>1. /\ consecutive_failures'[c] = consecutive_failures[c]
          /\ state'[c] # "none" /\ deadline'[c] = DeadlineAfter(c, s)
      BY <1>1, <1>4, <2>2 DEF CheckState
    <3>2. ~Passed(c)
      BY <3>1 DEF Passed
    <3>3. DeadlineAfter(c, s) = 0 => deadline[c] = 0
      BY HealthAssumption DEF DeadlineAfter
    <3> QED
      BY <1>2, <1>4, <2>0, <3>1, <3>2, <3>3, SpareUnharmed
  <2>3. CASE s = "fail"
    <3>1. /\ consecutive_failures'[c] = OneMore(consecutive_failures[c])
          /\ state'[c] = "none"
      BY <1>1, <1>4, <2>3 DEF CheckState
    <3>2. CASE stale' # stale
      <4>1. Astray(c)
        BY <1>4, <2>0, <3>1, <3>2 DEF Astray
      <4> QED
        BY <1>2, <3>1, <4>1, SpareCounted
    <3>3. CASE stale' = stale
      <4>1. ~Up(c)'
        BY <1>1, <1>2, <1>4, <2>3, <3>3 DEF Up
      <4>2. spoilt'[c] = 2
        BY <4>1, SpoiltStep DEF SpoiltAfter
      <4> QED
        BY <4>2 DEF Spared
    <3> QED
      BY <3>2, <3>3
  <2> QED
    BY <1>1, <2>1, <2>2, <2>3
<1> QED
  BY <1>3, <1>4

\* Every step keeps SpoiltInv.
LEMMA NextSpoiltInv == CheckerInv /\ SpoiltInv /\ [TimedNext]_timedVars => SpoiltInv'
<1> SUFFICES ASSUME CheckerInv, SpoiltInv, [TimedNext]_timedVars PROVE SpoiltInv'
  OBVIOUS
<1>0. TypeOK /\ ChecksInv
  BY DEF CheckerInv
<1>1. CASE UNCHANGED timedVars
  BY <1>1 DEF timedVars, vars, checks, SpoiltInv, Spared, Up
<1>2. CASE TimedNext
  <2>1. Next /\ spoilt' = [b \in Watched |-> SpoiltAfter(b)]
    BY <1>2 DEF TimedNext
  <2>2. \A b \in Watched : SpoiltAfter(b) \in 0 .. 2
    BY <1>2, SpoiltStep
  <2>3. spoilt' \in [Watched -> 0 .. 2]
    BY <2>1, <2>2
  <2> SUFFICES \A b \in Watched : Spared(b)'
    BY <2>3 DEF SpoiltInv
  \* A step that leaves the check and the counter of a backend alone.
  <2>4. ASSUME NEW c \in Watched, Up(c)' = Up(c),
               consecutive_failures'[c] = consecutive_failures[c],
               state'[c] = state[c], deadline'[c] = deadline[c]
        PROVE  Spared(c)'
    <3>1. ~Passed(c)
      BY <2>4 DEF Passed
    <3> QED
      BY <1>0, <1>2, <2>4, <3>1, SpareUnharmed
  <2>5. CASE Start
    BY <2>4, <2>5 DEF Start, checks, Up
  <2>6. CASE Expire
    <3>1. /\ \A c \in Backends :
               /\ consecutive_failures'[c] = IF c \in TimedOut THEN OneMore(consecutive_failures[c])
                                                              ELSE consecutive_failures[c]
               /\ state'[c] = IF c \in TimedOut THEN "none" ELSE state[c]
          /\ UNCHANGED <<deadline, status>>
      BY <2>6, ExpireOutcome
    <3>2. ASSUME NEW c \in Watched PROVE Spared(c)'
      <4>1. c \in Backends /\ Up(c)' = Up(c) /\ deadline'[c] = deadline[c]
        BY <3>1, WatchedAssumption DEF Up
      <4>2. CASE c \notin TimedOut
        BY <2>4, <3>1, <4>1, <4>2
      <4>3. CASE c \in TimedOut
        <5>1. state[c] # "none" /\ deadline[c] = 0
          BY <4>3 DEF TimedOut, Active
        <5> QED
          BY <1>0, <1>2, <3>1, <4>1, <4>3, <5>1, SpareCounted
      <4> QED
        BY <4>2, <4>3
    <3> QED
      BY <3>2
  <2>7. CASE CancelAll
    <3>1. ASSUME NEW c \in Watched PROVE Spared(c)'
      <4>1. /\ Up(c)' = Up(c) /\ state'[c] = "none"
            /\ consecutive_failures'[c] = consecutive_failures[c]
        BY <2>7, WatchedAssumption DEF CancelAll, Up
      <4>2. Passed(c) => consecutive_failures'[c] = 0
        BY DEF Passed
      <4> QED
        BY <1>0, <1>2, <4>1, <4>2, SpareUnharmed
    <3> QED
      BY <3>1
  <2>8. CASE Tick
    <3>1. ASSUME NEW c \in Watched PROVE Spared(c)'
      <4>0. c \in Backends
        BY WatchedAssumption
      <4>1. /\ UNCHANGED <<consecutive_failures, state, status>>
            /\ TimePasses
            /\ state[c] # "none" => status[c] # "up"
        BY <2>8, <4>0 DEF Tick, TimePasses, Active
      <4>2. Up(c)' = Up(c)
        BY <4>1 DEF Up
      <4>3. CASE state[c] = "none"
        <5>1. deadline'[c] = deadline[c]
          BY <1>0, <4>0, <4>1, <4>3, TimeOutcome
        <5> QED
          BY <2>4, <4>1, <4>2, <5>1
      <4>4. CASE state[c] # "none"
        <5>1. ~Up(c)'
          BY <4>1, <4>2, <4>4 DEF Up
        <5>2. spoilt'[c] = 2
          BY <1>2, <5>1, SpoiltStep DEF SpoiltAfter
        <5> QED
          BY <5>2 DEF Spared
      <4> QED
        BY <4>3, <4>4
    <3> QED
      BY <3>1
  <2>9. CASE Resolve
    <3>1. /\ UNCHANGED <<consecutive_failures, state, status>>
          /\ TimePasses /\ held' # held /\ next_round' # next_round
      <4>1. TimePasses /\ held' # held
        BY <1>0, <2>9, Numbers DEF Resolve
      <4> QED
        BY <1>0, <4>1, TimeOutcome
    <3>2. ASSUME NEW c \in Watched PROVE Spared(c)'
      <4>0. c \in Backends
        BY WatchedAssumption
      <4>1. Up(c)' = Up(c)
        BY <3>1 DEF Up
      <4>2. /\ deadline[c] \in Nat
            /\ state[c] # "none" /\ deadline[c] > 0 => deadline'[c] = deadline[c] - 1
            /\ state[c] = "none" \/ deadline[c] = 0 => deadline'[c] = deadline[c]
        BY <1>0, <3>1, <4>0, TimeOutcome
      <4>3. ~Passed(c)
        BY <3>1 DEF Passed
      <4>4. CASE Overslept(c)
        <5> SUFFICES ASSUME spoilt'[c] < 2
                     PROVE  Up(c)' /\ consecutive_failures'[c] < spoilt'[c]
          <6>1. consecutive_failures'[c] \in Nat /\ spoilt'[c] \in Nat
            BY <1>0, <1>2, <3>1, <4>0, SpoiltStep, Numbers
          <6> QED
            BY <6>1 DEF Spared
        <5>1. spoilt'[c] = SpoiltAfter(c) /\ spoilt[c] \in 0 .. 2
          BY <1>2, SpoiltStep
        <5>2. Up(c)'
          BY <5>1 DEF SpoiltAfter
        <5>3. spoilt[c] < 2 /\ spoilt'[c] = spoilt[c] + 1
          BY <4>3, <4>4, <5>1, <5>2 DEF SpoiltAfter
        <5>4. consecutive_failures[c] <= spoilt[c]
          BY <5>3 DEF SpoiltInv, Spared
        <5>5. consecutive_failures[c] \in Nat
          BY <1>0, <4>0, Numbers
        <5> QED
          BY <3>1, <5>1, <5>2, <5>3, <5>4, <5>5
      <4>5. CASE ~Overslept(c)
        <5>1. deadline'[c] = 0 => deadline'[c] = deadline[c]
          BY <3>1, <4>5 DEF Overslept, HeldUp, TimePassed
        <5> QED
          BY <1>0, <1>2, <3>1, <4>1, <4>3, <5>1, SpareUnharmed
      <4> QED
        BY <4>4, <4>5
    <3> QED
      BY <3>2
  <2>10. ASSUME NEW b \in Backends, Probe(b) PROVE \A c \in Watched : Spared(c)'
    <3>1. /\ \/ /\ state'[b] = "none" /\ status[b] # "up"
             \/ /\ state'[b] # "none" /\ deadline'[b] \in {CONNECT_TIMEOUT, RESPONSE_TIMEOUT}
                /\ consecutive_failures'[b] = consecutive_failures[b]
          /\ \A c \in Backends \ {b} :
               /\ consecutive_failures'[c] = consecutive_failures[c]
               /\ state'[c] = state[c]
               /\ deadline'[c] = deadline[c]
          /\ b \in pending /\ status' = status
      BY <1>0, <2>10, ProbeOutcome
    <3>2. ASSUME NEW c \in Watched PROVE Spared(c)'
      <4>1. c \in Backends /\ Up(c)' = Up(c)
        BY <3>1, WatchedAssumption DEF Up
      <4>2. CASE c # b
        BY <2>4, <3>1, <4>1, <4>2
      <4>3. CASE c = b /\ ~Up(b)
        <5>1. spoilt'[c] = 2
          BY <1>2, <4>1, <4>3, SpoiltStep DEF SpoiltAfter
        <5> QED
          BY <5>1 DEF Spared
      <4>4. CASE c = b /\ Up(b)
        <5>1. /\ state'[b] # "none" /\ deadline'[b] \in {CONNECT_TIMEOUT, RESPONSE_TIMEOUT}
              /\ consecutive_failures'[b] = consecutive_failures[b]
          BY <3>1, <4>4 DEF Up
        <5>2. deadline'[b] # 0 /\ ~Passed(c)
          BY <4>4, <5>1, HealthAssumption DEF Passed
        <5> QED
          BY <1>0, <1>2, <4>1, <4>4, <5>1, <5>2, SpareUnharmed
      <4> QED
        BY <4>2, <4>3, <4>4
    <3> QED
      BY <3>2
  <2>11. ASSUME NEW b \in Backends, HandleEvent(b) PROVE \A c \in Watched : Spared(c)'
    <3>1. b \in Active /\ status' = status
      BY <2>11 DEF HandleEvent
    <3>2. PICK events \in Reported(b) : Handle(b, events)
      BY <2>11 DEF HandleEvent
    <3>3. status[b] = "up" => "fail" \notin AfterEvent(b, events)
      BY <1>0, <3>1, <3>2, UpNeverFails
    <3> QED
      BY <1>0, <1>2, <3>1, <3>2, <3>3, HandleSpared
  <2>12. ASSUME NEW b \in Backends, StaleEvent(b) PROVE \A c \in Watched : Spared(c)'
    <3>1. b \in Active /\ status' = status /\ stale' = stale + 1 /\ stale \in Nat
      BY <1>0, <2>12, HealthAssumption DEF StaleEvent, TypeOK
    <3>2. PICK events : Handle(b, events)
      BY <2>12 DEF StaleEvent
    <3>3. stale' # stale
      BY <3>1
    <3> QED
      BY <1>0, <1>2, <3>1, <3>2, <3>3, HandleSpared
  <2>13. ASSUME NEW b \in Backends, Answer(b) PROVE \A c \in Watched : Spared(c)'
    BY <2>4, <2>13 DEF Answer, Up
  <2>14. ASSUME NEW b \in Backends, NEW s \in Status, Change(b, s)
         PROVE  \A c \in Watched : Spared(c)'
    <3>1. UNCHANGED <<consecutive_failures, state, deadline>>
      BY <2>14 DEF Change, checks
    <3>2. ASSUME NEW c \in Watched PROVE Spared(c)'
      <4>1. CASE Up(c)' = Up(c)
        BY <2>4, <3>1, <4>1
      <4>2. CASE ~Up(c)'
        <5>1. spoilt'[c] = 2
          BY <1>2, <4>2, SpoiltStep DEF SpoiltAfter
        <5> QED
          BY <5>1 DEF Spared
      <4>3. CASE Up(c)' /\ ~Up(c)
        <5>1. ~(spoilt[c] < 2) /\ spoilt[c] \in 0 .. 2
          BY <1>2, <4>3, SpoiltStep DEF SpoiltInv, Spared
        <5>2. ~Passed(c)
          BY <3>1 DEF Passed
        <5>3. spoilt'[c] = spoilt[c]
          BY <1>2, <4>3, <5>1, <5>2, SpoiltStep DEF SpoiltAfter
        <5> QED
          BY <5>1, <5>3 DEF Spared
      <4> QED
        BY <4>1, <4>2, <4>3 DEF Up
    <3> QED
      BY <3>2
  <2>15. CASE Terminated
    BY <2>4, <2>15 DEF Terminated, vars, checks, Up
  <2> QED
    BY <2>1, <2>5, <2>6, <2>7, <2>8, <2>9, <2>10, <2>11, <2>12, <2>13, <2>14, <2>15 DEF Next
<1> QED
  BY <1>1, <1>2

(***************************************************************************)
(* It takes two disturbed checks in a row to put out a backend that is up, *)
(* for any backends, time-outs and time spent in getaddrinfo(): a stale    *)
(* event or a getaddrinfo() that returns after the deadline spoils one     *)
(* check, and nothing else fails one.                                      *)
(***************************************************************************)
THEOREM SteadyStaysHealthy == TimedSpec => []SteadyBackendStaysHealthy
<1>1. TimedInit => SpoiltInv
  <2> SUFFICES ASSUME TimedInit PROVE SpoiltInv
    OBVIOUS
  <2>1. /\ spoilt = [b \in Watched |-> IF Up(b) THEN 0 ELSE 2]
        /\ \A b \in Watched : consecutive_failures[b] = 0 /\ state[b] = "none"
    BY WatchedAssumption DEF TimedInit, Init
  <2> QED
    BY <2>1 DEF SpoiltInv, Spared
<1>2. TypeOK /\ SpoiltInv /\ HealthyBelowThreshold => SteadyBackendStaysHealthy
  <2> SUFFICES ASSUME TypeOK, SpoiltInv, HealthyBelowThreshold, NEW b \in Watched,
                      spoilt[b] <= 1
               PROVE  healthy[b]
    BY DEF SteadyBackendStaysHealthy
  <2>1. b \in Backends /\ consecutive_failures[b] \in Nat /\ spoilt[b] \in 0 .. 2
    BY Numbers, WatchedAssumption DEF SpoiltInv
  <2>2. consecutive_failures[b] <= spoilt[b]
    BY <2>1 DEF SpoiltInv, Spared
  <2> QED
    BY <2>1, <2>2 DEF HealthyBelowThreshold
<1> QED
  BY <1>1, <1>2, ClocksWatch, CheckerInvariant, TypeCorrect, FlagFollowsCounter, NextSpoiltInv, PTL
     DEF TimedSpec

-----------------------------------------------------------------------------
(* How long a change of a backend goes unnoticed. *)

\* The current round is done with the backend.
Done(b) == state[b] = "none" /\ b \notin pending

\* A backend that has been gone for longer than the current round cannot answer
\* any more, so that the round counts against it once its check has ended; each
\* interval more stands for a round before, which has ended in a failure.
Missed(b) ==
    /\ since[b] > Elapsed => IF Done(b) THEN consecutive_failures[b] >= 1 ELSE ~answered[b]
    /\ since[b] > Elapsed + HEALTH_CHECK_INTERVAL =>
         consecutive_failures[b] >= (IF Done(b) THEN 2 ELSE 1)
    /\ since[b] > Elapsed + 2 * HEALTH_CHECK_INTERVAL => consecutive_failures[b] >= 2

\* A backend that has been back and left in peace for longer than the current
\* round is asked and answers before time passes, in this round and in the one
\* before; the timer is read as soon as it has expired.
Found(b) ==
    /\ since[b] > Elapsed =>
         IF Done(b) THEN consecutive_failures[b] = 0
                    ELSE Elapsed = 0 /\ (state[b] # "none" => deadline[b] > 0)
    /\ since[b] > Elapsed + HEALTH_CHECK_INTERVAL => consecutive_failures[b] = 0
    /\ expired => next_round = HEALTH_CHECK_INTERVAL \/ since[b] = 0

Noticed(b) ==
    ~stopped => /\ ~Up(b) => Missed(b)
                /\ Up(b) => Found(b)

ClocksOK == since \in [Watched -> Nat]

\* The inductive invariant behind OutageBounded and ReturnBounded.
TimingInv == ClocksOK /\ \A b \in Watched : Noticed(b)

\* The numbers Noticed is about.
LEMMA TimingNumbers ==
    ASSUME TypeOK, ClocksOK, NEW b \in Watched
    PROVE  /\ Elapsed \in Nat
           /\ HEALTH_CHECK_INTERVAL \in Nat
           /\ next_round \in 1 .. HEALTH_CHECK_INTERVAL
           /\ since[b] \in Nat
           /\ b \in Backends
           /\ consecutive_failures[b] \in Nat
           /\ consecutive_failures[b] \in 0 .. FailureCap
           /\ deadline[b] \in Nat
BY Numbers, WatchedAssumption DEF ClocksOK

\* A step changes a clock only if its backend goes or comes back or is
\* disturbed, a round is lost, or time passes.
LEMMA ClockStep ==
    ASSUME ClocksOK, TimedNext
    PROVE  /\ ClocksOK'
           /\ \A b \in Watched :
                /\ since'[b] \in {0, since[b], since[b] + 1}
                /\ Up(b)' # Up(b) => since'[b] = 0
                /\ RoundLost => since'[b] = 0
                /\ Up(b) /\ (HeldUp \/ Astray(b)) => since'[b] = 0
                /\ next_round' = next_round => since'[b] \in {0, since[b]}
<1>1. since' = [b \in Watched |-> ClockAfter(b)]
  BY DEF TimedNext
<1>2. ASSUME NEW b \in Watched
      PROVE  /\ ClockAfter(b) \in {0, since[b], since[b] + 1}
             /\ since[b] \in Nat
             /\ Up(b)' # Up(b) => ClockAfter(b) = 0
             /\ RoundLost => ClockAfter(b) = 0
             /\ Up(b) /\ (HeldUp \/ Astray(b)) => ClockAfter(b) = 0
             /\ next_round' = next_round => ClockAfter(b) \in {0, since[b]}
  BY DEF ClockAfter, ClocksOK, TimePassed
<1>3. ClocksOK'
  BY <1>1, <1>2 DEF ClocksOK
<1> QED
  BY <1>1, <1>2, <1>3

\* A disturbance starts the clock anew, and nothing is claimed of a clock that
\* stands at zero.
LEMMA FreshClock ==
    ASSUME TypeOK', NEW b \in Watched, since'[b] = 0
    PROVE  Noticed(b)'
<1> DEFINE I == HEALTH_CHECK_INTERVAL
<1>1. next_round' \in 1 .. I /\ I \in Nat
  BY HealthAssumption DEF TypeOK
<1>2. PICK e \in Nat : Elapsed' = e
  <2>1. \A n \in 1 .. I : (I - n) + 0 \in Nat /\ (I - n) + I \in Nat
    BY <1>1
  <2>2. Elapsed' = (I - next_round') + (IF expired' THEN I ELSE 0)
    BY DEF Elapsed
  <2>3. Elapsed' \in Nat
    BY <1>1, <2>1, <2>2
  <2> QED
    BY <2>3
<1>3. /\ ~(since'[b] > Elapsed')
      /\ ~(since'[b] > Elapsed' + I)
      /\ ~(since'[b] > Elapsed' + 2 * I)
  BY <1>1, <1>2
<1>4. Missed(b)' /\ Found(b)'
  BY <1>3 DEF Missed, Found
<1> QED
  BY <1>4 DEF Noticed

\* A step that leaves the check, the counter and the clock of a backend alone.
LEMMA QuietStep ==
    ASSUME NEW b \in Watched, Noticed(b),
           UNCHANGED <<stopped, next_round, expired>>,
           Up(b)' = Up(b), since'[b] = since[b], Done(b)' = Done(b),
           state'[b] = state[b], consecutive_failures'[b] = consecutive_failures[b],
           deadline'[b] = deadline[b], answered'[b] = answered[b]
    PROVE  Noticed(b)'
<1>1. Elapsed' = Elapsed
  BY DEF Elapsed
<1>2. Missed(b) => Missed(b)'
  BY <1>1 DEF Missed
<1>3. Found(b) => Found(b)'
  BY <1>1 DEF Found
<1> QED
  BY <1>2, <1>3 DEF Noticed

\* A check passes only on an answer.
LEMMA NoPassWithoutAnswer ==
    ASSUME TypeOK, NEW b \in Active, NEW events, ~answered[b],
           NEW s \in AfterEvent(b, events)
    PROVE  s # "ok"
<1>0. b \in Backends /\ state[b] \in CheckState /\ status[b] \in Status
  BY DEF Active, TypeOK
<1>1. PICK s1 \in AfterConnect(b, state[b], events) :
      \E s2 \in AfterWrite(b, s1, events) :
      \E s3 \in AfterRead(b, s2, events) : s \in AfterHangup(s3, events)
  BY DEF AfterEvent
<1>2. PICK s2 \in AfterWrite(b, s1, events) :
      \E s3 \in AfterRead(b, s2, events) : s \in AfterHangup(s3, events)
  BY <1>1
<1>3. PICK s3 \in AfterRead(b, s2, events) : s \in AfterHangup(s3, events)
  BY <1>2
<1>4. s1 # "ok"
  BY <1>0, <1>1 DEF AfterConnect, CheckState
<1>5. s2 # "ok"
  BY <1>2, <1>4 DEF AfterWrite
<1>6. s3 # "ok"
  <2>1. CASE s2 = "Reading" /\ "IN" \in events
    BY <1>0, <1>3, <2>1 DEF AfterRead, Status
  <2>2. CASE ~(s2 = "Reading" /\ "IN" \in events)
    BY <1>3, <1>5, <2>2 DEF AfterRead
  <2> QED
    BY <2>1, <2>2
<1> QED
  BY <1>3, <1>6 DEF AfterHangup

\* The count of a backend whose check has failed.
LEMMA FailureCounted ==
    ASSUME NEW n \in 0 .. FailureCap
    PROVE  /\ OneMore(n) >= 1
           /\ n >= 1 => OneMore(n) >= 2
BY HealthAssumption DEF OneMore

\* A check on a backend that is gone goes on, or ends and counts against it.
LEMMA MissedStep ==
    ASSUME TypeOK, ClocksOK, NEW b \in Watched, Missed(b), ~Done(b),
           UNCHANGED <<next_round, expired>>, since'[b] = since[b],
           \/ /\ ~Done(b)' /\ answered'[b] = answered[b]
              /\ consecutive_failures'[b] = consecutive_failures[b]
           \/ consecutive_failures'[b] = OneMore(consecutive_failures[b]) /\ Done(b)'
    PROVE  Missed(b)'
<1>1. Elapsed' = Elapsed
  BY DEF Elapsed
<1>2. CASE /\ ~Done(b)' /\ answered'[b] = answered[b]
           /\ consecutive_failures'[b] = consecutive_failures[b]
  BY <1>1, <1>2 DEF Missed
<1>3. CASE consecutive_failures'[b] = OneMore(consecutive_failures[b]) /\ Done(b)'
  <2> DEFINE n == consecutive_failures[b]
  <2>1. n \in 0 .. FailureCap
    BY TimingNumbers
  <2>2. OneMore(n) >= 1 /\ (n >= 1 => OneMore(n) >= 2)
    BY <2>1, FailureCounted
  <2>3. n >= 2 => n >= 1
    BY <2>1
  <2> QED
    BY <1>1, <1>3, <2>2, <2>3, Zenon DEF Missed
<1> QED
  BY <1>2, <1>3

\* Events keep Noticed: a backend that is gone has no answer in its socket and
\* one that is back is not failed by what epoll reports.
LEMMA HandleNoticed ==
    ASSUME TypeOK, TimingInv, NEW b \in Active, NEW events, Handle(b, events), TypeOK',
           pending = {}, UNCHANGED <<next_round, expired, pending, stopped, status>>,
           \/ status[b] = "up" => "fail" \notin AfterEvent(b, events)
           \/ b \in Watched /\ Up(b) /\ state'[b] # state[b] => since'[b] = 0,
           \A c \in Watched : since'[c] \in {0, since[c]}
    PROVE  \A c \in Watched : Noticed(c)'
<1>1. PICK s \in AfterEvent(b, events) :
        /\ s \in CheckState \cup {"ok", "fail"}
        /\ consecutive_failures'[b] =
             IF s = "ok" THEN 0
             ELSE IF s = "fail" THEN OneMore(consecutive_failures[b])
             ELSE consecutive_failures[b]
        /\ state'[b] = IF s \in CheckState THEN s ELSE "none"
        /\ s \in CheckState => deadline'[b] = DeadlineAfter(b, s) /\ answered'[b] = answered[b]
        /\ \A c \in Backends \ {b} :
             /\ consecutive_failures'[c] = consecutive_failures[c]
             /\ state'[c] = state[c]
             /\ deadline'[c] = deadline[c]
             /\ answered'[c] = answered[c]
  BY HandleOutcome
<1>2. ClocksOK /\ \A c \in Watched : Noticed(c) /\ Up(c)' = Up(c)
  BY DEF TimingInv, Up
<1>3. ASSUME NEW c \in Watched, c # b, since'[c] = since[c] PROVE Noticed(c)'
  <2>1. /\ consecutive_failures'[c] = consecutive_failures[c] /\ state'[c] = state[c]
        /\ deadline'[c] = deadline[c] /\ answered'[c] = answered[c]
    BY <1>1, <1>3, WatchedAssumption
  <2>2. Done(c)' = Done(c)
    BY <2>1 DEF Done
  <2> QED
    BY <1>2, <1>3, <2>1, <2>2, QuietStep
<1>4. b \in Backends /\ state[b] \in CheckState /\ state[b] # "none" /\ ~Done(b)
  BY DEF Active, TypeOK, CheckState, Done
<1>5. Elapsed' = Elapsed
  BY DEF Elapsed
<1>6. ASSUME b \in Watched, since'[b] = since[b], ~stopped, ~Up(b) PROVE Missed(b)'
  <2>1. Missed(b)
    BY <1>2, <1>6 DEF Noticed
  <2>2. CASE s \in CheckState
    <3>1. /\ ~Done(b)' /\ answered'[b] = answered[b]
          /\ consecutive_failures'[b] = consecutive_failures[b]
      BY <1>1, <2>2 DEF CheckState, Done
    <3> QED
      BY <1>2, <1>6, <1>4, <2>1, <3>1, MissedStep
  <2>3. CASE s = "fail"
    <3>1. consecutive_failures'[b] = OneMore(consecutive_failures[b]) /\ Done(b)'
      BY <1>1, <2>3 DEF CheckState, Done
    <3> QED
      BY <1>2, <1>6, <1>4, <2>1, <3>1, MissedStep
  <2>4. CASE s = "ok"
    <3>1. answered[b]
      BY <1>1, <2>4, NoPassWithoutAnswer
    <3>2. ~(since[b] > Elapsed)
      BY <1>4, <2>1, <3>1 DEF Missed
    <3>3. /\ ~(since[b] > Elapsed + HEALTH_CHECK_INTERVAL)
          /\ ~(since[b] > Elapsed + 2 * HEALTH_CHECK_INTERVAL)
      BY <1>2, <1>6, <3>2, TimingNumbers
    <3> QED
      BY <1>5, <1>6, <3>2, <3>3 DEF Missed
  <2> QED
    BY <1>1, <2>2, <2>3, <2>4
<1>7. ASSUME b \in Watched, since'[b] = since[b], since'[b] # 0, ~stopped, Up(b) PROVE Found(b)'
  <2>1. Found(b)
    BY <1>2, <1>7 DEF Noticed
  <2>2. s # "fail"
    BY <1>1, <1>4, <1>7 DEF Up, CheckState
  <2>3. CASE s = "ok"
    <3>1. Done(b)' /\ consecutive_failures'[b] = 0
      BY <1>1, <2>3 DEF CheckState, Done
    <3> QED
      BY <1>7, <2>1, <3>1 DEF Found
  <2>4. CASE s \in CheckState
    <3>1. /\ state'[b] # "none" /\ ~Done(b)'
          /\ consecutive_failures'[b] = consecutive_failures[b]
          /\ deadline'[b] = DeadlineAfter(b, s)
      BY <1>1, <2>4 DEF CheckState, Done
    <3>2. deadline[b] > 0 => DeadlineAfter(b, s) > 0
      BY HealthAssumption DEF DeadlineAfter
    <3> QED
      BY <1>4, <1>7, <1>5, <2>1, <3>1, <3>2 DEF Found
  <2> QED
    BY <1>1, <2>2, <2>3, <2>4
<1> SUFFICES ASSUME NEW c \in Watched PROVE Noticed(c)'
  OBVIOUS
<1>8. CASE since'[c] = 0
  BY <1>8, FreshClock
<1>9. CASE since'[c] # 0 /\ c # b
  BY <1>3, <1>9
<1>10. CASE since'[c] # 0 /\ c = b
  BY <1>2, <1>6, <1>7, <1>10 DEF Noticed
<1> QED
  BY <1>8, <1>9, <1>10

\* Deadlines: a check of a backend that is gone counts against it; the check of
\* one that has been left in peace since the round began has time left.
LEMMA ExpireNoticed ==
    ASSUME TypeOK, TimingInv, Expire, NEW c \in Watched, since'[c] = since[c]
    PROVE  Noticed(c)'
<1>1. /\ consecutive_failures'[c] = IF c \in TimedOut THEN OneMore(consecutive_failures[c])
                                                     ELSE consecutive_failures[c]
      /\ state'[c] = IF c \in TimedOut THEN "none" ELSE state[c]
      /\ answered'[c] = (c \notin TimedOut /\ answered[c])
      /\ UNCHANGED <<deadline, next_round, expired, pending, stopped, status>>
  BY ExpireOutcome, WatchedAssumption
<1>2. ClocksOK /\ Noticed(c) /\ Up(c)' = Up(c) /\ pending = {}
  BY <1>1 DEF TimingInv, Up, Expire, InLoop
<1>3. CASE c \notin TimedOut
  <2>1. /\ state'[c] = state[c] /\ consecutive_failures'[c] = consecutive_failures[c]
        /\ deadline'[c] = deadline[c] /\ Done(c)' = Done(c)
    BY <1>1, <1>3 DEF Done
  <2>2. answered'[c] = answered[c]
    <3>1. answered[c] \in BOOLEAN
      BY WatchedAssumption DEF TypeOK
    <3> QED
      BY <1>1, <1>3, <3>1
  <2> QED
    BY <1>1, <1>2, <2>1, <2>2, QuietStep
<1>4. CASE c \in TimedOut
  <2>1. state[c] # "none" /\ deadline[c] = 0 /\ ~Done(c)
    BY <1>4 DEF TimedOut, Active, Done
  <2>2. /\ consecutive_failures'[c] = OneMore(consecutive_failures[c]) /\ Done(c)'
        /\ Elapsed' = Elapsed
    BY <1>1, <1>2, <1>4 DEF Elapsed, Done
  <2>3. Missed(c) => Missed(c)'
    BY <1>1, <1>2, <2>1, <2>2, MissedStep
  <2>4. ASSUME Found(c) PROVE Found(c)'
    <3>1. ~(since[c] > Elapsed)
      BY <2>1, <2>4 DEF Found
    <3>2. ~(since[c] > Elapsed + HEALTH_CHECK_INTERVAL)
      BY <1>2, <3>1, TimingNumbers
    <3> QED
      BY <1>1, <2>2, <2>4, <3>1, <3>2 DEF Found
  <2> QED
    BY <1>1, <1>2, <2>3, <2>4 DEF Noticed
<1> QED
  BY <1>3, <1>4

\* A new round that finds the one before it ended: every backend will be asked.
LEMMA StartNoticed ==
    ASSUME TypeOK, ChecksInv, TimingInv, Start, Active = {}, NEW c \in Watched,
           since'[c] = since[c], since[c] # 0
    PROVE  Noticed(c)'
<1> DEFINE n == consecutive_failures[c]
           a == since[c]
           I == HEALTH_CHECK_INTERVAL
<1>1. /\ UNCHANGED <<consecutive_failures, state, deadline, answered, next_round, stopped, status>>
      /\ expired /\ ~expired' /\ pending = {} /\ pending' = Backends
  BY DEF Start, InLoop, checks, Probed
<1>2. /\ state[c] = "none" /\ Done(c) /\ ~Done(c)' /\ ~answered[c]
      /\ Noticed(c) /\ ClocksOK /\ Up(c)' = Up(c)
  BY <1>1, WatchedAssumption DEF Active, TimingInv, Up, Done, ChecksInv
<1>3. PICK e \in Nat : Elapsed' = e /\ Elapsed = e + I /\ e = I - next_round
  BY ElapsedStart
<1>4. n \in Nat /\ a \in Nat /\ I \in Nat /\ next_round \in 1 .. I
  BY <1>2, TimingNumbers
<1>5. /\ a > Elapsed' + I => a > Elapsed
      /\ a > Elapsed' + 2 * I => a > Elapsed + I
  BY <1>3, <1>4
<1>6. ASSUME ~stopped, ~Up(c) PROVE Missed(c)'
  <2>1. /\ a > Elapsed => n >= 1
        /\ a > Elapsed + I => n >= 2
    BY <1>2, <1>6 DEF Noticed, Missed
  <2> QED
    BY <1>1, <1>2, <1>5, <2>1 DEF Missed
<1>7. ASSUME ~stopped, Up(c) PROVE Found(c)'
  <2>1. next_round = I /\ (a > Elapsed => n = 0)
    BY <1>1, <1>2, <1>7 DEF Noticed, Found
  <2>2. Elapsed' = 0
    BY <1>3, <1>4, <2>1
  <2> QED
    BY <1>1, <1>2, <1>5, <2>1, <2>2 DEF Found
<1> QED
  BY <1>1, <1>2, <1>6, <1>7 DEF Noticed

\* A turn of start(): the check begins with time left, or counts as a failure.
LEMMA ProbeNoticed ==
    ASSUME TypeOK, TimingInv, NEW b \in Backends, Probe(b), ChecksInv,
           NEW c \in Watched, since'[c] = since[c]
    PROVE  Noticed(c)'
<1>1. /\ \/ /\ state'[b] = "none"
            /\ consecutive_failures'[b] = OneMore(consecutive_failures[b])
            /\ status[b] # "up"
         \/ /\ state'[b] # "none" /\ deadline'[b] \in {CONNECT_TIMEOUT, RESPONSE_TIMEOUT}
            /\ consecutive_failures'[b] = consecutive_failures[b]
      /\ \A d \in Backends \ {b} :
           /\ consecutive_failures'[d] = consecutive_failures[d]
           /\ state'[d] = state[d]
           /\ deadline'[d] = deadline[d]
      /\ pending' = pending \ {b} /\ b \in pending
      /\ UNCHANGED <<answered, next_round, expired, stopped, status>>
  BY ProbeOutcome
<1>2. /\ ClocksOK /\ Noticed(c) /\ Up(c)' = Up(c) /\ c \in Backends
      /\ Elapsed' = Elapsed
  BY <1>1, WatchedAssumption DEF TimingInv, Up, Elapsed
<1>3. CASE c # b
  <2>1. /\ consecutive_failures'[c] = consecutive_failures[c] /\ state'[c] = state[c]
        /\ deadline'[c] = deadline[c] /\ answered'[c] = answered[c]
    BY <1>1, <1>2, <1>3
  <2>2. Done(c)' = Done(c)
    BY <1>1, <1>3, <2>1 DEF Done
  <2> QED
    BY <1>1, <1>2, <2>1, <2>2, QuietStep
<1>4. CASE c = b
  <2>1. ~Done(b) /\ state[b] = "none"
    BY <1>1 DEF Done, ChecksInv
  <2>2. Done(b)' <=> state'[b] = "none"
    BY <1>1 DEF Done
  <2>3. Missed(b) => Missed(b)'
    BY <1>1, <1>2, <1>4, <2>1, <2>2, MissedStep
  <2>4. ASSUME Up(b), Found(b) PROVE Found(b)'
    <3>1. /\ state'[b] # "none" /\ deadline'[b] > 0
          /\ consecutive_failures'[b] = consecutive_failures[b]
      BY <1>1, <2>4, HealthAssumption DEF Up
    <3> QED
      BY <1>1, <1>2, <1>4, <2>1, <2>2, <2>4, <3>1 DEF Found
  <2> QED
    BY <1>1, <1>2, <1>4, <2>3, <2>4 DEF Noticed
<1> QED
  BY <1>3, <1>4

\* Time passes: clock and round advance together, and no backend that is up and
\* left in peace is being asked.
LEMMA TimeNoticed ==
    ASSUME TypeOK, TimingInv, TimePasses, NEW c \in Watched,
           ~(expired /\ next_round = 1),
           Up(c) => ~expired /\ Done(c),
           since'[c] \in {since[c], since[c] + 1}
    PROVE  Noticed(c)'
<1>1. /\ UNCHANGED <<consecutive_failures, state, answered, pending, stopped, status>>
      /\ Up(c)' = Up(c) /\ Done(c)' = Done(c)
  BY DEF TimePasses, Up, Done
<1>2. Noticed(c) /\ ClocksOK
  BY DEF TimingInv
<1>3. /\ Elapsed \in Nat /\ since[c] \in Nat /\ HEALTH_CHECK_INTERVAL \in Nat
      /\ Elapsed' = Elapsed + 1
  BY <1>2, TimingNumbers, ElapsedTick
<1>4. /\ since'[c] > Elapsed' => since[c] > Elapsed
      /\ since'[c] > Elapsed' + HEALTH_CHECK_INTERVAL => since[c] > Elapsed + HEALTH_CHECK_INTERVAL
      /\ since'[c] > Elapsed' + 2 * HEALTH_CHECK_INTERVAL
           => since[c] > Elapsed + 2 * HEALTH_CHECK_INTERVAL
  BY <1>3
<1>5. Missed(c) => Missed(c)'
  BY <1>1, <1>4, Zenon DEF Missed
<1>6. ASSUME Up(c), Found(c) PROVE Found(c)'
  <2>1. expired' => next_round' = HEALTH_CHECK_INTERVAL
    BY <1>6, TimeOutcome
  <2> QED
    BY <1>1, <1>4, <1>6, <2>1 DEF Found
<1> QED
  BY <1>1, <1>2, <1>5, <1>6 DEF Noticed

\* Every step keeps TimingInv.
LEMMA NextTimingInv ==
    CheckerInv /\ TimingInv /\ [TimedNext]_timedVars => TimingInv'
<1> SUFFICES ASSUME CheckerInv, TimingInv, [TimedNext]_timedVars PROVE TimingInv'
  OBVIOUS
<1>0. TypeOK /\ UnreadInv /\ ChecksInv /\ ClocksOK /\ \A c \in Watched : Noticed(c)
  BY DEF CheckerInv, TimingInv
<1>1. CASE UNCHANGED timedVars
  <2>1. UNCHANGED <<stopped, status, since, state, consecutive_failures, deadline, answered,
                    pending, next_round, expired>>
    BY <1>1 DEF timedVars, vars, checks, timer
  <2>2. ASSUME NEW c \in Watched PROVE Noticed(c)'
    <3>1. Up(c)' = Up(c) /\ Done(c)' = Done(c)
      BY <2>1 DEF Up, Done
    <3> QED
      BY <1>0, <2>1, <3>1, QuietStep
  <2> QED
    BY <1>0, <2>1, <2>2 DEF TimingInv, ClocksOK
<1>2. CASE TimedNext
  <2>1. /\ Next
        /\ ClocksOK'
        /\ \A b \in Watched :
             /\ since'[b] \in {0, since[b], since[b] + 1}
             /\ Up(b)' # Up(b) => since'[b] = 0
             /\ RoundLost => since'[b] = 0
             /\ Up(b) /\ (HeldUp \/ Astray(b)) => since'[b] = 0
             /\ next_round' = next_round => since'[b] \in {0, since[b]}
    BY <1>0, <1>2, ClockStep DEF TimedNext
  <2>2. TypeOK'
    BY <1>0, <2>1, NextTypeOK DEF UnreadInv
  <2>3. ASSUME NEW c \in Watched, since'[c] = 0 PROVE Noticed(c)'
    BY <2>2, <2>3, FreshClock
  <2> SUFFICES \A c \in Watched : Noticed(c)'
    BY <2>1 DEF TimingInv
  <2>4. CASE Start
    <3>1. expired /\ ~expired' /\ next_round' = next_round
      BY <2>4 DEF Start
    <3>2. CASE Active # {}
      BY <2>1, <2>3, <3>1, <3>2 DEF RoundLost
    <3>3. CASE Active = {}
      BY <1>0, <2>1, <2>3, <2>4, <3>1, <3>3, StartNoticed
    <3> QED
      BY <3>2, <3>3
  <2>5. CASE Expire
    <3>1. next_round' = next_round
      BY <2>5, ExpireOutcome
    <3> QED
      BY <1>0, <2>1, <2>3, <2>5, <3>1, ExpireNoticed
  <2>6. CASE CancelAll
    BY <2>6 DEF CancelAll, Noticed
  <2>7. ASSUME TimePasses, \A c \in Watched : Up(c) => (~expired /\ Done(c)) \/ since'[c] = 0
        PROVE  \A c \in Watched : Noticed(c)'
    <3>1. CASE expired /\ next_round = 1
      <4>1. expired' /\ next_round' = HEALTH_CHECK_INTERVAL
        BY <1>0, <2>7, <3>1, TimeOutcome
      <4>2. next_round' > next_round
        BY <3>1, <4>1, HealthAssumption
      <4>3. RoundLost
        BY <3>1, <4>1, <4>2 DEF RoundLost
      <4> QED
        BY <2>1, <2>3, <4>3
    <3>2. CASE ~(expired /\ next_round = 1)
      <4>1. ASSUME NEW c \in Watched, since'[c] # 0 PROVE Noticed(c)'
        <5>1. since'[c] \in {since[c], since[c] + 1} /\ (Up(c) => ~expired /\ Done(c))
          BY <2>1, <2>7, <4>1
        <5> QED
          BY <1>0, <2>7, <3>2, <5>1, TimeNoticed
      <4> QED
        BY <2>3, <4>1
    <3> QED
      BY <3>1, <3>2
  <2>8. CASE Tick
    <3>1. ASSUME NEW c \in Watched, Up(c) PROVE ~expired /\ Done(c)
      BY <2>8, <3>1, WatchedAssumption DEF Tick, InLoop, Active, Done, Up
    <3> QED
      BY <2>7, <2>8, <3>1 DEF Tick
  <2>9. CASE Resolve
    <3>1. TimePasses /\ held' # held
      BY <1>0, <2>9, Numbers DEF Resolve
    <3>2. HeldUp
      BY <1>0, <3>1, TimeOutcome DEF HeldUp, TimePassed
    <3> QED
      BY <2>1, <2>7, <3>1, <3>2
  <2>10. ASSUME NEW b \in Backends, Probe(b) PROVE \A c \in Watched : Noticed(c)'
    <3>1. next_round' = next_round
      BY <1>0, <2>10, ProbeOutcome
    <3> QED
      BY <1>0, <2>1, <2>3, <2>10, <3>1, ProbeNoticed
  <2>11. ASSUME NEW b \in Backends, HandleEvent(b) PROVE \A c \in Watched : Noticed(c)'
    <3>1. b \in Active /\ pending = {} /\ UNCHANGED <<next_round, expired, pending, stopped, status>>
      BY <2>11 DEF HandleEvent, InLoop, timer
    <3>2. PICK events \in Reported(b) : Handle(b, events)
      BY <2>11 DEF HandleEvent
    <3>3. status[b] = "up" => "fail" \notin AfterEvent(b, events)
      BY <1>0, <3>1, <3>2, UpNeverFails
    <3>4. \A c \in Watched : since'[c] \in {0, since[c]}
      BY <2>1, <3>1
    <3> QED
      BY <1>0, <2>2, <3>1, <3>2, <3>3, <3>4, HandleNoticed
  <2>12. ASSUME NEW b \in Backends, StaleEvent(b) PROVE \A c \in Watched : Noticed(c)'
    <3>1. /\ b \in Active /\ pending = {}
          /\ UNCHANGED <<next_round, expired, pending, stopped, status>>
      BY <2>12 DEF StaleEvent, InLoop, timer
    <3>2. PICK events : Handle(b, events)
      BY <2>12 DEF StaleEvent
    <3>3. stale' # stale
      BY <1>0, <2>12, HealthAssumption DEF StaleEvent, TypeOK
    <3>4. b \in Watched /\ Up(b) /\ state'[b] # state[b] => since'[b] = 0
      BY <2>1, <3>3 DEF Astray
    <3>5. \A c \in Watched : since'[c] \in {0, since[c]}
      BY <2>1, <3>1
    <3> QED
      BY <1>0, <2>2, <3>1, <3>2, <3>4, <3>5, HandleNoticed
  <2>13. ASSUME NEW b \in Backends, Answer(b) PROVE \A c \in Watched : Noticed(c)'
    <3>1. /\ UNCHANGED <<consecutive_failures, state, deadline, next_round, expired, pending,
                         stopped, status>>
          /\ Up(b)
          /\ \A c \in Backends \ {b} : answered'[c] = answered[c]
      BY <1>0, <2>13 DEF Answer, Up, TypeOK, timer
    <3>2. ASSUME NEW c \in Watched, since'[c] = since[c] PROVE Noticed(c)'
      <4>1. Up(c)' = Up(c) /\ Done(c)' = Done(c)
        BY <3>1 DEF Up, Done
      <4>2. CASE c # b
        BY <1>0, <3>1, <3>2, <4>1, <4>2, QuietStep, WatchedAssumption
      <4>3. CASE c = b
        <5>1. Elapsed' = Elapsed
          BY <3>1 DEF Elapsed
        <5>2. Found(c) => Found(c)'
          BY <3>1, <3>2, <4>1, <5>1 DEF Found
        <5> QED
          BY <1>0, <3>1, <4>1, <4>3, <5>2 DEF Noticed
      <4> QED
        BY <4>2, <4>3
    <3> QED
      BY <2>1, <2>3, <3>1, <3>2
  <2>14. ASSUME NEW b \in Backends, NEW s \in Status, Change(b, s)
         PROVE  \A c \in Watched : Noticed(c)'
    <3>1. UNCHANGED <<consecutive_failures, state, deadline, answered, pending, next_round,
                      expired, stopped>>
      BY <2>14 DEF Change, checks, timer
    <3>2. ASSUME NEW c \in Watched, since'[c] # 0 PROVE Noticed(c)'
      <4>1. since'[c] = since[c] /\ Up(c)' = Up(c) /\ Done(c)' = Done(c)
        BY <2>1, <3>1, <3>2 DEF Done
      <4> QED
        BY <1>0, <3>1, <4>1, QuietStep
    <3> QED
      BY <2>3, <3>2
  <2>15. CASE Terminated
    BY <2>15 DEF Terminated, Noticed, vars
  <2> QED
    BY <2>1, <2>4, <2>5, <2>6, <2>8, <2>9, <2>10, <2>11, <2>12, <2>13, <2>14, <2>15 DEF Next
<1> QED
  BY <1>1, <1>2

\* What the clocks say of the failure counters holds throughout.
LEMMA TimingInvariant == TimedSpec => []TimingInv
<1>1. TimedInit => TimingInv
  <2> SUFFICES ASSUME TimedInit PROVE TimingInv
    OBVIOUS
  <2>1. /\ ClocksOK /\ next_round = HEALTH_CHECK_INTERVAL /\ ~expired
        /\ \A b \in Watched : since[b] = 0
    BY DEF TimedInit, Init, ClocksOK
  <2>2. Elapsed = 0 /\ HEALTH_CHECK_INTERVAL \in Nat
    BY <2>1, HealthAssumption DEF Elapsed
  <2>3. \A b \in Watched : Missed(b) /\ Found(b)
    BY <2>1, <2>2 DEF Missed, Found
  <2> QED
    BY <2>1, <2>3 DEF TimingInv, Noticed
<1> QED
  BY <1>1, ClocksWatch, CheckerInvariant, NextTimingInv, PTL DEF TimedSpec

(***************************************************************************)
(* A backend that is gone is out of rotation after two intervals, the time *)
(* of one check and the time the last round was held up, for any backends  *)
(* and time-outs and in whatever phase of a round it goes: the round under *)
(* way may still see the answer it has sent, the next two count against    *)
(* it, and the second of them has ended when its deadlines have passed.    *)
(***************************************************************************)
THEOREM OutageEnds == TimedSpec => []OutageBounded
<1>1. CheckerInv /\ HealthyBelowThreshold /\ TimingInv => OutageBounded
  <2> SUFFICES ASSUME CheckerInv, HealthyBelowThreshold, TimingInv, NEW b \in Watched,
                      ~stopped, ~Up(b), since[b] > OutageTime + held
               PROVE  ~healthy[b]
    BY DEF OutageBounded
  <2> DEFINE I == HEALTH_CHECK_INTERVAL
  <2>1. /\ TypeOK /\ UnreadInv /\ RoundInv /\ ClocksOK /\ Missed(b)
        /\ healthy[b] <=> consecutive_failures[b] < 2
    BY WatchedAssumption DEF CheckerInv, TimingInv, Noticed, HealthyBelowThreshold
  <2>2. /\ Elapsed \in Nat /\ I \in Nat /\ next_round \in 1 .. I /\ held \in Nat
        /\ since[b] \in Nat /\ consecutive_failures[b] \in Nat /\ deadline[b] \in Nat
    BY <2>1, TimingNumbers, Numbers
  <2>3. OutageTime = 2 * I + CheckTime /\ CheckTime \in Nat
    BY <2>1, Numbers DEF OutageTime
  <2>4. CASE Done(b)
    <3>1. Elapsed <= I + held
      BY <2>1, <2>2 DEF Elapsed, UnreadInv
    <3>2. since[b] > Elapsed + I
      BY <2>2, <2>3, <3>1
    <3> QED
      BY <2>1, <2>2, <2>4, <3>2 DEF Missed
  <2>5. CASE ~Done(b)
    <3>1. Elapsed <= CheckTime + held
      <4>1. CASE state[b] = "none"
        BY <2>1, <2>2, <2>3, <2>5, <4>1 DEF Done, RoundInv
      <4>2. CASE state[b] # "none"
        <5>1. Elapsed + deadline[b] <= Budget(state[b]) + held
          BY <2>1, <4>2, WatchedAssumption DEF RoundInv, Active
        <5>2. Budget(state[b]) \in Nat /\ Budget(state[b]) <= CheckTime
          BY <2>1, Numbers
        <5> QED
          BY <2>2, <2>3, <5>1, <5>2
      <4> QED
        BY <4>1, <4>2
    <3>2. since[b] > Elapsed + 2 * I
      BY <2>2, <2>3, <3>1
    <3> QED
      BY <2>1, <2>2, <3>2 DEF Missed
  <2> QED
    BY <2>4, <2>5
<1> QED
  BY <1>1, ClocksWatch, CheckerInvariant, FlagFollowsCounter, TimingInvariant, PTL

(***************************************************************************)
(* A backend that has come back is in rotation again after one interval    *)
(* without a disturbance, for any backends and time-outs: the first round  *)
(* in that time asks it, and it answers before time passes.                *)
(***************************************************************************)
THEOREM ReturnNoticed == TimedSpec => []ReturnBounded
<1>1. TypeOK /\ HealthyBelowThreshold /\ TimingInv => ReturnBounded
  <2> SUFFICES ASSUME TypeOK, HealthyBelowThreshold, TimingInv, NEW b \in Watched,
                      ~stopped, Up(b), since[b] > HEALTH_CHECK_INTERVAL
               PROVE  healthy[b]
    BY DEF ReturnBounded
  <2> DEFINE I == HEALTH_CHECK_INTERVAL
  <2>1. /\ ClocksOK /\ Found(b)
        /\ healthy[b] <=> consecutive_failures[b] < 2
    BY WatchedAssumption DEF TimingInv, Noticed, HealthyBelowThreshold
  <2>2. Elapsed \in Nat /\ I \in Nat /\ next_round \in 1 .. I /\ since[b] \in Nat
    BY <2>1, TimingNumbers
  <2>3. expired => next_round = I
    BY <2>1, <2>2 DEF Found
  <2>4. Elapsed <= I
    BY <2>2, <2>3 DEF Elapsed
  <2>5. since[b] > Elapsed
    BY <2>2, <2>4
  <2>6. Elapsed = 0 => since[b] > Elapsed + I
    BY <2>2
  <2>7. consecutive_failures[b] = 0
    BY <2>1, <2>5, <2>6 DEF Found
  <2> QED
    BY <2>1, <2>7
<1> QED
  BY <1>1, ClocksWatch, TypeCorrect, FlagFollowsCounter, TimingInvariant, PTL
=============================================================================
