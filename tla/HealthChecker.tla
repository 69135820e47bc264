--------------------------- MODULE HealthChecker ---------------------------
(***************************************************************************)
(* Health checking in one load balancer reactor (lb/HealthChecker.cpp,     *)
(* driven by lb/LoadBalancer.cpp): every HEALTH_CHECK_INTERVAL a round of  *)
(* asynchronous GET /health checks, each with its own deadline, whose      *)
(* verdicts move a backend between healthy and unhealthy.                  *)
(*                                                                         *)
(* Time is counted in ticks. The reactor wakes up for a deadline or for    *)
(* the timer (epoll_wait is called with nextTimeoutMs), so time does not   *)
(* pass in epoll_wait while one of them is due; an event that arrives at   *)
(* that very moment may still be handled first. But names are resolved by  *)
(* the reactor's own thread, in start() and for every client, and while    *)
(* getaddrinfo() blocks time passes whatever is due.                       *)
(***************************************************************************)
EXTENDS Integers, FiniteSets

CONSTANTS
    Backends,
    CONNECT_TIMEOUT,        \* CONNECT_TIMEOUT_MS
    RESPONSE_TIMEOUT,       \* RESPONSE_TIMEOUT_MS
    HEALTH_CHECK_INTERVAL,  \* seconds between two rounds
    MaxHeld,                \* bound: ticks per round spent in getaddrinfo()
    FailureCap,             \* bound: the failure counter is saturated here
    MaxStale                \* bound: events meant for an earlier owner of a descriptor

\* 500 ms, 500 ms and 5 s in the code.
ASSUME HealthAssumption ==
    /\ IsFiniteSet(Backends)
    /\ CONNECT_TIMEOUT \in Nat \ {0}
    /\ RESPONSE_TIMEOUT \in Nat \ {0}
    /\ HEALTH_CHECK_INTERVAL \in Nat
    /\ HEALTH_CHECK_INTERVAL > CONNECT_TIMEOUT + 2 * RESPONSE_TIMEOUT
    /\ MaxHeld \in Nat
    /\ FailureCap \in Nat /\ FailureCap >= 2
    /\ MaxStale \in Nat

VARIABLES
    healthy,               \* Backend::healthy
    consecutive_failures,  \* Backend::consecutive_failures
    state,                 \* of the check on each backend, or "none"
    deadline,              \* ticks left to the check
    answered,              \* the response is in the check's socket
    next_round,            \* ticks until the health timer expires
    expired,               \* the timer has expired and has not been read
    pending,               \* the backends start() has still to begin a check on
    held,                  \* history: ticks of this round spent in getaddrinfo()
    stopped,               \* the event loop has ended
    status,                \* what the backend really does
    stale                  \* history: stale events so far

checks == <<healthy, consecutive_failures, state, deadline, answered>>
timer == <<next_round, expired, held>>
vars == <<checks, timer, pending, stopped, status, stale>>

CheckState == {"Connecting", "Writing", "Reading"}

\* "up" accepts, answers 200 OK and does so promptly; "hung" may accept and
\* then sends nothing, or something else than 200 OK; "down" refuses, resets or
\* closes without a 200 OK.
\* A name that does not resolve, or a socket that cannot be had, is not "up".
Status == {"up", "hung", "down"}

TypeOK ==
    /\ healthy \in [Backends -> BOOLEAN]
    /\ consecutive_failures \in [Backends -> 0 .. FailureCap]
    /\ state \in [Backends -> CheckState \cup {"none"}]
    /\ deadline \in [Backends -> Nat]
    /\ answered \in [Backends -> BOOLEAN]
    /\ next_round \in 1 .. HEALTH_CHECK_INTERVAL
    /\ expired \in BOOLEAN
    /\ pending \subseteq Backends
    /\ held \in 0 .. MaxHeld
    /\ stopped \in BOOLEAN
    /\ status \in [Backends -> Status]
    /\ stale \in 0 .. MaxStale

Init ==
    /\ healthy = [b \in Backends |-> TRUE]
    /\ consecutive_failures = [b \in Backends |-> 0]
    /\ state = [b \in Backends |-> "none"]
    /\ deadline = [b \in Backends |-> 0]
    /\ answered = [b \in Backends |-> FALSE]
    /\ next_round = HEALTH_CHECK_INTERVAL
    /\ expired = FALSE
    /\ pending = {}
    /\ held = 0
    /\ stopped = FALSE
    /\ status \in [Backends -> Status]
    /\ stale = 0

Active == {b \in Backends : state[b] # "none"}

\* The event loop is not inside start().
InLoop == ~stopped /\ pending = {}

-----------------------------------------------------------------------------
(* Verdicts. *)

\* Mutant of Unhealthy: it takes one failure more.
UnhealthyLater(n) == n > 2

Unhealthy(n) == n >= 2

OneMore(n) == IF n < FailureCap THEN n + 1 ELSE n

\* Mutant of Verdicts: a success does not reset the failure counter.
VerdictsKeepCount(ok, fail) ==
    /\ consecutive_failures' = [b \in Backends |->
         IF b \in fail THEN OneMore(consecutive_failures[b]) ELSE consecutive_failures[b]]
    /\ healthy' = [b \in Backends |->
         IF b \in ok THEN TRUE
         ELSE IF b \in fail /\ Unhealthy(OneMore(consecutive_failures[b])) THEN FALSE
         ELSE healthy[b]]

\* finishCheck(), failCheck() and the failure exits of start(): what a set of
\* passed and a set of failed checks do to their backends.
Verdicts(ok, fail) ==
    /\ consecutive_failures' = [b \in Backends |->
         IF b \in ok THEN 0
         ELSE IF b \in fail THEN OneMore(consecutive_failures[b])
         ELSE consecutive_failures[b]]
    /\ healthy' = [b \in Backends |->
         IF b \in ok THEN TRUE
         ELSE IF b \in fail /\ Unhealthy(OneMore(consecutive_failures[b])) THEN FALSE
         ELSE healthy[b]]

-----------------------------------------------------------------------------
(* A round: HealthChecker::start, called when the timer has expired.         *)

\* Mutant of Probed: only healthy backends are checked.
ProbedIfHealthy == IF Active = {} THEN {b \in Backends : healthy[b]} ELSE {}

\* Nothing is started while a check of an earlier round is active.
Probed == IF Active = {} THEN Backends ELSE {}

\* handleHealthCheck() reads the timer, whatever the number of expirations, and
\* calls start(). The timer has been running on since it expired.
Start ==
    /\ InLoop
    /\ expired
    /\ expired' = FALSE
    /\ pending' = Probed
    /\ held' = IF Active = {} THEN HEALTH_CHECK_INTERVAL - next_round ELSE held
    /\ UNCHANGED <<checks, next_round, stopped, status, stale>>

\* What comes of resolving, socket(), connect() and epoll.add().
Opened(b) ==
    IF status[b] = "up" THEN {"Connecting", "Writing"}
                        ELSE {"Connecting", "Writing", "fail"}

\* One turn of the loop in start(), once the name is resolved. The order of
\* the backends is left open.
Probe(b) ==
    /\ b \in pending
    /\ pending' = pending \ {b}
    /\ \E s \in Opened(b) :
         /\ Verdicts({}, {c \in {b} : s = "fail"})
         /\ state' = [state EXCEPT ![b] = IF s = "fail" THEN "none" ELSE s]
         /\ deadline' = [deadline EXCEPT ![b] =
              IF s = "Connecting" THEN CONNECT_TIMEOUT
              ELSE IF s = "Writing" THEN RESPONSE_TIMEOUT ELSE 0]
    /\ UNCHANGED <<answered, timer, stopped, status, stale>>

-----------------------------------------------------------------------------
(* HealthChecker::handleEvent: the three handlers in turn, each only if the  *)
(* check is still there, then ERR/HUP. Each operator yields the states the   *)
(* check may be in afterwards; "ok" and "fail" end it.                       *)

AfterConnect(b, s, events) ==
    IF s = "Connecting" /\ "OUT" \in events
      THEN IF status[b] = "down" THEN {"fail"} ELSE {"Writing"}
      ELSE {s}

AfterWrite(b, s, events) ==
    IF s = "Writing" /\ "OUT" \in events
      THEN IF status[b] = "down" THEN {"Writing", "Reading", "fail"}
                                 ELSE {"Writing", "Reading"}
      ELSE {s}

\* Without a 200 OK, end of file, an error or MAX_RESPONSE_SIZE bytes fail the
\* check; otherwise handleRead() has met EAGAIN.
AfterRead(b, s, events) ==
    IF s = "Reading" /\ "IN" \in events
      THEN CASE answered[b] -> {"ok"}
             [] ~answered[b] /\ status[b] = "down" -> {"fail"}
             [] ~answered[b] /\ status[b] = "hung" -> {"Reading", "fail"}
             [] ~answered[b] /\ status[b] = "up" -> {"Reading"}
      ELSE {s}

AfterHangup(s, events) ==
    IF s \in CheckState /\ "HUP" \in events THEN {"fail"} ELSE {s}

\* Mutant of AfterEvent: HUP is looked at before the data that came with it.
AfterEventHangupFirst(b, events) ==
    UNION {UNION {UNION {AfterRead(b, s3, events)
        : s3 \in AfterWrite(b, s2, events)}
        : s2 \in AfterConnect(b, s1, events)}
        : s1 \in AfterHangup(state[b], events)}

AfterEvent(b, events) ==
    UNION {UNION {UNION {AfterHangup(s3, events)
        : s3 \in AfterRead(b, s2, events)}
        : s2 \in AfterWrite(b, s1, events)}
        : s1 \in AfterConnect(b, state[b], events)}

\* Mutant of DeadlineAfter: any sign of life prolongs the check.
DeadlineProlonged(b, s) == RESPONSE_TIMEOUT

\* A new state brings a new deadline.
DeadlineAfter(b, s) == IF s = state[b] THEN deadline[b] ELSE RESPONSE_TIMEOUT

Handle(b, events) ==
    \E s \in AfterEvent(b, events) :
        /\ Verdicts({c \in {b} : s = "ok"}, {c \in {b} : s = "fail"})
        /\ IF s \in CheckState
             THEN /\ state' = [state EXCEPT ![b] = s]
                  /\ deadline' = [deadline EXCEPT ![b] = DeadlineAfter(b, s)]
                  /\ UNCHANGED answered
             ELSE /\ state' = [state EXCEPT ![b] = "none"]
                  /\ deadline' = [deadline EXCEPT ![b] = 0]
                  /\ answered' = [answered EXCEPT ![b] = FALSE]

\* What epoll can report: the sockets stay registered for EPOLLOUT, so OUT
\* comes with everything; a reset is a hang-up; a server that has answered
\* closes, which may show as IN together with HUP.
Reported(b) ==
    {{"OUT"}}
    \cup (IF answered[b] \/ status[b] # "up" THEN {{"IN", "OUT"}} ELSE {})
    \cup (IF answered[b] \/ status[b] = "down" THEN {{"IN", "OUT", "HUP"}} ELSE {})

HandleEvent(b) ==
    /\ InLoop
    /\ b \in Active
    /\ \E events \in Reported(b) : Handle(b, events)
    /\ UNCHANGED <<timer, pending, stopped, status, stale>>

\* An event of the running batch that was meant for a connection closed
\* earlier in it, whose descriptor the check's socket has inherited.
StaleEvent(b) ==
    /\ InLoop
    /\ b \in Active
    /\ stale < MaxStale
    /\ \E events \in {{"IN"}, {"OUT"}, {"HUP"}, {"IN", "HUP"}} : Handle(b, events)
    /\ stale' = stale + 1
    /\ UNCHANGED <<timer, pending, stopped, status>>

TimedOut == {b \in Active : deadline[b] = 0}

\* Mutant of Expire: the check is dropped without a verdict.
ExpireSilently ==
    /\ InLoop
    /\ TimedOut # {}
    /\ state' = [b \in Backends |-> IF b \in TimedOut THEN "none" ELSE state[b]]
    /\ answered' = [b \in Backends |-> b \notin TimedOut /\ answered[b]]
    /\ UNCHANGED <<healthy, consecutive_failures, deadline, timer, pending, stopped,
                   status, stale>>

\* expire(), at the top of the event loop.
Expire ==
    /\ InLoop
    /\ TimedOut # {}
    /\ Verdicts({}, TimedOut)
    /\ state' = [b \in Backends |-> IF b \in TimedOut THEN "none" ELSE state[b]]
    /\ answered' = [b \in Backends |-> b \notin TimedOut /\ answered[b]]
    /\ UNCHANGED <<deadline, timer, pending, stopped, status, stale>>

\* cancelAll(), when the event loop ends.
CancelAll ==
    /\ InLoop
    /\ stopped' = TRUE
    /\ state' = [b \in Backends |-> "none"]
    /\ answered' = [b \in Backends |-> FALSE]
    /\ UNCHANGED <<healthy, consecutive_failures, deadline, timer, pending, status, stale>>

-----------------------------------------------------------------------------
(* Backends and time. *)

Answer(b) ==
    /\ state[b] = "Reading"
    /\ status[b] = "up"
    /\ ~answered[b]
    /\ answered' = [answered EXCEPT ![b] = TRUE]
    /\ UNCHANGED <<healthy, consecutive_failures, state, deadline, timer, pending,
                   stopped, status, stale>>

Change(b, s) ==
    /\ ~stopped
    /\ status[b] # s
    /\ status' = [status EXCEPT ![b] = s]
    /\ UNCHANGED <<checks, timer, pending, stopped, stale>>

\* A tick on the clocks of the checks and of the timer, which is periodic.
TimePasses ==
    /\ deadline' = [b \in Backends |->
         IF b \in Active /\ deadline[b] > 0 THEN deadline[b] - 1 ELSE deadline[b]]
    /\ next_round' = IF next_round = 1 THEN HEALTH_CHECK_INTERVAL ELSE next_round - 1
    /\ expired' = (expired \/ next_round = 1)
    /\ UNCHANGED <<healthy, consecutive_failures, state, answered, pending, stopped,
                   status, stale>>

\* Time passes while epoll_wait() sleeps, which is never longer than
\* nextTimeoutMs() says; a backend that is up answers before the next tick.
Tick ==
    /\ InLoop
    /\ ~expired
    /\ \A b \in Active : deadline[b] > 0 /\ status[b] # "up"
    /\ TimePasses
    /\ UNCHANGED held

\* getaddrinfo() blocks for a tick: in start(), or on the way of a client to
\* its backend (connectToBackend), which is at any time outside start().
Resolve ==
    /\ ~stopped
    /\ held < MaxHeld
    /\ TimePasses
    /\ held' = held + 1

Terminated == stopped /\ UNCHANGED vars

-----------------------------------------------------------------------------
Next ==
    \/ Start
    \/ Expire
    \/ CancelAll
    \/ Tick
    \/ Resolve
    \/ Terminated
    \/ \E b \in Backends :
         \/ Probe(b)
         \/ HandleEvent(b)
         \/ StaleEvent(b)
         \/ Answer(b)
         \/ \E s \in Status : Change(b, s)

Spec == Init /\ [][Next]_vars

\* The reactor runs, names are resolved in the end, time passes, and a backend
\* that is up does answer.
Fairness ==
    /\ WF_vars(Start)
    /\ WF_vars(Expire)
    /\ WF_vars(Tick)
    /\ \A b \in Backends :
         WF_vars(Probe(b)) /\ WF_vars(HandleEvent(b)) /\ WF_vars(Answer(b))

FairSpec == Spec /\ Fairness

-----------------------------------------------------------------------------
(* Properties. *)

(***************************************************************************)
(* The flag the routing reads and the counter the checker keeps agree, on  *)
(* all the paths on which a check can end: a backend is routed to exactly  *)
(* as long as fewer than two checks in a row have failed.                  *)
(***************************************************************************)
HealthyBelowThreshold ==
    \A b \in Backends : healthy[b] <=> consecutive_failures[b] < 2

\* The longest a check can take if the reactor is not held up.
CheckTime == CONNECT_TIMEOUT + 2 * RESPONSE_TIMEOUT

(***************************************************************************)
(* Every check has ended when the timer expires: the deadlines of the      *)
(* three phases and the time spent in getaddrinfo() since the last round   *)
(* add up to less than the interval, so start() does not have to skip a    *)
(* round because of a slow backend, unless resolving takes the rest of the *)
(* interval (3.5 s in the code).                                           *)
(***************************************************************************)
RoundsDoNotOverlap ==
    expired /\ CheckTime + held < HEALTH_CHECK_INTERVAL => Active = {}

\* Backends change finitely often. Without this, infinitely many changes could
\* take place between two ticks.
ChangesEnd == <>[][UNCHANGED status]_vars

\* A backend that stops answering for good is taken out of rotation for good,
\* whatever the other backends have done and are in the end.
FailureDetected ==
    \A b \in Backends :
        ChangesEnd /\ <>[](status[b] # "up" /\ ~stopped) => <>[]~healthy[b]

\* A backend that comes back for good is put back for good, if resolving does
\* not hold up its checks for ever.
RecoveryDetected ==
    \A b \in Backends :
        ChangesEnd /\ <>[](status[b] = "up" /\ held = 0 /\ ~stopped) => <>[]healthy[b]

(***************************************************************************)
(* A backend that goes or comes back for good leaves or joins the rotation *)
(* for good: expire() is reached although epoll_wait() has nothing to say, *)
(* and no round, deadline or verdict of another backend is in the way.     *)
(***************************************************************************)
ChangesDetected == FailureDetected /\ RecoveryDetected
=============================================================================
