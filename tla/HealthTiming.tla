---------------------------- MODULE HealthTiming ----------------------------
(***************************************************************************)
(* How long the health checker takes to notice that a backend is gone or   *)
(* back, and what it takes to put out one that is up: HealthChecker with a *)
(* clock and a record of disturbances for each backend that is watched.    *)
(***************************************************************************)
EXTENDS HealthChecker

CONSTANT Watched   \* the backends that have a clock

ASSUME WatchedAssumption == Watched \subseteq Backends

VARIABLES
    since,   \* history: ticks since the backend went or came back, or was last disturbed
    spoilt   \* history: its disturbed checks since the last good one, up to two

timedVars == <<vars, since, spoilt>>

Up(b) == status[b] = "up"

\* From the last answer of a backend to the end of the second check that misses
\* it: the next round may be an interval away, and the one after it decides.
OutageTime == 2 * HEALTH_CHECK_INTERVAL + CheckTime

\* Bound: the clocks stop where nothing is left to be told apart.
ClockCap(b) == IF Up(b) THEN HEALTH_CHECK_INTERVAL + 1 ELSE OutageTime + MaxHeld + 1

-----------------------------------------------------------------------------
(* What a step is to a backend. *)

TimePassed == next_round' # next_round

HeldUp == TimePassed /\ held' # held

\* A stale event that moves or ends the check.
Astray(b) == stale' # stale /\ state'[b] # state[b]

\* start() finds checks active, or the timer expires a second time unread.
RoundLost == expired /\ (IF expired' THEN next_round' > next_round ELSE Active # {})

\* The reactor comes back from getaddrinfo() after the check's deadline.
Overslept(b) == HeldUp /\ deadline'[b] # deadline[b] /\ deadline'[b] = 0

Passed(b) == state[b] # "none" /\ state'[b] = "none" /\ consecutive_failures'[b] = 0

ClockAfter(b) ==
    IF Up(b)' # Up(b) \/ RoundLost \/ (Up(b) /\ (HeldUp \/ Astray(b))) THEN 0
    ELSE IF TimePassed /\ since[b] < ClockCap(b) THEN since[b] + 1
    ELSE since[b]

\* Two disturbances are as good as any more, and as an outage.
SpoiltAfter(b) ==
    IF ~Up(b)' THEN 2
    ELSE IF Passed(b) THEN 0
    ELSE IF (Overslept(b) \/ Astray(b)) /\ spoilt[b] < 2 THEN spoilt[b] + 1
    ELSE spoilt[b]

TimedInit ==
    /\ Init
    /\ since = [b \in Watched |-> 0]
    /\ spoilt = [b \in Watched |-> IF Up(b) THEN 0 ELSE 2]

TimedNext ==
    /\ Next
    /\ since' = [b \in Watched |-> ClockAfter(b)]
    /\ spoilt' = [b \in Watched |-> SpoiltAfter(b)]

TimedSpec == TimedInit /\ [][TimedNext]_timedVars

TimedFairSpec == TimedSpec /\ Fairness

-----------------------------------------------------------------------------
(* Properties. *)

(***************************************************************************)
(* It takes two disturbances in a row to put out a backend that is up: a   *)
(* stale event spoils one check, and so does a getaddrinfo(), of any name, *)
(* that returns after the check's deadline, for expire() runs before the   *)
(* answer is looked at. A backend that has been up since its last good     *)
(* check (or the start), with at most one check spoilt, is in rotation.    *)
(***************************************************************************)
SteadyBackendStaysHealthy ==
    \A b \in Watched : spoilt[b] <= 1 => healthy[b]

(***************************************************************************)
(* A backend that is gone is routed to for at most two intervals and the   *)
(* time of one check, whatever it answered before, however its checks end  *)
(* and whatever events go astray: 11.5 s in the code. Time the reactor has *)
(* been held up in the last round comes on top, and a round that is lost   *)
(* to it starts the count anew.                                            *)
(***************************************************************************)
OutageBounded ==
    \A b \in Watched :
        ~stopped /\ ~Up(b) /\ since[b] > OutageTime + held => ~healthy[b]

(***************************************************************************)
(* A backend that has come back is routed to again after one interval in   *)
(* which no stale event and no getaddrinfo() has disturbed its check.      *)
(***************************************************************************)
ReturnBounded ==
    \A b \in Watched :
        ~stopped /\ Up(b) /\ since[b] > HEALTH_CHECK_INTERVAL => healthy[b]
=============================================================================
