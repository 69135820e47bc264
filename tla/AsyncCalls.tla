----------------------------- MODULE AsyncCalls -----------------------------
(***************************************************************************)
(* What the worker pool promises a reactor, with threads, locks, condition *)
(* variable and eventfd left out: a call is refused or accepted; an        *)
(* accepted call ends exactly once, with a result or without one; results  *)
(* of one reactor's calls reach that reactor in the order in which they    *)
(* were published; and a shutdown gives up results, never running calls.   *)
(***************************************************************************)
EXTENDS Naturals, Sequences

CONSTANTS Jobs, Reactors, ReactorOf

VARIABLES
    outcome,  \* what became of each call
    channel,  \* per reactor, the results that wait for it, oldest first
    closed    \* no further call is accepted and no result delivered

vars == <<outcome, channel, closed>>

InChannel(j) ==
    \E i \in DOMAIN channel[ReactorOf[j]] : channel[ReactorOf[j]][i] = j

\* Accepted and not yet ended.
Running(j) == outcome[j] = "accepted" /\ ~InChannel(j)

Init ==
    /\ outcome = [j \in Jobs |-> "none"]
    /\ channel = [r \in Reactors |-> <<>>]
    /\ closed = FALSE

Accept(j) ==
    /\ ~closed
    /\ outcome[j] = "none"
    /\ outcome' = [outcome EXCEPT ![j] = "accepted"]
    /\ UNCHANGED channel
    /\ closed' = closed

Refuse(j) ==
    /\ outcome[j] = "none"
    /\ outcome' = [outcome EXCEPT ![j] = "refused"]
    /\ UNCHANGED channel
    /\ closed' = closed

Publish(j) ==
    /\ Running(j)
    /\ channel' = [channel EXCEPT ![ReactorOf[j]] = Append(@, j)]
    /\ UNCHANGED outcome
    /\ closed' = closed

Fail(j) ==
    /\ Running(j)
    /\ outcome' = [outcome EXCEPT ![j] = "failed"]
    /\ UNCHANGED channel
    /\ closed' = closed

Deliver(r) ==
    /\ ~closed
    /\ channel[r] # <<>>
    /\ outcome' = [outcome EXCEPT ![Head(channel[r])] = "delivered"]
    /\ channel' = [channel EXCEPT ![r] = Tail(@)]
    /\ closed' = closed

Close ==
    /\ ~closed
    /\ closed' = TRUE
    /\ UNCHANGED <<outcome, channel>>

Discard ==
    /\ closed
    /\ \A j \in Jobs : ~Running(j)
    /\ channel' = [r \in Reactors |-> <<>>]
    /\ outcome' = [j \in Jobs |->
                     IF outcome[j] = "accepted" THEN "discarded" ELSE outcome[j]]
    /\ closed' = closed

Next ==
    \/ \E j \in Jobs : Accept(j) \/ Refuse(j) \/ Publish(j) \/ Fail(j)
    \/ \E r \in Reactors : Deliver(r)
    \/ Close
    \/ Discard

Spec == Init /\ [][Next]_vars

Fairness ==
    /\ \A j \in Jobs : WF_vars(Publish(j) \/ Fail(j))
    /\ \A r \in Reactors : WF_vars(Deliver(r))
    /\ WF_vars(Discard)

FairSpec == Spec /\ Fairness
=============================================================================
