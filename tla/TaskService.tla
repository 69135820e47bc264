---------------------------- MODULE TaskService ----------------------------
(***************************************************************************)
(* What the task API promises its clients, with workers, connections and   *)
(* Redis commands left out. The tasks are one map. A call takes effect at  *)
(* most once, atomically, between its invocation and its answer, and the   *)
(* answer is the one of that moment. Or it is answered with the failure of *)
(* its operation: then it may have taken effect, and a call that had not   *)
(* may still do so after its answer, once, or be forgotten.                *)
(***************************************************************************)
EXTENDS Naturals, Sequences

CONSTANTS
    Calls, Requests, Ids, NoTask, NoRequest,
    Order  \* the sequence in which a set of identifiers is listed

VARIABLES
    store,    \* the task of each identifier, or NoTask
    last_id,  \* identifier given to the last task created
    calls,    \* phase, request and answer of each call
    loose     \* per call, a request answered as failed that may yet happen

vars == <<store, last_id, calls, loose>>

Init ==
    /\ store = [i \in Ids |-> NoTask]
    /\ last_id = 0
    /\ calls = [c \in Calls |-> [phase |-> "idle", req |-> NoRequest, answer |-> <<0, <<>>>>]]
    /\ loose = [c \in Calls |-> NoRequest]

Listed == Order[{i \in Ids : store[i] # NoTask}]

Found(i) == i \in Ids /\ store[i] # NoTask

\* The task a request leaves behind; an update without a title keeps the old.
After(r) ==
    [title |-> IF r.title = "" THEN store[r.id].title ELSE r.title,
     completed |-> r.completed = "true"]

\* The answer of a request that takes effect now: status and tasks shown.
AnswerNow(r) ==
    CASE r.op = "list" -> <<200, [n \in DOMAIN Listed |-> <<Listed[n], store[Listed[n]]>>]>>
      [] r.op = "create" -> <<201, <<<<last_id + 1, [title |-> r.title, completed |-> FALSE]>>>>>>
      [] r.op = "update" /\ Found(r.id) -> <<200, <<<<r.id, After(r)>>>>>>
      [] r.op = "remove" /\ Found(r.id) -> <<204, <<>>>>
      [] OTHER -> <<404, <<>>>>

FailureAnswer(r) == <<IF r.op \in {"list", "create"} THEN 503 ELSE 404, <<>>>>

Effect(r) ==
    CASE r.op = "create" ->
           /\ last_id' = last_id + 1
           /\ store' = [store EXCEPT ![last_id + 1] = [title |-> r.title, completed |-> FALSE]]
      [] r.op = "update" /\ Found(r.id) ->
           store' = [store EXCEPT ![r.id] = After(r)] /\ UNCHANGED last_id
      [] r.op = "remove" /\ Found(r.id) ->
           store' = [store EXCEPT ![r.id] = NoTask] /\ UNCHANGED last_id
      [] OTHER -> UNCHANGED <<store, last_id>>

Close(c, answer) ==
    calls' = [calls EXCEPT ![c] = [phase |-> "answered", req |-> NoRequest, answer |-> answer]]

Invoke(c, r) ==
    /\ calls[c].phase \in {"idle", "answered"}
    /\ calls' = [calls EXCEPT ![c] = [phase |-> "pending", req |-> r, answer |-> <<0, <<>>>>]]
    /\ UNCHANGED <<store, last_id, loose>>

Reject(c) ==
    /\ calls[c].phase \in {"idle", "answered"}
    /\ \E status \in {400, 503} : Close(c, <<status, <<>>>>)
    /\ UNCHANGED <<store, last_id, loose>>

TakeEffect(c) ==
    /\ calls[c].phase = "pending"
    /\ Effect(calls[c].req)
    /\ calls' = [calls EXCEPT ![c] = [phase |-> "applied", req |-> calls[c].req,
                                      answer |-> AnswerNow(calls[c].req)]]
    /\ UNCHANGED loose

Answer(c) ==
    /\ calls[c].phase = "applied"
    /\ Close(c, calls[c].answer)
    /\ UNCHANGED <<store, last_id, loose>>

GiveUp(c) ==
    /\ calls[c].phase \in {"pending", "applied"}
    /\ Close(c, FailureAnswer(calls[c].req))
    /\ \/ UNCHANGED loose
       \/ calls[c].phase = "pending" /\ loose' = [loose EXCEPT ![c] = calls[c].req]
    /\ UNCHANGED <<store, last_id>>

LateEffect(c) ==
    /\ loose[c] # NoRequest
    /\ Effect(loose[c])
    /\ loose' = [loose EXCEPT ![c] = NoRequest]
    /\ UNCHANGED calls

Forget ==
    /\ \E S \in SUBSET Calls :
         loose' = [c \in Calls |-> IF c \in S THEN NoRequest ELSE loose[c]]
    /\ UNCHANGED <<store, last_id, calls>>

Next ==
    \/ \E c \in Calls :
         \/ \E r \in Requests : Invoke(c, r)
         \/ Reject(c) \/ TakeEffect(c) \/ Answer(c) \/ GiveUp(c) \/ LateEffect(c)
    \/ Forget

Spec == Init /\ [][Next]_vars
=============================================================================
