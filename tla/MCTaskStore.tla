---------------------------- MODULE MCTaskStore ----------------------------
(* Instances of TaskStore for TLC: one request of each kind a handler tells  *)
(* apart, about the first two tasks.                                         *)
EXTENDS TaskStore, TLC

Req(op, id, title, completed) ==
    [op |-> op, id |-> id, title |-> title, completed |-> completed]

MCRequests ==
    {Req("list", 0, "", "false"), Req("create", 0, "a", "false"), Req("create", 0, "", "false"),
     Req("update", 1, "b", "true"), Req("update", 1, "", "false"), Req("update", 2, "b", "neither"),
     Req("remove", 1, "", "false"), Req("remove", 0, "", "false")}

\* A request that any worker can be given for ever, and one that ends.
MCFewRequests == {Req("list", 0, "", "false"), Req("create", 0, "a", "false")}

Symmetry == Permutations(Workers) \cup Permutations(Calls)
=============================================================================
