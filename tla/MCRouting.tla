----------------------------- MODULE MCRouting -----------------------------
(* Instances of Routing for TLC. *)
EXTENDS Routing, TLC

CONSTANTS f1, f2, f3, f4, ip1

MCFds == {f1, f2, f3, f4}
MCIps == {ip1}

\* The client's hash is behind the last node; backends 0 and 1 collide, and
\* backend 2 is the same as 1 or has nodes of its own.
MCClientHash == [ip \in MCIps |-> 4]
MCLayouts ==
    {[b \in 0 .. 2 |-> IF b = 0 THEN {0, 3} ELSE IF b = 1 THEN {1, 3} ELSE third]
      : third \in {{1, 3}, {2}}}

Symmetry == Permutations(MCFds)
=============================================================================
