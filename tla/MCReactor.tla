----------------------------- MODULE MCReactor -----------------------------
(* Instances of Reactor for TLC: a handful of requests of each kind. *)
EXTENDS Reactor, TLC

CONSTANTS f1, f2, a1, a2, s1, s2, x1, p1, b1

\* a: asynchronous, s: synchronous, x: file, p: partial, b: malformed.
MCKindOf ==
    [q \in Requests |->
        CASE q \in {a1, a2} -> "async"
          [] q \in {s1, s2} -> "sync"
          [] q = x1 -> "file"
          [] q = p1 -> "part"
          [] q = b1 -> "bad"]

FdSymmetry == Permutations(Fds)
=============================================================================
