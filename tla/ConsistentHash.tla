--------------------------- MODULE ConsistentHash ---------------------------
(***************************************************************************)
(* The hash ring of lb/ConsistentHash.cpp. What FNV-1a makes of a name is  *)
(* arbitrary, so the hashes of a backend's virtual nodes are any set of    *)
(* numbers; two backends may share some, and share all of them if the      *)
(* configuration lists the same host and port twice.                       *)
(***************************************************************************)
EXTENDS Naturals, FiniteSets, FiniteSetsExt

CONSTANTS
    BackendCount,   \* pool.size()
    HashSize        \* 2^64: hashes are below it

ASSUME ConsistentHashAssumption ==
    /\ BackendCount \in Nat \ {0}
    /\ HashSize \in Nat \ {0}

Backends == 0 .. BackendCount - 1

Hashes == 0 .. HashSize - 1

\* The hashes of the virtual nodes of each backend.
Layout == [Backends -> (SUBSET Hashes) \ {{}}]

\* A std::map from hashes to indices; BackendCount stands for no entry.
NoNode == [h \in Hashes |-> BackendCount]

\* Mutant of AddNodes: a node takes the place of an earlier backend's.
AddNodesOver(ring, nodes, index) ==
    [h \in Hashes |-> IF h \in nodes THEN index ELSE ring[h]]

\* The virtual nodes of one backend. emplace() keeps an entry that is there.
AddNodes(ring, nodes, index) ==
    [h \in Hashes |-> IF ring[h] = BackendCount /\ h \in nodes THEN index ELSE ring[h]]

\* build()
Build(layout) ==
    LET built[i \in 0 .. BackendCount] ==
          IF i = 0 THEN NoNode ELSE AddNodes(built[i - 1], layout[i - 1], i - 1)
    IN built[BackendCount]

Nodes(ring) == {h \in Hashes : ring[h] # BackendCount}

\* The first node among `after`, or the first of all where there is none.
FirstOf(ring, after) == IF after = {} THEN Min(Nodes(ring)) ELSE Min(after)

\* Mutant of LowerBound: upper_bound().
UpperBound(ring, hash) == FirstOf(ring, {h \in Nodes(ring) : h > hash})

\* lower_bound(), and ++iterator, each with the wrap-around that follows it.
LowerBound(ring, hash) == FirstOf(ring, {h \in Nodes(ring) : h >= hash})

Following(ring, node) == FirstOf(ring, {h \in Nodes(ring) : h > node})

\* Mutant of GetBackend: the hash chooses among the healthy by number.
GetBackendModulo(ring, hash, healthy) ==
    IF healthy = {} THEN BackendCount
    ELSE CHOOSE b \in healthy :
           Cardinality({x \in healthy : x < b}) = hash % Cardinality(healthy)

\* One pass of the loop of getBackend(), from node to node, until one belongs to a
\* healthy backend or the next is the start again. HashSize as node means that
\* the loop is over, BackendCount as index is nullopt.
Pass(ring, start, healthy, s) ==
    LET next == Following(ring, s.node)
    IN IF s.node = HashSize THEN s
       ELSE IF ring[s.node] \in healthy
       THEN [node |-> HashSize, index |-> ring[s.node]]
       ELSE [node |-> IF next = start THEN HashSize ELSE next, index |-> BackendCount]

\* getBackend()
GetBackend(ring, hash, healthy) ==
    LET start == LowerBound(ring, hash)
        loop[n \in 0 .. HashSize] ==
          IF n = 0 THEN [node |-> start, index |-> BackendCount]
          ELSE Pass(ring, start, healthy, loop[n - 1])
    IN IF Nodes(ring) = {} THEN BackendCount ELSE loop[HashSize].index
=============================================================================
