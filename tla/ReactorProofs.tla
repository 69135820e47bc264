--------------------------- MODULE ReactorProofs ---------------------------
(***************************************************************************)
(* Proofs about Reactor, for any set of descriptors, any requests of any   *)
(* kinds and any number of clients.                                        *)
(***************************************************************************)
EXTENDS Reactor, Induction, FiniteSetTheorems, SequenceTheorems, TLAPS

-----------------------------------------------------------------------------
(* What Complete computes. *)

\* The recursion that defines Complete has a solution.
LEMMA CompleteDef ==
    ASSUME NEW s \in Seq(Requests)
    PROVE  \E f \in [0 .. Len(s) -> Seq(Requests)] :
             /\ f[0] = <<>>
             /\ \A i \in 1 .. Len(s) :
                  f[i] = IF KindOf[s[i]] = "part" THEN f[i - 1] ELSE Append(f[i - 1], s[i])
             /\ Complete(s) = f[Len(s)]
<1> DEFINE N == Len(s)
           D == Seq(Requests)
           G == [i \in 1 .. N |-> [x \in D |->
                   IF KindOf[s[i]] = "part" THEN x ELSE Append(x, s[i])]]
           Body(g) == [n \in 0 .. N |->
                        IF n = 0 THEN <<>>
                        ELSE IF KindOf[s[n]] = "part" THEN g[n - 1]
                        ELSE Append(g[n - 1], s[n])]
           c == CHOOSE g : g = Body(g)
<1> DEFINE empty == <<>>
<1>1. N \in Nat /\ empty \in D /\ \A i \in 1 .. N : s[i] \in Requests
  OBVIOUS
<1>2. G \in [1 .. N -> [D -> D]]
  OBVIOUS
<1>0. \E f : Recurs(f, N, D, empty, G)
  <2> HIDE DEF N, D, G, empty
  <2> QED
    BY <1>1, <1>2, Recursion
<1>3. PICK f \in [0 .. N -> D] : f[0] = empty /\ \A i \in 1 .. N : f[i] = G[i][f[i - 1]]
  <2> HIDE DEF N, D, G, empty
  <2> QED
    BY <1>0 DEF Recurs
<1>4. ASSUME NEW i \in 1 .. N
      PROVE  f[i] = IF KindOf[s[i]] = "part" THEN f[i - 1] ELSE Append(f[i - 1], s[i])
  <2> DEFINE x == f[i - 1]
  <2>1. x \in D
    BY <1>1
  <2>2. f[i] = G[i][x]
    BY <1>3
  <2> HIDE DEF x
  <2>3. G[i][x] = IF KindOf[s[i]] = "part" THEN x ELSE Append(x, s[i])
    BY <2>1
  <2> QED
    BY <2>2, <2>3 DEF x
<1>5. f = Body(f)
  <2>1. ASSUME NEW n \in 0 .. N
        PROVE  f[n] = IF n = 0 THEN <<>>
                      ELSE IF KindOf[s[n]] = "part" THEN f[n - 1]
                      ELSE Append(f[n - 1], s[n])
    <3>1. CASE n = 0
      BY <1>3, <3>1
    <3>2. CASE n # 0
      <4>1. n \in 1 .. N
        BY <1>1, <3>2
      <4> QED
        BY <1>4, <3>2, <4>1, Zenon
    <3> QED
      BY <3>1, <3>2
  <2>2. f = [n \in 0 .. N |-> f[n]]
    BY <1>3
  <2> QED
    BY <2>1, <2>2
<1>6. c = Body(c)
  <2> HIDE DEF Body
  <2> QED
    BY <1>5
<1>7. c = f
  <2> DEFINE T == {n \in 0 .. N : c[n] = f[n]}
  <2>0. \A n \in 0 .. N : c[n] = Body(c)[n]
    BY <1>6
  <2> HIDE DEF c
  <2>1. 0 \in T
    BY <1>1, <1>3, <2>0
  <2>2. ASSUME NEW n \in 0 .. N - 1, n \in T PROVE n + 1 \in T
    <3>1. /\ n + 1 \in 1 .. N /\ n + 1 - 1 = n /\ n + 1 # 0 /\ n + 1 \in 0 .. N
      BY <1>1
    <3>2. c[n + 1] = IF KindOf[s[n + 1]] = "part" THEN c[n] ELSE Append(c[n], s[n + 1])
      BY <2>0, <3>1
    <3>3. f[n + 1] = IF KindOf[s[n + 1]] = "part" THEN f[n] ELSE Append(f[n], s[n + 1])
      BY <1>4, <3>1
    <3> QED
      BY <2>2, <3>1, <3>2, <3>3
  <2>3. \A n \in 0 .. N : n \in T
    <3> HIDE DEF T
    <3> QED
      BY <1>1, <2>1, <2>2, UpTo
  <2>4. c = [n \in 0 .. N |-> c[n]]
    BY <1>6
  <2> QED
    BY <2>3, <2>4
<1>8. Complete(s) = c[N]
  BY DEF Complete
<1> QED
  BY <1>3, <1>4, <1>7, <1>8

\* Complete of a sequence of requests is one, and nothing is left of nothing.
LEMMA CompleteType ==
    /\ \A s \in Seq(Requests) : Complete(s) \in Seq(Requests)
    /\ Complete(<<>>) = <<>>
<1>1. ASSUME NEW s \in Seq(Requests) PROVE Complete(s) \in Seq(Requests)
  BY CompleteDef, LenProperties
<1>2. Complete(<<>>) = <<>>
  <2> DEFINE s == <<>>
  <2>1. s \in Seq(Requests) /\ Len(s) = 0
    OBVIOUS
  <2> HIDE DEF s
  <2>2. Complete(s) = <<>>
    BY <2>1, CompleteDef
  <2> QED
    BY <2>2 DEF s
<1> QED
  BY <1>1, <1>2

\* One more request at the end.
LEMMA CompleteAppend ==
    ASSUME NEW s \in Seq(Requests), NEW q \in Requests
    PROVE  Complete(Append(s, q)) =
             IF KindOf[q] = "part" THEN Complete(s) ELSE Append(Complete(s), q)
<1> DEFINE N == Len(s)
           t == Append(s, q)
<1>1. /\ N \in Nat /\ t \in Seq(Requests) /\ Len(t) = N + 1
      /\ t[N + 1] = q /\ \A i \in 1 .. N : t[i] = s[i]
  BY AppendProperties
<1>2. PICK f : /\ f[0] = <<>> /\ Complete(s) = f[N]
               /\ \A i \in 1 .. N :
                    f[i] = IF KindOf[s[i]] = "part" THEN f[i - 1] ELSE Append(f[i - 1], s[i])
  BY CompleteDef
<1> HIDE DEF t, N
<1>a. PICK g \in [0 .. Len(t) -> Seq(Requests)] :
               /\ g[0] = <<>>
               /\ \A i \in 1 .. Len(t) :
                    g[i] = IF KindOf[t[i]] = "part" THEN g[i - 1] ELSE Append(g[i - 1], t[i])
               /\ Complete(t) = g[Len(t)]
  BY <1>1, CompleteDef
<1>3. /\ g[0] = <<>> /\ Complete(t) = g[N + 1]
      /\ \A i \in 1 .. N + 1 :
           g[i] = IF KindOf[t[i]] = "part" THEN g[i - 1] ELSE Append(g[i - 1], t[i])
  BY <1>1, <1>a
<1> DEFINE T == {n \in 0 .. N : g[n] = f[n]}
<1>4. 0 \in T
  BY <1>1, <1>2, <1>3
<1>5. ASSUME NEW n \in 0 .. N - 1, n \in T PROVE n + 1 \in T
  <2>1. n + 1 \in 1 .. N /\ n + 1 \in 0 .. N /\ n + 1 \in 1 .. N + 1 /\ n + 1 - 1 = n
    BY <1>1
  <2>2. g[n + 1] = IF KindOf[s[n + 1]] = "part" THEN g[n] ELSE Append(g[n], s[n + 1])
    BY <1>1, <1>3, <2>1, SMTT(60)
  <2>3. f[n + 1] = IF KindOf[s[n + 1]] = "part" THEN f[n] ELSE Append(f[n], s[n + 1])
    BY <1>2, <2>1
  <2> QED
    BY <1>5, <2>1, <2>2, <2>3
<1>6. \A n \in 0 .. N : n \in T
  <2> HIDE DEF T
  <2> QED
    BY <1>1, <1>4, <1>5, UpTo
<1>7. g[N] = f[N]
  BY <1>1, <1>6
<1>8. N + 1 \in 1 .. N + 1 /\ N + 1 - 1 = N
  BY <1>1
<1>9. g[N + 1] = IF KindOf[q] = "part" THEN g[N] ELSE Append(g[N], q)
  BY <1>1, <1>3, <1>8
<1> QED
  BY <1>2, <1>3, <1>7, <1>9 DEF t

\* Concatenation.
LEMMA CompleteConcat ==
    ASSUME NEW s \in Seq(Requests), NEW t \in Seq(Requests)
    PROVE  Complete(s \o t) = Complete(s) \o Complete(t)
<1> DEFINE N == Len(t)
           P(n) == SubSeq(t, 1, n)
           T == {n \in 0 .. N : Complete(s \o P(n)) = Complete(s) \o Complete(P(n))}
<1>0. N \in Nat /\ \A n \in 0 .. N : P(n) \in Seq(Requests)
  BY SubSeqProperties
<1>1. 0 \in T
  <2>1. P(0) = <<>>
    BY SubSeqEmpty
  <2>2. s \o <<>> = s /\ Complete(s) \o <<>> = Complete(s)
    BY ConcatEmptySeq, CompleteType
  <2> HIDE DEF P
  <2>3. Complete(s \o P(0)) = Complete(s) \o Complete(P(0))
    BY <2>1, <2>2, CompleteType
  <2> QED
    BY <1>0, <2>3
<1>2. ASSUME NEW n \in 0 .. N - 1, n \in T PROVE n + 1 \in T
  <2> DEFINE u == P(n)
             q == t[n + 1]
  <2>1. u \in Seq(Requests) /\ q \in Requests /\ n + 1 \in 0 .. N
    BY <1>0
  <2>2. P(n + 1) = Append(u, q)
    <3>1. /\ P(n + 1) \in Seq(Requests) /\ Append(u, q) \in Seq(Requests)
          /\ Len(P(n + 1)) = n + 1 /\ Len(Append(u, q)) = n + 1
          /\ \A i \in 1 .. n + 1 : P(n + 1)[i] = Append(u, q)[i]
      BY <1>0
    <3> HIDE DEF P, u, q
    <3> QED
      BY <3>1, SeqEqual
  <2>3. Complete(s \o u) = Complete(s) \o Complete(u)
    BY <1>2
  <2> HIDE DEF P, u, q
  <2>4. s \o Append(u, q) = Append(s \o u, q) /\ s \o u \in Seq(Requests)
    BY <2>1
  <2>5. Complete(Append(s \o u, q)) =
          IF KindOf[q] = "part" THEN Complete(s \o u) ELSE Append(Complete(s \o u), q)
    BY <2>1, <2>4, CompleteAppend
  <2>6. Complete(Append(u, q)) =
          IF KindOf[q] = "part" THEN Complete(u) ELSE Append(Complete(u), q)
    BY <2>1, CompleteAppend
  <2>7. Complete(s) \o Append(Complete(u), q) = Append(Complete(s) \o Complete(u), q)
    BY <2>1, CompleteType
  <2>8. Complete(s \o P(n + 1)) = Complete(s) \o Complete(P(n + 1))
    BY <2>2, <2>3, <2>4, <2>5, <2>6, <2>7
  <2> QED
    BY <2>1, <2>8
<1>3. \A n \in 0 .. N : n \in T
  <2> HIDE DEF T
  <2> QED
    BY <1>0, <1>1, <1>2, UpTo
<1>4. P(N) = t
  BY SubSeqFull
<1>5. N \in T
  BY <1>0, <1>3
<1>6. Complete(s \o P(N)) = Complete(s) \o Complete(P(N))
  BY <1>5
<1> HIDE DEF P
<1> QED
  BY <1>4, <1>6

\* One request at the beginning.
LEMMA CompleteHead ==
    ASSUME NEW s \in Seq(Requests), s # <<>>
    PROVE  Complete(s) = IF KindOf[Head(s)] = "part" THEN Complete(Tail(s))
                         ELSE <<Head(s)>> \o Complete(Tail(s))
<1> DEFINE q == Head(s)
           t == Tail(s)
           none == <<>>
<1>1. q \in Requests /\ t \in Seq(Requests) /\ none \in Seq(Requests)
  BY HeadTailProperties
<1>2. s = Append(none, q) \o t
  OBVIOUS
<1>3. Append(none, q) = <<q>>
  OBVIOUS
<1>4. Complete(none) = none
  BY CompleteType
<1> HIDE DEF q, t, none
<1>5. Complete(Append(none, q)) = IF KindOf[q] = "part" THEN none ELSE Append(none, q)
  BY <1>1, <1>4, CompleteAppend
<1>6. Append(none, q) \in Seq(Requests)
  BY <1>1
<1>7. Complete(s) = Complete(Append(none, q)) \o Complete(t)
  BY <1>1, <1>2, <1>6, CompleteConcat
<1>8. none \o Complete(t) = Complete(t)
  BY <1>1, CompleteType DEF none
<1>9. Complete(s) = IF KindOf[q] = "part" THEN Complete(t) ELSE <<q>> \o Complete(t)
  BY <1>3, <1>5, <1>7, <1>8
<1> QED
  BY <1>9 DEF q, t

\* Concatenation of sequences of requests.
LEMMA ConcatRequests ==
    /\ \A a, b \in Seq(Requests) : a \o b \in Seq(Requests)
    /\ \A a, b, c \in Seq(Requests) : (a \o b) \o c = a \o (b \o c)
    /\ \A a \in Seq(Requests) : a \o <<>> = a /\ <<>> \o a = a
<1>1. \A a, b \in Seq(Requests) : a \o b \in Seq(Requests)
  BY ConcatProperties
<1>2. ASSUME NEW a \in Seq(Requests), NEW b \in Seq(Requests), NEW c \in Seq(Requests)
      PROVE  (a \o b) \o c = a \o (b \o c)
  <2> DEFINE S == Requests
  <2>1. a \in Seq(S) /\ b \in Seq(S) /\ c \in Seq(S)
    OBVIOUS
  <2> HIDE DEF S
  <2> QED
    BY <2>1, ConcatAssociative
<1>3. \A a \in Seq(Requests) : a \o <<>> = a /\ <<>> \o a = a
  BY ConcatEmptySeq
<1> QED
  BY <1>1, <1>2, <1>3

\* Three of them.
LEMMA ConcatThree ==
    ASSUME NEW a \in Seq(Requests), NEW b \in Seq(Requests), NEW c \in Seq(Requests)
    PROVE  a \o (b \o c) = (a \o b) \o c
BY ConcatRequests, ZenonT(60)

\* A sequence is its first k elements and the rest.
LEMMA SplitRequests ==
    ASSUME NEW q \in Seq(Requests), NEW k \in 0 .. Len(q)
    PROVE  /\ SubSeq(q, 1, k) \in Seq(Requests) /\ SubSeq(q, k + 1, Len(q)) \in Seq(Requests)
           /\ SubSeq(q, 1, k) \o SubSeq(q, k + 1, Len(q)) = q
           /\ Len(SubSeq(q, k + 1, Len(q))) = Len(q) - k
           /\ k < Len(q) => SubSeq(q, k + 1, Len(q)) # <<>>
<1>1. Len(q) \in Nat
  OBVIOUS
<1>2. SubSeq(q, 1, k) \in Seq(Requests) /\ SubSeq(q, k + 1, Len(q)) \in Seq(Requests)
  BY <1>1
<1>3. Len(SubSeq(q, k + 1, Len(q))) = Len(q) - k
  BY <1>1
<1>4. k < Len(q) => SubSeq(q, k + 1, Len(q)) # <<>>
  <2> DEFINE b == SubSeq(q, k + 1, Len(q))
             N == Len(q)
  <2>1. Len(b) = N - k /\ N \in Nat
    BY <1>1, <1>3
  <2>2. Len(<<>>) = 0
    OBVIOUS
  <2> HIDE DEF b, N
  <2>3. k < N => b # <<>>
    BY <2>1, <2>2
  <2> QED
    BY <2>3 DEF b, N
<1>5. SubSeq(q, 1, k) \o SubSeq(q, k + 1, Len(q)) = SubSeq(q, 1, Len(q))
  <2>1. 1 \in 1 .. Len(q) + 1 /\ k \in 1 - 1 .. Len(q) /\ Len(q) \in k .. Len(q)
    BY <1>1
  <2> QED
    BY <2>1, ConcatAdjacentSubSeq
<1>6. SubSeq(q, 1, Len(q)) = q
  BY SubSeqFull
<1> QED
  BY <1>2, <1>3, <1>4, <1>5, <1>6

-----------------------------------------------------------------------------
(* Type correctness. It needs to know that a handler works on a descriptor, *)
(* and beyond its look-up on a connection without a pending call; that the  *)
(* backlog never holds more clients than there are generations left; that   *)
(* the gauge counts the connections; and that a result in the channel       *)
(* belongs to a call that has been accepted.                                *)

ConnsOK ==
    /\ conns \in [Fds -> Connection \cup {NoConn}]
    /\ \A f \in Fds : conns[f] # NoConn => Len(conns[f].output_queue) <= MAX_OUTPUT_QUEUE
    /\ GaugeCountsConnections

LoopOK ==
    /\ pc \in {"wait", "batch", "accept", "completions", "read", "parse",
               "flush", "writable", "rdhup"}
    /\ batch \subseteq [src : Sources, events : SUBSET Events]
    /\ event \in [src : Sources, events : SUBSET Events]
    /\ timer \in BOOLEAN
    /\ pc \in {"read", "parse", "flush", "writable", "rdhup"} => event.src \in Fds
    /\ pc \in {"read", "parse", "flush"} =>
         event.src \in Live /\ ~conns[event.src].redis_pending

NetOK ==
    /\ next_connection_generation \in Nat /\ backlog \in Nat
    /\ clients \in 0 .. MaxClients
    /\ next_connection_generation + backlog <= clients

CallsOK ==
    /\ closure \in [Requests -> Closure \cup {NoConn}]
    /\ outcome \in [Requests -> {"none", "refused", "accepted", "failed", "delivered"}]
    /\ channel \in [{Self} -> Seq(Requests)]
    /\ \A q \in Requests : outcome[q] = "accepted" => closure[q] \in Closure
    /\ \A i \in DOMAIN channel[Self] : outcome[channel[Self][i]] = "accepted"
    /\ \A i, j \in DOMAIN channel[Self] : channel[Self][i] = channel[Self][j] => i = j

HistoryOK ==
    /\ asked \in [Generations -> Seq(Requests)]
    /\ sent \in [Generations -> Seq(Requests)]

CoreInv == ConnsOK /\ LoopOK /\ NetOK /\ CallsOK /\ HistoryOK

\* The fields of a connection.
LEMMA ConnectionFields ==
    ASSUME NEW c \in Connection
    PROVE  /\ c.gen \in Generations /\ c.redis_pending \in BOOLEAN
           /\ c.deadline \in 0 .. (REQUEST_TIMEOUT + KEEP_ALIVE_TIMEOUT)
           /\ c.current_events \subseteq Events
           /\ c.receive_buffer \in Seq(Requests) /\ c.output_queue \in Seq(Requests)
           /\ c.socket \in Seq(Requests)
           /\ c.close_after_write \in BOOLEAN /\ c.peer \in {"open", "fin", "reset"}
BY DEF Connection

\* The connections there are, and how many.
LEMMA LiveFinite ==
    ASSUME ConnsOK
    PROVE  /\ IsFiniteSet(Live) /\ Cardinality(Live) \in Nat
           /\ \A f \in Live : f \in Fds /\ conns[f] \in Connection
           /\ \A f \in Live : Len(conns[f].output_queue) <= MAX_OUTPUT_QUEUE
<1>1. Live \subseteq Fds
  BY DEF Live
<1>2. IsFiniteSet(Live) /\ Cardinality(Live) \in Nat
  BY <1>1, ReactorAssumption, FS_Subset, FS_CardinalityType
<1> QED
  BY <1>1, <1>2 DEF ConnsOK, Live

\* A connection is changed and stays.
LEMMA KeepEffect ==
    ASSUME ConnsOK, NEW f \in Live, NEW d \in Connection,
           Len(d.output_queue) <= MAX_OUTPUT_QUEUE, Keep(f, d)
    PROVE  /\ ConnsOK' /\ Live' = Live /\ conns'[f] = d
           /\ \A g \in Fds : g # f => conns'[g] = conns[g]
<1>1. f \in Fds /\ conns' = [conns EXCEPT ![f] = d] /\ UNCHANGED active_connections
  BY DEF Live, Keep
<1>2. conns' \in [Fds -> Connection \cup {NoConn}] /\ conns'[f] = d
  BY <1>1 DEF ConnsOK
<1>3. \A g \in Fds : g # f => conns'[g] = conns[g]
  BY <1>1 DEF ConnsOK
<1>4. Live' = Live
  BY <1>2, <1>3, NoConnAssumption DEF Live
<1> QED
  BY <1>1, <1>2, <1>3, <1>4 DEF ConnsOK, GaugeCountsConnections

\* removeConnection(), for a set of descriptors.
LEMMA RemoveEffect ==
    ASSUME ConnsOK, NEW S, RemoveConnections(S)
    PROVE  /\ ConnsOK' /\ Live' = Live \ S
           /\ \A g \in Fds \ S : conns'[g] = conns[g]
<1>1. /\ conns' = [f \in Fds |-> IF f \in S THEN NoConn ELSE conns[f]]
      /\ active_connections' = active_connections - Cardinality(S \cap Live)
  BY DEF RemoveConnections
<1>2. conns' \in [Fds -> Connection \cup {NoConn}]
  BY <1>1 DEF ConnsOK
<1>3. \A g \in Fds : conns'[g] = IF g \in S THEN NoConn ELSE conns[g]
  BY <1>1
<1>4. Live' = Live \ S
  BY <1>3 DEF Live
<1>5. Cardinality(Live \ S) = Cardinality(Live) - Cardinality(Live \cap S)
  BY LiveFinite, FS_Difference
<1>6. Live \cap S = S \cap Live
  OBVIOUS
<1>7. GaugeCountsConnections'
  BY <1>1, <1>4, <1>5, <1>6 DEF ConnsOK, GaugeCountsConnections
<1> QED
  BY <1>2, <1>3, <1>4, <1>7 DEF ConnsOK

\* epoll_ctl() succeeds, or the connection goes.
LEMMA UpdateEffect ==
    ASSUME ConnsOK, NEW f \in Live, NEW c \in Connection, NEW mask \in SUBSET Events,
           Len(c.output_queue) <= MAX_OUTPUT_QUEUE, UpdateEvents(f, c, mask)
    PROVE  \/ /\ Keep(f, [c EXCEPT !.current_events = mask])
              /\ [c EXCEPT !.current_events = mask] \in Connection
              /\ Len([c EXCEPT !.current_events = mask].output_queue) <= MAX_OUTPUT_QUEUE
           \/ RemoveConnections({f})
BY DEF UpdateEvents, Connection

\* handleWrite() has turned connection c into d: what it has sent and what is
\* still queued are what was queued, and the mask fits the queue.
Wrote(c, d) ==
    /\ d \in Connection /\ Len(d.output_queue) <= MAX_OUTPUT_QUEUE
    /\ d.gen = c.gen /\ d.redis_pending = c.redis_pending
    /\ d.receive_buffer = c.receive_buffer /\ d.socket = c.socket
    /\ sent'[c.gen] \o d.output_queue = sent[c.gen] \o c.output_queue
    /\ \/ c.output_queue = <<>> /\ d = c
       \/ d.current_events = {"IN", "OUT", "RDHUP"} /\ d.output_queue # <<>>
       \/ d.current_events = {"IN", "RDHUP"} /\ d.output_queue = <<>>

\* What handleWrite() does: the connection stays with the rest of its queue,
\* or goes after a part of the queue has been sent.
LEMMA WriteEffect ==
    ASSUME ConnsOK, HistoryOK, NEW f \in Live, NEW c \in Connection,
           Len(c.output_queue) <= MAX_OUTPUT_QUEUE, HandleWrite(f, c)
    PROVE  /\ sent' \in [Generations -> Seq(Requests)]
           /\ \A g \in Generations : g # c.gen => sent'[g] = sent[g]
           /\ \/ \E d : Wrote(c, d) /\ Keep(f, d)
              \/ /\ RemoveConnections({f})
                 /\ \E u \in Seq(Requests) : sent'[c.gen] \o u = sent[c.gen] \o c.output_queue
<1> DEFINE q == c.output_queue
           s == sent[c.gen]
<1>1. /\ c.gen \in Generations /\ q \in Seq(Requests) /\ s \in Seq(Requests)
      /\ sent \in [Generations -> Seq(Requests)]
  BY ConnectionFields DEF HistoryOK
<1>2. CASE q = <<>> /\ Keep(f, c) /\ UNCHANGED sent
  BY <1>1, <1>2 DEF Wrote
<1>3. CASE q # <<>> /\ RemoveConnections({f}) /\ UNCHANGED sent
  BY <1>1, <1>3
<1>4. ASSUME NEW k \in 0 .. Len(q) - 1,
             sent' = [sent EXCEPT ![c.gen] = @ \o SubSeq(q, 1, k)],
             UpdateEvents(f, [c EXCEPT !.output_queue = SubSeq(@, k + 1, Len(@))],
                          {"IN", "OUT", "RDHUP"})
      PROVE  /\ sent' \in [Generations -> Seq(Requests)]
             /\ \A g \in Generations : g # c.gen => sent'[g] = sent[g]
             /\ \/ \E d : Wrote(c, d) /\ Keep(f, d)
                \/ /\ RemoveConnections({f})
                   /\ \E u \in Seq(Requests) : sent'[c.gen] \o u = s \o q
  <2> DEFINE a == SubSeq(q, 1, k)
             b == SubSeq(q, k + 1, Len(q))
             e == [c EXCEPT !.output_queue = b]
             d == [e EXCEPT !.current_events = {"IN", "OUT", "RDHUP"}]
  <2>1. a \in Seq(Requests) /\ b \in Seq(Requests) /\ a \o b = q /\ b # <<>> /\ Len(b) <= Len(q)
    <3>1. k \in 0 .. Len(q) /\ k < Len(q) /\ Len(q) \in Nat
      BY <1>1
    <3> HIDE DEF q
    <3>2. /\ a \in Seq(Requests) /\ b \in Seq(Requests) /\ a \o b = q /\ b # <<>>
          /\ Len(b) = Len(q) - k
      BY <1>1, <3>1, SplitRequests
    <3> QED
      BY <3>1, <3>2
  <2>2. s \o a \in Seq(Requests) /\ (s \o a) \o b = s \o q
    <3> HIDE DEF a, b, s, q
    <3>1. s \in Seq(Requests) /\ s \o a \in Seq(Requests)
      BY <1>1, <2>1, ConcatRequests
    <3>2. s \o (a \o b) = (s \o a) \o b
      BY <2>1, <3>1, ConcatThree
    <3> QED
      BY <2>1, <3>1, <3>2
  <2>3. /\ sent' \in [Generations -> Seq(Requests)]
        /\ sent'[c.gen] = s \o a
        /\ \A g \in Generations : g # c.gen => sent'[g] = sent[g]
    <3> HIDE DEF a, b
    <3> QED
      BY <1>1, <1>4, <2>2 DEF a
  <2> HIDE DEF a, b
  <2>4. /\ e \in Connection /\ e.output_queue = b /\ Len(e.output_queue) <= MAX_OUTPUT_QUEUE
        /\ e.gen = c.gen /\ e.redis_pending = c.redis_pending
        /\ e.receive_buffer = c.receive_buffer /\ e.socket = c.socket
    <3>1. Len(b) <= MAX_OUTPUT_QUEUE
      BY <1>1, <2>1, ReactorAssumption
    <3> QED
      BY <2>1, <3>1 DEF Connection
  <2>5. UpdateEvents(f, e, {"IN", "OUT", "RDHUP"})
    BY <1>4 DEF b
  <2> HIDE DEF e
  <2>6. /\ d \in Connection /\ d.current_events = {"IN", "OUT", "RDHUP"}
        /\ d.output_queue = e.output_queue /\ d.gen = e.gen
        /\ d.redis_pending = e.redis_pending
        /\ d.receive_buffer = e.receive_buffer /\ d.socket = e.socket
    BY <2>4 DEF Connection, Events
  <2>7. Keep(f, d) \/ RemoveConnections({f})
    BY <2>5 DEF UpdateEvents
  <2> HIDE DEF d
  <2>8. Wrote(c, d)
    BY <2>1, <2>2, <2>3, <2>4, <2>6 DEF Wrote
  <2> QED
    BY <2>1, <2>2, <2>3, <2>7, <2>8
<1>5. ASSUME q # <<>>, sent' = [sent EXCEPT ![c.gen] = @ \o q],
             \/ RemoveConnections({f})
             \/ UpdateEvents(f, [c EXCEPT !.output_queue = <<>>], {"IN", "RDHUP"})
      PROVE  /\ sent' \in [Generations -> Seq(Requests)]
             /\ \A g \in Generations : g # c.gen => sent'[g] = sent[g]
             /\ \/ \E d : Wrote(c, d) /\ Keep(f, d)
                \/ /\ RemoveConnections({f})
                   /\ \E u \in Seq(Requests) : sent'[c.gen] \o u = s \o q
  <2> DEFINE e == [c EXCEPT !.output_queue = <<>>]
             d == [e EXCEPT !.current_events = {"IN", "RDHUP"}]
  <2>1. s \o q \in Seq(Requests)
    BY <1>1
  <2>2. /\ sent' \in [Generations -> Seq(Requests)]
        /\ sent'[c.gen] = s \o q
        /\ \A g \in Generations : g # c.gen => sent'[g] = sent[g]
    <3> HIDE DEF q
    <3> QED
      BY <1>1, <1>5, <2>1
  <2>3. (s \o q) \o <<>> = s \o q
    BY <2>1, ConcatEmptySeq
  <2>4. /\ e \in Connection /\ e.output_queue = <<>>
        /\ e.gen = c.gen /\ e.redis_pending = c.redis_pending
        /\ e.receive_buffer = c.receive_buffer /\ e.socket = c.socket
    <3> DEFINE none == <<>>
    <3>1. none \in Seq(Requests) /\ e = [c EXCEPT !.output_queue = none]
      OBVIOUS
    <3> HIDE DEF none, e
    <3>2. e.output_queue = none
      BY <3>1 DEF Connection
    <3> QED
      BY <3>1, <3>2 DEF Connection, none
  <2>5. RemoveConnections({f}) \/ UpdateEvents(f, e, {"IN", "RDHUP"})
    BY <1>5
  <2> HIDE DEF e
  <2>6. /\ d \in Connection /\ d.current_events = {"IN", "RDHUP"}
        /\ d.output_queue = e.output_queue /\ d.gen = e.gen
        /\ d.redis_pending = e.redis_pending
        /\ d.receive_buffer = e.receive_buffer /\ d.socket = e.socket
    BY <2>4 DEF Connection, Events
  <2>7. Keep(f, d) \/ RemoveConnections({f})
    BY <2>5 DEF UpdateEvents
  <2> HIDE DEF d
  <2>8. Wrote(c, d)
    <3>1. Len(d.output_queue) <= MAX_OUTPUT_QUEUE
      BY <2>4, <2>6, ReactorAssumption
    <3> QED
      BY <2>2, <2>3, <2>4, <2>6, <3>1 DEF Wrote
  <2>9. <<>> \in Seq(Requests) /\ sent'[c.gen] \o <<>> = s \o q
    BY <2>2, <2>3
  <2> QED
    BY <2>2, <2>7, <2>8, <2>9
<1> QED
  BY <1>2, <1>3, <1>4, <1>5 DEF HandleWrite

\* queueResponse() into a queue that has room.
LEMMA QueueEffect ==
    ASSUME NEW c \in Connection, NEW q \in Requests, QueueHasRoom(c)
    PROVE  LET d == QueueResponse(c, q) IN
             /\ d \in Connection /\ Len(d.output_queue) <= MAX_OUTPUT_QUEUE
             /\ d.output_queue = Append(c.output_queue, q) /\ d.output_queue # <<>>
             /\ d.gen = c.gen /\ d.redis_pending = c.redis_pending
             /\ d.receive_buffer = c.receive_buffer /\ d.socket = c.socket
             /\ d.current_events = c.current_events
<1> DEFINE o == Append(c.output_queue, q)
           w == c.close_after_write \/ q \in Closes
           d == QueueResponse(c, q)
<1>1. /\ o \in Seq(Requests) /\ o # <<>> /\ Len(o) = Len(c.output_queue) + 1
      /\ Len(c.output_queue) \in Nat
  BY ConnectionFields, AppendProperties
<1>2. w \in BOOLEAN /\ KEEP_ALIVE_TIMEOUT \in 0 .. (REQUEST_TIMEOUT + KEEP_ALIVE_TIMEOUT)
  BY ConnectionFields, ReactorAssumption
<1>3. d = [c EXCEPT !.output_queue = o, !.close_after_write = w, !.deadline = KEEP_ALIVE_TIMEOUT]
  BY DEF QueueResponse
<1>4. Len(o) <= MAX_OUTPUT_QUEUE
  BY <1>1, ReactorAssumption DEF QueueHasRoom
<1> HIDE DEF o, w, d
<1>5. /\ d \in Connection /\ d.output_queue = o
      /\ d.gen = c.gen /\ d.redis_pending = c.redis_pending
      /\ d.receive_buffer = c.receive_buffer /\ d.socket = c.socket
      /\ d.current_events = c.current_events
  BY <1>1, <1>2, <1>3 DEF Connection
<1> QED
  BY <1>1, <1>4, <1>5 DEF d, o

\* A handler beyond its look-up works on a connection.
LEMMA AtHandler ==
    ASSUME CoreInv, pc \in {"read", "parse", "flush"}
    PROVE  /\ fd \in Live /\ fd \in Fds /\ conn \in Connection /\ ~conn.redis_pending
           /\ Len(conn.output_queue) <= MAX_OUTPUT_QUEUE
BY LiveFinite DEF CoreInv, LoopOK, fd, conn

\* HttpParser takes a request off the receive buffer.
LEMMA ConsumedEffect ==
    ASSUME CoreInv, pc = "parse", conn.receive_buffer # <<>>
    PROVE  /\ request \in Requests /\ Consumed \in Connection
           /\ Consumed.receive_buffer = Tail(conn.receive_buffer)
           /\ Consumed.output_queue = conn.output_queue
           /\ Consumed.gen = conn.gen /\ Consumed.redis_pending = conn.redis_pending
           /\ Consumed.socket = conn.socket
           /\ Consumed.current_events = conn.current_events
<1>1. conn \in Connection /\ conn.receive_buffer \in Seq(Requests)
  BY AtHandler, ConnectionFields
<1> DEFINE r == Tail(conn.receive_buffer)
<1>2. r \in Seq(Requests) /\ request \in Requests
  BY <1>1, HeadTailProperties DEF request
<1>3. Consumed = [conn EXCEPT !.receive_buffer = r]
  BY DEF Consumed
<1> HIDE DEF r
<1>4. /\ Consumed \in Connection /\ Consumed.receive_buffer = r
      /\ Consumed.output_queue = conn.output_queue
      /\ Consumed.gen = conn.gen /\ Consumed.redis_pending = conn.redis_pending
      /\ Consumed.socket = conn.socket
      /\ Consumed.current_events = conn.current_events
  BY <1>1, <1>2, <1>3 DEF Connection
<1> QED
  BY <1>2, <1>4 DEF r

\* Connection::read() moves the beginning of what the socket holds.
LEMMA ReadEffect ==
    ASSUME CoreInv, ReadData
    PROVE  \E d \in Connection :
             /\ Keep(fd, d) /\ Len(d.output_queue) <= MAX_OUTPUT_QUEUE
             /\ d.receive_buffer \o d.socket = conn.receive_buffer \o conn.socket
             /\ d.output_queue = conn.output_queue
             /\ d.gen = conn.gen /\ d.redis_pending = conn.redis_pending
             /\ d.current_events = conn.current_events
<1>1. /\ conn \in Connection /\ conn.receive_buffer \in Seq(Requests)
      /\ conn.socket \in Seq(Requests) /\ Len(conn.output_queue) <= MAX_OUTPUT_QUEUE
  BY AtHandler, ConnectionFields DEF ReadData
<1>2. PICK k \in 1 .. Len(conn.socket) :
        Keep(fd, [conn EXCEPT !.receive_buffer = @ \o SubSeq(conn.socket, 1, k),
                              !.socket = SubSeq(@, k + 1, Len(@)),
                              !.deadline = REQUEST_TIMEOUT])
  BY DEF ReadData
<1> DEFINE a == SubSeq(conn.socket, 1, k)
           b == SubSeq(conn.socket, k + 1, Len(conn.socket))
           r == conn.receive_buffer \o a
           d == [conn EXCEPT !.receive_buffer = r, !.socket = b, !.deadline = REQUEST_TIMEOUT]
<1>3. k \in 0 .. Len(conn.socket)
  BY <1>1
<1>4. a \in Seq(Requests) /\ b \in Seq(Requests) /\ a \o b = conn.socket
  BY <1>1, <1>3, SplitRequests
<1>5. Keep(fd, d)
  BY <1>2
<1> HIDE DEF a, b
<1>6. r \in Seq(Requests) /\ r \o b = conn.receive_buffer \o conn.socket
  <2> DEFINE t == conn.receive_buffer
             u == conn.socket
  <2>1. t \in Seq(Requests) /\ a \o b = u
    BY <1>1, <1>4
  <2> HIDE DEF t, u
  <2>2. t \o a \in Seq(Requests) /\ (t \o a) \o b = t \o u
    BY <1>4, <2>1, ConcatRequests
  <2> QED
    BY <2>2 DEF t, u
<1>7. REQUEST_TIMEOUT \in 0 .. (REQUEST_TIMEOUT + KEEP_ALIVE_TIMEOUT)
  BY ReactorAssumption
<1> HIDE DEF r
<1>8. /\ d \in Connection /\ d.receive_buffer = r /\ d.socket = b
      /\ d.output_queue = conn.output_queue
      /\ d.gen = conn.gen /\ d.redis_pending = conn.redis_pending
      /\ d.current_events = conn.current_events
  BY <1>1, <1>4, <1>6, <1>7 DEF Connection
<1> HIDE DEF d
<1> QED
  BY <1>1, <1>5, <1>6, <1>8

\* submit() has accepted: the connection waits, or epoll_ctl() costs it.
LEMMA PendingEffect ==
    ASSUME CoreInv, HandlePending
    PROVE  \/ RemoveConnections({fd})
           \/ \E d \in Connection :
                /\ Keep(fd, d) /\ Len(d.output_queue) <= MAX_OUTPUT_QUEUE
                /\ d.receive_buffer = Tail(conn.receive_buffer) /\ d.socket = conn.socket
                /\ d.output_queue = conn.output_queue
                /\ d.gen = conn.gen /\ d.redis_pending
                /\ d.current_events = {"RDHUP"}
<1>1. pc = "parse" /\ conn.receive_buffer # <<>>
  BY DEF HandlePending
<1>2. conn \in Connection /\ Len(conn.output_queue) <= MAX_OUTPUT_QUEUE
  BY <1>1, AtHandler
<1> DEFINE e == [Consumed EXCEPT !.redis_pending = TRUE, !.deadline = REQUEST_TIMEOUT]
           d == [e EXCEPT !.current_events = {"RDHUP"}]
<1>3. REQUEST_TIMEOUT \in 0 .. (REQUEST_TIMEOUT + KEEP_ALIVE_TIMEOUT)
  BY ReactorAssumption
<1>4. /\ Consumed \in Connection /\ Consumed.receive_buffer = Tail(conn.receive_buffer)
      /\ Consumed.output_queue = conn.output_queue /\ Consumed.gen = conn.gen
      /\ Consumed.socket = conn.socket
  BY <1>1, ConsumedEffect
<1>5. /\ e \in Connection /\ e.receive_buffer = Consumed.receive_buffer
      /\ e.output_queue = Consumed.output_queue /\ e.gen = Consumed.gen
      /\ e.socket = Consumed.socket /\ e.redis_pending
  BY <1>3, <1>4 DEF Connection
<1>6. UpdateEvents(fd, e, {"RDHUP"})
  BY DEF HandlePending
<1> HIDE DEF e
<1>7. /\ d \in Connection /\ d.receive_buffer = e.receive_buffer
      /\ d.output_queue = e.output_queue /\ d.gen = e.gen
      /\ d.socket = e.socket /\ d.redis_pending = e.redis_pending
      /\ d.current_events = {"RDHUP"}
  BY <1>5 DEF Connection, Events
<1>8. RemoveConnections({fd}) \/ Keep(fd, d)
  BY <1>6 DEF UpdateEvents
<1> HIDE DEF d
<1> QED
  BY <1>2, <1>4, <1>5, <1>7, <1>8

\* The handler's answer is queued, or the connection goes.
LEMMA RespondEffect ==
    ASSUME CoreInv, pc = "parse", conn.receive_buffer # <<>>, Respond
    PROVE  \/ RemoveConnections({fd}) /\ Return
           \/ \E d \in Connection :
                /\ Keep(fd, d) /\ Len(d.output_queue) <= MAX_OUTPUT_QUEUE
                /\ d.receive_buffer = Tail(conn.receive_buffer) /\ d.socket = conn.socket
                /\ d.output_queue = Append(conn.output_queue, request)
                /\ d.output_queue # <<>>
                /\ d.gen = conn.gen /\ d.redis_pending = conn.redis_pending
                /\ d.current_events = conn.current_events
                /\ pc' \in {"flush", "parse"} /\ UNCHANGED event
<1>1. CASE RemoveConnections({fd}) /\ Return
  BY <1>1
<1>2. CASE /\ QueueHasRoom(conn)
           /\ Keep(fd, QueueResponse(Consumed, request))
           /\ pc' \in {"flush", "parse"} /\ UNCHANGED event
  <2>1. /\ request \in Requests /\ Consumed \in Connection
        /\ Consumed.receive_buffer = Tail(conn.receive_buffer)
        /\ Consumed.output_queue = conn.output_queue
        /\ Consumed.gen = conn.gen /\ Consumed.redis_pending = conn.redis_pending
        /\ Consumed.socket = conn.socket
        /\ Consumed.current_events = conn.current_events
    BY ConsumedEffect
  <2>2. QueueHasRoom(Consumed)
    BY <1>2, <2>1 DEF QueueHasRoom
  <2> DEFINE d == QueueResponse(Consumed, request)
  <2>3. /\ d \in Connection /\ Len(d.output_queue) <= MAX_OUTPUT_QUEUE
        /\ d.output_queue = Append(Consumed.output_queue, request) /\ d.output_queue # <<>>
        /\ d.gen = Consumed.gen /\ d.redis_pending = Consumed.redis_pending
        /\ d.receive_buffer = Consumed.receive_buffer /\ d.socket = Consumed.socket
        /\ d.current_events = Consumed.current_events
    BY <2>1, <2>2, QueueEffect
  <2> HIDE DEF d
  <2>4. Keep(fd, d)
    BY <1>2 DEF d
  <2> QED
    BY <1>2, <2>1, <2>3, <2>4
<1> QED
  BY <1>1, <1>2 DEF Respond

\* The oldest result in the channel belongs to an accepted call; its answer is
\* queued for the connection the call was made for, if that still waits.
LEMMA CompletionEffect ==
    ASSUME CoreInv, CompleteAsyncResponse
    PROVE  LET q == Head(channel[Self])
               cl == closure[q]
           IN /\ q \in Requests /\ outcome[q] = "accepted" /\ cl \in Closure
              /\ outcome' = [outcome EXCEPT ![q] = "delivered"]
              /\ \/ ~IsCurrent(cl) /\ UNCHANGED <<conns, active_connections, sent>>
                 \/ IsCurrent(cl) /\ RemoveConnections({cl.fd}) /\ UNCHANGED sent
                 \/ /\ IsCurrent(cl)
                    /\ \E c \in Connection :
                         /\ HandleWrite(cl.fd, c) /\ Len(c.output_queue) <= MAX_OUTPUT_QUEUE
                         /\ c.output_queue = Append(conns[cl.fd].output_queue, q)
                         /\ c.output_queue # <<>>
                         /\ c.gen = conns[cl.fd].gen /\ ~c.redis_pending
                         /\ c.receive_buffer = conns[cl.fd].receive_buffer
                         /\ c.socket = conns[cl.fd].socket
<1> DEFINE q == Head(channel[Self])
           cl == closure[q]
           o == conns[cl.fd]
           e == [o EXCEPT !.redis_pending = FALSE]
<1>1. channel[Self] \in Seq(Requests) /\ channel[Self] # <<>>
  BY DEF CompleteAsyncResponse, CoreInv, CallsOK
<1>2. q \in Requests /\ 1 \in DOMAIN channel[Self] /\ q = channel[Self][1]
  BY <1>1
<1>3. outcome[q] = "accepted" /\ cl \in Closure
  BY <1>2 DEF CoreInv, CallsOK
<1>4. outcome' = [outcome EXCEPT ![q] = "delivered"]
  BY DEF CompleteAsyncResponse, Calls!Deliver
<1>5. \/ ~IsCurrent(cl) /\ UNCHANGED <<conns, active_connections, sent>>
      \/ IsCurrent(cl) /\ RemoveConnections({cl.fd}) /\ UNCHANGED sent
      \/ IsCurrent(cl) /\ QueueHasRoom(o) /\ HandleWrite(cl.fd, QueueResponse(e, q))
  BY DEF CompleteAsyncResponse
<1>6. ASSUME IsCurrent(cl), QueueHasRoom(o), HandleWrite(cl.fd, QueueResponse(e, q))
      PROVE  \E c \in Connection :
               /\ HandleWrite(cl.fd, c) /\ Len(c.output_queue) <= MAX_OUTPUT_QUEUE
               /\ c.output_queue = Append(o.output_queue, q)
               /\ c.output_queue # <<>>
               /\ c.gen = o.gen /\ ~c.redis_pending
               /\ c.receive_buffer = o.receive_buffer
               /\ c.socket = o.socket
  <2>1. o \in Connection
    BY <1>6, LiveFinite DEF IsCurrent, CoreInv
  <2> HIDE DEF q, cl, o
  <2>2. /\ e \in Connection /\ ~e.redis_pending /\ e.output_queue = o.output_queue
        /\ e.gen = o.gen /\ e.receive_buffer = o.receive_buffer /\ e.socket = o.socket
    BY <2>1 DEF Connection
  <2>3. QueueHasRoom(e)
    BY <1>6, <2>2 DEF QueueHasRoom
  <2> HIDE DEF e
  <2> DEFINE c == QueueResponse(e, q)
  <2>4. /\ c \in Connection /\ Len(c.output_queue) <= MAX_OUTPUT_QUEUE
        /\ c.output_queue = Append(e.output_queue, q) /\ c.output_queue # <<>>
        /\ c.gen = e.gen /\ c.redis_pending = e.redis_pending
        /\ c.receive_buffer = e.receive_buffer /\ c.socket = e.socket
    BY <1>2, <2>2, <2>3, QueueEffect
  <2> HIDE DEF c
  <2>5. HandleWrite(cl.fd, c)
    BY <1>6 DEF c
  <2> QED
    BY <2>2, <2>4, <2>5
<1> HIDE DEF q, cl, o, e
<1>7. /\ q \in Requests /\ outcome[q] = "accepted" /\ cl \in Closure
      /\ outcome' = [outcome EXCEPT ![q] = "delivered"]
      /\ \/ ~IsCurrent(cl) /\ UNCHANGED <<conns, active_connections, sent>>
         \/ IsCurrent(cl) /\ RemoveConnections({cl.fd}) /\ UNCHANGED sent
         \/ /\ IsCurrent(cl)
            /\ \E c \in Connection :
                 /\ HandleWrite(cl.fd, c) /\ Len(c.output_queue) <= MAX_OUTPUT_QUEUE
                 /\ c.output_queue = Append(o.output_queue, q)
                 /\ c.output_queue # <<>>
                 /\ c.gen = o.gen /\ ~c.redis_pending
                 /\ c.receive_buffer = o.receive_buffer
                 /\ c.socket = o.socket
  BY <1>2, <1>3, <1>4, <1>5, <1>6
<1> QED
  BY <1>7 DEF q, cl, o

\* The initial state.
LEMMA InitCoreInv == Init => CoreInv
<1> SUFFICES ASSUME Init PROVE CoreInv
  OBVIOUS
<1>1. Live = {}
  BY DEF Init, Live
<1>2. ConnsOK
  BY <1>1, FS_EmptySet DEF Init, ConnsOK, GaugeCountsConnections
<1>3. LoopOK
  BY DEF Init, LoopOK, NoEvent, Sources, Events
<1>4. NetOK
  BY ReactorAssumption DEF Init, NetOK
<1>5. CallsOK
  BY DEF Init, CallsOK, Calls!Init
<1>6. HistoryOK
  BY DEF Init, HistoryOK
<1> QED
  BY <1>2, <1>3, <1>4, <1>5, <1>6 DEF CoreInv

\* A connection is accepted.
LEMMA AcceptEffect ==
    ASSUME CoreInv, NEW f \in Fds, AcceptOne(f)
    PROVE  /\ ConnsOK' /\ Live' = Live \cup {f} /\ f \notin Live
           /\ next_connection_generation + 1 \in Generations
           /\ conns'[f].gen = next_connection_generation + 1 /\ ~conns'[f].redis_pending
           /\ conns'[f].output_queue = <<>> /\ conns'[f].receive_buffer = <<>>
           /\ conns'[f].socket = <<>> /\ conns'[f].current_events = {"IN", "RDHUP"}
           /\ \A g \in Fds : g # f => conns'[g] = conns[g]
<1> DEFINE n == next_connection_generation + 1
           d == [gen |-> n, redis_pending |-> FALSE, deadline |-> REQUEST_TIMEOUT,
                 current_events |-> {"IN", "RDHUP"}, receive_buffer |-> <<>>,
                 output_queue |-> <<>>, close_after_write |-> FALSE,
                 socket |-> <<>>, peer |-> "open"]
<1>1. n \in Generations
  BY ReactorAssumption DEF CoreInv, NetOK, AcceptOne, Generations
<1>2. f \notin Live /\ conns' = [conns EXCEPT ![f] = d]
      /\ active_connections' = active_connections + 1
  BY DEF AcceptOne
<1> HIDE DEF n
<1>3. d \in Connection
  BY <1>1, ReactorAssumption DEF Connection, Events
<1>4. /\ d.gen = n /\ ~d.redis_pending /\ d.output_queue = <<>> /\ d.receive_buffer = <<>>
      /\ d.socket = <<>> /\ d.current_events = {"IN", "RDHUP"} /\ Len(d.output_queue) = 0
  OBVIOUS
<1> HIDE DEF d
<1>5. /\ conns' \in [Fds -> Connection \cup {NoConn}] /\ conns'[f] = d
      /\ \A g \in Fds : g # f => conns'[g] = conns[g]
  BY <1>2, <1>3 DEF CoreInv, ConnsOK
<1>6. Live' = Live \cup {f}
  BY <1>3, <1>5, NoConnAssumption DEF Live
<1>7. Cardinality(Live \cup {f}) = Cardinality(Live) + 1
  BY <1>2, LiveFinite, FS_AddElement DEF CoreInv
<1>8. GaugeCountsConnections'
  BY <1>2, <1>6, <1>7 DEF GaugeCountsConnections, CoreInv, ConnsOK
<1>9. ConnsOK'
  BY <1>4, <1>5, <1>8, ReactorAssumption DEF CoreInv, ConnsOK
<1> QED
  BY <1>1, <1>2, <1>4, <1>5, <1>6, <1>9 DEF n

\* A connection with another deadline.
LEMMA DeadlineReplaced ==
    ASSUME NEW c \in Connection, NEW k \in 0 .. (REQUEST_TIMEOUT + KEEP_ALIVE_TIMEOUT),
           NEW d, d = [c EXCEPT !.deadline = k]
    PROVE  /\ d \in Connection
           /\ d.gen = c.gen /\ d.redis_pending = c.redis_pending
           /\ d.output_queue = c.output_queue /\ d.receive_buffer = c.receive_buffer
           /\ d.socket = c.socket /\ d.current_events = c.current_events
<1> DEFINE D == 0 .. (REQUEST_TIMEOUT + KEEP_ALIVE_TIMEOUT)
           S == Seq(Requests)
           M == SUBSET Events
           C == [gen : Generations, redis_pending : BOOLEAN, deadline : D,
                 current_events : M, receive_buffer : S, output_queue : S,
                 close_after_write : BOOLEAN, socket : S, peer : {"open", "fin", "reset"}]
<1>1. c \in C /\ k \in D
  BY DEF Connection
<1> HIDE DEF D, S, M
<1>2. /\ d \in C
      /\ d.gen = c.gen /\ d.redis_pending = c.redis_pending
      /\ d.output_queue = c.output_queue /\ d.receive_buffer = c.receive_buffer
      /\ d.socket = c.socket /\ d.current_events = c.current_events
  BY <1>1
<1> QED
  BY <1>2 DEF Connection, D, S, M

\* A second passes: only deadlines change.
LEMMA TickEffect ==
    ASSUME CoreInv, Tick
    PROVE  /\ ConnsOK' /\ Live' = Live
           /\ \A f \in Live :
                /\ conns'[f].gen = conns[f].gen
                /\ conns'[f].redis_pending = conns[f].redis_pending
                /\ conns'[f].output_queue = conns[f].output_queue
                /\ conns'[f].receive_buffer = conns[f].receive_buffer
                /\ conns'[f].socket = conns[f].socket
                /\ conns'[f].current_events = conns[f].current_events
<1>1. conns' = [f \in Fds |->
         IF f \in Live /\ conns[f].deadline > 0
           THEN [conns[f] EXCEPT !.deadline = @ - 1] ELSE conns[f]]
  BY DEF Tick
<1>2. ASSUME NEW f \in Live
      PROVE  /\ conns'[f] \in Connection
             /\ conns'[f].gen = conns[f].gen
             /\ conns'[f].redis_pending = conns[f].redis_pending
             /\ conns'[f].output_queue = conns[f].output_queue
             /\ conns'[f].receive_buffer = conns[f].receive_buffer
             /\ conns'[f].socket = conns[f].socket
             /\ conns'[f].current_events = conns[f].current_events
  <2> DEFINE c == conns[f]
             k == c.deadline - 1
  <2>1. f \in Fds /\ c \in Connection
    BY LiveFinite DEF CoreInv
  <2>2. conns'[f] = IF c.deadline > 0 THEN [c EXCEPT !.deadline = k] ELSE c
    BY <1>1, <2>1
  <2> HIDE DEF c
  <2>3. c.deadline > 0 => k \in 0 .. (REQUEST_TIMEOUT + KEEP_ALIVE_TIMEOUT)
    BY <2>1, ConnectionFields, ReactorAssumption
  <2> HIDE DEF k
  <2>4. CASE c.deadline > 0
    <3>1. conns'[f] = [c EXCEPT !.deadline = k]
      BY <2>2, <2>4
    <3> QED
      BY <2>1, <2>3, <2>4, <3>1, DeadlineReplaced DEF c
  <2>5. CASE ~(c.deadline > 0)
    BY <2>1, <2>2, <2>5 DEF c
  <2> QED
    BY <2>4, <2>5
<1>3. \A f \in Fds : f \notin Live => conns'[f] = NoConn
  BY <1>1 DEF Live
<1>4. conns' \in [Fds -> Connection \cup {NoConn}]
  <2>1. \A f \in Fds : conns'[f] \in Connection \cup {NoConn}
    BY <1>2, <1>3
  <2>2. conns' = [f \in Fds |-> conns'[f]]
    BY <1>1
  <2> QED
    BY <2>1, <2>2
<1>5. Live' = Live
  <2>1. Live' = {f \in Fds : conns'[f] # NoConn} /\ Live \subseteq Fds
    BY DEF Live
  <2> QED
    BY <1>2, <1>3, <2>1, NoConnAssumption
<1>6. GaugeCountsConnections'
  BY <1>5 DEF Tick, reactorVars, GaugeCountsConnections, CoreInv, ConnsOK
<1>7. \A f \in Fds : conns'[f] # NoConn => Len(conns'[f].output_queue) <= MAX_OUTPUT_QUEUE
  BY <1>2, <1>3, LiveFinite DEF CoreInv
<1> QED
  BY <1>2, <1>4, <1>5, <1>6, <1>7 DEF ConnsOK

\* A client sends a request.
LEMMA SendEffect ==
    ASSUME CoreInv, NEW f \in Fds, NEW q \in Requests, Send(f, q)
    PROVE  /\ f \in Live
           /\ \E d \in Connection :
                /\ Keep(f, d) /\ Len(d.output_queue) <= MAX_OUTPUT_QUEUE
                /\ d.socket = Append(conns[f].socket, q)
                /\ d.receive_buffer = conns[f].receive_buffer
                /\ d.output_queue = conns[f].output_queue
                /\ d.gen = conns[f].gen /\ d.redis_pending = conns[f].redis_pending
                /\ d.current_events = conns[f].current_events
<1> DEFINE c == conns[f]
           s == Append(c.socket, q)
           d == [c EXCEPT !.socket = s]
<1>1. /\ f \in Live /\ conns' = [conns EXCEPT ![f] = d] /\ UNCHANGED active_connections
  BY DEF Send, reactorVars, CoreInv, ConnsOK
<1>2. c \in Connection /\ Len(c.output_queue) <= MAX_OUTPUT_QUEUE
  BY <1>1, LiveFinite DEF CoreInv
<1> HIDE DEF c
<1>3. s \in Seq(Requests)
  BY <1>2, ConnectionFields
<1> HIDE DEF s
<1>4. /\ d \in Connection /\ d.socket = s /\ d.receive_buffer = c.receive_buffer
      /\ d.output_queue = c.output_queue /\ d.gen = c.gen
      /\ d.redis_pending = c.redis_pending /\ d.current_events = c.current_events
  BY <1>2, <1>3 DEF Connection
<1> HIDE DEF d
<1>5. Keep(f, d)
  BY <1>1 DEF Keep
<1> QED
  BY <1>1, <1>2, <1>4, <1>5 DEF c, s

\* A client leaves.
LEMMA HangupEffect ==
    ASSUME CoreInv, NEW f \in Fds, NEW how \in {"fin", "reset"}, Hangup(f, how)
    PROVE  /\ f \in Live
           /\ \E d \in Connection :
                /\ Keep(f, d) /\ Len(d.output_queue) <= MAX_OUTPUT_QUEUE
                /\ d.socket = conns[f].socket
                /\ d.receive_buffer = conns[f].receive_buffer
                /\ d.output_queue = conns[f].output_queue
                /\ d.gen = conns[f].gen /\ d.redis_pending = conns[f].redis_pending
                /\ d.current_events = conns[f].current_events
<1> DEFINE c == conns[f]
           d == [c EXCEPT !.peer = how]
<1>1. /\ f \in Live /\ conns' = [conns EXCEPT ![f] = d] /\ UNCHANGED active_connections
  BY DEF Hangup, reactorVars, CoreInv, ConnsOK
<1>2. c \in Connection /\ Len(c.output_queue) <= MAX_OUTPUT_QUEUE
  BY <1>1, LiveFinite DEF CoreInv
<1> HIDE DEF c
<1>3. /\ d \in Connection /\ d.socket = c.socket /\ d.receive_buffer = c.receive_buffer
      /\ d.output_queue = c.output_queue /\ d.gen = c.gen
      /\ d.redis_pending = c.redis_pending /\ d.current_events = c.current_events
  BY <1>2 DEF Connection
<1> HIDE DEF d
<1>4. Keep(f, d)
  BY <1>1 DEF Keep
<1> QED
  BY <1>1, <1>2, <1>3, <1>4 DEF c

\* Steps that leave the connections alone.
ConnsIdle ==
    \/ Wait \/ BatchDone \/ AcceptFails \/ AcceptDone \/ ReadWouldBlock \/ ParseNeedsMore
    \/ CompletionsDone \/ Connect \/ (\E q \in Requests : WorkerEnds(q)) \/ UNCHANGED vars

\* What such a step leaves alone.
LEMMA IdleEffect == ConnsIdle => UNCHANGED <<conns, active_connections, asked, sent, closure>>
BY DEF ConnsIdle, Wait, BatchDone, AcceptFails, AcceptDone, ReadWouldBlock, ParseNeedsMore,
       CompletionsDone, Connect, WorkerEnds, reactorVars, vars

\* Every step keeps the connections well formed and counted.
LEMMA NextConnsOK == CoreInv /\ [Next]_vars => ConnsOK'
<1> SUFFICES ASSUME CoreInv, [Next]_vars PROVE ConnsOK'
  OBVIOUS
<1>0. ConnsOK /\ HistoryOK
  BY DEF CoreInv
<1>a. ASSUME UNCHANGED <<conns, active_connections>> PROVE ConnsOK'
  BY <1>0, <1>a DEF ConnsOK, GaugeCountsConnections, Live
<1>b. ASSUME NEW f \in Live, NEW c \in Connection, Len(c.output_queue) <= MAX_OUTPUT_QUEUE,
             HandleWrite(f, c)
      PROVE  ConnsOK'
  <2>1. \/ \E d : Wrote(c, d) /\ Keep(f, d)
        \/ RemoveConnections({f})
    BY <1>0, <1>b, WriteEffect
  <2>2. ASSUME NEW d, Wrote(c, d), Keep(f, d) PROVE ConnsOK'
    BY <1>0, <2>2, KeepEffect DEF Wrote
  <2> QED
    BY <1>0, <2>1, <2>2, RemoveEffect
<1>1. CASE ConnsIdle
  BY <1>1, <1>a, IdleEffect
<1>2. ASSUME NEW e \in batch, HandleTimer(e) \/ HandleEvent(e) PROVE ConnsOK'
  BY <1>0, <1>2, <1>a, RemoveEffect DEF HandleTimer, HandleEvent
<1>3. ASSUME NEW f \in Fds, AcceptOne(f) PROVE ConnsOK'
  BY <1>3, AcceptEffect
<1>4. CASE ReadData
  BY <1>0, <1>4, ReadEffect, AtHandler, KeepEffect DEF ReadData
<1>5. CASE ReadEnds \/ ParseBad
  BY <1>0, <1>5, RemoveEffect DEF ReadEnds, ParseBad
<1>6. CASE ParsePart
  <2>1. pc = "parse" /\ conn.receive_buffer # <<>> /\ Keep(fd, Consumed)
    BY <1>6 DEF ParsePart
  <2>2. /\ Consumed \in Connection /\ Consumed.output_queue = conn.output_queue
        /\ Len(conn.output_queue) <= MAX_OUTPUT_QUEUE /\ fd \in Live
    BY <2>1, AtHandler, ConsumedEffect
  <2> QED
    BY <1>0, <2>1, <2>2, KeepEffect
<1>7. CASE HandleSync \/ HandleRefused
  <2>1. pc = "parse" /\ conn.receive_buffer # <<>> /\ Respond
    BY <1>7 DEF HandleSync, HandleRefused
  <2>2. \/ RemoveConnections({fd})
        \/ \E d \in Connection : Keep(fd, d) /\ Len(d.output_queue) <= MAX_OUTPUT_QUEUE
    BY <2>1, RespondEffect
  <2>3. fd \in Live
    BY <2>1, AtHandler
  <2> QED
    BY <1>0, <2>2, <2>3, KeepEffect, RemoveEffect
<1>8. CASE HandlePending
  <2>1. \/ RemoveConnections({fd})
        \/ \E d \in Connection : Keep(fd, d) /\ Len(d.output_queue) <= MAX_OUTPUT_QUEUE
    BY <1>8, PendingEffect
  <2>2. fd \in Live
    BY <1>8, AtHandler DEF HandlePending
  <2> QED
    BY <1>0, <2>1, <2>2, KeepEffect, RemoveEffect
<1>9. CASE Flush
  BY <1>9, <1>b, AtHandler DEF Flush
<1>10. CASE Writable
  <2>1. CASE fd \in Live /\ HandleWrite(fd, conn)
    <3>1. conn \in Connection /\ Len(conn.output_queue) <= MAX_OUTPUT_QUEUE
      BY <1>0, <2>1, LiveFinite DEF conn
    <3> QED
      BY <1>b, <2>1, <3>1
  <2> QED
    BY <1>10, <1>a, <2>1 DEF Writable
<1>11. CASE Rdhup
  BY <1>0, <1>11, <1>a, RemoveEffect DEF Rdhup
<1>12. CASE CompleteAsyncResponse
  <2> DEFINE cl == closure[Head(channel[Self])]
  <2>1. \/ UNCHANGED <<conns, active_connections>>
        \/ RemoveConnections({cl.fd})
        \/ /\ IsCurrent(cl)
           /\ \E c \in Connection :
                HandleWrite(cl.fd, c) /\ Len(c.output_queue) <= MAX_OUTPUT_QUEUE
    BY <1>12, CompletionEffect
  <2>2. IsCurrent(cl) => cl.fd \in Live
    BY DEF IsCurrent
  <2> HIDE DEF cl
  <2> QED
    BY <1>0, <1>a, <1>b, <2>1, <2>2, RemoveEffect
<1>13. ASSUME NEW f \in Fds, NEW q \in Requests, Send(f, q) PROVE ConnsOK'
  BY <1>0, <1>13, SendEffect, KeepEffect
<1>14. ASSUME NEW f \in Fds, NEW how \in {"fin", "reset"}, Hangup(f, how) PROVE ConnsOK'
  BY <1>0, <1>14, HangupEffect, KeepEffect
<1>15. CASE Tick
  BY <1>15, TickEffect
<1> QED
  BY <1>1, <1>2, <1>3, <1>4, <1>5, <1>6, <1>7, <1>8, <1>9, <1>10, <1>11, <1>12, <1>13, <1>14,
     <1>15 DEF Next, ReactorStep, HandleClientStep, Environment, ConnsIdle

\* What epoll returns is a set of events.
LEMMA ReadyType ==
    ASSUME CoreInv, NEW W
    PROVE  ReadySources(W) \subseteq [src : Sources, events : SUBSET Events]
<1>1. ASSUME NEW f \in Fds, NEW w PROVE Ready(f, w) \subseteq Events
  <2>1. CASE conns[f] = NoConn
    BY <2>1 DEF Ready
  <2>2. CASE conns[f] # NoConn
    <3>1. conns[f] \in Connection
      BY <2>2 DEF CoreInv, ConnsOK
    <3>2. conns[f].current_events \subseteq Events
      BY <3>1, ConnectionFields
    <3> QED
      BY <3>2 DEF Ready, Events
  <2> QED
    BY <2>1, <2>2
<1>2. \A f \in Fds : [src |-> f, events |-> Ready(f, f \in W)] \in [src : Sources, events : SUBSET Events]
  BY <1>1 DEF Sources
<1>3. \A s \in {"listen", "timer", "completion"} :
        [src |-> s, events |-> {"IN"}] \in [src : Sources, events : SUBSET Events]
  BY DEF Sources, Events
<1> QED
  BY <1>2, <1>3 DEF ReadySources

\* Every step keeps the loop's variables well typed and a handler on the
\* connection it looked up.
LEMMA NextLoopOK == CoreInv /\ [Next]_vars => LoopOK'
<1> SUFFICES ASSUME CoreInv, [Next]_vars PROVE LoopOK'
  OBVIOUS
<1> DEFINE EventType == [src : Sources, events : SUBSET Events]
<1>0. LoopOK /\ ConnsOK /\ NoEvent \in EventType
  BY DEF CoreInv, NoEvent, Sources, Events
<1>a. ASSUME Return, UNCHANGED <<batch, timer>> PROVE LoopOK'
  BY <1>0, <1>a DEF Return, LoopOK
<1>b. ASSUME NEW d, fd \in Live, d \in Connection, Len(d.output_queue) <= MAX_OUTPUT_QUEUE,
             Keep(fd, d), ~d.redis_pending, pc \in {"read", "parse", "flush"},
             pc' \in {"read", "parse", "flush"}, UNCHANGED <<batch, event, timer>>
      PROVE  LoopOK'
  <2>1. fd \in Live' /\ ~conns'[fd].redis_pending
    BY <1>0, <1>b, KeepEffect
  <2>2. event' = event /\ fd = event.src
    BY <1>b DEF fd
  <2> QED
    BY <1>0, <1>b, <2>1, <2>2 DEF LoopOK
<1>c. ASSUME pc' \in {"writable", "rdhup"}, pc \in {"read", "parse", "flush", "writable", "rdhup"},
             UNCHANGED <<batch, event, timer>>
      PROVE  LoopOK'
  BY <1>0, <1>c DEF LoopOK
<1>d. ASSUME pc' \notin {"read", "parse", "flush", "writable", "rdhup"}, pc' \in {pc, "wait", "batch", "accept", "completions"},
             batch' \subseteq EventType, UNCHANGED event, timer' \in BOOLEAN
      PROVE  LoopOK'
  BY <1>0, <1>d DEF LoopOK
<1>1. CASE Wait
  BY <1>0, <1>1, <1>d, ReadyType DEF Wait, LoopOK
<1>2. CASE BatchDone
  BY <1>0, <1>2, <1>d DEF BatchDone, LoopOK
<1>3. ASSUME NEW e \in batch, HandleTimer(e) PROVE LoopOK'
  BY <1>0, <1>3, <1>d DEF HandleTimer, Take, LoopOK
<1>4. ASSUME NEW e \in batch, HandleEvent(e) PROVE LoopOK'
  <2>1. batch' \subseteq EventType /\ UNCHANGED timer /\ e \in EventType
    BY <1>0, <1>4 DEF HandleEvent, Take, LoopOK
  <2>2. CASE pc' \in {"accept", "completions"} /\ event' = e
    BY <1>0, <2>1, <2>2 DEF LoopOK
  <2>3. CASE Return
    BY <1>0, <2>1, <2>3 DEF LoopOK, Return
  <2>4. CASE /\ e.src \in Fds /\ event' = e /\ UNCHANGED conns
             /\ pc' = IF "IN" \in e.events /\ MayRead(e.src) THEN "read" ELSE "writable"
    <3>1. Live' = Live
      BY <2>4 DEF Live
    <3> QED
      BY <1>0, <2>1, <2>4, <3>1 DEF LoopOK, MayRead
  <2> QED
    BY <1>4, <2>2, <2>3, <2>4 DEF HandleEvent
<1>5. CASE AcceptFails \/ (\E f \in Fds : AcceptOne(f))
  BY <1>0, <1>5, <1>d DEF AcceptFails, AcceptOne, loopVars, LoopOK
<1>6. CASE AcceptDone \/ ReadEnds \/ ParseBad \/ CompletionsDone \/ Rdhup
  BY <1>6, <1>a DEF AcceptDone, ReadEnds, ParseBad, CompletionsDone, Rdhup
<1>7. CASE ReadData
  <2>1. fd \in Live /\ ~conn.redis_pending
    BY <1>7, AtHandler DEF ReadData
  <2>2. PICK d \in Connection : /\ Keep(fd, d) /\ Len(d.output_queue) <= MAX_OUTPUT_QUEUE
                                /\ d.redis_pending = conn.redis_pending
    BY <1>7, ReadEffect
  <2>3. pc = "read" /\ pc' = "parse" /\ UNCHANGED <<batch, event, timer>>
    BY <1>7 DEF ReadData
  <2> QED
    BY <1>b, <2>1, <2>2, <2>3
<1>8. CASE ReadWouldBlock \/ ParseNeedsMore
  <2>1. Live' = Live /\ pc \in {"read", "parse"} /\ pc' \in {"read", "flush"}
        /\ UNCHANGED <<conns, batch, event, timer>>
    BY <1>8 DEF ReadWouldBlock, ParseNeedsMore, Live
  <2> QED
    BY <1>0, <2>1 DEF LoopOK
<1>9. CASE ParsePart
  <2>1. pc = "parse" /\ conn.receive_buffer # <<>> /\ Keep(fd, Consumed)
        /\ UNCHANGED <<pc, batch, event, timer>>
    BY <1>9 DEF ParsePart, loopVars
  <2>2. /\ Consumed \in Connection /\ Consumed.output_queue = conn.output_queue
        /\ Len(conn.output_queue) <= MAX_OUTPUT_QUEUE /\ fd \in Live
        /\ ~Consumed.redis_pending
    BY <2>1, AtHandler, ConsumedEffect
  <2> QED
    BY <1>b, <2>1, <2>2
<1>10. CASE HandleSync \/ HandleRefused
  <2>1. pc = "parse" /\ conn.receive_buffer # <<>> /\ Respond /\ UNCHANGED <<batch, timer>>
    BY <1>10 DEF HandleSync, HandleRefused
  <2>2. fd \in Live /\ ~conn.redis_pending
    BY <2>1, AtHandler
  <2>3. CASE Return
    BY <1>a, <2>1, <2>3
  <2>4. ASSUME NEW d \in Connection, Keep(fd, d), Len(d.output_queue) <= MAX_OUTPUT_QUEUE,
               d.redis_pending = conn.redis_pending, pc' \in {"flush", "parse"}, UNCHANGED event
        PROVE  LoopOK'
    BY <1>b, <2>1, <2>2, <2>4
  <2> QED
    BY <2>1, <2>3, <2>4, RespondEffect
<1>11. CASE HandlePending \/ Flush \/ Writable
  BY <1>11, <1>c DEF HandlePending, Flush, Writable
<1>12. CASE CompleteAsyncResponse
  BY <1>0, <1>12, <1>d DEF CompleteAsyncResponse, loopVars, LoopOK
<1>13. CASE Environment \/ Tick
  <2>1. /\ pc \in {"wait", "batch"} /\ UNCHANGED <<pc, batch, event>> /\ timer' \in BOOLEAN
    BY <1>0, <1>13 DEF Environment, Tick, Connect, Send, Hangup, WorkerEnds, Between,
                       reactorVars, LoopOK
  <2> QED
    BY <1>0, <1>d, <2>1 DEF LoopOK
<1>14. CASE UNCHANGED vars
  <2>1. Live' = Live
    BY <1>14 DEF vars, Live
  <2> QED
    BY <1>0, <1>14, <2>1 DEF vars, loopVars, LoopOK
<1> QED
  BY <1>1, <1>2, <1>3, <1>4, <1>5, <1>6, <1>7, <1>8, <1>9, <1>10, <1>11, <1>12, <1>13, <1>14
     DEF Next, ReactorStep, HandleClientStep

\* Every step keeps the numbers of clients in order.
LEMMA NextNetOK == CoreInv /\ [Next]_vars => NetOK'
<1> SUFFICES ASSUME CoreInv, [Next]_vars PROVE NetOK'
  OBVIOUS
<1> USE ReactorAssumption DEF CoreInv, NetOK
<1>1. ASSUME NEW f \in Fds, AcceptOne(f) PROVE NetOK'
  BY <1>1 DEF AcceptOne
<1>2. CASE AcceptFails
  BY <1>2 DEF AcceptFails
<1>3. CASE Connect
  BY <1>3 DEF Connect, reactorVars
<1>4. CASE UNCHANGED <<next_connection_generation, netVars>>
  BY <1>4 DEF netVars
<1>5. \/ UNCHANGED <<next_connection_generation, netVars>>
      \/ (\E f \in Fds : AcceptOne(f)) \/ AcceptFails \/ Connect
  BY DEF Next, ReactorStep, HandleClientStep, Environment, vars, Wait, BatchDone, HandleTimer,
         HandleEvent, AcceptDone, ReadData, ReadWouldBlock, ReadEnds, ParseNeedsMore, ParsePart,
         ParseBad, HandleSync, HandleRefused, HandlePending, Flush, Writable, Rdhup,
         CompleteAsyncResponse, CompletionsDone, Send, Hangup, WorkerEnds, Tick, reactorVars
<1> QED
  BY <1>1, <1>2, <1>3, <1>4, <1>5

\* Steps that leave the calls alone.
LEMMA CallsIdle ==
    [Next]_vars =>
      \/ UNCHANGED <<closure, outcome, channel>>
      \/ HandleRefused \/ HandlePending \/ CompleteAsyncResponse
      \/ \E q \in Requests : WorkerEnds(q)
BY DEF Next, ReactorStep, HandleClientStep, Environment, vars, Wait, BatchDone, HandleTimer,
       HandleEvent, AcceptOne, AcceptFails, AcceptDone, ReadData, ReadWouldBlock, ReadEnds,
       ParseNeedsMore, ParsePart, ParseBad, HandleSync, Flush, Writable, Rdhup,
       CompletionsDone, Connect, Send, Hangup, Tick, reactorVars, poolVars

\* Every step keeps the calls and their results in order.
LEMMA NextCallsOK == CoreInv /\ [Next]_vars => CallsOK'
<1> SUFFICES ASSUME CoreInv, [Next]_vars PROVE CallsOK'
  OBVIOUS
<1>0. CallsOK
  BY DEF CoreInv
<1>1. CASE UNCHANGED <<closure, outcome, channel>>
  BY <1>0, <1>1 DEF CallsOK
<1>2. CASE HandleRefused
  <2>1. /\ request \in Requests /\ outcome[request] = "none"
        /\ outcome' = [outcome EXCEPT ![request] = "refused"]
        /\ UNCHANGED <<channel, closure>>
    BY <1>2, ConsumedEffect DEF HandleRefused, Calls!Refuse
  <2> QED
    BY <1>0, <2>1 DEF CallsOK
<1>3. CASE HandlePending
  <2>1. /\ request \in Requests /\ outcome[request] = "none"
        /\ outcome' = [outcome EXCEPT ![request] = "accepted"]
        /\ UNCHANGED channel
        /\ closure' = [closure EXCEPT ![request] = [fd |-> fd, gen |-> conn.gen]]
    BY <1>3, ConsumedEffect DEF HandlePending, Calls!Accept
  <2>2. [fd |-> fd, gen |-> conn.gen] \in Closure
    BY <1>3, AtHandler, ConnectionFields DEF HandlePending, Closure
  <2> DEFINE cl == [fd |-> fd, gen |-> conn.gen]
  <2> HIDE DEF cl
  <2>3. cl \in Closure /\ closure' = [closure EXCEPT ![request] = cl]
    BY <2>1, <2>2 DEF cl
  <2> QED
    BY <1>0, <2>1, <2>3 DEF CallsOK
<1>4. CASE CompleteAsyncResponse
  <2> DEFINE s == channel[Self]
             q == Head(s)
  <2>1. s \in Seq(Requests) /\ s # <<>> /\ UNCHANGED closure
    BY <1>0, <1>4 DEF CompleteAsyncResponse, CallsOK
  <2>2. /\ q \in Requests /\ outcome' = [outcome EXCEPT ![q] = "delivered"]
        /\ channel' = [channel EXCEPT ![Self] = Tail(s)]
    BY <1>4, CompletionEffect DEF CompleteAsyncResponse, Calls!Deliver
  <2>3. channel'[Self] = Tail(s) /\ Tail(s) \in Seq(Requests)
    BY <1>0, <2>1, <2>2 DEF CallsOK
  <2>4. \A i \in DOMAIN Tail(s) : i + 1 \in DOMAIN s /\ Tail(s)[i] = s[i + 1]
    BY <2>1
  <2>5. 1 \in DOMAIN s /\ q = s[1] /\ \A i \in DOMAIN Tail(s) : i \in Nat /\ i # 0
    BY <2>1
  <2>6. \A i, j \in DOMAIN s : s[i] = s[j] => i = j
    BY <1>0 DEF CallsOK
  <2>7. \A i \in DOMAIN s : outcome[s[i]] = "accepted" /\ s[i] \in Requests
    BY <1>0, <2>1 DEF CallsOK
  <2> DEFINE t == Tail(s)
  <2> HIDE DEF s, q, t
  <2>8. \A i \in DOMAIN t : outcome'[t[i]] = "accepted"
    <3> SUFFICES ASSUME NEW i \in DOMAIN t PROVE outcome'[t[i]] = "accepted"
      OBVIOUS
    <3>1. i + 1 \in DOMAIN s /\ t[i] = s[i + 1] /\ i + 1 # 1
      BY <2>4, <2>5 DEF t
    <3>2. s[i + 1] # q
      BY <2>5, <2>6, <3>1
    <3> QED
      BY <1>0, <2>2, <2>7, <3>1, <3>2 DEF CallsOK
  <2>9. \A i, j \in DOMAIN t : t[i] = t[j] => i = j
    <3> SUFFICES ASSUME NEW i \in DOMAIN t, NEW j \in DOMAIN t, t[i] = t[j] PROVE i = j
      OBVIOUS
    <3>1. i + 1 = j + 1
      BY <2>4, <2>6 DEF t
    <3> QED
      BY <2>5, <3>1 DEF t
  <2>10. channel' \in [{Self} -> Seq(Requests)]
    BY <1>0, <2>2, <2>3 DEF CallsOK
  <2> QED
    BY <1>0, <2>1, <2>2, <2>3, <2>8, <2>9, <2>10 DEF CallsOK, t
<1>5. ASSUME NEW q \in Requests, WorkerEnds(q) PROVE CallsOK'
  <2> DEFINE s == channel[Self]
  <2>0. UNCHANGED closure /\ s \in Seq(Requests)
    BY <1>0, <1>5 DEF WorkerEnds, reactorVars, CallsOK
  <2>1. Calls!Running(q) => outcome[q] = "accepted" /\ ~ \E i \in DOMAIN s : s[i] = q
    BY DEF Calls!Running, Calls!InChannel
  <2>2. CASE Calls!Fail(q)
    <3>1. /\ outcome[q] = "accepted" /\ ~ \E i \in DOMAIN s : s[i] = q
          /\ outcome' = [outcome EXCEPT ![q] = "failed"] /\ UNCHANGED channel
      BY <2>1, <2>2 DEF Calls!Fail
    <3> QED
      BY <1>0, <2>0, <3>1 DEF CallsOK
  <2>3. CASE Calls!Publish(q)
    <3>1. /\ outcome[q] = "accepted" /\ ~ \E i \in DOMAIN s : s[i] = q
          /\ UNCHANGED outcome /\ channel' = [channel EXCEPT ![Self] = Append(s, q)]
      BY <2>1, <2>3 DEF Calls!Publish
    <3> DEFINE t == Append(s, q)
    <3>2. t \in Seq(Requests) /\ channel' \in [{Self} -> Seq(Requests)] /\ channel'[Self] = t
      BY <1>0, <2>0, <3>1 DEF CallsOK
    <3>3. /\ DOMAIN t = 1 .. Len(s) + 1 /\ DOMAIN s = 1 .. Len(s) /\ Len(s) \in Nat
          /\ t[Len(s) + 1] = q /\ \A i \in 1 .. Len(s) : t[i] = s[i]
      BY <2>0
    <3> HIDE DEF s, t
    <3>4. \A i \in DOMAIN t : outcome[t[i]] = "accepted"
      <4> SUFFICES ASSUME NEW i \in DOMAIN t PROVE outcome[t[i]] = "accepted"
        OBVIOUS
      <4>1. CASE i = Len(s) + 1
        BY <3>1, <3>3, <4>1
      <4>2. CASE i \in DOMAIN s
        BY <1>0, <3>3, <4>2 DEF CallsOK, s
      <4> QED
        BY <3>3, <4>1, <4>2
    <3>5. \A i, j \in DOMAIN t : t[i] = t[j] => i = j
      <4> SUFFICES ASSUME NEW i \in DOMAIN t, NEW j \in DOMAIN t, t[i] = t[j] PROVE i = j
        OBVIOUS
      <4>1. CASE i \in DOMAIN s /\ j \in DOMAIN s
        BY <1>0, <3>3, <4>1 DEF CallsOK, s
      <4>2. CASE i \notin DOMAIN s \/ j \notin DOMAIN s
        BY <3>1, <3>3, <4>2
      <4> QED
        BY <4>1, <4>2
    <3> QED
      BY <1>0, <2>0, <3>1, <3>2, <3>4, <3>5 DEF CallsOK
  <2> QED
    BY <1>5, <2>2, <2>3 DEF WorkerEnds
<1> QED
  BY <1>1, <1>2, <1>3, <1>4, <1>5, CallsIdle

\* Steps that leave both histories alone.
LEMMA HistoryIdle ==
    [Next]_vars =>
      \/ UNCHANGED <<asked, sent>>
      \/ Flush \/ Writable \/ CompleteAsyncResponse
      \/ \E f \in Fds, q \in Requests : Send(f, q)
BY DEF Next, ReactorStep, HandleClientStep, Environment, vars, Wait, BatchDone, HandleTimer,
       HandleEvent, AcceptOne, AcceptFails, AcceptDone, ReadData, ReadWouldBlock, ReadEnds,
       ParseNeedsMore, ParsePart, ParseBad, HandleSync, HandleRefused, HandlePending, Rdhup,
       CompletionsDone, Connect, WorkerEnds, Hangup, Tick, reactorVars

\* Every step keeps the histories well typed.
LEMMA NextHistoryOK == CoreInv /\ [Next]_vars => HistoryOK'
<1> SUFFICES ASSUME CoreInv, [Next]_vars PROVE HistoryOK'
  OBVIOUS
<1>0. HistoryOK /\ ConnsOK
  BY DEF CoreInv
<1>a. ASSUME NEW f \in Live, NEW c \in Connection, Len(c.output_queue) <= MAX_OUTPUT_QUEUE,
             HandleWrite(f, c), UNCHANGED asked
      PROVE  HistoryOK'
  BY <1>0, <1>a, WriteEffect DEF HistoryOK
<1>1. CASE UNCHANGED <<asked, sent>>
  BY <1>0, <1>1 DEF HistoryOK
<1>2. CASE Flush
  BY <1>2, <1>a, AtHandler DEF Flush
<1>3. CASE Writable
  <2>1. CASE fd \in Live /\ HandleWrite(fd, conn)
    <3>1. conn \in Connection /\ Len(conn.output_queue) <= MAX_OUTPUT_QUEUE
      BY <1>0, <2>1, LiveFinite DEF conn
    <3> QED
      BY <1>3, <1>a, <2>1, <3>1 DEF Writable
  <2> QED
    BY <1>3, <1>1, <2>1 DEF Writable
<1>4. CASE CompleteAsyncResponse
  <2> DEFINE cl == closure[Head(channel[Self])]
  <2>1. \/ UNCHANGED sent
        \/ /\ IsCurrent(cl)
           /\ \E c \in Connection :
                HandleWrite(cl.fd, c) /\ Len(c.output_queue) <= MAX_OUTPUT_QUEUE
    BY <1>4, CompletionEffect
  <2>2. IsCurrent(cl) => cl.fd \in Live
    BY DEF IsCurrent
  <2>3. UNCHANGED asked
    BY <1>4 DEF CompleteAsyncResponse
  <2> HIDE DEF cl
  <2> QED
    BY <1>1, <1>a, <2>1, <2>2, <2>3
<1>5. ASSUME NEW f \in Fds, NEW q \in Requests, Send(f, q) PROVE HistoryOK'
  <2> DEFINE g == conns[f].gen
  <2>1. g \in Generations
    BY <1>0, <1>5, LiveFinite, ConnectionFields DEF Send
  <2>2. asked' = [asked EXCEPT ![g] = Append(@, q)] /\ UNCHANGED sent
    BY <1>5 DEF Send, reactorVars
  <2> HIDE DEF g
  <2>3. Append(asked[g], q) \in Seq(Requests)
    BY <1>0, <2>1 DEF HistoryOK
  <2> QED
    BY <1>0, <2>1, <2>2, <2>3 DEF HistoryOK
<1> QED
  BY <1>1, <1>2, <1>3, <1>4, <1>5, HistoryIdle

\* CoreInv holds in every reachable state.
LEMMA CoreInvariant == Spec => []CoreInv
<1>1. CoreInv /\ [Next]_vars => CoreInv'
  BY NextConnsOK, NextLoopOK, NextNetOK, NextCallsOK, NextHistoryOK DEF CoreInv
<1> QED
  BY <1>1, InitCoreInv, PTL DEF Spec

(***************************************************************************)
(* In every reachable state the variables have their types: no output      *)
(* queue exceeds MAX_OUTPUT_QUEUE_SIZE, generations do not run out and the *)
(* gauge does not go below zero.                                           *)
(***************************************************************************)
THEOREM TypeCorrect == Spec => []TypeOK
<1>1. CoreInv => TypeOK
  <2> SUFFICES ASSUME CoreInv PROVE TypeOK
    OBVIOUS
  <2>1. active_connections \in Nat
    BY LiveFinite DEF CoreInv, ConnsOK, GaugeCountsConnections
  <2>2. /\ next_connection_generation \in 0 .. MaxClients
        /\ backlog \in 0 .. MaxClients /\ clients \in 0 .. MaxClients
    BY ReactorAssumption DEF CoreInv, NetOK
  <2> QED
    BY <2>1, <2>2 DEF CoreInv, ConnsOK, LoopOK, CallsOK, HistoryOK, TypeOK
<1> QED
  BY <1>1, CoreInvariant, PTL

(***************************************************************************)
(* The gauge of Metrics counts the connections, whatever removes them and  *)
(* however often a stale event of the batch names them.                    *)
(***************************************************************************)
THEOREM GaugeExact == Spec => []GaugeCountsConnections
<1>1. CoreInv => GaugeCountsConnections
  BY DEF CoreInv, ConnsOK
<1> QED
  BY <1>1, CoreInvariant, PTL

-----------------------------------------------------------------------------
(* Generations and calls. *)

\* A generation is given to one connection, and a call keeps the one it was
\* made for.
OwnGeneration ==
    /\ \A f \in Live : conns[f].gen <= next_connection_generation
    /\ \A f, g \in Live : conns[f].gen = conns[g].gen => f = g
    /\ \A q \in Requests : outcome[q] = "accepted" => closure[q].gen <= next_connection_generation

\* A generation has one call out, and its connection, if it lives, waits.
OneCall ==
    /\ \A q, r \in Requests :
         /\ outcome[q] = "accepted" /\ outcome[r] = "accepted"
         /\ closure[q].gen = closure[r].gen
         => q = r
    /\ \A q \in Requests, f \in Live :
         outcome[q] = "accepted" /\ conns[f].gen = closure[q].gen => conns[f].redis_pending

CallInv == OwnGeneration /\ OneCall

-----------------------------------------------------------------------------
(* Masks. *)

\* The mask of connection c fits its state.
MaskFits(c) ==
    /\ "RDHUP" \in c.current_events
    /\ ~c.redis_pending =>
         /\ "IN" \in c.current_events
         /\ "OUT" \in c.current_events <=> c.output_queue # <<>>

\* Within handleClient() a queue may be filled before the mask is changed.
MaskLags(c) ==
    /\ {"IN", "RDHUP"} \subseteq c.current_events
    /\ "OUT" \in c.current_events => c.output_queue # <<>>

MaskInv ==
    \A f \in Live :
        IF pc \in {"read", "parse", "flush"} /\ f = fd THEN MaskLags(conns[f]) ELSE MaskFits(conns[f])

-----------------------------------------------------------------------------
(* Answers. *)

(***************************************************************************)
(* Everything the client of connection c is to be answered is accounted    *)
(* for, in order: what has been sent, what is queued, the request whose    *)
(* call is out, and the complete requests not parsed yet.                  *)
(***************************************************************************)
InOrder(c, w) ==
    Complete(asked[c.gen]) =
        ((sent[c.gen] \o c.output_queue) \o w) \o Complete(c.receive_buffer \o c.socket)

\* w is the request whose call is out, if there is one.
Waits(c, w) ==
    IF c.redis_pending
      THEN /\ Len(w) = 1
           /\ \A q \in Requests :
                outcome[q] = "accepted" /\ closure[q].gen = c.gen => w = <<q>>
      ELSE w = <<>>

Accounted(c) == \E w \in Seq(Requests) : InOrder(c, w) /\ Waits(c, w)

AnswerInv ==
    /\ \A f \in Live : Accounted(conns[f])
    /\ \A g \in Generations : g > next_connection_generation => asked[g] = <<>> /\ sent[g] = <<>>
    /\ AnswersInOrder

\* The connections that are left are the ones there were.
SameConnections ==
    \A f \in Live' : /\ f \in Live /\ conns'[f].gen = conns[f].gen
                     /\ conns'[f].redis_pending = conns[f].redis_pending

\* Changing a connection without its generation and redis_pending, or
\* removing connections.
LEMMA SameEffect ==
    ASSUME ConnsOK
    PROVE  /\ UNCHANGED conns => SameConnections
           /\ \A S : RemoveConnections(S) => SameConnections
           /\ \A f \in Live, d \in Connection :
                /\ Len(d.output_queue) <= MAX_OUTPUT_QUEUE /\ Keep(f, d)
                /\ d.gen = conns[f].gen /\ d.redis_pending = conns[f].redis_pending
                => SameConnections
<1>1. UNCHANGED conns => SameConnections
  BY DEF Live, SameConnections
<1>2. ASSUME NEW S, RemoveConnections(S) PROVE SameConnections
  <2>1. Live' = Live \ S /\ \A g \in Fds \ S : conns'[g] = conns[g]
    BY <1>2, RemoveEffect
  <2> QED
    BY <2>1, LiveFinite DEF SameConnections
<1>3. ASSUME NEW f \in Live, NEW d \in Connection,
             Len(d.output_queue) <= MAX_OUTPUT_QUEUE, Keep(f, d),
             d.gen = conns[f].gen, d.redis_pending = conns[f].redis_pending
      PROVE  SameConnections
  <2>1. Live' = Live /\ conns'[f] = d /\ \A g \in Fds : g # f => conns'[g] = conns[g]
    BY <1>3, KeepEffect
  <2> QED
    BY <1>3, <2>1, LiveFinite DEF SameConnections
<1> QED
  BY <1>1, <1>2, <1>3

\* handleWrite() does neither.
LEMMA SameAfterWrite ==
    ASSUME ConnsOK, HistoryOK, NEW f \in Live, NEW c \in Connection,
           Len(c.output_queue) <= MAX_OUTPUT_QUEUE, HandleWrite(f, c),
           c.gen = conns[f].gen, c.redis_pending = conns[f].redis_pending
    PROVE  SameConnections
<1>1. \/ \E d : Wrote(c, d) /\ Keep(f, d)
      \/ RemoveConnections({f})
  BY WriteEffect
<1>2. ASSUME NEW d, Wrote(c, d), Keep(f, d) PROVE SameConnections
  <2>1. /\ d \in Connection /\ Len(d.output_queue) <= MAX_OUTPUT_QUEUE
        /\ d.gen = conns[f].gen /\ d.redis_pending = conns[f].redis_pending
    BY <1>2 DEF Wrote
  <2> QED
    BY <1>2, <2>1, SameEffect
<1> QED
  BY <1>1, <1>2, SameEffect

\* Only accepting a client, submitting a call and completing one change which
\* connections there are or wait.
LEMMA SameStep ==
    ASSUME CoreInv, [Next]_vars
    PROVE  \/ SameConnections
           \/ \E f \in Fds : AcceptOne(f)
           \/ HandlePending \/ CompleteAsyncResponse
<1>0. ConnsOK /\ HistoryOK
  BY DEF CoreInv
<1>1. CASE ConnsIdle
  BY <1>0, <1>1, IdleEffect, SameEffect
<1>2. ASSUME NEW e \in batch, HandleTimer(e) \/ HandleEvent(e) PROVE SameConnections
  BY <1>0, <1>2, SameEffect DEF HandleTimer, HandleEvent
<1>3. CASE ReadData
  <2>1. fd \in Live /\ conn = conns[fd]
    BY <1>3, AtHandler DEF ReadData, conn
  <2> QED
    BY <1>0, <1>3, <2>1, ReadEffect, SameEffect
<1>4. CASE ReadEnds \/ ParseBad
  BY <1>0, <1>4, SameEffect DEF ReadEnds, ParseBad
<1>5. CASE ParsePart
  <2>1. pc = "parse" /\ conn.receive_buffer # <<>> /\ Keep(fd, Consumed) /\ conn = conns[fd]
    BY <1>5 DEF ParsePart, conn
  <2>2. /\ Consumed \in Connection /\ Consumed.output_queue = conn.output_queue
        /\ Len(conn.output_queue) <= MAX_OUTPUT_QUEUE /\ fd \in Live
        /\ Consumed.gen = conn.gen /\ Consumed.redis_pending = conn.redis_pending
    BY <2>1, AtHandler, ConsumedEffect
  <2> QED
    BY <1>0, <2>1, <2>2, SameEffect
<1>6. CASE HandleSync \/ HandleRefused
  <2>1. pc = "parse" /\ conn.receive_buffer # <<>> /\ Respond /\ conn = conns[fd]
    BY <1>6 DEF HandleSync, HandleRefused, conn
  <2>2. \/ RemoveConnections({fd})
        \/ \E d \in Connection :
             /\ Keep(fd, d) /\ Len(d.output_queue) <= MAX_OUTPUT_QUEUE
             /\ d.gen = conn.gen /\ d.redis_pending = conn.redis_pending
    BY <2>1, RespondEffect
  <2>3. fd \in Live
    BY <2>1, AtHandler
  <2> QED
    BY <1>0, <2>1, <2>2, <2>3, SameEffect
<1>7. CASE Flush
  <2>1. fd \in Live /\ conn \in Connection /\ Len(conn.output_queue) <= MAX_OUTPUT_QUEUE
        /\ HandleWrite(fd, conn) /\ conn = conns[fd]
    BY <1>7, AtHandler DEF Flush, conn
  <2> QED
    BY <1>0, <2>1, SameAfterWrite
<1>8. CASE Writable
  <2>1. CASE fd \in Live /\ HandleWrite(fd, conn)
    <3>1. conn \in Connection /\ Len(conn.output_queue) <= MAX_OUTPUT_QUEUE /\ conn = conns[fd]
      BY <1>0, <2>1, LiveFinite DEF conn
    <3> QED
      BY <1>0, <2>1, <3>1, SameAfterWrite
  <2> QED
    BY <1>0, <1>8, <2>1, SameEffect DEF Writable
<1>9. CASE Rdhup
  BY <1>0, <1>9, SameEffect DEF Rdhup
<1>10. ASSUME NEW f \in Fds, NEW q \in Requests, Send(f, q) PROVE SameConnections
  BY <1>0, <1>10, SendEffect, SameEffect
<1>11. ASSUME NEW f \in Fds, NEW how \in {"fin", "reset"}, Hangup(f, how) PROVE SameConnections
  BY <1>0, <1>11, HangupEffect, SameEffect
<1>12. CASE Tick
  BY <1>12, TickEffect DEF SameConnections
<1> QED
  BY <1>1, <1>2, <1>3, <1>4, <1>5, <1>6, <1>7, <1>8, <1>9, <1>10, <1>11, <1>12
     DEF Next, ReactorStep, HandleClientStep, Environment, ConnsIdle

\* Generations do not change except when a client is accepted.
LEMMA SameGenerations ==
    ASSUME [Next]_vars
    PROVE  (\E f \in Fds : AcceptOne(f)) \/ UNCHANGED next_connection_generation
BY DEF Next, ReactorStep, HandleClientStep, Environment, vars, Wait, BatchDone, HandleTimer,
       HandleEvent, AcceptFails, AcceptDone, ReadData, ReadWouldBlock, ReadEnds,
       ParseNeedsMore, ParsePart, ParseBad, HandleSync, HandleRefused, HandlePending, Flush,
       Writable, Rdhup, CompleteAsyncResponse, CompletionsDone, Connect, Send, Hangup,
       WorkerEnds, Tick, reactorVars

\* No step but HandlePending accepts a call.
LEMMA NoNewCall ==
    ASSUME CoreInv, [Next]_vars, ~HandlePending
    PROVE  /\ UNCHANGED closure
           /\ \A q \in Requests : outcome'[q] = "accepted" => outcome[q] = "accepted"
<1>0. CallsOK
  BY DEF CoreInv
<1>1. CASE UNCHANGED <<closure, outcome, channel>>
  BY <1>1
<1>2. CASE HandleRefused
  <2>1. request \in Requests /\ outcome' = [outcome EXCEPT ![request] = "refused"]
        /\ UNCHANGED closure
    BY <1>2, ConsumedEffect DEF HandleRefused, Calls!Refuse
  <2> QED
    BY <1>0, <2>1 DEF CallsOK
<1>3. CASE CompleteAsyncResponse
  <2> DEFINE r == Head(channel[Self])
  <2>1. r \in Requests /\ outcome' = [outcome EXCEPT ![r] = "delivered"] /\ UNCHANGED closure
    BY <1>3, CompletionEffect DEF CompleteAsyncResponse
  <2> HIDE DEF r
  <2> QED
    BY <1>0, <2>1 DEF CallsOK
<1>4. ASSUME NEW r \in Requests, WorkerEnds(r)
      PROVE  /\ UNCHANGED closure
             /\ \A q \in Requests : outcome'[q] = "accepted" => outcome[q] = "accepted"
  <2>1. /\ UNCHANGED closure
        /\ UNCHANGED outcome \/ outcome' = [outcome EXCEPT ![r] = "failed"]
    BY <1>4 DEF WorkerEnds, reactorVars, Calls!Publish, Calls!Fail
  <2> QED
    BY <1>0, <2>1 DEF CallsOK
<1> QED
  BY <1>1, <1>2, <1>3, <1>4, CallsIdle

\* Every step keeps generations and calls apart.
LEMMA NextCallInv == CoreInv /\ CallInv /\ [Next]_vars => CallInv'
<1> SUFFICES ASSUME CoreInv, CallInv, [Next]_vars PROVE CallInv'
  OBVIOUS
<1>0. /\ OwnGeneration /\ OneCall /\ next_connection_generation \in Nat
      /\ \A f \in Live : conns[f] \in Connection /\ conns[f].gen \in Nat /\ f \in Fds
      /\ \A q \in Requests : outcome[q] = "accepted" => closure[q] \in Closure /\ closure[q].gen \in Nat
  BY LiveFinite, ConnectionFields DEF CoreInv, CallInv, NetOK, CallsOK, Closure, Generations
<1>1. ASSUME NEW f \in Fds, AcceptOne(f) PROVE CallInv'
  <2>1. /\ Live' = Live \cup {f} /\ f \notin Live
        /\ conns'[f].gen = next_connection_generation + 1
        /\ \A g \in Fds : g # f => conns'[g] = conns[g]
    BY <1>1, AcceptEffect
  <2>2. /\ next_connection_generation' = next_connection_generation + 1
        /\ UNCHANGED <<closure, outcome>>
    BY <1>1 DEF AcceptOne, poolVars
  <2>3. \A g \in Live : conns'[g] = conns[g]
    BY <1>0, <2>1
  <2>4. OwnGeneration'
    <3>1. \A g \in Live : conns[g].gen <= next_connection_generation
      BY <1>0 DEF OwnGeneration
    <3>2. \A g \in Live' : conns'[g].gen <= next_connection_generation'
      BY <1>0, <2>1, <2>2, <2>3, <3>1
    <3>3. \A g, h \in Live' : conns'[g].gen = conns'[h].gen => g = h
      BY <1>0, <2>1, <2>3, <3>1 DEF OwnGeneration
    <3>4. \A q \in Requests : outcome'[q] = "accepted" => closure'[q].gen <= next_connection_generation'
      BY <1>0, <2>2 DEF OwnGeneration
    <3> QED
      BY <3>2, <3>3, <3>4 DEF OwnGeneration
  <2>5. OneCall'
    <3>1. ASSUME NEW q \in Requests, NEW g \in Live', outcome[q] = "accepted",
                 conns'[g].gen = closure[q].gen
          PROVE  conns'[g].redis_pending
      <4>1. closure[q].gen <= next_connection_generation
        BY <1>0, <3>1 DEF OwnGeneration
      <4>2. g # f
        BY <1>0, <2>1, <3>1, <4>1
      <4> QED
        BY <1>0, <2>1, <2>3, <3>1, <4>2 DEF OneCall
    <3> QED
      BY <1>0, <2>2, <3>1 DEF OneCall
  <2> QED
    BY <2>4, <2>5 DEF CallInv
<1>2. ASSUME SameConnections, ~HandlePending, ~ \E f \in Fds : AcceptOne(f) PROVE CallInv'
  <2>1. /\ UNCHANGED closure
        /\ \A q \in Requests : outcome'[q] = "accepted" => outcome[q] = "accepted"
    BY <1>2, NoNewCall
  <2>2. UNCHANGED next_connection_generation
    BY <1>2, SameGenerations
  <2> QED
    BY <1>0, <1>2, <2>1, <2>2 DEF SameConnections, CallInv, OwnGeneration, OneCall
<1>3. CASE HandlePending
  <2>1. /\ request \in Requests /\ outcome[request] = "none"
        /\ outcome' = [outcome EXCEPT ![request] = "accepted"]
        /\ closure' = [closure EXCEPT ![request] = [fd |-> fd, gen |-> conn.gen]]
        /\ UNCHANGED next_connection_generation
    BY <1>3, ConsumedEffect DEF HandlePending, Calls!Accept
  <2>2. fd \in Live /\ conn = conns[fd] /\ ~conn.redis_pending
    BY <1>3, AtHandler DEF HandlePending, conn
  <2>3. /\ outcome'[request] = "accepted" /\ closure'[request].gen = conn.gen
        /\ \A q \in Requests : q # request => outcome'[q] = outcome[q] /\ closure'[q] = closure[q]
    <3> DEFINE cl == [fd |-> fd, gen |-> conn.gen]
    <3>1. cl.gen = conn.gen /\ closure' = [closure EXCEPT ![request] = cl]
      BY <2>1
    <3> HIDE DEF cl
    <3> QED
      BY <2>1, <3>1 DEF CoreInv, CallsOK
  <2>4. \A q \in Requests : outcome[q] = "accepted" => closure[q].gen # conn.gen
    BY <1>0, <2>2 DEF OneCall
  <2>5. \A f \in Live' : /\ f \in Live /\ conns'[f].gen = conns[f].gen
                         /\ f # fd => conns'[f].redis_pending = conns[f].redis_pending
                         /\ f = fd => conns'[f].redis_pending
    <3>0. ConnsOK
      BY DEF CoreInv
    <3>1. CASE RemoveConnections({fd})
      <4>1. Live' = Live \ {fd} /\ \A g \in Fds \ {fd} : conns'[g] = conns[g]
        BY <3>0, <3>1, RemoveEffect
      <4> QED
        BY <1>0, <4>1
    <3>2. ASSUME NEW d \in Connection, Keep(fd, d), Len(d.output_queue) <= MAX_OUTPUT_QUEUE,
                 d.gen = conn.gen, d.redis_pending
          PROVE  \A f \in Live' : /\ f \in Live /\ conns'[f].gen = conns[f].gen
                                  /\ f # fd => conns'[f].redis_pending = conns[f].redis_pending
                                  /\ f = fd => conns'[f].redis_pending
      <4>1. Live' = Live /\ conns'[fd] = d /\ \A g \in Fds : g # fd => conns'[g] = conns[g]
        BY <2>2, <3>0, <3>2, KeepEffect
      <4> QED
        BY <1>0, <2>2, <3>2, <4>1
    <3>3. \/ RemoveConnections({fd})
          \/ \E d \in Connection :
               /\ Keep(fd, d) /\ Len(d.output_queue) <= MAX_OUTPUT_QUEUE
               /\ d.gen = conn.gen /\ d.redis_pending
      BY <1>3, PendingEffect
    <3>4. CASE RemoveConnections({fd})
      BY <3>1, <3>4
    <3>5. CASE \E d \in Connection :
                 /\ Keep(fd, d) /\ Len(d.output_queue) <= MAX_OUTPUT_QUEUE
                 /\ d.gen = conn.gen /\ d.redis_pending
      BY <3>2, <3>5, Zenon
    <3> QED
      BY <3>3, <3>4, <3>5
  <2>6. OwnGeneration'
    BY <1>0, <2>1, <2>2, <2>3, <2>5 DEF OwnGeneration
  <2>7. OneCall'
    <3>1. \A q, r \in Requests :
            /\ outcome'[q] = "accepted" /\ outcome'[r] = "accepted"
            /\ closure'[q].gen = closure'[r].gen
            => q = r
      BY <1>0, <2>1, <2>3, <2>4 DEF OneCall
    <3>2. ASSUME NEW q \in Requests, NEW f \in Live', outcome'[q] = "accepted",
                 conns'[f].gen = closure'[q].gen
          PROVE  conns'[f].redis_pending
      <4>1. CASE f = fd
        BY <2>5, <4>1
      <4>2. CASE f # fd
        <5>1. f \in Live /\ conns[f].gen # conn.gen
          BY <1>0, <2>2, <2>5, <4>2 DEF OwnGeneration
        <5>2. q # request
          BY <2>3, <2>5, <3>2, <5>1
        <5> QED
          BY <1>0, <2>3, <2>5, <3>2, <4>2, <5>1, <5>2 DEF OneCall
      <4> QED
        BY <4>1, <4>2
    <3> QED
      BY <3>1, <3>2 DEF OneCall
  <2> QED
    BY <2>6, <2>7 DEF CallInv
<1>4. CASE CompleteAsyncResponse
  <2> DEFINE q == Head(channel[Self])
             cl == closure[q]
  <2>0. ConnsOK /\ HistoryOK
    BY DEF CoreInv
  <2>1. CASE SameConnections
    <3>1. ~HandlePending /\ ~ \E f \in Fds : AcceptOne(f)
      BY <1>4 DEF CompleteAsyncResponse, HandlePending, AcceptOne
    <3> QED
      BY <1>2, <2>1, <3>1
  <2>2. /\ q \in Requests /\ outcome[q] = "accepted" /\ cl \in Closure
        /\ outcome' = [outcome EXCEPT ![q] = "delivered"]
        /\ UNCHANGED <<closure, next_connection_generation>>
    BY <1>4, CompletionEffect DEF CompleteAsyncResponse
  <2>3. \/ UNCHANGED conns
        \/ RemoveConnections({cl.fd})
        \/ /\ IsCurrent(cl)
           /\ \E c \in Connection :
                /\ HandleWrite(cl.fd, c) /\ Len(c.output_queue) <= MAX_OUTPUT_QUEUE
                /\ c.gen = conns[cl.fd].gen
    BY <1>4, CompletionEffect
  <2>4. IsCurrent(cl) => cl.fd \in Live /\ conns[cl.fd].gen = cl.gen
    BY DEF IsCurrent
  <2>5. \A r \in Requests : outcome'[r] = "accepted" => outcome[r] = "accepted" /\ r # q
    BY <2>2 DEF CoreInv, CallsOK
  <2> HIDE DEF q, cl
  <2>6. ASSUME IsCurrent(cl), NEW c \in Connection, HandleWrite(cl.fd, c),
               Len(c.output_queue) <= MAX_OUTPUT_QUEUE, c.gen = conns[cl.fd].gen
        PROVE  CallInv'
    <3>1. \/ \E d : Wrote(c, d) /\ Keep(cl.fd, d)
          \/ RemoveConnections({cl.fd})
      BY <2>0, <2>4, <2>6, WriteEffect
    <3>2. ASSUME NEW d, Wrote(c, d), Keep(cl.fd, d) PROVE CallInv'
      <4>1. /\ d \in Connection /\ Len(d.output_queue) <= MAX_OUTPUT_QUEUE
            /\ d.gen = cl.gen
        BY <2>4, <2>6, <3>2 DEF Wrote
      <4>2. /\ Live' = Live /\ conns'[cl.fd] = d
            /\ \A g \in Fds : g # cl.fd => conns'[g] = conns[g]
        BY <2>0, <2>4, <2>6, <3>2, <4>1, KeepEffect
      <4>3. \A f \in Live : conns'[f].gen = conns[f].gen
        BY <1>0, <2>4, <2>6, <4>1, <4>2
      <4>4. OwnGeneration'
        BY <1>0, <2>2, <2>5, <4>2, <4>3 DEF OwnGeneration
      <4>5. ASSUME NEW r \in Requests, NEW f \in Live, outcome'[r] = "accepted",
                   conns'[f].gen = closure[r].gen
            PROVE  conns'[f].redis_pending
        <5>1. closure[r].gen # cl.gen
          BY <1>0, <2>2, <2>5, <4>5 DEF OneCall, cl
        <5>2. f # cl.fd
          BY <4>1, <4>2, <4>5, <5>1
        <5> QED
          BY <1>0, <2>5, <4>2, <4>3, <4>5, <5>2 DEF OneCall
      <4>6. OneCall'
        BY <1>0, <2>2, <2>5, <4>2, <4>5 DEF OneCall
      <4> QED
        BY <4>4, <4>6 DEF CallInv
    <3> QED
      BY <2>0, <2>1, <3>1, <3>2, SameEffect
  <2> QED
    BY <2>0, <2>1, <2>3, <2>6, SameEffect
<1> QED
  BY <1>1, <1>2, <1>3, <1>4, SameStep

\* CallInv holds in every reachable state.
LEMMA CallInvariant == Spec => []CallInv
<1>1. Init => CallInv
  BY DEF Init, CallInv, OwnGeneration, OneCall, Live, Calls!Init
<1> QED
  BY <1>1, CoreInvariant, NextCallInv, PTL DEF Spec

(***************************************************************************)
(* A connection has at most one call out, and waits while it has: a        *)
(* generation identifies the request a completion answers, however calls   *)
(* end, connections are dropped and descriptors are reused.                *)
(***************************************************************************)
THEOREM OneCallOut == Spec => []OneCallPerConnection
<1>1. CoreInv /\ CallInv => OneCallPerConnection
  <2> SUFFICES ASSUME CoreInv, CallInv PROVE OneCallPerConnection
    OBVIOUS
  <2>1. ASSUME NEW g \in Generations PROVE Cardinality(Outstanding(g)) <= 1
    <3>1. CASE Outstanding(g) = {}
      BY <3>1, FS_EmptySet
    <3>2. ASSUME NEW q \in Outstanding(g) PROVE Cardinality(Outstanding(g)) <= 1
      <4>1. \A r \in Outstanding(g) : r = q
        BY <3>2 DEF Outstanding, CallInv, OneCall
      <4>2. Outstanding(g) = {q}
        BY <3>2, <4>1
      <4>3. Cardinality({q}) = 1
        BY FS_Singleton
      <4> QED
        BY <4>2, <4>3
    <3> QED
      BY <3>1, <3>2
  <2>2. \A f \in Live : Outstanding(conns[f].gen) # {} => conns[f].redis_pending
    BY DEF Outstanding, CallInv, OneCall
  <2> QED
    BY <2>1, <2>2 DEF OneCallPerConnection
<1> QED
  BY <1>1, CoreInvariant, CallInvariant, PTL

-----------------------------------------------------------------------------
(* Masks. *)

\* The masks, queues and waits of connections that are left have not changed.
SameMasks ==
    \A f \in Live' : /\ f \in Live
                     /\ conns'[f].redis_pending = conns[f].redis_pending
                     /\ conns'[f].output_queue = conns[f].output_queue
                     /\ conns'[f].current_events = conns[f].current_events

\* Which changes of the connections are such.
LEMMA SameMasksEffect ==
    ASSUME ConnsOK
    PROVE  /\ UNCHANGED conns => SameMasks
           /\ \A S : RemoveConnections(S) => SameMasks
           /\ \A f \in Live, d \in Connection :
                /\ Len(d.output_queue) <= MAX_OUTPUT_QUEUE /\ Keep(f, d)
                /\ d.redis_pending = conns[f].redis_pending
                /\ d.output_queue = conns[f].output_queue
                /\ d.current_events = conns[f].current_events
                => SameMasks
<1>1. UNCHANGED conns => SameMasks
  BY DEF Live, SameMasks
<1>2. ASSUME NEW S, RemoveConnections(S) PROVE SameMasks
  <2>1. Live' = Live \ S /\ \A g \in Fds \ S : conns'[g] = conns[g]
    BY <1>2, RemoveEffect
  <2> QED
    BY <2>1, LiveFinite DEF SameMasks
<1>3. ASSUME NEW f \in Live, NEW d \in Connection,
             Len(d.output_queue) <= MAX_OUTPUT_QUEUE, Keep(f, d),
             d.redis_pending = conns[f].redis_pending,
             d.output_queue = conns[f].output_queue,
             d.current_events = conns[f].current_events
      PROVE  SameMasks
  <2>1. Live' = Live /\ conns'[f] = d /\ \A g \in Fds : g # f => conns'[g] = conns[g]
    BY <1>3, KeepEffect
  <2> QED
    BY <1>3, <2>1, LiveFinite DEF SameMasks
<1> QED
  BY <1>1, <1>2, <1>3

\* handleWrite() makes the mask fit the queue again.
LEMMA MaskAfterWrite ==
    ASSUME ConnsOK, HistoryOK, NEW f \in Live, NEW c \in Connection,
           Len(c.output_queue) <= MAX_OUTPUT_QUEUE, HandleWrite(f, c),
           c.output_queue # <<>> \/ MaskFits(c),
           \A g \in Live : g # f => MaskFits(conns[g])
    PROVE  \A g \in Live' : MaskFits(conns'[g])
<1>0. \A g \in Live : g \in Fds
  BY LiveFinite
<1>1. \/ \E d : Wrote(c, d) /\ Keep(f, d)
      \/ RemoveConnections({f})
  BY WriteEffect
<1>2. ASSUME NEW d, Wrote(c, d), Keep(f, d) PROVE \A g \in Live' : MaskFits(conns'[g])
  <2>1. /\ Live' = Live /\ conns'[f] = d
        /\ \A g \in Fds : g # f => conns'[g] = conns[g]
    BY <1>2, KeepEffect DEF Wrote
  <2>2. MaskFits(d)
    BY <1>2 DEF Wrote, MaskFits
  <2> QED
    BY <1>0, <2>1, <2>2
<1>3. ASSUME RemoveConnections({f}) PROVE \A g \in Live' : MaskFits(conns'[g])
  <2>1. Live' = Live \ {f} /\ \A g \in Fds \ {f} : conns'[g] = conns[g]
    BY <1>3, RemoveEffect
  <2> QED
    BY <1>0, <2>1
<1> QED
  BY <1>1, <1>2, <1>3

\* Every step keeps the masks in line with what the connections wait for.
LEMMA NextMaskInv == CoreInv /\ MaskInv /\ [Next]_vars => MaskInv'
<1> SUFFICES ASSUME CoreInv, MaskInv, [Next]_vars PROVE MaskInv'
  OBVIOUS
<1> DEFINE H == {"read", "parse", "flush"}
<1>0. ConnsOK /\ HistoryOK /\ \A f \in Live : f \in Fds
  BY LiveFinite DEF CoreInv
<1>a. ASSUME SameMasks, \/ pc \notin H /\ pc' \notin H
                        \/ pc \in H /\ pc' \in H /\ UNCHANGED event
                        \/ pc \in H /\ pc' \notin H /\ fd \notin Live'
      PROVE  MaskInv'
  <2>1. \A g \in Live' : /\ g \in Live
                         /\ MaskFits(conns[g]) => MaskFits(conns'[g])
                         /\ MaskLags(conns[g]) => MaskLags(conns'[g])
    BY <1>a DEF SameMasks, MaskFits, MaskLags
  <2>2. CASE pc \notin H /\ pc' \notin H
    BY <2>1, <2>2 DEF MaskInv
  <2>3. CASE pc \in H /\ pc' \in H /\ UNCHANGED event
    <3>1. fd' = fd
      BY <2>3 DEF fd
    <3> QED
      BY <2>1, <2>3, <3>1 DEF MaskInv
  <2>4. CASE pc \in H /\ pc' \notin H /\ fd \notin Live'
    BY <2>1, <2>4 DEF MaskInv
  <2> QED
    BY <1>a, <2>2, <2>3, <2>4
<1>b. ASSUME pc' \notin H, \A g \in Live' : MaskFits(conns'[g]) PROVE MaskInv'
  BY <1>b DEF MaskInv
<1>c. pc \notin H => \A g \in Live : MaskFits(conns[g])
  BY DEF MaskInv
<1>d. pc \in H => \A g \in Live : g # fd => MaskFits(conns[g])
  BY DEF MaskInv
<1>e. ASSUME RemoveConnections({fd}), pc \in H, pc' \notin H PROVE MaskInv'
  <2>1. Live' = Live \ {fd}
    BY <1>0, <1>e, RemoveEffect
  <2>2. SameMasks
    BY <1>0, <1>e, SameMasksEffect
  <2> QED
    BY <1>a, <1>e, <2>1, <2>2
<1>1. CASE ConnsIdle
  <2>1. SameMasks
    BY <1>0, <1>1, IdleEffect, SameMasksEffect
  <2>2. \/ pc \notin H /\ pc' \notin H
        \/ pc \in H /\ pc' \in H /\ UNCHANGED event
    BY <1>1 DEF ConnsIdle, Wait, BatchDone, AcceptFails, AcceptDone, ReadWouldBlock,
                ParseNeedsMore, CompletionsDone, Connect, WorkerEnds, reactorVars, vars,
                loopVars, Return, Between
  <2> QED
    BY <1>a, <2>1, <2>2
<1>2. ASSUME NEW e \in batch, HandleTimer(e) \/ HandleEvent(e) PROVE MaskInv'
  <2>1. SameMasks /\ pc = "batch"
    BY <1>0, <1>2, SameMasksEffect DEF HandleTimer, HandleEvent, Take
  <2>2. CASE pc' \notin H
    BY <1>a, <2>1, <2>2
  <2>3. CASE pc' \in H
    <3>1. pc' = "read" /\ MayRead(e.src) /\ event' = e /\ UNCHANGED conns
      BY <1>2, <2>1, <2>3 DEF HandleTimer, HandleEvent, Return
    <3>2. \A g \in Live : MaskFits(conns[g])
      BY <1>c, <2>1
    <3>3. Live' = Live /\ e.src \in Live /\ ~conns[e.src].redis_pending
      BY <3>1 DEF Live, MayRead
    <3>4. MaskLags(conns[e.src])
      BY <3>2, <3>3 DEF MaskFits, MaskLags
    <3> QED
      BY <3>1, <3>2, <3>3, <3>4 DEF MaskInv, fd, MaskLags, MaskFits
  <2> QED
    BY <2>2, <2>3
<1>3. ASSUME NEW f \in Fds, AcceptOne(f) PROVE MaskInv'
  <2>1. /\ Live' = Live \cup {f} /\ ~conns'[f].redis_pending
        /\ conns'[f].output_queue = <<>> /\ conns'[f].current_events = {"IN", "RDHUP"}
        /\ \A g \in Fds : g # f => conns'[g] = conns[g]
    BY <1>3, AcceptEffect
  <2>2. pc' = "accept" /\ pc = "accept"
    BY <1>3 DEF AcceptOne, loopVars
  <2>3. MaskFits(conns'[f])
    BY <2>1 DEF MaskFits
  <2>4. \A g \in Live : g # f => conns'[g] = conns[g] /\ MaskFits(conns[g])
    BY <1>0, <1>c, <2>1, <2>2
  <2>5. \A g \in Live' : MaskFits(conns'[g])
    BY <2>1, <2>3, <2>4
  <2> QED
    BY <1>b, <2>2, <2>5
<1>4. CASE ReadData
  <2>1. fd \in Live /\ conn = conns[fd] /\ pc = "read" /\ pc' = "parse" /\ UNCHANGED event
    BY <1>4, AtHandler DEF ReadData, conn
  <2>2. SameMasks
    BY <1>0, <1>4, <2>1, ReadEffect, SameMasksEffect
  <2> QED
    BY <1>a, <2>1, <2>2
<1>5. CASE ReadEnds \/ ParseBad
  BY <1>5, <1>e DEF ReadEnds, ParseBad, Return
<1>6. CASE ParsePart
  <2>1. /\ pc = "parse" /\ conn.receive_buffer # <<>> /\ Keep(fd, Consumed) /\ conn = conns[fd]
        /\ UNCHANGED <<pc, event>>
    BY <1>6 DEF ParsePart, conn, loopVars
  <2>2. /\ Consumed \in Connection /\ Consumed.output_queue = conn.output_queue
        /\ Len(conn.output_queue) <= MAX_OUTPUT_QUEUE /\ fd \in Live
        /\ Consumed.current_events = conn.current_events
        /\ Consumed.redis_pending = conn.redis_pending
    BY <2>1, AtHandler, ConsumedEffect
  <2>3. SameMasks
    BY <1>0, <2>1, <2>2, SameMasksEffect
  <2> QED
    BY <1>a, <2>1, <2>3
<1>7. CASE HandleSync \/ HandleRefused
  <2>1. pc = "parse" /\ conn.receive_buffer # <<>> /\ Respond /\ conn = conns[fd]
    BY <1>7 DEF HandleSync, HandleRefused, conn
  <2>2. fd \in Live
    BY <2>1, AtHandler
  <2>3. \/ RemoveConnections({fd}) /\ Return
        \/ \E d \in Connection :
             /\ Keep(fd, d) /\ Len(d.output_queue) <= MAX_OUTPUT_QUEUE
             /\ d.output_queue # <<>> /\ d.current_events = conn.current_events
             /\ pc' \in {"flush", "parse"} /\ UNCHANGED event
    BY <2>1, RespondEffect
  <2>4. ASSUME NEW d \in Connection, Keep(fd, d), Len(d.output_queue) <= MAX_OUTPUT_QUEUE,
               d.output_queue # <<>>, d.current_events = conn.current_events,
               pc' \in {"flush", "parse"}, UNCHANGED event
        PROVE  MaskInv'
    <3>1. /\ Live' = Live /\ conns'[fd] = d /\ \A g \in Fds : g # fd => conns'[g] = conns[g]
          /\ fd' = fd
      BY <1>0, <2>2, <2>4, KeepEffect DEF fd
    <3>2. MaskLags(conns[fd])
      BY <2>1, <2>2 DEF MaskInv
    <3>3. MaskLags(d)
      BY <2>1, <2>4, <3>2 DEF MaskLags
    <3>4. \A g \in Live' : g # fd => MaskFits(conns'[g])
      BY <1>0, <1>d, <2>1, <3>1
    <3> QED
      BY <2>4, <3>1, <3>3, <3>4 DEF MaskInv
  <2>5. CASE RemoveConnections({fd}) /\ Return
    BY <1>e, <2>1, <2>5 DEF Return
  <2> QED
    BY <2>3, <2>4, <2>5
<1>8. CASE HandlePending
  <2>1. pc = "parse" /\ pc' = "writable" /\ fd \in Live
    BY <1>8, AtHandler DEF HandlePending
  <2>2. \/ RemoveConnections({fd})
        \/ \E d \in Connection :
             /\ Keep(fd, d) /\ Len(d.output_queue) <= MAX_OUTPUT_QUEUE
             /\ d.redis_pending /\ d.current_events = {"RDHUP"}
    BY <1>8, PendingEffect
  <2>3. ASSUME NEW d \in Connection, Keep(fd, d), Len(d.output_queue) <= MAX_OUTPUT_QUEUE,
               d.redis_pending, d.current_events = {"RDHUP"}
        PROVE  MaskInv'
    <3>1. /\ Live' = Live /\ conns'[fd] = d /\ \A g \in Fds : g # fd => conns'[g] = conns[g]
      BY <1>0, <2>1, <2>3, KeepEffect
    <3>2. MaskFits(d)
      BY <2>3 DEF MaskFits
    <3>3. \A g \in Live' : MaskFits(conns'[g])
      BY <1>0, <1>d, <2>1, <3>1, <3>2
    <3> QED
      BY <1>b, <2>1, <3>3
  <2> QED
    BY <1>e, <2>1, <2>2, <2>3
<1>9. CASE Flush
  <2>1. /\ pc = "flush" /\ pc' = "writable" /\ HandleWrite(fd, conn) /\ conn = conns[fd]
        /\ fd \in Live /\ conn \in Connection /\ Len(conn.output_queue) <= MAX_OUTPUT_QUEUE
    BY <1>9, AtHandler DEF Flush, conn
  <2>2. MaskLags(conn)
    BY <2>1 DEF MaskInv
  <2>3. conn.output_queue # <<>> \/ MaskFits(conn)
    BY <2>2 DEF MaskLags, MaskFits
  <2>4. \A g \in Live' : MaskFits(conns'[g])
    BY <1>0, <1>d, <2>1, <2>3, MaskAfterWrite
  <2> QED
    BY <1>b, <2>1, <2>4
<1>10. CASE Writable
  <2>0. pc = "writable" /\ pc' = "rdhup"
    BY <1>10 DEF Writable
  <2>1. CASE fd \in Live /\ HandleWrite(fd, conn)
    <3>1. conn \in Connection /\ Len(conn.output_queue) <= MAX_OUTPUT_QUEUE /\ conn = conns[fd]
      BY <1>0, <2>1, LiveFinite DEF conn
    <3>2. \A g \in Live' : MaskFits(conns'[g])
      BY <1>0, <1>c, <2>0, <2>1, <3>1, MaskAfterWrite
    <3> QED
      BY <1>b, <2>0, <3>2
  <2>2. CASE UNCHANGED conns
    BY <1>0, <1>a, <2>0, <2>2, SameMasksEffect
  <2> QED
    BY <1>10, <2>1, <2>2 DEF Writable
<1>11. CASE Rdhup
  BY <1>0, <1>11, <1>a, SameMasksEffect DEF Rdhup, Return
<1>12. CASE CompleteAsyncResponse
  <2> DEFINE cl == closure[Head(channel[Self])]
  <2>0. pc = "completions" /\ pc' = "completions"
    BY <1>12 DEF CompleteAsyncResponse, loopVars
  <2>1. \/ UNCHANGED conns
        \/ RemoveConnections({cl.fd})
        \/ /\ IsCurrent(cl)
           /\ \E c \in Connection :
                /\ HandleWrite(cl.fd, c) /\ Len(c.output_queue) <= MAX_OUTPUT_QUEUE
                /\ c.output_queue # <<>>
    BY <1>12, CompletionEffect
  <2>2. IsCurrent(cl) => cl.fd \in Live
    BY DEF IsCurrent
  <2> HIDE DEF cl
  <2>3. ASSUME cl.fd \in Live, NEW c \in Connection, HandleWrite(cl.fd, c),
               Len(c.output_queue) <= MAX_OUTPUT_QUEUE, c.output_queue # <<>>
        PROVE  MaskInv'
    <3>1. \A g \in Live' : MaskFits(conns'[g])
      BY <1>0, <1>c, <2>0, <2>3, MaskAfterWrite
    <3> QED
      BY <1>b, <2>0, <3>1
  <2>4. CASE UNCHANGED conns \/ RemoveConnections({cl.fd})
    BY <1>0, <1>a, <2>0, <2>4, SameMasksEffect
  <2> QED
    BY <2>1, <2>2, <2>3, <2>4
<1>13. ASSUME NEW f \in Fds, NEW q \in Requests, Send(f, q) PROVE MaskInv'
  <2>1. SameMasks
    BY <1>0, <1>13, SendEffect, SameMasksEffect
  <2> QED
    BY <1>13, <1>a, <2>1 DEF Send, Between, reactorVars
<1>14. ASSUME NEW f \in Fds, NEW how \in {"fin", "reset"}, Hangup(f, how) PROVE MaskInv'
  <2>1. SameMasks
    BY <1>0, <1>14, HangupEffect, SameMasksEffect
  <2> QED
    BY <1>14, <1>a, <2>1 DEF Hangup, Between, reactorVars
<1>15. CASE Tick
  <2>1. SameMasks
    BY <1>15, TickEffect DEF SameMasks
  <2> QED
    BY <1>15, <1>a, <2>1 DEF Tick, Between, reactorVars
<1> QED
  BY <1>1, <1>2, <1>3, <1>4, <1>5, <1>6, <1>7, <1>8, <1>9, <1>10, <1>11, <1>12, <1>13, <1>14,
     <1>15 DEF Next, ReactorStep, HandleClientStep, Environment, ConnsIdle

(***************************************************************************)
(* While the reactor sleeps, every connection waits for what it needs and  *)
(* for nothing else: no stalled response is forgotten, no idle socket      *)
(* wakes the loop, and a client that leaves is noticed.                    *)
(***************************************************************************)
THEOREM MasksMatch == Spec => []MaskMatchesState
<1>1. Init => MaskInv
  BY DEF Init, MaskInv, Live
<1>2. MaskInv => MaskMatchesState
  BY DEF MaskInv, MaskFits, MaskMatchesState
<1> QED
  BY <1>1, <1>2, CoreInvariant, NextMaskInv, PTL DEF Spec
-----------------------------------------------------------------------------
(* Answers. *)

\* A sequence begins with its first part.
LEMMA PrefixConcat ==
    ASSUME NEW s \in Seq(Requests), NEW u \in Seq(Requests)
    PROVE  IsPrefix(s, s \o u)
<1>1. Len(s) \in Nat /\ Len(u) \in Nat /\ Len(s \o u) = Len(s) + Len(u)
  BY ConcatProperties
<1>2. SubSeq(s \o u, 1, Len(s)) = s
  <2> DEFINE t == SubSeq(s \o u, 1, Len(s))
             N == Len(s)
  <2>1. /\ t \in Seq(Requests) /\ Len(t) = N /\ N \in Nat
        /\ \A i \in 1 .. N : t[i] = s[i]
    BY <1>1
  <2> HIDE DEF t
  <2>2. t = s
    BY <2>1, SeqEqual
  <2> QED
    BY <2>2 DEF t
<1>3. SubSeq(s, 1, Len(s)) = s
  BY SubSeqFull
<1> QED
  BY <1>1, <1>2, <1>3 DEF IsPrefix

\* What a connection is accounted for has not changed.
SameAccount(f) ==
    LET c == conns[f]
        d == conns'[f]
    IN /\ f \in Live /\ d.gen = c.gen /\ d.redis_pending = c.redis_pending
       /\ asked'[c.gen] = asked[c.gen]
       /\ sent'[c.gen] \o d.output_queue = sent[c.gen] \o c.output_queue
       /\ Complete(d.receive_buffer \o d.socket) = Complete(c.receive_buffer \o c.socket)
       /\ \A q \in Requests : outcome'[q] = "accepted" /\ closure'[q].gen = c.gen
                              => outcome[q] = "accepted" /\ closure[q].gen = c.gen

\* Then it remains accounted for.
LEMMA AccountKept ==
    ASSUME AnswerInv, NEW f, SameAccount(f)
    PROVE  Accounted(conns[f])'
<1> DEFINE c == conns[f]
           d == conns'[f]
<1>1. PICK w \in Seq(Requests) : InOrder(c, w) /\ Waits(c, w)
  BY DEF AnswerInv, Accounted, SameAccount
<1>2. InOrder(conns[f], w)'
  BY <1>1 DEF InOrder, SameAccount
<1>3. Waits(conns[f], w)'
  BY <1>1 DEF Waits, SameAccount
<1> QED
  BY <1>2, <1>3 DEF Accounted

\* Nothing was sent and nothing asked, and the connections that are left are
\* accounted for as they were.
LEMMA NoAnswer ==
    ASSUME AnswerInv, \A f \in Live' : SameAccount(f),
           UNCHANGED <<asked, sent, next_connection_generation>>
    PROVE  AnswerInv'
<1>1. \A f \in Live' : Accounted(conns[f])'
  BY AccountKept
<1> QED
  BY <1>1 DEF AnswerInv, AnswersInOrder

\* What comes first in an account is a prefix of it.
LEMMA AccountPrefix ==
    ASSUME NEW s \in Seq(Requests), NEW o \in Seq(Requests),
           NEW w \in Seq(Requests), NEW r \in Seq(Requests)
    PROVE  IsPrefix(s, ((s \o o) \o w) \o r)
<1>1. s \o o \in Seq(Requests) /\ w \o r \in Seq(Requests) /\ o \o (w \o r) \in Seq(Requests)
  BY ConcatRequests
<1>2. ((s \o o) \o w) \o r = (s \o o) \o (w \o r)
  <2> DEFINE x == s \o o
  <2>1. x \in Seq(Requests)
    BY <1>1
  <2> HIDE DEF x
  <2>2. (x \o w) \o r = x \o (w \o r)
    BY <2>1, ConcatThree
  <2> QED
    BY <2>2 DEF x
<1>3. (s \o o) \o (w \o r) = s \o (o \o (w \o r))
  <2> DEFINE x == w \o r
  <2>1. x \in Seq(Requests)
    BY <1>1
  <2> HIDE DEF x
  <2>2. (s \o o) \o x = s \o (o \o x)
    BY <2>1, ConcatRequests
  <2> QED
    BY <2>2 DEF x
<1> QED
  BY <1>1, <1>2, <1>3, PrefixConcat

\* A step in which only connection f, its history and its calls change.
LEMMA OneAnswers ==
    ASSUME CoreInv, CoreInv', CallInv, AnswerInv, NEW f \in Live, Live' \subseteq Live,
           UNCHANGED next_connection_generation,
           \A g \in Fds : g # f => conns'[g] = conns[g],
           \A h \in Generations : h # conns[f].gen => asked'[h] = asked[h] /\ sent'[h] = sent[h],
           \A q \in Requests : outcome'[q] = "accepted" =>
             \/ outcome[q] = "accepted" /\ closure'[q] = closure[q]
             \/ closure'[q].gen = conns[f].gen,
           f \in Live' => Accounted(conns[f])' /\ conns'[f].gen = conns[f].gen,
           f \notin Live' =>
             IsPrefix(sent'[conns[f].gen], Complete(asked'[conns[f].gen]))
    PROVE  AnswerInv'
<1> DEFINE n == conns[f].gen
<1>0. /\ ConnsOK /\ HistoryOK /\ ConnsOK' /\ HistoryOK' /\ n \in Generations
      /\ \A g \in Live : g \in Fds /\ conns[g] \in Connection
  BY LiveFinite, ConnectionFields DEF CoreInv
<1>1. ASSUME NEW g \in Live', g # f PROVE SameAccount(g)
  <2>1. g \in Live /\ conns'[g] = conns[g] /\ conns[g].gen # n /\ conns[g].gen \in Generations
    BY <1>0, <1>1, ConnectionFields DEF CallInv, OwnGeneration
  <2> QED
    BY <2>1 DEF SameAccount
<1>2. \A g \in Live' : Accounted(conns[g])'
  BY <1>1, AccountKept
<1>3. \A h \in Generations :
        h > next_connection_generation => asked'[h] = <<>> /\ sent'[h] = <<>>
  <2>1. n <= next_connection_generation
    BY DEF CallInv, OwnGeneration
  <2>2. n \in Nat /\ next_connection_generation \in Nat
    BY <1>0, ReactorAssumption DEF Generations, CoreInv, NetOK
  <2>3. ASSUME NEW h \in Generations, h > next_connection_generation PROVE h # n
    BY <2>1, <2>2, <2>3 DEF Generations
  <2> QED
    BY <2>3 DEF AnswerInv
<1>4. ASSUME NEW h \in Generations PROVE IsPrefix(sent'[h], Complete(asked'[h]))
  <2>1. CASE h # n
    BY <2>1 DEF AnswerInv, AnswersInOrder
  <2>2. CASE h = n /\ f \in Live'
    <3> DEFINE d == conns'[f]
               s == sent'[n]
               a == Complete(asked'[n])
               o == d.output_queue
               r == Complete(d.receive_buffer \o d.socket)
    <3>1. d \in Connection /\ d.gen = n
      BY <1>0, <2>2 DEF ConnsOK, Live
    <3>2. /\ o \in Seq(Requests) /\ d.receive_buffer \in Seq(Requests)
          /\ d.socket \in Seq(Requests)
      BY <3>1, ConnectionFields
    <3>3. s \in Seq(Requests) /\ r \in Seq(Requests)
      BY <1>0, <3>2, ConcatRequests, CompleteType DEF HistoryOK
    <3>4. PICK w \in Seq(Requests) : a = ((s \o o) \o w) \o r
      BY <1>2, <2>2, <3>1 DEF Accounted, InOrder
    <3> HIDE DEF s, a, o, r
    <3>5. IsPrefix(s, a)
      BY <3>2, <3>3, <3>4, AccountPrefix
    <3> QED
      BY <2>2, <3>5 DEF s, a
  <2>3. CASE h = n /\ f \notin Live'
    BY <2>3
  <2> QED
    BY <2>1, <2>2, <2>3
<1> QED
  BY <1>2, <1>3, <1>4 DEF AnswerInv, AnswersInOrder

\* The parser takes the first request off what has arrived.
LEMMA TakeRequest ==
    ASSUME NEW b \in Seq(Requests), NEW t \in Seq(Requests), b # <<>>
    PROVE  Complete(b \o t) = IF KindOf[Head(b)] = "part" THEN Complete(Tail(b) \o t)
                              ELSE <<Head(b)>> \o Complete(Tail(b) \o t)
<1> DEFINE s == b \o t
           none == <<>>
           q == Head(b)
           u == Tail(b) \o t
<1>1. /\ s \in Seq(Requests) /\ Head(s) = Head(b) /\ Tail(s) = Tail(b) \o t /\ s # none
  OBVIOUS
<1>2. Head(s) = q /\ Tail(s) = u
  BY <1>1
<1> HIDE DEF s, u, q
<1>3. Complete(s) = IF KindOf[q] = "part" THEN Complete(u) ELSE <<q>> \o Complete(u)
  BY <1>1, <1>2, CompleteHead
<1> QED
  BY <1>3 DEF s, u, q

\* No call begins.
NoCallBegins ==
    /\ UNCHANGED closure
    /\ \A q \in Requests : outcome'[q] = "accepted" => outcome[q] = "accepted"

\* Connections that are left alone, or changed in nothing that is accounted for.
LEMMA KeptAccounts ==
    ASSUME ConnsOK, UNCHANGED <<asked, sent>>, NoCallBegins
    PROVE  /\ UNCHANGED conns => \A g \in Live' : SameAccount(g)
           /\ \A S : RemoveConnections(S) => \A g \in Live' : SameAccount(g)
           /\ \A f \in Live, d \in Connection :
                /\ Keep(f, d) /\ Len(d.output_queue) <= MAX_OUTPUT_QUEUE
                /\ d.gen = conns[f].gen /\ d.redis_pending = conns[f].redis_pending
                /\ d.output_queue = conns[f].output_queue
                /\ Complete(d.receive_buffer \o d.socket) =
                     Complete(conns[f].receive_buffer \o conns[f].socket)
                => \A g \in Live' : SameAccount(g)
<1>0. ASSUME NEW g \in Live, conns'[g] = conns[g] PROVE SameAccount(g)
  BY <1>0 DEF SameAccount, NoCallBegins
<1>1. UNCHANGED conns => \A g \in Live' : SameAccount(g)
  BY <1>0 DEF Live
<1>2. ASSUME NEW S, RemoveConnections(S) PROVE \A g \in Live' : SameAccount(g)
  <2>1. Live' = Live \ S /\ \A g \in Fds \ S : conns'[g] = conns[g]
    BY <1>2, RemoveEffect
  <2> QED
    BY <1>0, <2>1, LiveFinite
<1>3. ASSUME NEW f \in Live, NEW d \in Connection,
             Keep(f, d), Len(d.output_queue) <= MAX_OUTPUT_QUEUE,
             d.gen = conns[f].gen, d.redis_pending = conns[f].redis_pending,
             d.output_queue = conns[f].output_queue,
             Complete(d.receive_buffer \o d.socket) =
               Complete(conns[f].receive_buffer \o conns[f].socket)
      PROVE  \A g \in Live' : SameAccount(g)
  <2>1. Live' = Live /\ conns'[f] = d /\ \A g \in Fds : g # f => conns'[g] = conns[g]
    BY <1>3, KeepEffect
  <2>2. SameAccount(f)
    BY <1>3, <2>1 DEF SameAccount, NoCallBegins
  <2> QED
    BY <1>0, <2>1, <2>2, LiveFinite
<1> QED
  BY <1>1, <1>2, <1>3

\* handleWrite(), on a connection that is accounted for.
LEMMA AnswerAfterWrite ==
    ASSUME CoreInv, CoreInv', CallInv, AnswerInv, NEW f \in Live, NEW c \in Connection,
           Len(c.output_queue) <= MAX_OUTPUT_QUEUE, HandleWrite(f, c),
           c.gen = conns[f].gen, Accounted(c),
           UNCHANGED <<asked, next_connection_generation>>, NoCallBegins
    PROVE  AnswerInv'
<1> DEFINE n == c.gen
           s == sent[n]
           t == sent'[n]
           o == c.output_queue
           r == Complete(c.receive_buffer \o c.socket)
           a == Complete(asked[n])
<1>0. /\ ConnsOK /\ HistoryOK /\ HistoryOK' /\ n \in Generations /\ f \in Fds
      /\ s \in Seq(Requests) /\ t \in Seq(Requests) /\ o \in Seq(Requests)
      /\ c.receive_buffer \in Seq(Requests) /\ c.socket \in Seq(Requests)
  BY LiveFinite, ConnectionFields DEF CoreInv, HistoryOK
<1>1. r \in Seq(Requests)
  BY <1>0, ConcatRequests, CompleteType
<1>2. PICK w \in Seq(Requests) : InOrder(c, w) /\ Waits(c, w)
  BY DEF Accounted
<1>3. a = ((s \o o) \o w) \o r
  BY <1>2 DEF InOrder
<1>4. \A h \in Generations : h # n => asked'[h] = asked[h] /\ sent'[h] = sent[h]
  BY <1>0, WriteEffect
<1>5. \A q \in Requests : outcome'[q] = "accepted" =>
        outcome[q] = "accepted" /\ closure'[q] = closure[q]
  BY DEF NoCallBegins
<1>6. ASSUME NEW d, Wrote(c, d), Keep(f, d) PROVE AnswerInv'
  <2>1. /\ Live' = Live /\ conns'[f] = d /\ \A g \in Fds : g # f => conns'[g] = conns[g]
        /\ d.gen = n
    BY <1>0, <1>6, KeepEffect DEF Wrote
  <2>2. InOrder(conns[f], w)'
    <3>1. /\ d.gen = n /\ t \o d.output_queue = s \o o
          /\ d.receive_buffer = c.receive_buffer /\ d.socket = c.socket
      BY <1>6 DEF Wrote
    <3> QED
      BY <1>3, <2>1, <3>1 DEF InOrder
  <2>3. Waits(conns[f], w)'
    <3>1. d.gen = n /\ d.redis_pending = c.redis_pending
      BY <1>6 DEF Wrote
    <3> QED
      BY <1>2, <1>5, <2>1, <3>1 DEF Waits
  <2>4. Accounted(conns[f])'
    BY <2>2, <2>3 DEF Accounted
  <2> QED
    BY <1>4, <1>5, <2>1, <2>4, OneAnswers
<1>7. ASSUME RemoveConnections({f}), NEW u \in Seq(Requests), t \o u = s \o o PROVE AnswerInv'
  <2>1. Live' = Live \ {f} /\ \A g \in Fds \ {f} : conns'[g] = conns[g]
    BY <1>0, <1>7, RemoveEffect
  <2>2. IsPrefix(t, a)
    <3> HIDE DEF a, s, t, o, r
    <3> QED
      BY <1>0, <1>1, <1>3, <1>7, AccountPrefix
  <2> QED
    BY <1>4, <1>5, <2>1, <2>2, OneAnswers
<1> QED
  BY <1>0, <1>6, <1>7, WriteEffect

\* A request that is parsed, waits for its call or has its answer queued stays
\* in its place.
LEMMA AccountMoves ==
    ASSUME NEW s \in Seq(Requests), NEW o \in Seq(Requests), NEW u \in Seq(Requests),
           NEW q \in Requests
    PROVE  /\ ((s \o o) \o <<>>) \o (<<q>> \o u) = ((s \o o) \o <<q>>) \o u
           /\ ((s \o o) \o <<q>>) \o u = ((s \o Append(o, q)) \o <<>>) \o u
<1> DEFINE x == s \o o
           y == <<q>>
           z == s \o Append(o, q)
<1>1. x \in Seq(Requests) /\ y \in Seq(Requests) /\ z \in Seq(Requests) /\ z = x \o y
  OBVIOUS
<1> HIDE DEF x, y, z
<1>2. x \o <<>> = x /\ z \o <<>> = z
  BY <1>1, ConcatRequests
<1>3. x \o (y \o u) = (x \o y) \o u
  BY <1>1, ConcatThree
<1>4. (x \o <<>>) \o (y \o u) = (x \o y) \o u /\ (x \o y) \o u = (z \o <<>>) \o u
  BY <1>1, <1>2, <1>3
<1> QED
  BY <1>4 DEF x, y, z

\* Every step keeps the accounts of the connections, old ones included.
LEMMA NextAnswerInv ==
    ASSUME CoreInv, CoreInv', CallInv, CallInv', AnswerInv, [Next]_vars
    PROVE  AnswerInv'
<1>0. /\ ConnsOK /\ HistoryOK /\ CallsOK /\ NetOK
      /\ \A g \in Live : g \in Fds /\ conns[g] \in Connection /\ Accounted(conns[g])
  BY LiveFinite DEF CoreInv, AnswerInv
<1>1. CASE ConnsIdle
  <2>1. UNCHANGED <<conns, asked, sent, next_connection_generation>> /\ ~HandlePending
    <3>1. UNCHANGED <<conns, asked, sent>>
      BY <1>1, IdleEffect
    <3>2. UNCHANGED next_connection_generation
      BY <1>1 DEF ConnsIdle, Wait, BatchDone, AcceptFails, AcceptDone, ReadWouldBlock,
                  ParseNeedsMore, CompletionsDone, Connect, WorkerEnds, reactorVars, vars
    <3>3. ~HandlePending
      <4> SUFFICES ASSUME HandlePending PROVE FALSE
        OBVIOUS
      <4>1. pc = "parse" /\ pc' = "writable"
        BY DEF HandlePending
      <4> QED
        BY <1>1, <4>1 DEF ConnsIdle, Wait, BatchDone, AcceptFails, AcceptDone, ReadWouldBlock,
                  ParseNeedsMore, CompletionsDone, Connect, WorkerEnds, Between, vars, loopVars
    <3> QED
      BY <3>1, <3>2, <3>3
  <2>2. NoCallBegins
    BY <2>1, NoNewCall DEF NoCallBegins
  <2> QED
    BY <1>0, <2>1, <2>2, KeptAccounts, NoAnswer
<1>2. ASSUME NEW e \in batch, HandleTimer(e) \/ HandleEvent(e) PROVE AnswerInv'
  <2>1. /\ UNCHANGED <<asked, sent, next_connection_generation>> /\ NoCallBegins
        /\ UNCHANGED conns \/ \E S : RemoveConnections(S)
    BY <1>2 DEF HandleTimer, HandleEvent, NoCallBegins, poolVars
  <2> QED
    BY <1>0, <2>1, KeptAccounts, NoAnswer
<1>3. ASSUME NEW f \in Fds, AcceptOne(f) PROVE AnswerInv'
  <2> DEFINE n == next_connection_generation
             none == <<>>
  <2>1. /\ Live' = Live \cup {f} /\ f \notin Live /\ n + 1 \in Generations
        /\ conns'[f].gen = n + 1 /\ ~conns'[f].redis_pending
        /\ conns'[f].output_queue = none /\ conns'[f].receive_buffer = none
        /\ conns'[f].socket = none
        /\ \A g \in Fds : g # f => conns'[g] = conns[g]
    BY <1>3, AcceptEffect
  <2>2. UNCHANGED <<asked, sent, closure, outcome>> /\ n' = n + 1 /\ n \in Nat
    BY <1>0, <1>3 DEF AcceptOne, poolVars, NetOK
  <2>3. asked[n + 1] = none /\ sent[n + 1] = none
    BY <2>1, <2>2 DEF AnswerInv
  <2>4. Accounted(conns[f])'
    <3>1. /\ none \in Seq(Requests) /\ none \o none = none /\ Complete(none) = none
      BY CompleteType
    <3>2. InOrder(conns[f], none)'
      BY <2>1, <2>2, <2>3, <3>1 DEF InOrder
    <3>3. Waits(conns[f], none)'
      BY <2>1 DEF Waits
    <3> QED
      BY <3>1, <3>2, <3>3 DEF Accounted
  <2>5. ASSUME NEW g \in Live PROVE SameAccount(g)
    <3>1. conns'[g] = conns[g]
      BY <1>0, <2>1
    <3> QED
      BY <2>2, <3>1 DEF SameAccount
  <2>6. \A g \in Live' : Accounted(conns[g])'
    BY <2>1, <2>4, <2>5, AccountKept
  <2>7. \A h \in Generations : h > n' => h > n
    BY <2>2 DEF Generations
  <2> QED
    BY <2>2, <2>6, <2>7 DEF AnswerInv, AnswersInOrder
<1>4. CASE ReadData
  <2>1. /\ UNCHANGED <<asked, sent, next_connection_generation>> /\ NoCallBegins
        /\ fd \in Live /\ conn = conns[fd]
    BY <1>4, AtHandler DEF ReadData, conn, NoCallBegins, poolVars
  <2>2. \E d \in Connection :
             /\ Keep(fd, d) /\ Len(d.output_queue) <= MAX_OUTPUT_QUEUE
             /\ d.receive_buffer \o d.socket = conn.receive_buffer \o conn.socket
             /\ d.output_queue = conn.output_queue
             /\ d.gen = conn.gen /\ d.redis_pending = conn.redis_pending
    BY <1>4, ReadEffect
  <2> QED
    BY <1>0, <2>1, <2>2, KeptAccounts, NoAnswer
<1>5. CASE ReadEnds \/ ParseBad \/ Rdhup
  <2>1. /\ UNCHANGED <<asked, sent, next_connection_generation>> /\ NoCallBegins
        /\ UNCHANGED conns \/ RemoveConnections({fd})
    BY <1>5 DEF ReadEnds, ParseBad, Rdhup, NoCallBegins, poolVars
  <2> QED
    BY <1>0, <2>1, KeptAccounts, NoAnswer
<1>6. CASE ParsePart
  <2>1. /\ UNCHANGED <<asked, sent, next_connection_generation>> /\ NoCallBegins
        /\ pc = "parse" /\ conn.receive_buffer # <<>> /\ Keep(fd, Consumed) /\ conn = conns[fd]
        /\ KindOf[Head(conn.receive_buffer)] = "part"
    BY <1>6 DEF ParsePart, conn, NoCallBegins, poolVars, request
  <2>2. /\ Consumed \in Connection /\ Consumed.output_queue = conn.output_queue
        /\ Len(conn.output_queue) <= MAX_OUTPUT_QUEUE /\ fd \in Live
        /\ Consumed.gen = conn.gen /\ Consumed.redis_pending = conn.redis_pending
        /\ Consumed.receive_buffer = Tail(conn.receive_buffer) /\ Consumed.socket = conn.socket
        /\ conn \in Connection
    BY <2>1, AtHandler, ConsumedEffect
  <2>3. conn.receive_buffer \in Seq(Requests) /\ conn.socket \in Seq(Requests)
    BY <2>2, ConnectionFields
  <2>4. Complete(conn.receive_buffer \o conn.socket) =
          Complete(Tail(conn.receive_buffer) \o conn.socket)
    BY <2>1, <2>3, TakeRequest
  <2>5. Complete(Consumed.receive_buffer \o Consumed.socket) =
          Complete(conn.receive_buffer \o conn.socket)
    BY <2>2, <2>4
  <2> QED
    BY <1>0, <2>1, <2>2, <2>5, KeptAccounts, NoAnswer
<1>12. ASSUME NEW f \in Fds, NEW how \in {"fin", "reset"}, Hangup(f, how) PROVE AnswerInv'
  <2>1. /\ UNCHANGED <<asked, sent, next_connection_generation>> /\ NoCallBegins
    BY <1>12 DEF Hangup, reactorVars, poolVars, NoCallBegins
  <2>2. /\ f \in Live
        /\ \E d \in Connection :
             /\ Keep(f, d) /\ Len(d.output_queue) <= MAX_OUTPUT_QUEUE
             /\ d.receive_buffer = conns[f].receive_buffer /\ d.socket = conns[f].socket
             /\ d.output_queue = conns[f].output_queue
             /\ d.gen = conns[f].gen /\ d.redis_pending = conns[f].redis_pending
    BY <1>12, HangupEffect
  <2> QED
    BY <1>0, <2>1, <2>2, KeptAccounts, NoAnswer
<1>13. CASE Tick
  <2>1. /\ UNCHANGED <<asked, sent, next_connection_generation>> /\ NoCallBegins
    BY <1>13 DEF Tick, reactorVars, poolVars, NoCallBegins
  <2>2. ASSUME NEW f \in Live' PROVE SameAccount(f)
    BY <1>13, <2>1, TickEffect DEF SameAccount, NoCallBegins
  <2> QED
    BY <2>1, <2>2, NoAnswer
<1>7. CASE HandleSync \/ HandleRefused
  <2>1. /\ pc = "parse" /\ conn.receive_buffer # <<>> /\ Respond /\ conn = conns[fd]
        /\ UNCHANGED <<asked, sent, next_connection_generation>> /\ ~HandlePending
        /\ KindOf[request] # "part"
    <3>1. /\ pc = "parse" /\ conn.receive_buffer # <<>> /\ Respond /\ conn = conns[fd]
          /\ UNCHANGED <<asked, sent, next_connection_generation>>
          /\ KindOf[request] # "part" /\ pc' # "writable"
      BY <1>7 DEF HandleSync, HandleRefused, conn, Respond, Return
    <3> QED
      BY <3>1 DEF HandlePending
  <2>2. NoCallBegins
    BY <2>1, NoNewCall DEF NoCallBegins
  <2>3. PICK f \in Live : f = fd /\ conn = conns[f] /\ ~conns[f].redis_pending
    BY <2>1, AtHandler
  <2>4. PICK q \in Requests : q = request
    BY <2>1, ConsumedEffect
  <2>5. CASE RemoveConnections({f})
    BY <1>0, <2>1, <2>2, <2>5, KeptAccounts, NoAnswer
  <2>6. ASSUME NEW d \in Connection, Keep(f, d), Len(d.output_queue) <= MAX_OUTPUT_QUEUE,
               d.receive_buffer = Tail(conns[f].receive_buffer), d.socket = conns[f].socket,
               d.output_queue = Append(conns[f].output_queue, q),
               d.gen = conns[f].gen, d.redis_pending = conns[f].redis_pending
        PROVE  AnswerInv'
    <3> DEFINE c == conns[f]
               b == c.receive_buffer
               t == c.socket
               o == c.output_queue
               s == sent[c.gen]
               a == Complete(asked[c.gen])
               u == Complete(Tail(b) \o t)
               none == <<>>
    <3>1. /\ Live' = Live /\ conns'[f] = d /\ \A g \in Fds : g # f => conns'[g] = conns[g]
      BY <1>0, <2>6, KeepEffect
    <3>2. /\ b \in Seq(Requests) /\ t \in Seq(Requests) /\ o \in Seq(Requests)
          /\ c.gen \in Generations /\ s \in Seq(Requests) /\ Tail(b) \in Seq(Requests)
          /\ b # none /\ q = Head(b) /\ KindOf[q] # "part"
      BY <1>0, <2>1, <2>3, <2>4, ConnectionFields, HeadTailProperties DEF HistoryOK, request
    <3>3. a = ((s \o o) \o none) \o Complete(b \o t)
      BY <1>0, <2>3 DEF Accounted, InOrder, Waits
    <3>4. u \in Seq(Requests) /\ Complete(b \o t) = <<q>> \o u
      BY <3>2, ConcatRequests, CompleteType, TakeRequest
    <3>5. a = ((s \o Append(o, q)) \o none) \o u
      <4> HIDE DEF b, t, o, s, a, u
      <4>0. s \in Seq(Requests) /\ o \in Seq(Requests) /\ u \in Seq(Requests) /\ q \in Requests
        BY <3>2, <3>4
      <4>1. /\ ((s \o o) \o none) \o (<<q>> \o u) = ((s \o o) \o <<q>>) \o u
            /\ ((s \o o) \o <<q>>) \o u = ((s \o Append(o, q)) \o none) \o u
        BY <4>0, AccountMoves, ZenonT(60)
      <4> QED
        BY <3>3, <3>4, <4>1
    <3>6. InOrder(conns[f], none)'
      BY <2>1, <2>6, <3>1, <3>5 DEF InOrder
    <3>7. Waits(conns[f], none)'
      BY <2>3, <2>6, <3>1 DEF Waits
    <3>8. Accounted(conns[f])'
      <4>1. none \in Seq(Requests)
        OBVIOUS
      <4> HIDE DEF none
      <4> QED
        BY <3>6, <3>7, <4>1 DEF Accounted
    <3>9. \A r \in Requests : outcome'[r] = "accepted" =>
            outcome[r] = "accepted" /\ closure'[r] = closure[r]
      BY <2>2 DEF NoCallBegins
    <3> QED
      BY <2>1, <2>6, <3>1, <3>8, <3>9, OneAnswers
  <2>7. \/ RemoveConnections({fd}) /\ Return
        \/ \E d \in Connection :
             /\ Keep(fd, d) /\ Len(d.output_queue) <= MAX_OUTPUT_QUEUE
             /\ d.receive_buffer = Tail(conn.receive_buffer) /\ d.socket = conn.socket
             /\ d.output_queue = Append(conn.output_queue, request)
             /\ d.gen = conn.gen /\ d.redis_pending = conn.redis_pending
    BY <2>1, RespondEffect
  <2> QED
    BY <2>3, <2>4, <2>5, <2>6, <2>7
<1>8. CASE HandlePending
  <2>1. /\ pc = "parse" /\ conn.receive_buffer # <<>> /\ conn = conns[fd]
        /\ UNCHANGED <<asked, sent, next_connection_generation>>
        /\ KindOf[request] # "part"
        /\ closure' = [closure EXCEPT ![request] = [fd |-> fd, gen |-> conn.gen]]
        /\ outcome' = [outcome EXCEPT ![request] = "accepted"]
    BY <1>8 DEF HandlePending, conn, Calls!Accept
  <2>2. PICK f \in Live : f = fd /\ conn = conns[f] /\ ~conns[f].redis_pending
    BY <2>1, AtHandler
  <2>3. PICK q \in Requests : q = request
    BY <2>1, ConsumedEffect
  <2>4. /\ outcome'[q] = "accepted" /\ closure'[q].gen = conns[f].gen
        /\ \A r \in Requests : r # q => outcome'[r] = outcome[r] /\ closure'[r] = closure[r]
    BY <1>0, <2>1, <2>2, <2>3 DEF CallsOK
  <2>5. \A r \in Requests : outcome'[r] = "accepted" =>
          \/ outcome[r] = "accepted" /\ closure'[r] = closure[r]
          \/ closure'[r].gen = conns[f].gen
    BY <2>4
  <2>6. CASE RemoveConnections({f})
    <3>1. Live' = Live \ {f} /\ \A g \in Fds \ {f} : conns'[g] = conns[g]
      BY <1>0, <2>6, RemoveEffect
    <3>2. IsPrefix(sent'[conns[f].gen], Complete(asked'[conns[f].gen]))
      BY <1>0, <2>1, ConnectionFields DEF AnswerInv, AnswersInOrder
    <3> QED
      BY <2>1, <2>5, <3>1, <3>2, OneAnswers
  <2>7. ASSUME NEW d \in Connection, Keep(f, d), Len(d.output_queue) <= MAX_OUTPUT_QUEUE,
               d.receive_buffer = Tail(conns[f].receive_buffer), d.socket = conns[f].socket,
               d.output_queue = conns[f].output_queue,
               d.gen = conns[f].gen, d.redis_pending
        PROVE  AnswerInv'
    <3> DEFINE c == conns[f]
               b == c.receive_buffer
               t == c.socket
               o == c.output_queue
               s == sent[c.gen]
               a == Complete(asked[c.gen])
               u == Complete(Tail(b) \o t)
               none == <<>>
    <3>1. /\ Live' = Live /\ conns'[f] = d /\ \A g \in Fds : g # f => conns'[g] = conns[g]
      BY <1>0, <2>7, KeepEffect
    <3>2. /\ b \in Seq(Requests) /\ t \in Seq(Requests) /\ o \in Seq(Requests)
          /\ c.gen \in Generations /\ s \in Seq(Requests) /\ Tail(b) \in Seq(Requests)
          /\ b # none /\ q = Head(b) /\ KindOf[q] # "part"
      BY <1>0, <2>1, <2>2, <2>3, ConnectionFields, HeadTailProperties DEF HistoryOK, request
    <3>3. a = ((s \o o) \o none) \o Complete(b \o t)
      BY <1>0, <2>2 DEF Accounted, InOrder, Waits
    <3>4. u \in Seq(Requests) /\ Complete(b \o t) = <<q>> \o u
      BY <3>2, ConcatRequests, CompleteType, TakeRequest
    <3>5. a = ((s \o o) \o <<q>>) \o u
      <4> HIDE DEF b, t, o, s, a, u
      <4>0. s \in Seq(Requests) /\ o \in Seq(Requests) /\ u \in Seq(Requests) /\ q \in Requests
        BY <3>2, <3>4
      <4>1. /\ ((s \o o) \o none) \o (<<q>> \o u) = ((s \o o) \o <<q>>) \o u
            /\ ((s \o o) \o <<q>>) \o u = ((s \o Append(o, q)) \o none) \o u
        BY <4>0, AccountMoves, ZenonT(60)
      <4> QED
        BY <3>3, <3>4, <4>1
    <3>6. InOrder(conns[f], <<q>>)'
      BY <2>1, <2>7, <3>1, <3>5 DEF InOrder
    <3>7. \A r \in Requests :
            outcome'[r] = "accepted" /\ closure'[r].gen = c.gen => r = q
      BY <2>4 DEF CallInv, OneCall
    <3>8. Waits(conns[f], <<q>>)'
      BY <2>7, <3>1, <3>7 DEF Waits
    <3>9. Accounted(conns[f])'
      <4> DEFINE w == <<q>>
      <4>1. w \in Seq(Requests)
        OBVIOUS
      <4> HIDE DEF w
      <4>2. InOrder(conns[f], w)' /\ Waits(conns[f], w)'
        BY <3>6, <3>8 DEF w
      <4> QED
        BY <4>1, <4>2 DEF Accounted
    <3> QED
      BY <2>1, <2>5, <2>7, <3>1, <3>9, OneAnswers
  <2>8. \/ RemoveConnections({fd})
        \/ \E d \in Connection :
             /\ Keep(fd, d) /\ Len(d.output_queue) <= MAX_OUTPUT_QUEUE
             /\ d.receive_buffer = Tail(conn.receive_buffer) /\ d.socket = conn.socket
             /\ d.output_queue = conn.output_queue
             /\ d.gen = conn.gen /\ d.redis_pending
    BY <1>8, PendingEffect
  <2> QED
    BY <2>2, <2>3, <2>6, <2>7, <2>8
<1>9. CASE Flush \/ Writable
  <2>1. /\ UNCHANGED <<asked, next_connection_generation>> /\ NoCallBegins
    BY <1>9 DEF Flush, Writable, poolVars, NoCallBegins
  <2>2. CASE UNCHANGED <<conns, sent>>
    BY <1>0, <2>1, <2>2, KeptAccounts, NoAnswer
  <2>3. CASE fd \in Live /\ HandleWrite(fd, conn)
    <3>1. /\ conn \in Connection /\ Len(conn.output_queue) <= MAX_OUTPUT_QUEUE
          /\ conn = conns[fd]
      BY <1>0, <2>3, LiveFinite DEF conn
    <3>2. PICK f \in Live, c \in Connection : f = fd /\ c = conn
      BY <2>3, <3>1
    <3>3. /\ HandleWrite(f, c) /\ c.gen = conns[f].gen /\ Accounted(c)
          /\ Len(c.output_queue) <= MAX_OUTPUT_QUEUE
      BY <1>0, <2>3, <3>1, <3>2
    <3> QED
      BY <2>1, <3>3, AnswerAfterWrite
  <2>4. Flush => fd \in Live
    BY AtHandler DEF Flush
  <2> QED
    BY <1>9, <2>2, <2>3, <2>4 DEF Flush, Writable
<1>10. CASE CompleteAsyncResponse
  <2> DEFINE q == Head(channel[Self])
             cl == closure[q]
  <2>1. /\ UNCHANGED <<asked, next_connection_generation>> /\ ~HandlePending
    BY <1>10 DEF CompleteAsyncResponse, HandlePending
  <2>2. NoCallBegins
    BY <2>1, NoNewCall DEF NoCallBegins
  <2>3. q \in Requests /\ outcome[q] = "accepted" /\ cl \in Closure
    BY <1>10, CompletionEffect
  <2>4. \/ UNCHANGED <<conns, sent>>
        \/ RemoveConnections({cl.fd}) /\ UNCHANGED sent
        \/ /\ IsCurrent(cl)
           /\ \E c \in Connection :
                /\ HandleWrite(cl.fd, c) /\ Len(c.output_queue) <= MAX_OUTPUT_QUEUE
                /\ c.output_queue = Append(conns[cl.fd].output_queue, q)
                /\ c.gen = conns[cl.fd].gen /\ ~c.redis_pending
                /\ c.receive_buffer = conns[cl.fd].receive_buffer
                /\ c.socket = conns[cl.fd].socket
    BY <1>10, CompletionEffect
  <2> HIDE DEF q
  <2>5. CASE UNCHANGED <<conns, sent>> \/ (RemoveConnections({cl.fd}) /\ UNCHANGED sent)
    BY <1>0, <2>1, <2>2, <2>5, KeptAccounts, NoAnswer
  <2>6. ASSUME NEW f \in Live, f = cl.fd, IsCurrent(cl), NEW c \in Connection,
               HandleWrite(f, c), Len(c.output_queue) <= MAX_OUTPUT_QUEUE,
               c.output_queue = Append(conns[f].output_queue, q),
               c.gen = conns[f].gen, ~c.redis_pending,
               c.receive_buffer = conns[f].receive_buffer, c.socket = conns[f].socket
        PROVE  AnswerInv'
    <3> DEFINE e == conns[f]
               o == e.output_queue
               s == sent[e.gen]
               a == Complete(asked[e.gen])
               u == Complete(e.receive_buffer \o e.socket)
               none == <<>>
    <3>1. e.redis_pending /\ e.gen = cl.gen
      BY <2>6 DEF IsCurrent
    <3>2. a = ((s \o o) \o <<q>>) \o u
      BY <1>0, <2>3, <3>1 DEF Accounted, InOrder, Waits
    <3>3. /\ o \in Seq(Requests) /\ e.gen \in Generations /\ s \in Seq(Requests)
          /\ e.receive_buffer \in Seq(Requests) /\ e.socket \in Seq(Requests)
      BY <1>0, ConnectionFields DEF HistoryOK
    <3>4. u \in Seq(Requests)
      BY <3>3, ConcatRequests, CompleteType
    <3>5. a = ((s \o Append(o, q)) \o none) \o u
      <4> HIDE DEF o, s, a, u
      <4>0. s \in Seq(Requests) /\ o \in Seq(Requests) /\ u \in Seq(Requests) /\ q \in Requests
        BY <2>3, <3>3, <3>4
      <4>1. /\ ((s \o o) \o none) \o (<<q>> \o u) = ((s \o o) \o <<q>>) \o u
            /\ ((s \o o) \o <<q>>) \o u = ((s \o Append(o, q)) \o none) \o u
        BY <4>0, AccountMoves, ZenonT(60)
      <4> QED
        BY <3>2, <4>1
    <3>6. InOrder(c, none)
      BY <2>6, <3>5 DEF InOrder
    <3>7. Waits(c, none)
      BY <2>6 DEF Waits
    <3>8. Accounted(c)
      <4>1. none \in Seq(Requests)
        OBVIOUS
      <4> HIDE DEF none
      <4> QED
        BY <3>6, <3>7, <4>1 DEF Accounted
    <3> QED
      BY <2>1, <2>2, <2>6, <3>8, AnswerAfterWrite
  <2>7. IsCurrent(cl) => cl.fd \in Live
    BY DEF IsCurrent
  <2> HIDE DEF cl
  <2> QED
    BY <2>4, <2>5, <2>6, <2>7
<1>11. ASSUME NEW f \in Fds, NEW q \in Requests, Send(f, q) PROVE AnswerInv'
  <2>1. /\ UNCHANGED <<sent, next_connection_generation>> /\ NoCallBegins
        /\ asked' = [asked EXCEPT ![conns[f].gen] = Append(@, q)] /\ f \in Live
    BY <1>11 DEF Send, reactorVars, poolVars, NoCallBegins
  <2>2. PICK d \in Connection :
          /\ Keep(f, d) /\ Len(d.output_queue) <= MAX_OUTPUT_QUEUE
          /\ d.socket = Append(conns[f].socket, q)
          /\ d.receive_buffer = conns[f].receive_buffer
          /\ d.output_queue = conns[f].output_queue
          /\ d.gen = conns[f].gen /\ d.redis_pending = conns[f].redis_pending
    BY <1>11, SendEffect
  <2> DEFINE c == conns[f]
             b == c.receive_buffer
             t == c.socket
             o == c.output_queue
             s == sent[c.gen]
             a == asked[c.gen]
             r == b \o t
  <2>3. /\ Live' = Live /\ conns'[f] = d /\ \A g \in Fds : g # f => conns'[g] = conns[g]
    BY <1>0, <2>1, <2>2, KeepEffect
  <2>4. /\ b \in Seq(Requests) /\ t \in Seq(Requests) /\ o \in Seq(Requests)
        /\ c.gen \in Generations /\ s \in Seq(Requests) /\ a \in Seq(Requests)
    BY <1>0, <2>1, ConnectionFields DEF HistoryOK
  <2>5. /\ asked'[c.gen] = Append(a, q)
        /\ \A h \in Generations : h # c.gen => asked'[h] = asked[h] /\ sent'[h] = sent[h]
    BY <1>0, <2>1, <2>4 DEF HistoryOK
  <2>6. PICK w \in Seq(Requests) : InOrder(conns[f], w) /\ Waits(conns[f], w)
    BY <1>0, <2>1 DEF Accounted
  <2>7. Complete(a) = ((s \o o) \o w) \o Complete(r)
    BY <2>6 DEF InOrder
  <2>8. r \in Seq(Requests) /\ b \o Append(t, q) = Append(r, q)
    <3> HIDE DEF b, t
    <3> QED
      BY <2>4
  <2>9. Complete(Append(a, q)) = ((s \o o) \o w) \o Complete(b \o Append(t, q))
    <3> HIDE DEF b, t, o, s, a, r
    <3>1. Complete(Append(a, q)) =
            IF KindOf[q] = "part" THEN Complete(a) ELSE Append(Complete(a), q)
      BY <2>4, CompleteAppend
    <3>2. Complete(Append(r, q)) =
            IF KindOf[q] = "part" THEN Complete(r) ELSE Append(Complete(r), q)
      BY <2>8, CompleteAppend
    <3> DEFINE x == (s \o o) \o w
               y == Complete(r)
    <3>3. x \in Seq(Requests) /\ y \in Seq(Requests)
      BY <2>4, <2>8, CompleteType, ConcatRequests
    <3> HIDE DEF x, y
    <3>4. x \o Append(y, q) = Append(x \o y, q)
      BY <3>3
    <3> QED
      BY <2>7, <2>8, <3>1, <3>2, <3>4 DEF x, y
  <2>10. InOrder(conns[f], w)'
    BY <2>1, <2>2, <2>3, <2>5, <2>9 DEF InOrder
  <2>11. Waits(conns[f], w)'
    BY <2>1, <2>2, <2>3, <2>6 DEF Waits, NoCallBegins
  <2>12. Accounted(conns[f])'
    BY <2>10, <2>11 DEF Accounted
  <2>13. \A p \in Requests : outcome'[p] = "accepted" =>
           outcome[p] = "accepted" /\ closure'[p] = closure[p]
    BY <2>1 DEF NoCallBegins
  <2> QED
    BY <2>1, <2>2, <2>3, <2>5, <2>12, <2>13, OneAnswers
<1> QED
  BY <1>1, <1>2, <1>3, <1>4, <1>5, <1>6, <1>7, <1>8, <1>9, <1>10, <1>11, <1>12, <1>13
     DEF Next, ReactorStep, HandleClientStep, Environment, ConnsIdle

(***************************************************************************)
(* Every client gets the answers to its own requests, in the order it sent *)
(* them, each once: whatever is pipelined, in whatever order calls end,    *)
(* connections are dropped and descriptors are reused.                     *)
(***************************************************************************)
THEOREM AnswersOrdered == Spec => []AnswersInOrder
<1>1. Init => AnswerInv
  <2> SUFFICES ASSUME Init PROVE AnswerInv
    OBVIOUS
  <2> DEFINE none == <<>>
  <2>1. none \in Seq(Requests) /\ none \o none = none /\ Complete(none) = none
    BY CompleteType
  <2>2. \A g \in Generations : asked[g] = none /\ sent[g] = none
    BY DEF Init
  <2>3. Live = {}
    BY DEF Init, Live
  <2>4. IsPrefix(none, none \o none)
    BY <2>1, PrefixConcat
  <2> QED
    BY <2>1, <2>2, <2>3, <2>4 DEF AnswerInv, AnswersInOrder
<1>2. CoreInv /\ CoreInv' /\ CallInv /\ CallInv' /\ AnswerInv /\ [Next]_vars => AnswerInv'
  BY NextAnswerInv
<1>3. AnswerInv => AnswersInOrder
  BY DEF AnswerInv
<1> QED
  BY <1>1, <1>2, <1>3, CoreInvariant, CallInvariant, PTL DEF Spec

=============================================================================
