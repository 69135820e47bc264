-------------------------- MODULE HttpParserProofs --------------------------
(***************************************************************************)
(* Proofs about HttpParser, for any streams and any limits: the requests   *)
(* that reach the handler are within the limits, the receive buffer never  *)
(* fills up, and what parse() makes of a stream does not depend on how the *)
(* network cut it.                                                         *)
(***************************************************************************)
EXTENDS HttpParser, Induction, SequenceTheorems, TLAPS

-----------------------------------------------------------------------------
(* Types and bounds of the parser. *)

States == LineStates \cup {"Body", "ChunkData", "ChunkDataCRLF"}

Parser ==
    [state : States, line : Seq(Bytes), headers : Seq(Seq(Bytes)), body : Seq(Bytes),
     content_length : Nat, headers_size : Nat, host_count : Nat,
     chunk_size : Nat, chunk_bytes_read : Nat, trailer_size : Nat, trailer_count : Nat,
     has_content_length : BOOLEAN, has_transfer_encoding : BOOLEAN]

\* The head that has been read so far is within its limits, and headers_size is
\* what its lines take.
HeadBounded(p) ==
    /\ Len(p.line) <= MAX_REQUEST_LINE_SIZE
    /\ Len(p.headers) <= MAX_HEADER_COUNT
    /\ \A i \in DOMAIN p.headers : Len(p.headers[i]) <= MAX_HEADER_LINE_SIZE
    /\ p.state = "RequestLine" => p.headers_size = 0 /\ p.headers = <<>>
    /\ p.state = "Headers" => p.headers_size = Sum(p.headers)
    /\ p.state \notin {"RequestLine", "Headers"} => p.headers_size = Sum(p.headers) + 2
    /\ p.headers_size <= MAX_HEADERS_SIZE

\* So are the body and the trailers.
BodyBounded(p) ==
    /\ p.content_length <= MAX_BODY_SIZE /\ Len(p.body) <= MAX_BODY_SIZE
    /\ p.state \in {"RequestLine", "Headers"} => p.body = <<>>
    /\ p.state = "Body" => Len(p.body) <= p.content_length
    /\ p.chunk_bytes_read <= p.chunk_size
    /\ p.state = "ChunkData" => p.chunk_bytes_read < p.chunk_size
    /\ p.trailer_size <= MAX_HEADERS_SIZE

Bounded(p) == p \in Parser /\ HeadBounded(p) /\ BodyBounded(p)

\* The limits are positive numbers.
LEMMA Limits ==
    /\ MAX_RECEIVE_BUFFER \in Nat \ {0} /\ MAX_REQUEST_LINE_SIZE \in Nat \ {0}
    /\ MAX_HEADER_LINE_SIZE \in Nat \ {0} /\ MAX_HEADERS_SIZE \in Nat \ {0}
    /\ MAX_HEADER_COUNT \in Nat \ {0} /\ MAX_BODY_SIZE \in Nat \ {0} /\ ReadSize \in Nat \ {0}
    /\ MAX_REQUEST_LINE_SIZE < MAX_RECEIVE_BUFFER
    /\ MAX_HEADER_LINE_SIZE < MAX_RECEIVE_BUFFER
    /\ \A k \in DOMAIN LengthOf : LengthOf[k] \in Nat
    /\ \A k \in DOMAIN SizeOf : SizeOf[k] \in Nat
BY HttpParserAssumption

\* Min of a set of natural numbers, and of two.
LEMMA MinFacts ==
    ASSUME NEW T, T \subseteq Nat, T # {}
    PROVE  Min(T) \in T /\ \A y \in T : Min(T) <= y
BY LeastNumber DEF Min

\* The lesser of two numbers.
LEMMA MinOfTwo ==
    ASSUME NEW a \in Nat, NEW b \in Nat
    PROVE  Min({a, b}) = IF a <= b THEN a ELSE b
<1> DEFINE T == {a, b}
<1>1. T \subseteq Nat /\ T # {}
  OBVIOUS
<1>2. a \in T /\ b \in T /\ \A y \in T : y = a \/ y = b
  OBVIOUS
<1> HIDE DEF T
<1>3. Min(T) \in T /\ \A y \in T : Min(T) <= y
  BY <1>1, MinFacts
<1>4. (Min(T) = a \/ Min(T) = b) /\ Min(T) <= a /\ Min(T) <= b
  BY <1>2, <1>3
<1>5. Min(T) = IF a <= b THEN a ELSE b
  BY <1>4
<1> QED
  BY <1>5 DEF T

\* The first CR LF of a sequence.
LEMMA EndOfLineFacts ==
    ASSUME NEW s \in Seq(Bytes)
    PROVE  LET e == EndOfLine(s) IN
           /\ e \in Nat
           /\ e = 0 => \A i \in 1 .. Len(s) - 1 : ~(s[i] = CR /\ s[i + 1] = LF)
           /\ e # 0 => /\ e \in 1 .. Len(s) - 1 /\ s[e] = CR /\ s[e + 1] = LF
                       /\ \A i \in 1 .. e - 1 : ~(s[i] = CR /\ s[i + 1] = LF)
<1> DEFINE at == {i \in 1 .. Len(s) - 1 : s[i] = CR /\ s[i + 1] = LF}
           e == EndOfLine(s)
<1>0. Len(s) \in Nat /\ at \subseteq Nat
  OBVIOUS
<1>1. e = IF at = {} THEN 0 ELSE Min(at)
  BY DEF EndOfLine
<1>2. at # {} => Min(at) \in at /\ \A y \in at : Min(at) <= y
  <2> HIDE DEF at
  <2> QED
    BY <1>0, MinFacts
<1>3. CASE at = {}
  <2>1. \A i \in 1 .. Len(s) - 1 : i \notin at
    BY <1>3
  <2>2. \A i \in 1 .. Len(s) - 1 : ~(s[i] = CR /\ s[i + 1] = LF)
    BY <2>1
  <2> HIDE DEF at
  <2> QED
    BY <1>1, <1>3, <2>2
<1>4. CASE at # {}
  <2>1. e \in at /\ \A y \in at : e <= y
    BY <1>1, <1>2, <1>4
  <2> HIDE DEF e
  <2>2. e \in 1 .. Len(s) - 1 /\ s[e] = CR /\ s[e + 1] = LF
    BY <2>1
  <2>3. \A i \in 1 .. e - 1 : i \notin at
    BY <1>0, <2>1, <2>2
  <2>4. \A i \in 1 .. e - 1 : ~(s[i] = CR /\ s[i + 1] = LF)
    BY <1>0, <2>2, <2>3
  <2> QED
    BY <1>0, <2>2, <2>4 DEF e
<1> QED
  BY <1>3, <1>4

-----------------------------------------------------------------------------
(* The size of the header lines. *)

\* The recursion that defines Sum has a solution.
LEMMA SumDef ==
    ASSUME NEW lines \in Seq(Seq(Bytes))
    PROVE  \E f \in [0 .. Len(lines) -> Nat] :
             /\ f[0] = 0
             /\ \A i \in 1 .. Len(lines) : f[i] = f[i - 1] + Len(lines[i]) + 2
             /\ Sum(lines) = f[Len(lines)]
<1> DEFINE N == Len(lines)
           G == [i \in 1 .. N |-> [n \in Nat |-> n + Len(lines[i]) + 2]]
           Body(g) == [i \in 0 .. N |-> IF i = 0 THEN 0 ELSE g[i - 1] + Len(lines[i]) + 2]
           c == CHOOSE g : g = Body(g)
<1>1. N \in Nat /\ \A i \in 1 .. N : lines[i] \in Seq(Bytes) /\ Len(lines[i]) \in Nat
  OBVIOUS
<1>2. G \in [1 .. N -> [Nat -> Nat]]
  BY <1>1
<1>3. \E f : Recurs(f, N, Nat, 0, G)
  <2> HIDE DEF N, G
  <2> QED
    BY <1>1, <1>2, Recursion
<1>4. PICK f \in [0 .. N -> Nat] : f[0] = 0 /\ \A i \in 1 .. N : f[i] = G[i][f[i - 1]]
  <2> HIDE DEF N, G
  <2> QED
    BY <1>3 DEF Recurs
<1>5. ASSUME NEW i \in 1 .. N PROVE f[i] = f[i - 1] + Len(lines[i]) + 2
  <2>1. i - 1 \in 0 .. N
    BY <1>1
  <2>2. f[i - 1] \in Nat /\ f[i] = G[i][f[i - 1]]
    BY <1>4, <2>1
  <2> QED
    BY <2>2
<1>6. f = Body(f)
  BY <1>1, <1>4, <1>5
<1>7. c = Body(c)
  <2> HIDE DEF Body
  <2> QED
    BY <1>6
<1>8. c = f
  <2> DEFINE T == {n \in 0 .. N : c[n] = f[n]}
  <2>0. \A n \in 0 .. N : c[n] = Body(c)[n]
    BY <1>7
  <2> HIDE DEF c
  <2>1. 0 \in T
    <3>1. 0 \in 0 .. N
      BY <1>1
    <3>2. c[0] = Body(c)[0]
      BY <2>0, <3>1
    <3>3. Body(c)[0] = 0
      BY <3>1
    <3> HIDE DEF Body
    <3> QED
      BY <1>4, <3>1, <3>2, <3>3
  <2>2. ASSUME NEW n \in 0 .. N - 1, n \in T PROVE n + 1 \in T
    <3>1. n + 1 \in 1 .. N /\ n + 1 - 1 = n /\ n + 1 # 0 /\ n + 1 \in 0 .. N
      BY <1>1
    <3>2. c[n + 1] = c[n] + Len(lines[n + 1]) + 2
      BY <2>0, <3>1
    <3>3. f[n + 1] = f[n] + Len(lines[n + 1]) + 2
      BY <1>5, <3>1
    <3> QED
      BY <2>2, <3>1, <3>2, <3>3
  <2>3. \A n \in 0 .. N : n \in T
    <3> HIDE DEF T
    <3> QED
      BY <1>1, <2>1, <2>2, UpTo
  <2>4. c = [n \in 0 .. N |-> c[n]]
    BY <1>7
  <2> QED
    BY <1>4, <2>3, <2>4
<1>9. Sum(lines) = c[N]
  BY DEF Sum
<1> QED
  BY <1>4, <1>5, <1>8, <1>9

\* No lines take no space.
LEMMA SumEmpty == Sum(<<>>) = 0
<1>1. <<>> \in Seq(Seq(Bytes)) /\ Len(<<>>) = 0
  OBVIOUS
<1> QED
  BY <1>1, SumDef

\* One more line takes its length and two.
LEMMA SumAppend ==
    ASSUME NEW lines \in Seq(Seq(Bytes)), NEW line \in Seq(Bytes)
    PROVE  /\ Sum(lines) \in Nat
           /\ Sum(Append(lines, line)) = Sum(lines) + Len(line) + 2
<1> DEFINE N == Len(lines)
           more == Append(lines, line)
<1>1. /\ N \in Nat /\ more \in Seq(Seq(Bytes)) /\ Len(more) = N + 1
      /\ \A i \in 1 .. N : more[i] = lines[i]
      /\ more[N + 1] = line
  OBVIOUS
<1>2. PICK f \in [0 .. N -> Nat] :
             /\ f[0] = 0
             /\ \A i \in 1 .. N : f[i] = f[i - 1] + Len(lines[i]) + 2
             /\ Sum(lines) = f[N]
  BY SumDef
<1> HIDE DEF more
<1>3. PICK g \in [0 .. N + 1 -> Nat] :
             /\ g[0] = 0
             /\ \A i \in 1 .. N + 1 : g[i] = g[i - 1] + Len(more[i]) + 2
             /\ Sum(more) = g[N + 1]
  <2>1. \E g \in [0 .. Len(more) -> Nat] :
             /\ g[0] = 0
             /\ \A i \in 1 .. Len(more) : g[i] = g[i - 1] + Len(more[i]) + 2
             /\ Sum(more) = g[Len(more)]
    BY <1>1, SumDef
  <2> QED
    BY <1>1, <2>1
<1> DEFINE M == N + 1
<1>8. ASSUME NEW i \in 1 .. M PROVE g[i] = g[i - 1] + Len(more[i]) + 2
  BY <1>3
<1>4. \A n \in 0 .. N : f[n] = g[n]
  <2> DEFINE T == {n \in 0 .. N : f[n] = g[n]}
  <2>1. 0 \in T
    BY <1>1, <1>2, <1>3
  <2>2. ASSUME NEW n \in 0 .. N - 1, n \in T PROVE n + 1 \in T
    <3>1. n + 1 \in 1 .. N /\ n + 1 - 1 = n /\ n + 1 \in 0 .. N /\ n + 1 \in 1 .. N + 1
      BY <1>1
    <3>2. f[n + 1] = f[n] + Len(lines[n + 1]) + 2
      BY <1>2, <3>1
    <3>3. g[n + 1] = g[n] + Len(more[n + 1]) + 2
      <4> DEFINE k == n + 1
      <4>1. k \in 1 .. M /\ k - 1 = n
        BY <3>1
      <4> HIDE DEF k, M
      <4>2. g[k] = g[k - 1] + Len(more[k]) + 2
        BY <1>8, <4>1
      <4> QED
        BY <4>1, <4>2 DEF k
    <3>4. more[n + 1] = lines[n + 1]
      BY <1>1, <3>1
    <3> QED
      BY <2>2, <3>1, <3>2, <3>3, <3>4
  <2>3. \A n \in 0 .. N : n \in T
    <3> HIDE DEF T, N
    <3> QED
      BY <1>1, <2>1, <2>2, UpTo
  <2> QED
    BY <2>3
<1>5. /\ N \in 0 .. N /\ N + 1 \in 1 .. N + 1 /\ N + 1 - 1 = N
  BY <1>1
<1>6. g[N + 1] = g[N] + Len(line) + 2
  BY <1>1, <1>5, <1>8
<1> QED
  BY <1>2, <1>3, <1>4, <1>5, <1>6 DEF more

-----------------------------------------------------------------------------
(* What a line does keeps the parser within the limits. *)

\* What is shown of every handler of a line: an error may leave counters beyond
\* their limits, but then the connection is closed.
Keeps(o) ==
    /\ o.parser \in Parser
    /\ o.result \in {"continue", "Complete"} => Bounded(o.parser)
    /\ o.result # "NeedMoreData" /\ o.result # "open"
    /\ o.result = "Complete" => o.parser.state = "ChunkTrailers"

\* An outcome is what it is made of.
LEMMA OutcomeFacts ==
    ASSUME NEW p, NEW result
    PROVE  Outcome(p, result).parser = p /\ Outcome(p, result).result = result
BY DEF Outcome

\* A refusal keeps the parser.
LEMMA Refuses ==
    ASSUME NEW p \in Parser, NEW result \in {"BadRequest", "UnsupportedVersion", "HeadersTooLarge",
                                             "TooManyHeaders", "BodyTooLarge", "RequestLineTooLarge",
                                             "UnsupportedTransferEncoding"}
    PROVE  Keeps(Outcome(p, result))
BY OutcomeFacts DEF Keeps

\* The request line.
LEMMA RequestLineKeeps ==
    ASSUME NEW p, Bounded(p), p.state = "RequestLine", NEW line \in Seq(Bytes),
           Len(line) <= MAX_REQUEST_LINE_SIZE
    PROVE  Keeps(RequestLine(p, line))
<1> DEFINE q == [p EXCEPT !.state = "Headers", !.line = line]
<1>1. p \in Parser
  BY DEF Bounded
<1>2. q \in Parser /\ q.state = "Headers" /\ q.line = line /\ q.headers = p.headers
      /\ q.headers_size = p.headers_size /\ q.body = p.body /\ q.content_length = p.content_length
      /\ q.chunk_bytes_read = p.chunk_bytes_read /\ q.chunk_size = p.chunk_size
      /\ q.trailer_size = p.trailer_size
  BY <1>1 DEF Parser, States, LineStates
<1> HIDE DEF q
<1>3. Bounded(q)
  BY <1>2, SumEmpty DEF Bounded, HeadBounded, BodyBounded
<1>4. Keeps(Outcome(q, "continue"))
  BY <1>2, <1>3, OutcomeFacts DEF Keeps
<1> QED
  BY <1>1, <1>4, Refuses DEF RequestLine, q

\* The empty line that ends the headers.
LEMMA HeadersEndKeeps ==
    ASSUME NEW p \in Parser, HeadBounded([p EXCEPT !.state = "Body"]), BodyBounded(p),
           p.state = "Headers"
    PROVE  Keeps(HeadersEnd(p))
<1> DEFINE b == [p EXCEPT !.state = "Body"]
           s == IF p.has_transfer_encoding THEN "ChunkSize" ELSE "Body"
           q == [p EXCEPT !.state = s]
<1>1. s \in {"ChunkSize", "Body"}
  OBVIOUS
<1> HIDE DEF s
<1>2. /\ b.state = "Body" /\ b.line = p.line /\ b.headers = p.headers
      /\ b.headers_size = p.headers_size
  BY DEF Parser
<1>3. /\ q \in Parser /\ q.state = s /\ q.line = p.line /\ q.headers = p.headers
      /\ q.headers_size = p.headers_size /\ q.body = p.body
      /\ q.content_length = p.content_length
      /\ q.chunk_bytes_read = p.chunk_bytes_read /\ q.chunk_size = p.chunk_size
      /\ q.trailer_size = p.trailer_size
  BY <1>1 DEF Parser, States, LineStates
<1> HIDE DEF q, b
<1>4. HeadBounded(q)
  BY <1>1, <1>2, <1>3 DEF HeadBounded, b
<1>5. BodyBounded(q)
  <2>1. Len(<<>>) = 0 /\ p.content_length \in Nat
    BY DEF Parser
  <2> QED
    BY <1>1, <1>3, <2>1 DEF BodyBounded
<1>6. Keeps(Outcome(q, "continue"))
  BY <1>3, <1>4, <1>5, OutcomeFacts DEF Keeps, Bounded
<1> QED
  BY <1>6, Refuses DEF HeadersEnd, q, s

\* A header field that is added to the head.
LEMMA FieldKeeps ==
    ASSUME NEW p \in Parser, p.state = "Headers", NEW line \in Seq(Bytes),
           Len(p.line) <= MAX_REQUEST_LINE_SIZE,
           Len(p.headers) + 1 <= MAX_HEADER_COUNT,
           \A i \in DOMAIN p.headers : Len(p.headers[i]) <= MAX_HEADER_LINE_SIZE,
           Len(line) <= MAX_HEADER_LINE_SIZE,
           p.headers_size = Sum(p.headers) + Len(line) + 2,
           p.headers_size <= MAX_HEADERS_SIZE,
           BodyBounded(p)
    PROVE  Keeps(Field(p, line))
<1> DEFINE hs == Append(p.headers, line)
           k == Letter(line)
           q == [p EXCEPT !.headers = hs]
           Same(r) == /\ r \in Parser /\ r.state = "Headers" /\ r.line = p.line /\ r.headers = hs
                      /\ r.headers_size = p.headers_size /\ r.body = p.body
                      /\ r.chunk_bytes_read = p.chunk_bytes_read /\ r.chunk_size = p.chunk_size
                      /\ r.trailer_size = p.trailer_size
<1>1. /\ p.headers \in Seq(Seq(Bytes)) /\ p.host_count \in Nat /\ p.content_length \in Nat
      /\ p.has_content_length \in BOOLEAN /\ p.has_transfer_encoding \in BOOLEAN
  BY DEF Parser
<1>2. /\ hs \in Seq(Seq(Bytes)) /\ Len(hs) = Len(p.headers) + 1
      /\ \A i \in DOMAIN hs : Len(hs[i]) <= MAX_HEADER_LINE_SIZE
  <2> DEFINE n == Len(p.headers)
  <2>1. /\ n \in Nat /\ DOMAIN hs = 1 .. n + 1 /\ DOMAIN p.headers = 1 .. n
        /\ hs \in Seq(Seq(Bytes)) /\ Len(hs) = n + 1
        /\ \A i \in 1 .. n : hs[i] = p.headers[i]
        /\ hs[n + 1] = line
    BY <1>1
  <2> HIDE DEF n, hs
  <2>2. \A i \in 1 .. n + 1 : i \in 1 .. n \/ i = n + 1
    BY <2>1
  <2> QED
    BY <2>1, <2>2 DEF n
<1>3. Sum(hs) = p.headers_size
  BY <1>1, SumAppend
<1> HIDE DEF hs
<1>4. ASSUME NEW r, Same(r), r.content_length <= MAX_BODY_SIZE PROVE Bounded(r)
  <2>1. HeadBounded(r)
    BY <1>2, <1>3, <1>4 DEF HeadBounded
  <2>2. BodyBounded(r)
    BY <1>4 DEF BodyBounded
  <2> QED
    BY <1>4, <2>1, <2>2 DEF Bounded
<1>5. ASSUME NEW r, Same(r), r.content_length <= MAX_BODY_SIZE PROVE Keeps(Outcome(r, "continue"))
  BY <1>4, <1>5, OutcomeFacts DEF Keeps
<1>6. p.content_length <= MAX_BODY_SIZE
  BY DEF BodyBounded
<1>7. Same(q) /\ q.content_length = p.content_length /\ q.host_count = p.host_count
  BY <1>2 DEF Parser
<1> HIDE DEF q
<1> DEFINE m == q.host_count + 1
           rh == [q EXCEPT !.host_count = m]
           rt == [q EXCEPT !.has_transfer_encoding = TRUE]
           n == LengthOf[k]
           rl == [q EXCEPT !.content_length = n, !.has_content_length = TRUE]
           length == IF Stray(line) THEN "BadRequest"
                     ELSE IF n > MAX_BODY_SIZE THEN "BodyTooLarge"
                     ELSE IF p.has_content_length /\ p.content_length # n THEN "BadRequest"
                     ELSE "continue"
<1>8. \/ Field(p, line) \in {Outcome(p, "BadRequest"), Outcome(p, "UnsupportedTransferEncoding"),
                             Outcome(q, "continue"), Outcome(rh, "BadRequest"),
                             Outcome(rh, "continue"), Outcome(rt, "BadRequest"),
                             Outcome(rt, "UnsupportedTransferEncoding"), Outcome(rt, "continue")}
      \/ k \in DOMAIN LengthOf /\ Field(p, line) = Outcome(rl, length)
  <2>1. Field(p, line) =
          CASE k \notin HeaderLetters -> Outcome(p, "BadRequest")
            [] k = "o" -> Outcome(q, "continue")
            [] k = "h" -> Outcome(rh, IF p.host_count = 1 THEN "BadRequest" ELSE "continue")
            [] k \in DOMAIN LengthOf -> Outcome(rl, length)
            [] k = "t" -> Outcome(rt, IF p.has_transfer_encoding THEN "BadRequest"
                                      ELSE IF Stray(line) THEN "UnsupportedTransferEncoding"
                                      ELSE "continue")
            [] k = "u" -> Outcome(p, IF p.has_transfer_encoding THEN "BadRequest"
                                     ELSE "UnsupportedTransferEncoding")
    BY DEF Field, q, hs
  <2>2. k \in HeaderLetters => k \in {"h", "o", "t", "u"} \/ k \in DOMAIN LengthOf
    BY DEF HeaderLetters
  <2> HIDE DEF rh, rt, rl, length, k
  <2> QED
    BY <2>1, <2>2
<1>9. m \in Nat
  BY <1>1, <1>7
<1> HIDE DEF m
<1>10. Same(rh) /\ rh.content_length = p.content_length
  BY <1>7, <1>9 DEF Parser
<1>11. Same(rt) /\ rt.content_length = p.content_length
  BY <1>7 DEF Parser
<1>12. ASSUME k \in DOMAIN LengthOf PROVE Keeps(Outcome(rl, length))
  <2>0. n \in Nat
    BY <1>12, Limits
  <2> HIDE DEF n
  <2>1. Same(rl) /\ rl.content_length = n
    BY <1>7, <2>0 DEF Parser
  <2>2. length = "continue" => n <= MAX_BODY_SIZE
    BY <2>0, Limits
  <2>3. length \in {"BadRequest", "BodyTooLarge", "continue"}
    OBVIOUS
  <2> HIDE DEF rl, length
  <2>4. rl \in Parser
    BY <2>1
  <2> HIDE DEF Same
  <2>5. CASE length = "continue"
    BY <1>5, <2>1, <2>2, <2>5
  <2>6. CASE length # "continue"
    BY <2>3, <2>4, <2>6, Refuses
  <2> QED
    BY <2>5, <2>6
<1>13. rh \in Parser /\ rt \in Parser
  BY <1>10, <1>11
<1> HIDE DEF rh, rt, rl, length, Same
<1>14. /\ Keeps(Outcome(q, "continue")) /\ Keeps(Outcome(rh, "continue"))
       /\ Keeps(Outcome(rt, "continue"))
  BY <1>5, <1>6, <1>7, <1>10, <1>11
<1>15. /\ Keeps(Outcome(p, "BadRequest")) /\ Keeps(Outcome(p, "UnsupportedTransferEncoding"))
       /\ Keeps(Outcome(rh, "BadRequest")) /\ Keeps(Outcome(rt, "BadRequest"))
       /\ Keeps(Outcome(rt, "UnsupportedTransferEncoding"))
  BY <1>13, Refuses
<1> QED
  BY <1>8, <1>12, <1>14, <1>15

\* A line of the head.
LEMMA HeaderLineKeeps ==
    ASSUME NEW p, Bounded(p), p.state = "Headers", NEW line \in Seq(Bytes),
           Len(line) <= MAX_HEADER_LINE_SIZE
    PROVE  Keeps(HeaderLine(p, line))
<1> DEFINE n == p.headers_size + Len(line) + 2
           q == [p EXCEPT !.headers_size = n]
<1>1. /\ p \in Parser /\ p.headers_size \in Nat /\ p.headers \in Seq(Seq(Bytes))
      /\ Len(line) \in Nat /\ Len(p.headers) \in Nat
  BY DEF Bounded, Parser
<1>2. n \in Nat /\ n = Sum(p.headers) + Len(line) + 2
  BY <1>1 DEF Bounded, HeadBounded
<1>3. line = <<>> => Len(line) = 0
  OBVIOUS
<1> HIDE DEF n
<1>4. /\ q \in Parser /\ q.state = "Headers" /\ q.line = p.line /\ q.headers = p.headers
      /\ q.headers_size = n /\ q.body = p.body /\ q.content_length = p.content_length
      /\ q.chunk_bytes_read = p.chunk_bytes_read /\ q.chunk_size = p.chunk_size
      /\ q.trailer_size = p.trailer_size
  BY <1>1, <1>2 DEF Parser
<1>5. HeaderLine(p, line) =
        IF n > MAX_HEADERS_SIZE THEN Outcome(p, "HeadersTooLarge")
        ELSE IF line = <<>> THEN HeadersEnd(q)
        ELSE IF Len(p.headers) + 1 > MAX_HEADER_COUNT THEN Outcome(p, "TooManyHeaders")
        ELSE Field(q, line)
  <2>1. q.headers_size = n /\ n \in Nat /\ MAX_HEADERS_SIZE \in Nat
    BY <1>2, <1>4, Limits
  <2>2. n > MAX_HEADERS_SIZE <=> ~(n <= MAX_HEADERS_SIZE)
    BY <2>1
  <2> QED
    BY <2>1, <2>2 DEF HeaderLine, n
<1> HIDE DEF q
<1>6. BodyBounded(q)
  BY <1>4 DEF Bounded, BodyBounded
<1>7. CASE n > MAX_HEADERS_SIZE
  BY <1>1, <1>5, <1>7, Refuses
<1>8. CASE ~(n > MAX_HEADERS_SIZE) /\ line = <<>>
  <2> DEFINE b == [q EXCEPT !.state = "Body"]
  <2>1. /\ b.state = "Body" /\ b.line = q.line /\ b.headers = q.headers
        /\ b.headers_size = q.headers_size
    BY <1>4 DEF Parser
  <2> HIDE DEF b
  <2>2. HeadBounded(b)
    BY <1>1, <1>2, <1>3, <1>4, <1>8, <2>1, Limits DEF Bounded, HeadBounded
  <2>3. Keeps(HeadersEnd(q))
    BY <1>4, <1>6, <2>2, HeadersEndKeeps DEF b
  <2> QED
    BY <1>5, <1>8, <2>3
<1>9. CASE ~(n > MAX_HEADERS_SIZE) /\ line # <<>> /\ Len(p.headers) + 1 > MAX_HEADER_COUNT
  BY <1>1, <1>5, <1>9, Refuses
<1>10. CASE ~(n > MAX_HEADERS_SIZE) /\ line # <<>> /\ ~(Len(p.headers) + 1 > MAX_HEADER_COUNT)
  <2>1. n <= MAX_HEADERS_SIZE /\ Len(p.headers) + 1 <= MAX_HEADER_COUNT
    BY <1>1, <1>2, <1>10, Limits
  <2>2. /\ Len(q.line) <= MAX_REQUEST_LINE_SIZE
        /\ \A i \in DOMAIN q.headers : Len(q.headers[i]) <= MAX_HEADER_LINE_SIZE
    BY <1>4 DEF Bounded, HeadBounded
  <2>3. Keeps(Field(q, line))
    BY <1>2, <1>4, <1>6, <2>1, <2>2, FieldKeeps
  <2> QED
    BY <1>5, <1>10, <2>3
<1> QED
  BY <1>7, <1>8, <1>9, <1>10

\* A chunk-size line.
LEMMA ChunkSizeLineKeeps ==
    ASSUME NEW p, Bounded(p), p.state = "ChunkSize", NEW line \in Seq(Bytes)
    PROVE  Keeps(ChunkSizeLine(p, line))
<1> DEFINE k == Letter(line)
           n == SizeOf[k]
           next == IF n = 0 THEN "ChunkTrailers" ELSE "ChunkData"
           q == [p EXCEPT !.chunk_size = n, !.chunk_bytes_read = 0, !.state = next]
<1>1. p \in Parser
  BY DEF Bounded
<1>2. CASE k \in DOMAIN SizeOf /\ ~Stray(line) /\ n <= MAX_BODY_SIZE
  <2>1. n \in Nat
    BY <1>2, Limits
  <2>2. /\ next \in {"ChunkTrailers", "ChunkData"}
        /\ next = "ChunkData" => n # 0
    OBVIOUS
  <2>3. ChunkSizeLine(p, line) = Outcome(q, "continue")
    BY <1>2 DEF ChunkSizeLine
  <2> HIDE DEF n, next
  <2>4. /\ q \in Parser /\ q.state = next /\ q.line = p.line /\ q.headers = p.headers
        /\ q.headers_size = p.headers_size /\ q.body = p.body
        /\ q.content_length = p.content_length
        /\ q.chunk_bytes_read = 0 /\ q.chunk_size = n
        /\ q.trailer_size = p.trailer_size
    BY <1>1, <2>1, <2>2 DEF Parser, States, LineStates
  <2> HIDE DEF q
  <2>5. Bounded(q)
    BY <2>1, <2>2, <2>4 DEF Bounded, HeadBounded, BodyBounded
  <2>6. Keeps(Outcome(q, "continue"))
    BY <2>4, <2>5, OutcomeFacts DEF Keeps
  <2> QED
    BY <2>3, <2>6
<1>3. CASE ~(k \in DOMAIN SizeOf /\ ~Stray(line) /\ n <= MAX_BODY_SIZE)
  <2>1. ChunkSizeLine(p, line) = Outcome(p, "BadRequest")
    BY <1>3 DEF ChunkSizeLine
  <2> QED
    BY <1>1, <2>1, Refuses
<1> QED
  BY <1>2, <1>3

\* A trailer.
LEMMA TrailerLineKeeps ==
    ASSUME NEW p, Bounded(p), p.state = "ChunkTrailers", NEW line \in Seq(Bytes)
    PROVE  Keeps(TrailerLine(p, line))
<1> DEFINE n == p.trailer_size + Len(line) + 2
           m == p.trailer_count + IF line = <<>> THEN 0 ELSE 1
           q == [p EXCEPT !.trailer_size = n, !.trailer_count = m]
<1>1. p \in Parser /\ p.trailer_size \in Nat /\ p.trailer_count \in Nat /\ Len(line) \in Nat
  BY DEF Bounded, Parser
<1>2. n \in Nat /\ m \in Nat
  BY <1>1
<1>3. \/ TrailerLine(p, line) = Outcome(p, "HeadersTooLarge")
      \/ TrailerLine(p, line) = Outcome(q, "Complete") /\ n <= MAX_HEADERS_SIZE
      \/ TrailerLine(p, line) = Outcome(q, "TooManyHeaders")
      \/ TrailerLine(p, line) = Outcome(q, "continue") /\ n <= MAX_HEADERS_SIZE
      \/ TrailerLine(p, line) = Outcome(q, "BadRequest")
  <2>1. q.trailer_size = n /\ MAX_HEADERS_SIZE \in Nat
    BY <1>1, Limits DEF Parser
  <2>2. n > MAX_HEADERS_SIZE \/ n <= MAX_HEADERS_SIZE
    BY <1>2, <2>1
  <2>3. TrailerLine(p, line) =
          CASE q.trailer_size > MAX_HEADERS_SIZE -> Outcome(p, "HeadersTooLarge")
            [] q.trailer_size <= MAX_HEADERS_SIZE /\ line = <<>> -> Outcome(q, "Complete")
            [] q.trailer_size <= MAX_HEADERS_SIZE /\ line # <<>> ->
                 Outcome(q, IF q.trailer_count > MAX_HEADER_COUNT THEN "TooManyHeaders"
                            ELSE IF Letter(line) \in HeaderLetters THEN "continue"
                            ELSE "BadRequest")
    BY DEF TrailerLine
  <2> HIDE DEF q, n
  <2> QED
    BY <2>1, <2>2, <2>3
<1> HIDE DEF n, m
<1>4. /\ q \in Parser /\ q.state = "ChunkTrailers" /\ q.line = p.line /\ q.headers = p.headers
      /\ q.headers_size = p.headers_size /\ q.body = p.body
      /\ q.content_length = p.content_length
      /\ q.chunk_bytes_read = p.chunk_bytes_read /\ q.chunk_size = p.chunk_size
      /\ q.trailer_size = n
  BY <1>1, <1>2 DEF Parser
<1> HIDE DEF q
<1>5. n <= MAX_HEADERS_SIZE => Bounded(q)
  BY <1>4 DEF Bounded, HeadBounded, BodyBounded
<1>6. n <= MAX_HEADERS_SIZE => Keeps(Outcome(q, "continue")) /\ Keeps(Outcome(q, "Complete"))
  BY <1>4, <1>5, OutcomeFacts DEF Keeps
<1> QED
  BY <1>1, <1>3, <1>4, <1>6, Refuses

\* Any line that is complete and not too long.
LEMMA OnLineKeeps ==
    ASSUME NEW p, Bounded(p), p.state \in LineStates, NEW line \in Seq(Bytes),
           p.state # "ChunkTrailers" => Len(line) <= LineLimit(p)
    PROVE  Keeps(OnLine(p, line))
<1>1. CASE p.state = "RequestLine"
  BY <1>1, RequestLineKeeps DEF OnLine, LineLimit
<1>2. CASE p.state = "Headers"
  BY <1>2, HeaderLineKeeps DEF OnLine, LineLimit
<1>3. CASE p.state = "ChunkSize"
  BY <1>3, ChunkSizeLineKeeps DEF OnLine
<1>4. CASE p.state = "ChunkTrailers"
  BY <1>4, TrailerLineKeeps DEF OnLine
<1> QED
  BY <1>1, <1>2, <1>3, <1>4 DEF LineStates

-----------------------------------------------------------------------------
(* One pass through the loop of parse(). *)

\* The whole body is there.
BodyDone(p) == p.state = "Body" /\ Len(p.body) = p.content_length

\* What is shown of every pass on the bytes s: it does not run over them, keeps
\* the limits, leaves little to be read again, and makes progress.
Advances(p, s, step) ==
    /\ step.parser \in Parser
    /\ step.bytes \in 0 .. Len(s)
    /\ step.result \in {"continue", "NeedMoreData", "Complete"} => Bounded(step.parser)
    /\ step.result = "continue" => (BodyDone(step.parser) => step.bytes > 0)
    /\ step.result = "NeedMoreData" =>
         /\ Len(s) - step.bytes < MAX_RECEIVE_BUFFER
         /\ ~BodyDone(step.parser)
    /\ step.result = "Complete" =>
         /\ step.parser.state \notin {"RequestLine", "Headers"}
         /\ step.bytes > 0 \/ BodyDone(p)

\* A step is what it is made of.
LEMMA StepFacts ==
    ASSUME NEW p, NEW result, NEW n
    PROVE  /\ Step(Outcome(p, result), n).parser = p
           /\ Step(Outcome(p, result), n).result = result
           /\ Step(Outcome(p, result), n).bytes = n
BY DEF Step, Outcome

\* The states that read lines.
LEMMA ParseLineAdvances ==
    ASSUME NEW p, Bounded(p), p.state \in LineStates, NEW s \in Seq(Bytes)
    PROVE  Advances(p, s, ParseLine(p, s))
<1> DEFINE e == EndOfLine(s)
           line == SubSeq(s, 1, e - 1)
           o == OnLine(p, line)
<1>0. /\ p \in Parser /\ Len(s) \in Nat /\ LineLimit(p) \in Nat
      /\ LineLimit(p) < MAX_RECEIVE_BUFFER /\ ~BodyDone(p) /\ MAX_RECEIVE_BUFFER \in Nat
      /\ TooLarge(p) \notin {"continue", "NeedMoreData", "Complete"}
  BY Limits DEF Bounded, LineLimit, LineStates, BodyDone, TooLarge
<1>1. /\ e \in Nat
      /\ e # 0 => e \in 1 .. Len(s) - 1
  BY EndOfLineFacts
<1> HIDE DEF e
<1>2. CASE e = 0
  <2>1. ParseLine(p, s) = Step(Outcome(p, Incomplete(p, s)), 0)
    BY <1>0, <1>2 DEF ParseLine, e
  <2>2. \/ Incomplete(p, s) = TooLarge(p)
        \/ Incomplete(p, s) = "NeedMoreData" /\ Len(s) <= LineLimit(p)
    BY <1>0 DEF Incomplete
  <2>3. 0 \in 0 .. Len(s) /\ Len(s) - 0 = Len(s)
    BY <1>0
  <2>4. ASSUME NEW step, step.parser = p, step.bytes = 0,
               \/ step.result = TooLarge(p)
               \/ step.result = "NeedMoreData" /\ Len(s) <= LineLimit(p)
        PROVE  Advances(p, s, step)
    BY <1>0, <2>3, <2>4 DEF Advances
  <2> QED
    BY <2>1, <2>2, <2>4, StepFacts
<1>3. CASE e # 0 /\ e > LineLimit(p) + 1 /\ p.state # "ChunkTrailers"
  <2>1. ParseLine(p, s) = Step(Outcome(p, TooLarge(p)), 0)
    BY <1>3 DEF ParseLine, e
  <2>2. 0 \in 0 .. Len(s)
    BY <1>0
  <2> QED
    BY <1>0, <2>1, <2>2, StepFacts DEF Advances
<1>4. CASE e # 0 /\ ~(e > LineLimit(p) + 1 /\ p.state # "ChunkTrailers")
  <2>1. ParseLine(p, s) = Step(o, e + 1)
    BY <1>4 DEF ParseLine, e
  <2>2. line \in Seq(Bytes) /\ Len(line) = e - 1
    BY <1>0, <1>1, <1>4
  <2>3. p.state # "ChunkTrailers" => Len(line) <= LineLimit(p)
    BY <1>0, <1>1, <1>4, <2>2
  <2> HIDE DEF line
  <2>4. Keeps(o)
    BY <2>2, <2>3, OnLineKeeps
  <2> HIDE DEF o
  <2>5. /\ ParseLine(p, s).parser = o.parser /\ ParseLine(p, s).result = o.result
        /\ ParseLine(p, s).bytes = e + 1
    BY <2>1 DEF Step
  <2>6. e + 1 \in 0 .. Len(s) /\ e + 1 > 0
    BY <1>0, <1>1, <1>4
  <2> QED
    BY <2>4, <2>5, <2>6 DEF Keeps, Advances
<1> QED
  BY <1>2, <1>3, <1>4

\* Bytes of a sequence are appended.
LEMMA AppendPart ==
    ASSUME NEW b \in Seq(Bytes), NEW s \in Seq(Bytes), NEW n \in 0 .. Len(s)
    PROVE  b \o SubSeq(s, 1, n) \in Seq(Bytes) /\ Len(b \o SubSeq(s, 1, n)) = Len(b) + n
OBVIOUS

\* A body with a length.
LEMMA ParseBodyAdvances ==
    ASSUME NEW p, Bounded(p), p.state = "Body", NEW s \in Seq(Bytes)
    PROVE  Advances(p, s, ParseBody(p, s))
<1> DEFINE n == Min({Len(s), p.content_length - Len(p.body)})
           b == p.body \o SubSeq(s, 1, n)
           q == [p EXCEPT !.body = b]
           result == IF Len(q.body) < p.content_length THEN "NeedMoreData" ELSE "Complete"
<1>0. /\ p \in Parser /\ p.body \in Seq(Bytes) /\ Len(s) \in Nat /\ Len(p.body) \in Nat
      /\ p.content_length \in Nat /\ Len(p.body) <= p.content_length
      /\ p.content_length - Len(p.body) \in Nat
      /\ p.content_length <= MAX_BODY_SIZE /\ MAX_BODY_SIZE \in Nat /\ MAX_RECEIVE_BUFFER \in Nat \ {0}
  BY Limits, SMTT(60) DEF Bounded, Parser, BodyBounded
<1>1. n = IF Len(s) <= p.content_length - Len(p.body) THEN Len(s) ELSE p.content_length - Len(p.body)
  BY <1>0, MinOfTwo
<1>2. n \in 0 .. Len(s) /\ Len(p.body) + n <= p.content_length
  BY <1>0, <1>1
<1>3. ParseBody(p, s) = Step(Outcome(q, result), n)
  BY DEF ParseBody
<1> HIDE DEF n
<1>4. b \in Seq(Bytes) /\ Len(b) = Len(p.body) + n
  BY <1>0, <1>2, AppendPart
<1> HIDE DEF b
<1>5. /\ q \in Parser /\ q.state = "Body" /\ q.line = p.line /\ q.headers = p.headers
      /\ q.headers_size = p.headers_size /\ q.body = b
      /\ q.content_length = p.content_length
      /\ q.chunk_bytes_read = p.chunk_bytes_read /\ q.chunk_size = p.chunk_size
      /\ q.trailer_size = p.trailer_size
  BY <1>0, <1>4 DEF Parser
<1>6. result = IF Len(b) < p.content_length THEN "NeedMoreData" ELSE "Complete"
  BY <1>5
<1> HIDE DEF q, result
<1>7. Bounded(q)
  BY <1>0, <1>2, <1>4, <1>5 DEF Bounded, HeadBounded, BodyBounded
<1>8. result = "NeedMoreData" => Len(s) - n < MAX_RECEIVE_BUFFER /\ ~BodyDone(q)
  <2> SUFFICES ASSUME Len(b) < p.content_length
               PROVE  Len(s) - n < MAX_RECEIVE_BUFFER /\ ~BodyDone(q)
    BY <1>6
  <2>1. n = Len(s)
    BY <1>0, <1>1, <1>2, <1>4
  <2> QED
    BY <1>0, <1>4, <1>5, <2>1 DEF BodyDone
<1>9. result = "Complete" => n > 0 \/ BodyDone(p)
  <2> SUFFICES ASSUME ~(Len(b) < p.content_length), ~(n > 0) PROVE BodyDone(p)
    BY <1>6
  <2> QED
    BY <1>0, <1>2, <1>4 DEF BodyDone
<1>10. result # "continue"
  BY <1>6
<1> QED
  BY <1>2, <1>3, <1>5, <1>7, <1>8, <1>9, <1>10, StepFacts DEF Advances

\* The data of a chunk.
LEMMA ParseChunkDataAdvances ==
    ASSUME NEW p, Bounded(p), p.state = "ChunkData", NEW s \in Seq(Bytes)
    PROVE  Advances(p, s, ParseChunkData(p, s))
<1> DEFINE n == Min({Len(s), p.chunk_size - p.chunk_bytes_read})
           b == p.body \o SubSeq(s, 1, n)
           c == p.chunk_bytes_read + n
           q == [p EXCEPT !.body = b, !.chunk_bytes_read = c]
           t == [q EXCEPT !.state = "ChunkDataCRLF"]
<1>0. /\ p \in Parser /\ p.body \in Seq(Bytes) /\ Len(s) \in Nat /\ Len(p.body) \in Nat
      /\ p.chunk_size \in Nat /\ p.chunk_bytes_read \in Nat /\ p.chunk_bytes_read < p.chunk_size
      /\ p.chunk_size - p.chunk_bytes_read \in Nat
      /\ MAX_BODY_SIZE \in Nat /\ MAX_RECEIVE_BUFFER \in Nat \ {0}
  BY Limits DEF Bounded, Parser, BodyBounded
<1>1. n = IF Len(s) <= p.chunk_size - p.chunk_bytes_read THEN Len(s)
          ELSE p.chunk_size - p.chunk_bytes_read
  BY <1>0, MinOfTwo
<1>2. n \in 0 .. Len(s) /\ c \in Nat /\ c <= p.chunk_size
  BY <1>0, <1>1
<1>3. b \in Seq(Bytes) /\ Len(b) = Len(p.body) + n
  <2> HIDE DEF n
  <2> QED
    BY <1>0, <1>2, AppendPart
<1>4. /\ q.body = b /\ q.chunk_bytes_read = c
  BY <1>0 DEF Parser
<1>5. \/ ParseChunkData(p, s) = Step(Outcome(p, "NeedMoreData"), 0) /\ s = <<>>
      \/ ParseChunkData(p, s) = Step(Outcome(p, "BodyTooLarge"), 0)
      \/ /\ ParseChunkData(p, s) = Step(Outcome(q, "NeedMoreData"), n)
         /\ c < p.chunk_size /\ Len(b) <= MAX_BODY_SIZE
      \/ /\ ParseChunkData(p, s) = Step(Outcome(t, "continue"), n)
         /\ ~(c < p.chunk_size) /\ Len(b) <= MAX_BODY_SIZE
  <2>1. ParseChunkData(p, s) =
          CASE s = <<>> -> Step(Outcome(p, "NeedMoreData"), 0)
            [] s # <<>> /\ Len(q.body) > MAX_BODY_SIZE -> Step(Outcome(p, "BodyTooLarge"), 0)
            [] s # <<>> /\ Len(q.body) <= MAX_BODY_SIZE ->
                 IF q.chunk_bytes_read < p.chunk_size THEN Step(Outcome(q, "NeedMoreData"), n)
                 ELSE Step(Outcome(t, "continue"), n)
    BY DEF ParseChunkData
  <2> HIDE DEF q, t, n, b, c
  <2>2. Len(b) \in Nat
    BY <1>3
  <2>3. Len(b) > MAX_BODY_SIZE \/ Len(b) <= MAX_BODY_SIZE
    BY <1>0, <2>2
  <2> QED
    BY <1>4, <2>1, <2>3
<1> HIDE DEF n, b, c
<1>6. /\ q \in Parser /\ q.state = "ChunkData" /\ q.line = p.line /\ q.headers = p.headers
      /\ q.headers_size = p.headers_size /\ q.body = b
      /\ q.content_length = p.content_length
      /\ q.chunk_bytes_read = c /\ q.chunk_size = p.chunk_size
      /\ q.trailer_size = p.trailer_size
  BY <1>0, <1>2, <1>3 DEF Parser
<1> HIDE DEF q
<1>7. /\ t \in Parser /\ t.state = "ChunkDataCRLF" /\ t.line = p.line /\ t.headers = p.headers
      /\ t.headers_size = p.headers_size /\ t.body = b
      /\ t.content_length = p.content_length
      /\ t.chunk_bytes_read = c /\ t.chunk_size = p.chunk_size
      /\ t.trailer_size = p.trailer_size
  BY <1>6 DEF Parser, States
<1> HIDE DEF t
<1>8. CASE ParseChunkData(p, s) = Step(Outcome(p, "NeedMoreData"), 0) /\ s = <<>>
  <2>1. Len(s) = 0 /\ 0 \in 0 .. Len(s) /\ Len(s) - 0 < MAX_RECEIVE_BUFFER
    BY <1>0, <1>8
  <2>2. ~BodyDone(p)
    BY DEF BodyDone
  <2> QED
    BY <1>0, <1>8, <2>1, <2>2, StepFacts DEF Advances
<1>9. CASE ParseChunkData(p, s) = Step(Outcome(p, "BodyTooLarge"), 0)
  <2>1. 0 \in 0 .. Len(s)
    BY <1>0
  <2> QED
    BY <1>0, <1>9, <2>1, StepFacts DEF Advances
<1>10. CASE /\ ParseChunkData(p, s) = Step(Outcome(q, "NeedMoreData"), n)
            /\ c < p.chunk_size /\ Len(b) <= MAX_BODY_SIZE
  <2>1. Bounded(q) /\ ~BodyDone(q)
    BY <1>2, <1>6, <1>10 DEF Bounded, HeadBounded, BodyBounded, BodyDone
  <2>2. n = Len(s)
    BY <1>0, <1>1, <1>2, <1>10 DEF c
  <2>3. Len(s) - n < MAX_RECEIVE_BUFFER
    BY <1>0, <2>2
  <2> QED
    BY <1>2, <1>6, <1>10, <2>1, <2>3, StepFacts DEF Advances
<1>11. CASE /\ ParseChunkData(p, s) = Step(Outcome(t, "continue"), n)
            /\ ~(c < p.chunk_size) /\ Len(b) <= MAX_BODY_SIZE
  <2>1. Bounded(t) /\ ~BodyDone(t)
    BY <1>2, <1>7, <1>11 DEF Bounded, HeadBounded, BodyBounded, BodyDone
  <2> QED
    BY <1>2, <1>7, <1>11, <2>1, StepFacts DEF Advances
<1> QED
  BY <1>5, <1>8, <1>9, <1>10, <1>11

\* The end of a chunk.
LEMMA ParseChunkCRLFAdvances ==
    ASSUME NEW p, Bounded(p), p.state = "ChunkDataCRLF", NEW s \in Seq(Bytes)
    PROVE  Advances(p, s, ParseChunkCRLF(p, s))
<1> DEFINE q == [p EXCEPT !.state = "ChunkSize"]
<1>0. /\ p \in Parser /\ Len(s) \in Nat /\ ~BodyDone(p) /\ 0 \in 0 .. Len(s)
      /\ MAX_RECEIVE_BUFFER \in Nat /\ 1 < MAX_RECEIVE_BUFFER
  BY Limits DEF Bounded, BodyDone
<1>1. /\ q \in Parser /\ q.state = "ChunkSize" /\ q.line = p.line /\ q.headers = p.headers
      /\ q.headers_size = p.headers_size /\ q.body = p.body
      /\ q.content_length = p.content_length
      /\ q.chunk_bytes_read = p.chunk_bytes_read /\ q.chunk_size = p.chunk_size
      /\ q.trailer_size = p.trailer_size
  BY <1>0 DEF Parser, States, LineStates
<1>2. \/ ParseChunkCRLF(p, s) = Step(Outcome(p, "NeedMoreData"), 0) /\ Len(s) < 2
      \/ ParseChunkCRLF(p, s) = Step(Outcome(q, "continue"), 2) /\ Len(s) >= 2
      \/ ParseChunkCRLF(p, s) = Step(Outcome(p, "BadRequest"), 0)
  BY DEF ParseChunkCRLF
<1> HIDE DEF q
<1>3. Bounded(q) /\ ~BodyDone(q)
  BY <1>1 DEF Bounded, HeadBounded, BodyBounded, BodyDone
<1>4. CASE ParseChunkCRLF(p, s) = Step(Outcome(p, "NeedMoreData"), 0) /\ Len(s) < 2
  <2>1. Len(s) - 0 < MAX_RECEIVE_BUFFER
    BY <1>0, <1>4
  <2> QED
    BY <1>0, <1>4, <2>1, StepFacts DEF Advances
<1>5. CASE ParseChunkCRLF(p, s) = Step(Outcome(q, "continue"), 2) /\ Len(s) >= 2
  <2>1. 2 \in 0 .. Len(s)
    BY <1>0, <1>5
  <2> QED
    BY <1>1, <1>3, <1>5, <2>1, StepFacts DEF Advances
<1>6. CASE ParseChunkCRLF(p, s) = Step(Outcome(p, "BadRequest"), 0)
  BY <1>0, <1>6, StepFacts DEF Advances
<1> QED
  BY <1>2, <1>4, <1>5, <1>6

\* Any pass.
LEMMA ParseStepAdvances ==
    ASSUME NEW p, Bounded(p), NEW s \in Seq(Bytes)
    PROVE  Advances(p, s, ParseStep(p, s))
<1>1. p.state \in States
  BY DEF Bounded, Parser
<1>2. CASE p.state \in LineStates
  BY <1>2, ParseLineAdvances DEF ParseStep, LineStates
<1>3. CASE p.state = "Body"
  BY <1>3, ParseBodyAdvances DEF ParseStep, LineStates
<1>4. CASE p.state = "ChunkData"
  BY <1>4, ParseChunkDataAdvances DEF ParseStep, LineStates
<1>5. CASE p.state = "ChunkDataCRLF"
  BY <1>5, ParseChunkCRLFAdvances DEF ParseStep, LineStates
<1> QED
  BY <1>1, <1>2, <1>3, <1>4, <1>5 DEF States

-----------------------------------------------------------------------------
(* The connection. *)

Request == [line : Seq(Bytes), headers : Seq(Seq(Bytes)), body : Seq(Bytes)]

\* Types of what the connection holds.
ConnectionType ==
    /\ wire \in Seq(Bytes) /\ buffer \in Seq(Bytes) /\ input \in Seq(Bytes)
    /\ cursor \in 0 .. Len(buffer)
    /\ parser \in Parser
    /\ pc \in {"read", "parse", "pending", "closed"}
    /\ done \in Seq(Request)

\* The buffer has room whenever it is read into: a request that is complete with
\* nothing left to parse has been parsed from something.
RoomLeft ==
    /\ Len(buffer) <= MAX_RECEIVE_BUFFER
    /\ pc \in {"read", "pending"} => cursor = 0 /\ Len(buffer) < MAX_RECEIVE_BUFFER
    /\ pc # "closed" /\ BodyDone(parser) => pc = "parse" /\ cursor > 0

LimitsKept ==
    /\ ConnectionType
    /\ pc # "closed" => Bounded(parser)
    /\ RoomLeft
    /\ \A i \in DOMAIN done : WithinLimits(done[i])

\* A parser that has just been reset.
LEMMA FreshBounded == Bounded(Fresh) /\ Fresh.state = "RequestLine"
<1>1. Fresh \in Parser /\ Fresh.state = "RequestLine"
  BY DEF Fresh, Parser, States, LineStates
<1>2. /\ Len(Fresh.line) = 0 /\ Len(Fresh.headers) = 0 /\ DOMAIN Fresh.headers = {}
      /\ Fresh.headers = <<>> /\ Fresh.body = <<>> /\ Len(Fresh.body) = 0
      /\ Fresh.headers_size = 0 /\ Fresh.content_length = 0
      /\ Fresh.chunk_size = 0 /\ Fresh.chunk_bytes_read = 0 /\ Fresh.trailer_size = 0
  BY DEF Fresh
<1>3. HeadBounded(Fresh)
  BY <1>1, <1>2, Limits DEF HeadBounded
<1>4. BodyBounded(Fresh)
  BY <1>1, <1>2, Limits DEF BodyBounded
<1> QED
  BY <1>1, <1>3, <1>4 DEF Bounded

\* A complete request is within the limits.
LEMMA MessageWithinLimits ==
    ASSUME NEW p, Bounded(p), p.state \notin {"RequestLine", "Headers"}
    PROVE  Message(p) \in Request /\ WithinLimits(Message(p))
<1>1. /\ Message(p).line = p.line /\ Message(p).headers = p.headers /\ Message(p).body = p.body
  BY DEF Message
<1>2. Message(p) \in Request
  BY DEF Message, Request, Bounded, Parser
<1>3. WithinLimits(Message(p))
  BY <1>1 DEF WithinLimits, Bounded, HeadBounded, BodyBounded
<1> QED
  BY <1>2, <1>3

\* The end of a sequence.
LEMMA Rest ==
    ASSUME NEW s \in Seq(Bytes), NEW n \in 0 .. Len(s)
    PROVE  /\ SubSeq(s, n + 1, Len(s)) \in Seq(Bytes)
           /\ Len(SubSeq(s, n + 1, Len(s))) = Len(s) - n
OBVIOUS

\* One more request.
LEMMA DoneGrows ==
    ASSUME done \in Seq(Request), \A i \in DOMAIN done : WithinLimits(done[i]),
           NEW m \in Request, WithinLimits(m)
    PROVE  /\ Append(done, m) \in Seq(Request)
           /\ \A i \in DOMAIN Append(done, m) : WithinLimits(Append(done, m)[i])
<1> DEFINE n == Len(done)
           more == Append(done, m)
<1>1. /\ n \in Nat /\ DOMAIN more = 1 .. n + 1 /\ DOMAIN done = 1 .. n
      /\ more \in Seq(Request)
      /\ \A i \in 1 .. n : more[i] = done[i]
      /\ more[n + 1] = m
  OBVIOUS
<1> HIDE DEF n, more
<1>2. \A i \in 1 .. n + 1 : i \in 1 .. n \/ i = n + 1
  BY <1>1
<1>3. more \in Seq(Request) /\ \A i \in DOMAIN more : WithinLimits(more[i])
  BY <1>1, <1>2
<1> QED
  BY <1>3 DEF more

\* Reading.
LEMMA ReadKeeps == LimitsKept /\ Read => LimitsKept'
<1> SUFFICES ASSUME LimitsKept, Read PROVE LimitsKept'
  OBVIOUS
<1> DEFINE T == {Len(wire), ReadSize, MAX_RECEIVE_BUFFER - Len(buffer)}
<1>1. PICK n \in 1 .. Min(T) :
         /\ buffer' = buffer \o SubSeq(wire, 1, n)
         /\ input' = input \o SubSeq(wire, 1, n)
         /\ wire' = SubSeq(wire, n + 1, Len(wire))
  BY DEF Read
<1>2. /\ pc \in {"read", "pending"} /\ pc' = "parse"
      /\ UNCHANGED <<cursor, parser, done, verdict>>
  BY DEF Read
<1>3. /\ wire \in Seq(Bytes) /\ buffer \in Seq(Bytes) /\ input \in Seq(Bytes)
      /\ Len(buffer) \in Nat /\ Len(wire) \in Nat
      /\ cursor = 0 /\ Len(buffer) < MAX_RECEIVE_BUFFER /\ Bounded(parser) /\ ~BodyDone(parser)
      /\ MAX_RECEIVE_BUFFER \in Nat /\ ReadSize \in Nat
  BY <1>2, Limits DEF LimitsKept, ConnectionType, RoomLeft
<1>4. n \in 0 .. Len(wire) /\ n <= MAX_RECEIVE_BUFFER - Len(buffer)
  <2>1. T \subseteq Nat /\ T # {}
    BY <1>3
  <2>2. Len(wire) \in T /\ MAX_RECEIVE_BUFFER - Len(buffer) \in T
    OBVIOUS
  <2> HIDE DEF T
  <2>3. Min(T) \in Nat /\ Min(T) <= Len(wire) /\ Min(T) <= MAX_RECEIVE_BUFFER - Len(buffer)
    BY <2>1, <2>2, MinFacts
  <2> QED
    BY <1>1, <1>3, <2>3
<1> HIDE DEF T
<1>5. /\ buffer' \in Seq(Bytes) /\ Len(buffer') = Len(buffer) + n
      /\ input' \in Seq(Bytes) /\ wire' \in Seq(Bytes)
  BY <1>1, <1>3, <1>4, AppendPart, Rest
<1>6. cursor' = 0 /\ cursor' \in 0 .. Len(buffer') /\ Len(buffer') <= MAX_RECEIVE_BUFFER
  BY <1>2, <1>3, <1>4, <1>5
<1>7. ConnectionType'
  BY <1>2, <1>5, <1>6 DEF LimitsKept, ConnectionType
<1>8. RoomLeft'
  BY <1>2, <1>3, <1>6 DEF RoomLeft, BodyDone
<1> QED
  BY <1>2, <1>3, <1>7, <1>8 DEF LimitsKept, Bounded, HeadBounded, BodyBounded, WithinLimits

\* Parsing.
LEMMA ParseKeeps == LimitsKept /\ Parse => LimitsKept'
<1> SUFFICES ASSUME LimitsKept, Parse PROVE LimitsKept'
  OBVIOUS
<1> DEFINE s == SubSeq(buffer, cursor + 1, Len(buffer))
           step == ParseStep(parser, s)
           p == step.parser
           n == cursor + step.bytes
<1>1. /\ pc = "parse" /\ UNCHANGED <<wire, input>>
      /\ \/ /\ step.result = "continue"
            /\ parser' = p /\ cursor' = n
            /\ UNCHANGED <<buffer, pc, done, verdict>>
         \/ /\ step.result = "NeedMoreData"
            /\ parser' = p /\ ConsumeParsedBytes(n)
            /\ pc' = "read"
            /\ UNCHANGED <<done, verdict>>
         \/ /\ step.result = "Complete"
            /\ done' = Append(done, Message(p))
            /\ parser' = Fresh /\ ConsumeParsedBytes(n)
            /\ pc' \in {"pending", "parse"}
            /\ UNCHANGED verdict
         \/ /\ step.result \notin {"continue", "NeedMoreData", "Complete"}
            /\ parser' = p /\ cursor' = n
            /\ pc' = "closed"
            /\ UNCHANGED <<buffer, done>>
  BY DEF Parse, Close
<1>2. /\ wire \in Seq(Bytes) /\ buffer \in Seq(Bytes) /\ input \in Seq(Bytes)
      /\ Len(buffer) \in Nat /\ cursor \in 0 .. Len(buffer) /\ done \in Seq(Request)
      /\ Bounded(parser) /\ Len(buffer) <= MAX_RECEIVE_BUFFER /\ MAX_RECEIVE_BUFFER \in Nat
      /\ BodyDone(parser) => cursor > 0
      /\ \A i \in DOMAIN done : WithinLimits(done[i])
  BY <1>1, Limits DEF LimitsKept, ConnectionType, RoomLeft
<1>3. s \in Seq(Bytes) /\ Len(s) = Len(buffer) - cursor
  BY <1>2, Rest
<1> HIDE DEF s
<1>4. Advances(parser, s, step)
  BY <1>2, <1>3, ParseStepAdvances
<1> HIDE DEF step
<1>5. /\ n \in 0 .. Len(buffer) /\ p \in Parser /\ step.bytes \in Nat
      /\ step.bytes > 0 => n > 0
      /\ cursor > 0 => n > 0
      /\ Len(buffer) - n = Len(s) - step.bytes
  <2>1. p \in Parser /\ step.bytes \in 0 .. Len(s)
    BY <1>4 DEF Advances
  <2> QED
    BY <1>2, <1>3, <2>1
<1>6. CASE step.result = "continue"
  <2>1. /\ parser' = p /\ cursor' = n /\ UNCHANGED <<buffer, pc, done, wire, input>>
    BY <1>1, <1>6
  <2>2. Bounded(p) /\ (BodyDone(p) => n > 0)
    BY <1>4, <1>5, <1>6 DEF Advances
  <2> HIDE DEF p, n
  <2>3. ConnectionType'
    BY <1>1, <1>2, <1>5, <2>1 DEF ConnectionType, LimitsKept
  <2>4. RoomLeft'
    BY <1>1, <1>2, <2>1, <2>2 DEF RoomLeft, BodyDone
  <2>5. Bounded(parser')
    BY <2>1, <2>2
  <2> QED
    BY <1>1, <1>2, <2>1, <2>3, <2>4, <2>5 DEF LimitsKept, Bounded, HeadBounded, BodyBounded, WithinLimits
<1>7. CASE step.result = "NeedMoreData"
  <2>1. /\ parser' = p /\ buffer' = SubSeq(buffer, n + 1, Len(buffer)) /\ cursor' = 0
        /\ pc' = "read" /\ UNCHANGED <<done, wire, input>>
    BY <1>1, <1>7 DEF ConsumeParsedBytes
  <2>2. Bounded(p) /\ ~BodyDone(p) /\ Len(s) - step.bytes < MAX_RECEIVE_BUFFER
    BY <1>4, <1>7 DEF Advances
  <2> HIDE DEF p, n
  <2>3. buffer' \in Seq(Bytes) /\ Len(buffer') = Len(buffer) - n
    BY <1>2, <1>5, <2>1, Rest
  <2>4. Len(buffer') < MAX_RECEIVE_BUFFER /\ Len(buffer') <= MAX_RECEIVE_BUFFER
        /\ cursor' \in 0 .. Len(buffer')
    BY <1>2, <1>5, <2>1, <2>2, <2>3
  <2>5. ConnectionType'
    BY <1>2, <1>5, <2>1, <2>3, <2>4 DEF ConnectionType
  <2>6. RoomLeft'
    BY <2>1, <2>2, <2>4 DEF RoomLeft, BodyDone
  <2>7. Bounded(parser')
    BY <2>1, <2>2
  <2> QED
    BY <1>2, <2>1, <2>5, <2>6, <2>7 DEF LimitsKept, Bounded, HeadBounded, BodyBounded, WithinLimits
<1>8. CASE step.result = "Complete"
  <2>1. /\ parser' = Fresh /\ buffer' = SubSeq(buffer, n + 1, Len(buffer)) /\ cursor' = 0
        /\ pc' \in {"pending", "parse"} /\ done' = Append(done, Message(p))
        /\ UNCHANGED <<wire, input>>
    BY <1>1, <1>8 DEF ConsumeParsedBytes
  <2>2. Bounded(p) /\ p.state \notin {"RequestLine", "Headers"} /\ n > 0
    BY <1>2, <1>4, <1>5, <1>8 DEF Advances
  <2> HIDE DEF p, n
  <2>3. buffer' \in Seq(Bytes) /\ Len(buffer') = Len(buffer) - n
    BY <1>2, <1>5, <2>1, Rest
  <2>4. Len(buffer') < MAX_RECEIVE_BUFFER /\ Len(buffer') <= MAX_RECEIVE_BUFFER
        /\ cursor' \in 0 .. Len(buffer')
    BY <1>2, <1>5, <2>1, <2>2, <2>3
  <2>5. done' \in Seq(Request) /\ \A i \in DOMAIN done' : WithinLimits(done'[i])
    BY <1>2, <2>1, <2>2, MessageWithinLimits, DoneGrows
  <2>6. ConnectionType'
    BY <1>2, <2>1, <2>3, <2>4, <2>5, FreshBounded DEF ConnectionType, Bounded
  <2>7. RoomLeft'
    BY <2>1, <2>4, FreshBounded DEF RoomLeft, BodyDone
  <2>8. Bounded(parser')
    BY <2>1, FreshBounded
  <2> QED
    BY <2>5, <2>6, <2>7, <2>8 DEF LimitsKept, Bounded, HeadBounded, BodyBounded, WithinLimits
<1>9. CASE step.result \notin {"continue", "NeedMoreData", "Complete"}
  <2>1. /\ parser' = p /\ cursor' = n /\ pc' = "closed" /\ UNCHANGED <<buffer, done, wire, input>>
    BY <1>1, <1>9
  <2> HIDE DEF p, n
  <2>2. ConnectionType'
    BY <1>2, <1>5, <2>1 DEF ConnectionType
  <2>3. RoomLeft'
    BY <1>2, <2>1 DEF RoomLeft
  <2> QED
    BY <1>2, <2>1, <2>2, <2>3 DEF LimitsKept, WithinLimits
<1> QED
  BY <1>6, <1>7, <1>8, <1>9

\* The limits at the start.
LEMMA InitLimitsKept == Init => LimitsKept
<1> SUFFICES ASSUME Init PROVE LimitsKept
  OBVIOUS
<1>1. /\ wire \in Seq(Bytes) /\ buffer = <<>> /\ cursor = 0 /\ parser = Fresh /\ pc = "read"
      /\ done = <<>> /\ input = <<>>
  BY HttpParserAssumption DEF Init
<1>2. Len(<<>>) = 0 /\ 0 \in 0 .. 0 /\ DOMAIN <<>> = {}
  OBVIOUS
<1>3. ConnectionType
  BY <1>1, <1>2, FreshBounded DEF ConnectionType, Bounded
<1>4. RoomLeft
  BY <1>1, <1>2, FreshBounded, Limits DEF RoomLeft, BodyDone
<1> QED
  BY <1>1, <1>2, <1>3, <1>4, FreshBounded DEF LimitsKept

\* Every step keeps them.
LEMMA NextLimitsKept == LimitsKept /\ [Next]_vars => LimitsKept'
<1> SUFFICES ASSUME LimitsKept, [Next]_vars PROVE LimitsKept'
  OBVIOUS
<1>1. CASE UNCHANGED vars
  BY <1>1 DEF vars, LimitsKept, ConnectionType, RoomLeft, Bounded, HeadBounded, BodyBounded,
              BodyDone, WithinLimits
<1> QED
  BY <1>1, ReadKeeps, ParseKeeps DEF Next, Idle

\* A request that reaches the handler is within all limits of the parser, and
\* Connection::read() always finds room in the buffer, whatever is sent and
\* however it is cut: for any limits with both line limits below the size of the
\* buffer.
THEOREM LimitsHold == Spec => []RequestsBounded
<1>1. LimitsKept => RequestsBounded
  BY DEF LimitsKept, RoomLeft, RequestsBounded
<1> QED
  BY <1>1, InitLimitsKept, NextLimitsKept, PTL DEF Spec

-----------------------------------------------------------------------------
(* The reference, started anywhere: Feed(r, s) is what it makes of the bytes *)
(* s when it is in the state r.                                              *)

Steps(f, r, s) ==
    f = [n \in 0 .. Len(s) |-> IF n = 0 THEN r ELSE NextByte(f[n - 1], s[n])]

Feed(r, s) ==
    LET after[n \in 0 .. Len(s)] == IF n = 0 THEN r ELSE NextByte(after[n - 1], s[n])
    IN after[Len(s)]

\* The first n bytes of s.
First(s, n) == SubSeq(s, 1, n)

\* The recursion has a solution.
LEMMA FeedSolution ==
    ASSUME NEW r, NEW s \in Seq(Bytes)
    PROVE  \E f : Steps(f, r, s)
<1> DEFINE N == Len(s)
           Good(n, f) == f = [i \in 0 .. n |-> IF i = 0 THEN r ELSE NextByte(f[i - 1], s[i])]
           T == {n \in 0 .. N : \E f : Good(n, f)}
<1>0. N \in Nat
  OBVIOUS
<1>1. 0 \in T
  <2> DEFINE h == [i \in 0 .. 0 |-> r]
  <2>1. h = [i \in 0 .. 0 |-> IF i = 0 THEN r ELSE NextByte(h[i - 1], s[i])]
    OBVIOUS
  <2>2. Good(0, h)
    BY <2>1
  <2> HIDE DEF Good, h
  <2> QED
    BY <1>0, <2>2
<1>2. ASSUME NEW n \in 0 .. N - 1, n \in T PROVE n + 1 \in T
  <2>0. n \in Nat /\ n + 1 \in 0 .. N
    BY <1>0
  <2>1. PICK f : Good(n, f)
    BY <1>2
  <2>2. /\ \A i \in 0 .. n : f[i] = IF i = 0 THEN r ELSE NextByte(f[i - 1], s[i])
    BY <2>1
  <2> DEFINE h == [i \in 0 .. n + 1 |-> IF i = n + 1 THEN NextByte(f[n], s[n + 1]) ELSE f[i]]
             k == [i \in 0 .. n + 1 |-> IF i = 0 THEN r ELSE NextByte(h[i - 1], s[i])]
  <2>3. \A i \in 0 .. n : h[i] = f[i]
    BY <2>0
  <2>4. ASSUME NEW i \in 0 .. n + 1 PROVE h[i] = k[i]
    <3>1. CASE i = 0
      BY <2>0, <2>2, <3>1
    <3>2. CASE i \in 1 .. n
      <4>1. i \in 0 .. n /\ i - 1 \in 0 .. n /\ i # 0
        BY <2>0, <3>2
      <4>2. h[i] = f[i] /\ h[i - 1] = f[i - 1]
        BY <2>3, <4>1
      <4>3. k[i] = NextByte(h[i - 1], s[i])
        BY <4>1
      <4>4. f[i] = NextByte(f[i - 1], s[i])
        BY <2>2, <4>1
      <4> QED
        BY <4>2, <4>3, <4>4
    <3>3. CASE i = n + 1
      <4>1. n \in 0 .. n /\ i - 1 = n /\ i # 0
        BY <2>0, <3>3
      <4>2. h[n] = f[n]
        BY <2>3, <4>1
      <4>3. k[i] = NextByte(h[i - 1], s[i])
        BY <4>1
      <4> QED
        BY <4>1, <4>2, <4>3, <3>3
    <3> QED
      BY <2>0, <3>1, <3>2, <3>3
  <2>5. h = k
    <3>1. h = [i \in 0 .. n + 1 |-> h[i]] /\ k = [i \in 0 .. n + 1 |-> k[i]]
      OBVIOUS
    <3> HIDE DEF h, k
    <3> QED
      BY <2>4, <3>1
  <2>6. Good(n + 1, h)
    <3> HIDE DEF h
    <3> QED
      BY <2>5
  <2> HIDE DEF Good, h
  <2> QED
    BY <2>0, <2>6
<1>3. \A n \in 0 .. N : n \in T
  <2> HIDE DEF T, N
  <2> QED
    BY <1>0, <1>1, <1>2, UpTo
<1>4. \E f : Good(N, f)
  <2>1. N \in T
    BY <1>0, <1>3
  <2> QED
    BY <2>1
<1> QED
  BY <1>4 DEF Steps

\* What the reference does with the first bytes of a longer sequence.
LEMMA FeedPrefix ==
    ASSUME NEW r, NEW s \in Seq(Bytes), NEW t \in Seq(Bytes), Len(s) <= Len(t),
           \A i \in 1 .. Len(s) : s[i] = t[i],
           NEW f, Steps(f, r, s), NEW g, Steps(g, r, t)
    PROVE  \A i \in 0 .. Len(s) : f[i] = g[i]
<1> DEFINE N == Len(s)
           T == {n \in 0 .. N : f[n] = g[n]}
<1>0. N \in Nat /\ Len(t) \in Nat
  OBVIOUS
<1>1. /\ \A i \in 0 .. N : f[i] = IF i = 0 THEN r ELSE NextByte(f[i - 1], s[i])
      /\ \A i \in 0 .. Len(t) : g[i] = IF i = 0 THEN r ELSE NextByte(g[i - 1], t[i])
  BY DEF Steps
<1>2. 0 \in T
  BY <1>0, <1>1
<1>3. ASSUME NEW n \in 0 .. N - 1, n \in T PROVE n + 1 \in T
  <2>1. n + 1 \in 0 .. N /\ n + 1 \in 0 .. Len(t) /\ n + 1 # 0 /\ n + 1 - 1 = n /\ n + 1 \in 1 .. N
    BY <1>0
  <2>2. f[n + 1] = NextByte(f[n], s[n + 1])
    BY <1>1, <2>1
  <2>3. g[n + 1] = NextByte(g[n], t[n + 1])
    BY <1>1, <2>1
  <2>4. f[n] = g[n] /\ s[n + 1] = t[n + 1]
    BY <1>3, <2>1
  <2> QED
    BY <2>1, <2>2, <2>3, <2>4
<1>4. \A n \in 0 .. N : n \in T
  <2> HIDE DEF T, N
  <2> QED
    BY <1>0, <1>2, <1>3, UpTo
<1> QED
  BY <1>4

\* What the definition of Feed means.
LEMMA FeedDef ==
    ASSUME NEW r, NEW s
    PROVE  Feed(r, s) = (CHOOSE f : Steps(f, r, s))[Len(s)]
BY DEF Feed, Steps

\* No bytes change nothing.
LEMMA FeedEmpty ==
    ASSUME NEW r
    PROVE  Feed(r, <<>>) = r
<1> DEFINE s == <<>>
           c == CHOOSE f : Steps(f, r, s)
<1>1. s \in Seq(Bytes) /\ Len(s) = 0
  OBVIOUS
<1>2. Steps(c, r, s)
  BY <1>1, FeedSolution
<1>3. c[0] = r
  BY <1>1, <1>2 DEF Steps
<1> QED
  BY <1>1, <1>3, FeedDef

\* One byte more.
LEMMA FeedAppend ==
    ASSUME NEW r, NEW s \in Seq(Bytes), NEW b \in Bytes
    PROVE  Feed(r, Append(s, b)) = NextByte(Feed(r, s), b)
<1>0. PICK t \in Seq(Bytes) : t = Append(s, b)
  <2>1. Append(s, b) \in Seq(Bytes)
    OBVIOUS
  <2> QED
    BY <2>1, Zenon
<1>1. /\ Len(s) \in Nat /\ Len(t) = Len(s) + 1 /\ t[Len(s) + 1] = b
      /\ \A i \in 1 .. Len(s) : s[i] = t[i]
  BY <1>0
<1>2. PICK f : Steps(f, r, s) /\ f = CHOOSE h : Steps(h, r, s)
  BY FeedSolution
<1>3. PICK g : Steps(g, r, t) /\ g = CHOOSE h : Steps(h, r, t)
  BY FeedSolution
<1>4. f[Len(s)] = g[Len(s)]
  <2>1. Len(s) <= Len(t) /\ \A i \in 1 .. Len(s) : s[i] = t[i]
    BY <1>1
  <2>2. \A i \in 0 .. Len(s) : f[i] = g[i]
    BY <1>2, <1>3, <2>1, FeedPrefix
  <2> QED
    BY <1>1, <2>2
<1>5. g[Len(t)] = NextByte(g[Len(s)], b)
  <2>1. Len(t) \in 0 .. Len(t) /\ Len(t) # 0 /\ Len(t) - 1 = Len(s)
    BY <1>1
  <2> QED
    BY <1>1, <1>3, <2>1 DEF Steps
<1> QED
  BY <1>0, <1>2, <1>3, <1>4, <1>5, FeedDef

\* The same, for the first bytes of a sequence.
LEMMA FeedNext ==
    ASSUME NEW r, NEW s \in Seq(Bytes), NEW j \in 0 .. Len(s) - 1
    PROVE  Feed(r, First(s, j + 1)) = NextByte(Feed(r, First(s, j)), s[j + 1])
<1>1. /\ First(s, j) \in Seq(Bytes) /\ s[j + 1] \in Bytes
      /\ First(s, j + 1) = Append(First(s, j), s[j + 1])
  BY DEF First
<1> QED
  BY <1>1, FeedAppend

\* Prefixes.
LEMMA FirstFacts ==
    ASSUME NEW s \in Seq(Bytes)
    PROVE  /\ First(s, 0) = <<>> /\ First(s, Len(s)) = s
           /\ \A j \in 0 .. Len(s) : /\ First(s, j) \in Seq(Bytes) /\ Len(First(s, j)) = j
                                     /\ \A i \in 1 .. j : First(s, j)[i] = s[i]
BY DEF First

\* Bytes in two portions.
LEMMA FeedConcat ==
    ASSUME NEW r, NEW s \in Seq(Bytes), NEW t \in Seq(Bytes)
    PROVE  Feed(r, s \o t) = Feed(Feed(r, s), t)
<1> DEFINE N == Len(t)
           T == {j \in 0 .. N : Feed(r, s \o First(t, j)) = Feed(Feed(r, s), First(t, j))}
<1>0. N \in Nat /\ First(t, N) = t
  BY FirstFacts
<1>1. 0 \in T
  <2>1. First(t, 0) = <<>> /\ s \o <<>> = s /\ 0 \in 0 .. N
    BY <1>0, FirstFacts
  <2>2. Feed(r, s \o First(t, 0)) = Feed(r, s)
    BY <2>1
  <2>3. Feed(Feed(r, s), First(t, 0)) = Feed(r, s)
    BY <2>1, FeedEmpty
  <2> QED
    BY <2>1, <2>2, <2>3
<1>2. ASSUME NEW j \in 0 .. N - 1, j \in T PROVE j + 1 \in T
  <2>1. /\ First(t, j) \in Seq(Bytes) /\ t[j + 1] \in Bytes /\ j + 1 \in 0 .. N
        /\ First(t, j + 1) = Append(First(t, j), t[j + 1])
    BY <1>0 DEF First
  <2>2. /\ s \o Append(First(t, j), t[j + 1]) = Append(s \o First(t, j), t[j + 1])
        /\ s \o First(t, j) \in Seq(Bytes)
    BY <2>1
  <2>3. Feed(r, s \o First(t, j + 1)) = NextByte(Feed(r, s \o First(t, j)), t[j + 1])
    <3> DEFINE u == s \o First(t, j)
    <3>1. s \o First(t, j + 1) = Append(u, t[j + 1]) /\ u \in Seq(Bytes)
      BY <2>1, <2>2
    <3> HIDE DEF u
    <3>2. Feed(r, Append(u, t[j + 1])) = NextByte(Feed(r, u), t[j + 1])
      BY <2>1, <3>1, FeedAppend
    <3> QED
      BY <3>1, <3>2 DEF u
  <2>4. Feed(Feed(r, s), First(t, j + 1)) = NextByte(Feed(Feed(r, s), First(t, j)), t[j + 1])
    BY <2>1, FeedAppend, ZenonT(60)
  <2>5. Feed(r, s \o First(t, j)) = Feed(Feed(r, s), First(t, j))
    BY <1>2
  <2> QED
    BY <2>1, <2>3, <2>4, <2>5
<1>3. \A j \in 0 .. N : j \in T
  <2> HIDE DEF T, N
  <2> QED
    BY <1>0, <1>1, <1>2, UpTo
<1>4. N \in T
  BY <1>0, <1>3
<1> QED
  BY <1>0, <1>4

\* After an error the rest of the bytes changes nothing.
LEMMA FeedRefused ==
    ASSUME NEW r, NEW s \in Seq(Bytes), r.verdict # "open"
    PROVE  Feed(r, s) = r
<1> DEFINE N == Len(s)
           T == {j \in 0 .. N : Feed(r, First(s, j)) = r}
<1>0. N \in Nat /\ First(s, N) = s /\ First(s, 0) = <<>>
  BY FirstFacts
<1>1. 0 \in T
  BY <1>0, FeedEmpty
<1>2. ASSUME NEW j \in 0 .. N - 1, j \in T PROVE j + 1 \in T
  <2>1. j + 1 \in 0 .. N
    BY <1>0
  <2>2. Feed(r, First(s, j + 1)) = NextByte(r, s[j + 1])
    BY <1>2, FeedNext
  <2>3. NextByte(r, s[j + 1]) = r
    BY DEF NextByte
  <2> QED
    BY <2>1, <2>2, <2>3
<1>3. \A j \in 0 .. N : j \in T
  <2> HIDE DEF T, N
  <2> QED
    BY <1>0, <1>1, <1>2, UpTo
<1>4. N \in T
  BY <1>0, <1>3
<1> QED
  BY <1>0, <1>4

-----------------------------------------------------------------------------
(* The reference never takes a request back. *)

\* The states of the reference.
Ref(p, l, d, v) == [parser |-> p, line |-> l, done |-> d, verdict |-> v]

IsRef(r) ==
    \E v : \E p \in Parser, l \in Seq(Bytes), d \in Seq(Request) : r = Ref(p, l, d, v)

\* The parts of a state, and a state with one part replaced.
LEMMA RefFacts ==
    ASSUME NEW p, NEW l, NEW d, NEW v, NEW r, r = Ref(p, l, d, v)
    PROVE  /\ r.parser = p /\ r.line = l /\ r.done = d /\ r.verdict = v
           /\ \A x : /\ [r EXCEPT !.parser = x] = Ref(x, l, d, v)
                     /\ [r EXCEPT !.line = x] = Ref(p, x, d, v)
                     /\ [r EXCEPT !.verdict = x] = Ref(p, l, d, x)
<1>1. r.parser = p /\ r.line = l /\ r.done = d /\ r.verdict = v
  BY DEF Ref
<1>2. \A x : [r EXCEPT !.parser = x] = Ref(x, l, d, v)
  BY DEF Ref
<1>3. \A x : [r EXCEPT !.line = x] = Ref(p, x, d, v)
  BY DEF Ref
<1>4. \A x : [r EXCEPT !.verdict = x] = Ref(p, l, d, x)
  BY DEF Ref
<1> QED
  BY <1>1, <1>2, <1>3, <1>4

\* A state of the reference with a new parser and a new line, and with a new
\* list of requests.
NewLine(r, x, y) == [r EXCEPT !.parser = x, !.line = y]
NewRequest(r, x, y, z) == [r EXCEPT !.parser = x, !.line = y, !.done = z]

\* The parts that are not replaced stay.
LEMMA NewLineFacts ==
    ASSUME NEW p, NEW l, NEW d, NEW v, NEW x, NEW y,
           NEW r, r = Ref(p, l, d, v)
    PROVE  NewLine(r, x, y) = Ref(x, y, d, v)
<1> DEFINE q == [r EXCEPT !.parser = x]
<1> HIDE DEF q
<1>1. q = Ref(x, l, d, v)
  BY RefFacts DEF q
<1>2. [q EXCEPT !.line = y] = Ref(x, y, d, v)
  BY <1>1, RefFacts
<1> QED
  BY <1>2 DEF q, NewLine

\* The same for a new list of requests.
LEMMA NewRequestFacts ==
    ASSUME NEW p, NEW l, NEW d, NEW v, NEW x, NEW y, NEW z,
           NEW r, r = Ref(p, l, d, v)
    PROVE  NewRequest(r, x, y, z) = Ref(x, y, z, v)
<1> DEFINE q == NewLine(r, x, y)
<1> HIDE DEF q
<1>1. q = Ref(x, y, d, v)
  BY NewLineFacts DEF q
<1>2. [q EXCEPT !.done = z] = Ref(x, y, z, v)
  BY <1>1 DEF Ref
<1> QED
  BY <1>2 DEF q, NewLine, NewRequest

\* The empty line leaves a parser.
LEMMA HeadersEndType ==
    ASSUME NEW p \in Parser
    PROVE  HeadersEnd(p).parser \in Parser
<1> DEFINE z == IF p.has_transfer_encoding THEN "ChunkSize" ELSE "Body"
           q == [p EXCEPT !.state = z]
<1>1. z \in States
  BY DEF States, LineStates
<1> HIDE DEF z
<1>2. q \in Parser
  BY <1>1 DEF Parser
<1> HIDE DEF q
<1>3. HeadersEnd(p) = CASE p.host_count # 1 -> Outcome(p, "BadRequest")
      [] p.has_transfer_encoding /\ p.has_content_length -> Outcome(p, "BadRequest")
      [] OTHER -> Outcome(q, "continue")
  BY DEF HeadersEnd, q, z
<1> QED
  BY <1>2, <1>3, OutcomeFacts

\* A header field leaves a parser.
LEMMA FieldType ==
    ASSUME NEW p \in Parser, NEW line \in Seq(Bytes)
    PROVE  Field(p, line).parser \in Parser
<1> DEFINE k == Letter(line)
           hs == Append(p.headers, line)
           q == [p EXCEPT !.headers = hs]
           n == q.host_count + 1
           qh == [q EXCEPT !.host_count = n]
           ql == [q EXCEPT !.content_length = LengthOf[k], !.has_content_length = TRUE]
           qt == [q EXCEPT !.has_transfer_encoding = TRUE]
<1>0. hs \in Seq(Seq(Bytes))
  BY DEF Parser
<1> HIDE DEF hs, k
<1>1. q \in Parser
  BY <1>0 DEF Parser
<1> HIDE DEF q
<1>n. n \in Nat
  BY <1>1, SMTT(60) DEF Parser
<1> HIDE DEF n
<1>2. qh \in Parser /\ qt \in Parser
  BY <1>1, <1>n DEF Parser
<1>3. k \in DOMAIN LengthOf => ql \in Parser
  BY <1>1, Limits DEF Parser
<1> HIDE DEF qh, ql, qt
<1>4. PICK rh, rl, rt, ru : Field(p, line) =
        CASE k \notin HeaderLetters -> Outcome(p, "BadRequest")
          [] k = "o" -> Outcome(q, "continue")
          [] k = "h" -> Outcome(qh, rh)
          [] k \in DOMAIN LengthOf -> Outcome(ql, rl)
          [] k = "t" -> Outcome(qt, rt)
          [] k = "u" -> Outcome(p, ru)
  BY DEF Field, q, qh, ql, qt, k, hs, n
<1>5. k \in HeaderLetters => k = "o" \/ k = "h" \/ k \in DOMAIN LengthOf \/ k = "t" \/ k = "u"
  BY DEF HeaderLetters
<1>6. \/ Field(p, line) \in {Outcome(p, "BadRequest"), Outcome(q, "continue"), Outcome(qh, rh),
                             Outcome(qt, rt), Outcome(p, ru)}
      \/ k \in DOMAIN LengthOf /\ Field(p, line) = Outcome(ql, rl)
  BY <1>4, <1>5
<1> QED
  BY <1>1, <1>2, <1>3, <1>6, OutcomeFacts

\* Every line leaves a parser.
LEMMA OnLineType ==
    ASSUME NEW p \in Parser, p.state \in LineStates, NEW line \in Seq(Bytes)
    PROVE  OnLine(p, line).parser \in Parser
<1>1. RequestLine(p, line).parser \in Parser
  <2> DEFINE q == [p EXCEPT !.state = "Headers", !.line = line]
  <2>1. q \in Parser
    BY DEF Parser, States, LineStates
  <2> HIDE DEF q
  <2>2. RequestLine(p, line) \in {Outcome(q, "continue"), Outcome(p, "UnsupportedVersion"),
                                  Outcome(p, "BadRequest")}
    BY DEF RequestLine, q
  <2> QED
    BY <2>1, <2>2, OutcomeFacts
<1>2. HeaderLine(p, line).parser \in Parser
  <2> DEFINE n == p.headers_size + Len(line) + 2
             q == [p EXCEPT !.headers_size = n]
  <2>0. n \in Nat
    BY DEF Parser
  <2>1. q \in Parser
    <3> HIDE DEF n
    <3> QED
      BY <2>0 DEF Parser
  <2>2. q.headers_size \in Nat /\ MAX_HEADERS_SIZE \in Nat
    BY <2>1, Limits DEF Parser
  <2>3. HeaderLine(p, line) = CASE q.headers_size > MAX_HEADERS_SIZE -> Outcome(p, "HeadersTooLarge")
          [] q.headers_size <= MAX_HEADERS_SIZE /\ line = <<>> -> HeadersEnd(q)
          [] q.headers_size <= MAX_HEADERS_SIZE /\ line # <<>> ->
               IF Len(p.headers) + 1 > MAX_HEADER_COUNT THEN Outcome(p, "TooManyHeaders")
               ELSE Field(q, line)
    BY DEF HeaderLine
  <2> HIDE DEF q
  <2>4. HeaderLine(p, line) \in {Outcome(p, "HeadersTooLarge"), HeadersEnd(q),
                                 Outcome(p, "TooManyHeaders"), Field(q, line)}
    BY <2>2, <2>3
  <2> QED
    BY <2>1, <2>4, OutcomeFacts, HeadersEndType, FieldType
<1>3. ChunkSizeLine(p, line).parser \in Parser
  <2> DEFINE k == Letter(line)
             z == IF SizeOf[k] = 0 THEN "ChunkTrailers" ELSE "ChunkData"
             q == [p EXCEPT !.chunk_size = SizeOf[k], !.chunk_bytes_read = 0, !.state = z]
  <2>0. z \in States
    BY DEF States, LineStates
  <2>1. ChunkSizeLine(p, line) =
          IF k \in DOMAIN SizeOf /\ ~Stray(line) /\ SizeOf[k] <= MAX_BODY_SIZE
          THEN Outcome(q, "continue") ELSE Outcome(p, "BadRequest")
    BY DEF ChunkSizeLine
  <2> HIDE DEF k, z
  <2>2. k \in DOMAIN SizeOf => q \in Parser
    BY <2>0, Limits DEF Parser
  <2> HIDE DEF q
  <2> QED
    BY <2>1, <2>2, OutcomeFacts
<1>4. TrailerLine(p, line).parser \in Parser
  <2> DEFINE x == IF line = <<>> THEN 0 ELSE 1
             n == p.trailer_size + Len(line) + 2
             c == p.trailer_count + x
             q == [p EXCEPT !.trailer_size = n, !.trailer_count = c]
             z == IF q.trailer_count > MAX_HEADER_COUNT THEN "TooManyHeaders"
                  ELSE IF Letter(line) \in HeaderLetters THEN "continue"
                  ELSE "BadRequest"
  <2>0. x \in Nat
    OBVIOUS
  <2>3. TrailerLine(p, line) = CASE q.trailer_size > MAX_HEADERS_SIZE -> Outcome(p, "HeadersTooLarge")
          [] q.trailer_size <= MAX_HEADERS_SIZE /\ line = <<>> -> Outcome(q, "Complete")
          [] q.trailer_size <= MAX_HEADERS_SIZE /\ line # <<>> -> Outcome(q, z)
    BY DEF TrailerLine
  <2> HIDE DEF x, z
  <2>5. n \in Nat /\ c \in Nat
    BY <2>0 DEF Parser
  <2> HIDE DEF n, c
  <2>1. q \in Parser
    BY <2>5 DEF Parser
  <2>2. q.trailer_size \in Nat /\ MAX_HEADERS_SIZE \in Nat
    BY <2>1, Limits DEF Parser
  <2> HIDE DEF q
  <2>4. TrailerLine(p, line) \in {Outcome(p, "HeadersTooLarge"), Outcome(q, "Complete"), Outcome(q, z)}
    BY <2>2, <2>3
  <2> QED
    BY <2>1, <2>4, OutcomeFacts
<1> QED
  BY <1>1, <1>2, <1>3, <1>4 DEF OnLine, LineStates

\* The end of a request, of a line, or of the connection.
LEMMA ConcludeFacts ==
    ASSUME NEW p, NEW l, NEW d, NEW v, NEW r, r = Ref(p, l, d, v), NEW o
    PROVE  LET q == o.parser
               complete == \/ o.result = "Complete"
                           \/ /\ o.result = "continue"
                              /\ q.state = "Body" /\ Len(q.body) = q.content_length
           IN  Conclude(r, o) = IF complete THEN Ref(Fresh, <<>>, Append(d, Message(q)), v)
                                ELSE IF o.result = "continue" THEN Ref(q, <<>>, d, v)
                                ELSE Ref(p, l, d, o.result)
<1> DEFINE q == o.parser
           complete == \/ o.result = "Complete"
                       \/ /\ o.result = "continue"
                          /\ q.state = "Body" /\ Len(q.body) = q.content_length
           m == Message(q)
           more == Append(r.done, m)
           a == [r EXCEPT !.parser = Fresh, !.line = <<>>, !.done = more]
           b == [r EXCEPT !.parser = q, !.line = <<>>]
           c == [r EXCEPT !.verdict = o.result]
<1>1. Conclude(r, o) = CASE complete -> a [] ~complete /\ o.result = "continue" -> b [] OTHER -> c
  BY DEF Conclude
<1>2. more = Append(d, m)
  BY RefFacts
<1> HIDE DEF q, m, more
<1>3. a = Ref(Fresh, <<>>, more, v)
  <2>1. a = NewRequest(r, Fresh, <<>>, more)
    BY DEF NewRequest
  <2> HIDE DEF a
  <2> QED
    BY <2>1, NewRequestFacts
<1>4. b = Ref(q, <<>>, d, v)
  <2>1. b = NewLine(r, q, <<>>)
    BY DEF NewLine
  <2> HIDE DEF b
  <2> QED
    BY <2>1, NewLineFacts
<1>5. c = Ref(p, l, d, o.result)
  BY RefFacts
<1> HIDE DEF a, b, c, complete
<1>6. Conclude(r, o) = IF complete THEN Ref(Fresh, <<>>, Append(d, m), v)
                       ELSE IF o.result = "continue" THEN Ref(q, <<>>, d, v)
                       ELSE Ref(p, l, d, o.result)
  BY <1>1, <1>2, <1>3, <1>4, <1>5
<1> QED
  BY <1>6 DEF q, m, complete

\* A state of the reference that follows from r by one byte.
Follows(r, q) ==
    /\ IsRef(q)
    /\ \/ q.done = r.done
       \/ \E m \in Request : q.done = Append(r.done, m)

\* The end of a request or of a line.
LEMMA ConcludeGrows ==
    ASSUME NEW p \in Parser, NEW l \in Seq(Bytes), NEW d \in Seq(Request), NEW v,
           NEW r, r = Ref(p, l, d, v), NEW o, o.parser \in Parser
    PROVE  Follows(r, Conclude(r, o))
<1> DEFINE q == o.parser
           m == Message(q)
           more == Append(d, m)
<1>1. \/ Conclude(r, o) = Ref(Fresh, <<>>, more, v)
      \/ Conclude(r, o) = Ref(q, <<>>, d, v)
      \/ Conclude(r, o) = Ref(p, l, d, o.result)
  BY ConcludeFacts
<1>2. m \in Request
  BY DEF Message, Request, Parser
<1>3. Fresh \in Parser
  BY DEF Fresh, Parser, States, LineStates
<1>4. r.done = d
  BY RefFacts
<1> HIDE DEF m
<1>5. more \in Seq(Request) /\ <<>> \in Seq(Bytes)
  BY <1>2
<1>6. CASE Conclude(r, o) = Ref(Fresh, <<>>, more, v)
  <2> HIDE DEF more
  <2>1. Conclude(r, o).done = more
    BY <1>6, RefFacts
  <2>2. IsRef(Conclude(r, o))
    BY <1>3, <1>5, <1>6 DEF IsRef
  <2> QED
    BY <1>2, <1>4, <2>1, <2>2 DEF Follows, more
<1>7. CASE Conclude(r, o) = Ref(q, <<>>, d, v)
  <2>1. Conclude(r, o).done = d
    BY <1>7, RefFacts
  <2> HIDE DEF q
  <2>2. IsRef(Conclude(r, o))
    BY <1>5, <1>7 DEF IsRef, q
  <2> QED
    BY <1>4, <2>1, <2>2 DEF Follows
<1>8. CASE Conclude(r, o) = Ref(p, l, d, o.result)
  <2>1. Conclude(r, o).done = d
    BY <1>8, RefFacts
  <2>2. IsRef(Conclude(r, o))
    BY <1>8 DEF IsRef
  <2> QED
    BY <1>4, <2>1, <2>2 DEF Follows
<1> QED
  BY <1>1, <1>6, <1>7, <1>8

\* A part other than done is replaced.
LEMMA KeepsDone ==
    ASSUME NEW r, NEW p \in Parser, NEW l \in Seq(Bytes), NEW d \in Seq(Request), NEW v,
           r.done = d, NEW q, q = Ref(p, l, d, v)
    PROVE  Follows(r, q)
<1>1. q.done = d
  BY RefFacts
<1>2. IsRef(q)
  BY DEF IsRef
<1> QED
  BY <1>1, <1>2 DEF Follows

\* What a byte adds to the requests.
LEMMA NextByteGrows ==
    ASSUME NEW r, IsRef(r), NEW b \in Bytes
    PROVE  Follows(r, NextByte(r, b))
<1>0. PICK v : \E p \in Parser, l \in Seq(Bytes), d \in Seq(Request) : r = Ref(p, l, d, v)
  BY DEF IsRef
<1>1. PICK p \in Parser, l \in Seq(Bytes), d \in Seq(Request) : r = Ref(p, l, d, v)
  BY <1>0
<1>2. /\ r.parser = p /\ r.line = l /\ r.done = d /\ r.verdict = v
  BY <1>1, RefFacts
<1>3. ASSUME NEW x \in Parser PROVE Follows(r, [r EXCEPT !.parser = x])
  <2>1. [r EXCEPT !.parser = x] = Ref(x, l, d, v)
    BY <1>1, RefFacts
  <2> QED
    BY <1>2, <2>1, KeepsDone
<1>4. ASSUME NEW x \in Seq(Bytes) PROVE Follows(r, [r EXCEPT !.line = x])
  <2>1. [r EXCEPT !.line = x] = Ref(p, x, d, v)
    BY <1>1, RefFacts
  <2> QED
    BY <1>2, <2>1, KeepsDone, SMTT(60)
<1>5. ASSUME NEW x PROVE Follows(r, [r EXCEPT !.verdict = x])
  <2>1. [r EXCEPT !.verdict = x] = Ref(p, l, d, x)
    BY <1>1, RefFacts
  <2> QED
    BY <1>2, <2>1, KeepsDone
<1>6. Follows(r, r)
  BY <1>1, <1>2, KeepsDone
<1>7. ASSUME p.state \in LineStates PROVE Follows(r, LineByte(r, b))
  <2> DEFINE s == Append(l, b)
             f == Front(l)
             whole == b = LF /\ l # <<>> /\ Last(l) = CR
             o == OnLine(p, f)
  <2>1. s \in Seq(Bytes)
    OBVIOUS
  <2>2. l # <<>> => f \in Seq(Bytes)
    BY DEF Front
  <2>3. LineByte(r, b) = CASE whole -> Conclude(r, OnLine(p, f))
          [] ~whole /\ Oversized(p, s) -> [r EXCEPT !.verdict = TooLarge(p)]
          [] OTHER -> [r EXCEPT !.line = s]
    BY <1>2 DEF LineByte
  <2> HIDE DEF f, s
  <2>4. l # <<>> => OnLine(p, f).parser \in Parser
    BY <1>7, <2>2, OnLineType
  <2>5. l # <<>> => Follows(r, Conclude(r, o))
    <3> HIDE DEF o
    <3> QED
      BY <1>1, <2>4, ConcludeGrows DEF o
  <2>6. whole => l # <<>>
    OBVIOUS
  <2>7. Follows(r, [r EXCEPT !.line = s])
    BY <1>4, <2>1
  <2>8. Follows(r, [r EXCEPT !.verdict = TooLarge(p)])
    BY <1>5
  <2> DEFINE c1 == Conclude(r, OnLine(p, f))
             c2 == [r EXCEPT !.verdict = TooLarge(p)]
             c3 == [r EXCEPT !.line = s]
  <2>9. \/ whole /\ LineByte(r, b) = c1
        \/ LineByte(r, b) = c2 \/ LineByte(r, b) = c3
    <3> HIDE DEF whole, c1, c2, c3
    <3> QED
      BY <2>3 DEF c1, c2, c3
  <2> HIDE DEF c2, c3
  <2> QED
    BY <2>5, <2>6, <2>7, <2>8, <2>9 DEF c2, c3
<1>8. Follows(r, BodyByte(r, b))
  <2> DEFINE body == Append(p.body, b)
             q == [p EXCEPT !.body = body]
             o == Outcome(q, "continue")
  <2>1. body \in Seq(Bytes)
    BY DEF Parser
  <2>2. BodyByte(r, b) = Conclude(r, o)
    BY <1>2 DEF BodyByte
  <2> HIDE DEF body
  <2>3. q \in Parser
    BY <2>1 DEF Parser
  <2> HIDE DEF q
  <2>4. o.parser \in Parser
    BY <2>3, OutcomeFacts
  <2> HIDE DEF o
  <2> QED
    BY <1>1, <2>2, <2>4, ConcludeGrows
<1>9. Follows(r, ChunkByte(r, b))
  <2> DEFINE body == Append(p.body, b)
             n == p.chunk_bytes_read + 1
             q == [p EXCEPT !.body = body, !.chunk_bytes_read = n]
             z == [q EXCEPT !.state = "ChunkDataCRLF"]
             c1 == [r EXCEPT !.verdict = "BodyTooLarge"]
             c2 == [r EXCEPT !.parser = q]
             c3 == [r EXCEPT !.parser = z]
  <2>1. body \in Seq(Bytes) /\ n \in Nat
    BY DEF Parser
  <2>2. ChunkByte(r, b) = IF Len(q.body) > MAX_BODY_SIZE THEN c1
          ELSE IF q.chunk_bytes_read < q.chunk_size THEN c2 ELSE c3
    BY <1>2 DEF ChunkByte
  <2> HIDE DEF body, n
  <2>3. q \in Parser
    BY <2>1 DEF Parser
  <2> HIDE DEF q
  <2>4. z \in Parser
    BY <2>3 DEF Parser, States
  <2> HIDE DEF z
  <2>5. Follows(r, c1)
    BY <1>5
  <2>6. Follows(r, c2)
    BY <1>3, <2>3
  <2>7. Follows(r, c3)
    BY <1>3, <2>4
  <2> HIDE DEF c1, c2, c3
  <2> QED
    BY <2>2, <2>5, <2>6, <2>7
<1>10. Follows(r, ChunkEndByte(r, b))
  <2> DEFINE q == [p EXCEPT !.state = "ChunkSize"]
             c1 == [r EXCEPT !.line = <<b>>]
             c2 == [r EXCEPT !.line = <<>>, !.parser.state = "ChunkSize"]
             c3 == [r EXCEPT !.verdict = "BadRequest"]
  <2>1. ChunkEndByte(r, b) = CASE l = <<>> -> c1 [] l = <<CR>> /\ b = LF -> c2 [] OTHER -> c3
    BY <1>2 DEF ChunkEndByte
  <2>2. q \in Parser
    BY DEF Parser, States, LineStates
  <2>3. c2 = Ref(q, <<>>, d, v)
    <3> DEFINE y == [r EXCEPT !.line = <<>>]
    <3>1. y = Ref(p, <<>>, d, v)
      BY <1>1, RefFacts
    <3> HIDE DEF y
    <3>2. y.parser = p
      BY <3>1, RefFacts
    <3>3. [y EXCEPT !.parser = [y.parser EXCEPT !.state = "ChunkSize"]] = Ref(q, <<>>, d, v)
      <4> DEFINE w == [y.parser EXCEPT !.state = "ChunkSize"]
      <4>1. w = q
        BY <3>2
      <4> HIDE DEF w, q
      <4>2. [y EXCEPT !.parser = w] = Ref(w, <<>>, d, v)
        BY <3>1, RefFacts
      <4> QED
        BY <4>1, <4>2 DEF w
    <3>4. c2 = [y EXCEPT !.parser = [y.parser EXCEPT !.state = "ChunkSize"]]
      BY DEF y
    <3> QED
      BY <3>3, <3>4
  <2> HIDE DEF q
  <2>4. Follows(r, c2)
    <3> HIDE DEF c2
    <3>1. <<>> \in Seq(Bytes)
      OBVIOUS
    <3> QED
      BY <1>2, <2>2, <2>3, <3>1, KeepsDone
  <2>5. Follows(r, c1)
    <3>1. <<b>> \in Seq(Bytes)
      OBVIOUS
    <3> QED
      BY <1>4, <3>1
  <2>6. Follows(r, c3)
    BY <1>5
  <2> HIDE DEF c1, c2, c3
  <2> QED
    BY <2>1, <2>4, <2>5, <2>6
<1>11. p.state \in LineStates \cup {"Body", "ChunkData", "ChunkDataCRLF"}
  BY DEF Parser, States
<1> QED
  BY <1>2, <1>6, <1>7, <1>8, <1>9, <1>10, <1>11 DEF NextByte

\* A prefix stays one when an element is added.
LEMMA PrefixAppend ==
    ASSUME NEW d \in Seq(Request), NEW e \in Seq(Request), IsPrefix(d, e), NEW m \in Request
    PROVE  IsPrefix(d, Append(e, m))
<1> DEFINE x == Append(e, m)
<1>1. Len(d) \in Nat /\ Len(e) \in Nat /\ Len(d) <= Len(e) /\ Len(x) = Len(e) + 1
  BY DEF IsPrefix
<1>2. x \in Seq(Request) /\ \A i \in 1 .. Len(e) : x[i] = e[i]
  OBVIOUS
<1> HIDE DEF x
<1>3. SubSeq(x, 1, Len(d)) = SubSeq(e, 1, Len(d))
  BY <1>1, <1>2
<1> QED
  BY <1>1, <1>3 DEF IsPrefix, x

\* The reference never takes a request back.
LEMMA FeedGrows ==
    ASSUME NEW r, IsRef(r), NEW s \in Seq(Bytes),
           NEW d \in Seq(Request), IsPrefix(d, r.done)
    PROVE  IsPrefix(d, Feed(r, s).done)
<1> DEFINE N == Len(s)
           F(j) == Feed(r, First(s, j))
           T == {j \in 0 .. N : IsRef(F(j)) /\ IsPrefix(d, F(j).done)}
<1>0. N \in Nat /\ First(s, N) = s /\ First(s, 0) = <<>>
  BY FirstFacts
<1>d. \A x : IsRef(x) => x.done \in Seq(Request)
  <2> SUFFICES ASSUME NEW x, IsRef(x) PROVE x.done \in Seq(Request)
    OBVIOUS
  <2>0. PICK v : \E p \in Parser, l \in Seq(Bytes), c \in Seq(Request) : x = Ref(p, l, c, v)
    BY DEF IsRef
  <2>1. PICK p \in Parser, l \in Seq(Bytes), c \in Seq(Request) : x = Ref(p, l, c, v)
    BY <2>0
  <2> QED
    BY <2>1, RefFacts
<1>1. 0 \in T
  <2>1. F(0) = r
    BY <1>0, FeedEmpty
  <2> QED
    BY <1>0, <2>1
<1>2. ASSUME NEW j \in 0 .. N - 1, j \in T PROVE j + 1 \in T
  <2>1. j + 1 \in 0 .. N
    BY <1>0
  <2>2. F(j + 1) = NextByte(F(j), s[j + 1])
    BY FeedNext
  <2>3. IsRef(F(j)) /\ IsPrefix(d, F(j).done)
    BY <1>2
  <2>4. s[j + 1] \in Bytes
    BY <1>0
  <2>5. Follows(F(j), F(j + 1))
    BY <2>2, <2>3, <2>4, NextByteGrows
  <2> HIDE DEF F
  <2>6. F(j).done \in Seq(Request)
    BY <1>d, <2>3
  <2>7. IsPrefix(d, F(j + 1).done)
    <3>1. CASE F(j + 1).done = F(j).done
      BY <2>3, <3>1
    <3>2. CASE \E m \in Request : F(j + 1).done = Append(F(j).done, m)
      BY <2>3, <2>6, <3>2, PrefixAppend
    <3> QED
      BY <2>5, <3>1, <3>2 DEF Follows
  <2> QED
    BY <2>1, <2>5, <2>7 DEF Follows
<1>3. \A j \in 0 .. N : j \in T
  <2> HIDE DEF T, N
  <2> QED
    BY <1>0, <1>1, <1>2, UpTo
<1>4. N \in T
  BY <1>0, <1>3
<1> QED
  BY <1>0, <1>4

-----------------------------------------------------------------------------
(* One pass of the parser does what the reference does with the same bytes.  *)

\* The state of the reference that corresponds to a parser between two passes:
\* the reference ends a request at its last byte, the parser in the next pass.
Match(p, d) ==
    IF BodyDone(p) THEN Ref(Fresh, <<>>, Append(d, Message(p)), "open")
    ELSE Ref(p, <<>>, d, "open")

\* The reference agrees with an error, or has not seen it yet because a line at
\* its limit may be refused early.
Refused(r, d, why) ==
    \/ why = r.verdict /\ d = r.done
    \/ r.verdict = "open" /\ AtLimit(r) /\ why = TooLarge(r.parser)

\* What is shown of every pass on the bytes s, with the requests d before it.
Agrees(p, s, d, step) ==
    LET used == Feed(Match(p, d), First(s, step.bytes)) IN
    /\ step.result \in {"continue", "NeedMoreData"} => used = Match(step.parser, d)
    /\ step.result = "Complete" =>
         used = Ref(Fresh, <<>>, Append(d, Message(step.parser)), "open")
    /\ step.result = "NeedMoreData" =>
         Feed(Match(p, d), s) = Ref(step.parser, SubSeq(s, step.bytes + 1, Len(s)), d, "open")
    /\ step.result \notin {"continue", "NeedMoreData", "Complete"} =>
         Refused(Feed(Match(p, d), s), d, step.result)

\* The same, part by part.
LEMMA AgreesIntro ==
    ASSUME NEW p, NEW s, NEW d, NEW step, NEW q, NEW result, NEW n,
           step.parser = q, step.result = result, step.bytes = n,
           result \in {"continue", "NeedMoreData"} => Feed(Match(p, d), First(s, n)) = Match(q, d),
           result = "Complete" =>
             Feed(Match(p, d), First(s, n)) = Ref(Fresh, <<>>, Append(d, Message(q)), "open"),
           result = "NeedMoreData" =>
             Feed(Match(p, d), s) = Ref(q, SubSeq(s, n + 1, Len(s)), d, "open"),
           result \notin {"continue", "NeedMoreData", "Complete"} =>
             Refused(Feed(Match(p, d), s), d, result)
    PROVE  Agrees(p, s, d, step)
BY DEF Agrees

\* How a line ends for the reference.
LEMMA ConcludeMatches ==
    ASSUME NEW p, NEW l, NEW d, NEW r, r = Ref(p, l, d, "open"), NEW o
    PROVE  /\ o.result = "continue" => Conclude(r, o) = Match(o.parser, d)
           /\ o.result = "Complete" =>
                Conclude(r, o) = Ref(Fresh, <<>>, Append(d, Message(o.parser)), "open")
           /\ o.result \notin {"continue", "Complete"} => Conclude(r, o) = Ref(p, l, d, o.result)
<1> DEFINE q == o.parser
           ended == Ref(Fresh, <<>>, Append(d, Message(q)), "open")
           complete == \/ o.result = "Complete"
                       \/ o.result = "continue" /\ BodyDone(q)
<1>1. Conclude(r, o) = IF complete THEN ended
                       ELSE IF o.result = "continue" THEN Ref(q, <<>>, d, "open")
                       ELSE Ref(p, l, d, o.result)
  BY ConcludeFacts DEF BodyDone
<1>2. Match(q, d) = IF BodyDone(q) THEN ended ELSE Ref(q, <<>>, d, "open")
  BY DEF Match
<1> HIDE DEF ended, q
<1>3. o.result = "continue" => Conclude(r, o) = Match(q, d)
  BY <1>1, <1>2
<1>4. o.result = "Complete" => Conclude(r, o) = ended
  BY <1>1
<1>5. o.result \notin {"continue", "Complete"} => Conclude(r, o) = Ref(p, l, d, o.result)
  BY <1>1
<1> QED
  BY <1>3, <1>4, <1>5 DEF ended, q

\* A byte of a line.
LEMMA LineByteFacts ==
    ASSUME NEW p, p.state \in LineStates, NEW l, NEW d, NEW b,
           NEW r, r = Ref(p, l, d, "open")
    PROVE  NextByte(r, b) = IF b = LF /\ l # <<>> /\ Last(l) = CR THEN Conclude(r, OnLine(p, Front(l)))
                            ELSE IF Oversized(p, Append(l, b)) THEN Ref(p, l, d, TooLarge(p))
                            ELSE Ref(p, Append(l, b), d, "open")
<1> DEFINE s == Append(l, b)
           whole == b = LF /\ l # <<>> /\ Last(l) = CR
           c1 == Conclude(r, OnLine(p, Front(l)))
           c2 == [r EXCEPT !.verdict = TooLarge(p)]
           c3 == [r EXCEPT !.line = s]
<1>1. r.parser = p /\ r.line = l /\ r.done = d /\ r.verdict = "open"
  BY RefFacts
<1>2. NextByte(r, b) = LineByte(r, b)
  BY <1>1 DEF NextByte, LineStates
<1>3. LineByte(r, b) = CASE whole -> c1 [] ~whole /\ Oversized(p, s) -> c2 [] OTHER -> c3
  BY <1>1 DEF LineByte
<1> HIDE DEF s
<1>4. c2 = Ref(p, l, d, TooLarge(p))
  BY RefFacts
<1>5. c3 = Ref(p, s, d, "open")
  BY RefFacts
<1> HIDE DEF c1, c2, c3, whole
<1>6. NextByte(r, b) = IF whole THEN c1 ELSE IF Oversized(p, s) THEN c2 ELSE c3
  BY <1>2, <1>3
<1>7. NextByte(r, b) = IF whole THEN c1 ELSE IF Oversized(p, s) THEN Ref(p, l, d, TooLarge(p))
                       ELSE Ref(p, s, d, "open")
  BY <1>4, <1>5, <1>6
<1> QED
  BY <1>7 DEF s, whole, c1

\* The reference on the bytes of a line: it keeps them, or has found them too
\* many.
LEMMA LineHeld ==
    ASSUME NEW p, p.state \in LineStates, NEW d, NEW s \in Seq(Bytes), NEW N \in 0 .. Len(s),
           \A i \in 1 .. N - 1 : ~(s[i] = CR /\ s[i + 1] = LF)
    PROVE  LET x == Feed(Ref(p, <<>>, d, "open"), First(s, N)) IN
           \/ /\ x = Ref(p, First(s, N), d, "open")
              /\ \A i \in 1 .. N : ~Oversized(p, First(s, i))
           \/ /\ x.verdict = TooLarge(p) /\ x.done = d
              /\ \E i \in 1 .. N : Oversized(p, First(s, i))
<1> DEFINE r == Ref(p, <<>>, d, "open")
           F(j) == Feed(r, First(s, j))
           Held(j) == /\ F(j) = Ref(p, First(s, j), d, "open")
                      /\ \A i \in 1 .. j : ~Oversized(p, First(s, i))
           Over(j) == /\ F(j).verdict = TooLarge(p) /\ F(j).done = d
                      /\ \E i \in 1 .. j : Oversized(p, First(s, i))
           T == {j \in 0 .. N : Held(j) \/ Over(j)}
<1>0. N \in Nat /\ Len(s) \in Nat /\ First(s, 0) = <<>> /\ TooLarge(p) # "open"
  BY FirstFacts DEF TooLarge
<1>1. 0 \in T
  <2>1. F(0) = Ref(p, First(s, 0), d, "open")
    BY <1>0, FeedEmpty
  <2> HIDE DEF F
  <2>2. Held(0)
    BY <2>1
  <2> QED
    BY <1>0, <2>2
<1>2. ASSUME NEW j \in 0 .. N - 1, j \in T PROVE j + 1 \in T
  <2>0. /\ j + 1 \in 0 .. N /\ j \in 0 .. Len(s) - 1 /\ j \in Nat /\ j + 1 \in 1 .. j + 1
        /\ \A i \in 1 .. j + 1 : i \in 1 .. j \/ i = j + 1
        /\ \A i \in 1 .. j : i \in 1 .. j + 1
    BY <1>0
  <2>1. F(j + 1) = NextByte(F(j), s[j + 1])
    BY <2>0, FeedNext
  <2>2. /\ First(s, j + 1) = Append(First(s, j), s[j + 1])
    BY <2>0 DEF First
  <2>3. CASE Held(j)
    <3>1. ~(s[j + 1] = LF /\ First(s, j) # <<>> /\ Last(First(s, j)) = CR)
      <4>1. CASE j = 0
        BY <1>0, <4>1
      <4>2. CASE j # 0
        <5>1. j \in 1 .. N - 1 /\ j \in 0 .. Len(s) /\ j \in 1 .. j
          BY <1>0, <2>0, <4>2
        <5>2. Len(First(s, j)) = j /\ First(s, j)[j] = s[j]
          BY <5>1, FirstFacts
        <5> QED
          BY <5>1, <5>2 DEF Last
      <4> QED
        BY <4>1, <4>2
    <3>2. F(j) = Ref(p, First(s, j), d, "open")
      BY <2>3
    <3> HIDE DEF F
    <3>3. F(j + 1) = IF Oversized(p, First(s, j + 1)) THEN Ref(p, First(s, j), d, TooLarge(p))
                     ELSE Ref(p, First(s, j + 1), d, "open")
      <4> DEFINE l == First(s, j)
                 b == s[j + 1]
                 x == F(j)
                 y == Append(l, b)
      <4>1. ~(b = LF /\ l # <<>> /\ Last(l) = CR) /\ x = Ref(p, l, d, "open")
        BY <3>1, <3>2
      <4> HIDE DEF l, b, x
      <4>2. NextByte(x, b) = IF Oversized(p, y) THEN Ref(p, l, d, TooLarge(p)) ELSE Ref(p, y, d, "open")
        BY <4>1, LineByteFacts
      <4> QED
        BY <2>1, <2>2, <4>2 DEF l, b, x
    <3>4. CASE Oversized(p, First(s, j + 1))
      <4>1. F(j + 1).verdict = TooLarge(p) /\ F(j + 1).done = d
        BY <3>3, <3>4, RefFacts
      <4>2. Over(j + 1)
        BY <2>0, <3>4, <4>1
      <4> QED
        BY <2>0, <4>2
    <3>5. CASE ~Oversized(p, First(s, j + 1))
      <4>1. \A i \in 1 .. j + 1 : ~Oversized(p, First(s, i))
        BY <2>0, <2>3, <3>5
      <4>2. Held(j + 1)
        BY <3>3, <3>5, <4>1
      <4> QED
        BY <2>0, <4>2
    <3> QED
      BY <3>4, <3>5
  <2>4. CASE Over(j)
    <3>1. F(j + 1) = F(j)
      <4> HIDE DEF F
      <4> QED
        BY <1>0, <2>1, <2>4 DEF NextByte
    <3> HIDE DEF F
    <3>2. Over(j + 1)
      BY <2>0, <2>4, <3>1
    <3> QED
      BY <2>0, <3>2
  <2> QED
    BY <1>2, <2>3, <2>4
<1>3. \A j \in 0 .. N : j \in T
  <2> HIDE DEF T
  <2> QED
    BY <1>0, <1>1, <1>2, UpTo
<1>4. N \in T
  BY <1>0, <1>3
<1> QED
  BY <1>4

\* Bytes that are taken in two portions.
LEMMA FeedSplit ==
    ASSUME NEW r, NEW s \in Seq(Bytes), NEW n \in 0 .. Len(s)
    PROVE  /\ SubSeq(s, n + 1, Len(s)) \in Seq(Bytes)
           /\ Feed(r, s) = Feed(Feed(r, First(s, n)), SubSeq(s, n + 1, Len(s)))
<1> DEFINE a == First(s, n)
           b == SubSeq(s, n + 1, Len(s))
<1>1. a \in Seq(Bytes) /\ b \in Seq(Bytes) /\ s = a \o b
  <2>0. n \in Nat /\ Len(s) \in Nat /\ n <= Len(s)
    OBVIOUS
  <2>1. /\ a \in Seq(Bytes) /\ Len(a) = n
        /\ \A i \in 1 .. n : a[i] = s[i]
    BY DEF First
  <2>2. /\ b \in Seq(Bytes) /\ Len(b) = Len(s) - n
        /\ \A i \in 1 .. Len(s) - n : b[i] = s[i + n]
    BY <2>0
  <2> HIDE DEF a, b
  <2>3. a \o b \in Seq(Bytes) /\ Len(a \o b) = Len(s)
    BY <2>0, <2>1, <2>2
  <2>4. ASSUME NEW i \in 1 .. Len(s) PROVE (a \o b)[i] = s[i]
    <3>0. i <= n \/ i > n
      BY <2>0
    <3>1. CASE i <= n
      BY <2>0, <2>1, <2>2, <3>1, SMTT(60)
    <3>2. CASE i > n
      <4>1. i - n \in 1 .. Len(s) - n /\ i - n + n = i
        BY <2>0, <3>2
      <4>2. b[i - n] = s[i]
        BY <2>2, <4>1
      <4>3. (a \o b)[i] = b[i - n]
        BY <2>0, <2>1, <2>2, <3>2
      <4> QED
        BY <4>2, <4>3
    <3> QED
      BY <3>0, <3>1, <3>2, Zenon
  <2>5. s = a \o b
    BY <2>3, <2>4, SeqEqual
  <2> QED
    BY <2>1, <2>2, <2>5
<1> HIDE DEF a, b
<1>2. Feed(r, a \o b) = Feed(Feed(r, a), b)
  BY <1>1, FeedConcat
<1> QED
  BY <1>1, <1>2 DEF a, b

\* An error that the reference finds within s.
LEMMA FeedRefusedEarly ==
    ASSUME NEW r, NEW s \in Seq(Bytes), NEW n \in 0 .. Len(s),
           NEW x, x = Feed(r, First(s, n)), x.verdict # "open"
    PROVE  Feed(r, s) = x
BY FeedSplit, FeedRefused, ZenonT(60)

\* What the sizes of a line mean for the limits.
LEMMA OversizedFacts ==
    ASSUME NEW p, Bounded(p), NEW s \in Seq(Bytes), NEW i \in 1 .. Len(s)
    PROVE  /\ Oversized(p, First(s, i)) =>
                \/ p.state # "ChunkTrailers" /\ i > LineLimit(p)
                     /\ (i = LineLimit(p) + 1 => s[i] # CR)
                \/ p.state = "Headers" /\ p.headers_size + i > MAX_HEADERS_SIZE
                \/ p.state = "ChunkTrailers" /\ p.trailer_size + i > MAX_HEADERS_SIZE
           /\ ~Oversized(p, First(s, i)) =>
                /\ p.state # "ChunkTrailers" => i <= LineLimit(p) \/ (i = LineLimit(p) + 1 /\ s[i] = CR)
                /\ p.state = "Headers" => p.headers_size + i <= MAX_HEADERS_SIZE
                /\ p.state = "ChunkTrailers" => p.trailer_size + i <= MAX_HEADERS_SIZE
<1> DEFINE l == First(s, i)
           c == IF s[i] = CR THEN 1 ELSE 0
<1>0. /\ i \in Nat /\ LineLimit(p) \in Nat /\ p.headers_size \in Nat /\ p.trailer_size \in Nat
      /\ MAX_HEADERS_SIZE \in Nat
  BY Limits DEF Bounded, Parser, LineLimit
<1>1. Len(l) = i /\ l[i] = s[i] /\ l # <<>>
  <2>1. i \in 0 .. Len(s) /\ i \in 1 .. i
    OBVIOUS
  <2>2. Len(l) = i /\ l[i] = s[i]
    BY <2>1, FirstFacts
  <2> QED
    BY <1>0, <2>2
<1> HIDE DEF l
<1>2. Content(l) = i - c
  BY <1>1 DEF Content, Last
<1>3. Oversized(p, l) <=> \/ i - c > LineLimit(p) /\ p.state # "ChunkTrailers"
                          \/ p.state = "Headers" /\ p.headers_size + i > MAX_HEADERS_SIZE
                          \/ p.state = "ChunkTrailers" /\ p.trailer_size + i > MAX_HEADERS_SIZE
  BY <1>1, <1>2 DEF Oversized
<1>4. c \in {0, 1} /\ (c = 1 <=> s[i] = CR)
  OBVIOUS
<1> HIDE DEF c
<1>5. Oversized(p, l) =>
                \/ p.state # "ChunkTrailers" /\ i > LineLimit(p)
                     /\ (i = LineLimit(p) + 1 => s[i] # CR)
                \/ p.state = "Headers" /\ p.headers_size + i > MAX_HEADERS_SIZE
                \/ p.state = "ChunkTrailers" /\ p.trailer_size + i > MAX_HEADERS_SIZE
  BY <1>0, <1>3, <1>4
<1>6. ~Oversized(p, l) =>
                /\ p.state # "ChunkTrailers" => i <= LineLimit(p) \/ (i = LineLimit(p) + 1 /\ s[i] = CR)
                /\ p.state = "Headers" => p.headers_size + i <= MAX_HEADERS_SIZE
                /\ p.state = "ChunkTrailers" => p.trailer_size + i <= MAX_HEADERS_SIZE
  BY <1>0, <1>3, <1>4
<1> QED
  BY <1>5, <1>6 DEF l

\* A line that takes the head or the trailers beyond their size is refused.
LEMMA OnLineTooLarge ==
    ASSUME NEW p, Bounded(p), NEW line \in Seq(Bytes),
           \/ p.state = "Headers" /\ p.headers_size + Len(line) + 2 > MAX_HEADERS_SIZE
           \/ p.state = "ChunkTrailers" /\ p.trailer_size + Len(line) + 2 > MAX_HEADERS_SIZE
    PROVE  OnLine(p, line).result = TooLarge(p)
<1>0. /\ p \in Parser /\ p.headers_size \in Nat /\ p.trailer_size \in Nat /\ Len(line) \in Nat
      /\ p.trailer_count \in Nat /\ MAX_HEADERS_SIZE \in Nat
  BY Limits DEF Bounded, Parser
<1>1. TooLarge(p) = "HeadersTooLarge"
  BY DEF TooLarge
<1>2. CASE p.state = "Headers"
  <2> DEFINE n == p.headers_size + Len(line) + 2
             q == [p EXCEPT !.headers_size = n]
  <2>1. HeaderLine(p, line) =
          CASE q.headers_size > MAX_HEADERS_SIZE -> Outcome(p, "HeadersTooLarge")
          [] q.headers_size <= MAX_HEADERS_SIZE /\ line = <<>> -> HeadersEnd(q)
          [] q.headers_size <= MAX_HEADERS_SIZE /\ line # <<>> ->
               IF Len(p.headers) + 1 > MAX_HEADER_COUNT THEN Outcome(p, "TooManyHeaders")
               ELSE Field(q, line)
    BY DEF HeaderLine
  <2>2. n > MAX_HEADERS_SIZE /\ n \in Nat
    BY <1>0, <1>2
  <2> HIDE DEF n
  <2>3. q.headers_size = n
    BY <1>0 DEF Parser
  <2> HIDE DEF q
  <2>4. HeaderLine(p, line) = Outcome(p, "HeadersTooLarge")
    BY <1>0, <2>1, <2>2, <2>3
  <2> QED
    BY <1>1, <1>2, <2>4, OutcomeFacts DEF OnLine
<1>3. CASE p.state = "ChunkTrailers"
  <2> DEFINE n == p.trailer_size + Len(line) + 2
             m == p.trailer_count + IF line = <<>> THEN 0 ELSE 1
             q == [p EXCEPT !.trailer_size = n, !.trailer_count = m]
  <2>1. TrailerLine(p, line) =
          CASE q.trailer_size > MAX_HEADERS_SIZE -> Outcome(p, "HeadersTooLarge")
            [] q.trailer_size <= MAX_HEADERS_SIZE /\ line = <<>> -> Outcome(q, "Complete")
            [] q.trailer_size <= MAX_HEADERS_SIZE /\ line # <<>> ->
                 Outcome(q, IF q.trailer_count > MAX_HEADER_COUNT THEN "TooManyHeaders"
                            ELSE IF Letter(line) \in HeaderLetters THEN "continue"
                            ELSE "BadRequest")
    BY DEF TrailerLine
  <2>2. n > MAX_HEADERS_SIZE /\ n \in Nat
    BY <1>0, <1>3
  <2> HIDE DEF n, m
  <2>3. q.trailer_size = n
    BY <1>0 DEF Parser
  <2> HIDE DEF q
  <2>4. TrailerLine(p, line) = Outcome(p, "HeadersTooLarge")
    BY <1>0, <2>1, <2>2, <2>3
  <2> QED
    BY <1>1, <1>3, <2>4, OutcomeFacts DEF OnLine
<1> QED
  BY <1>2, <1>3

\* The states that read lines.
LEMMA ParseLineAgrees ==
    ASSUME NEW p, Bounded(p), p.state \in LineStates, NEW s \in Seq(Bytes), NEW d
    PROVE  Agrees(p, s, d, ParseLine(p, s))
<1> DEFINE e == EndOfLine(s)
           line == SubSeq(s, 1, e - 1)
           o == OnLine(p, line)
           r == Ref(p, <<>>, d, "open")
           x == Feed(r, s)
<1>0. /\ p \in Parser /\ Len(s) \in Nat /\ LineLimit(p) \in Nat /\ ~BodyDone(p)
      /\ TooLarge(p) \notin {"continue", "NeedMoreData", "Complete", "open"}
      /\ p.headers_size \in Nat /\ p.trailer_size \in Nat /\ MAX_HEADERS_SIZE \in Nat
      /\ p.headers_size <= MAX_HEADERS_SIZE /\ p.trailer_size <= MAX_HEADERS_SIZE
  BY Limits DEF Bounded, Parser, HeadBounded, BodyBounded, LineLimit, LineStates, BodyDone, TooLarge
<1>1. /\ e \in Nat
      /\ e = 0 => \A i \in 1 .. Len(s) - 1 : ~(s[i] = CR /\ s[i + 1] = LF)
      /\ e # 0 => /\ e \in 1 .. Len(s) - 1 /\ s[e] = CR /\ s[e + 1] = LF
                  /\ \A i \in 1 .. e - 1 : ~(s[i] = CR /\ s[i + 1] = LF)
  BY EndOfLineFacts
<1>2. Match(p, d) = r
  BY <1>0 DEF Match
<1>3. First(s, 0) = <<>> /\ First(s, Len(s)) = s /\ Feed(r, First(s, 0)) = r
  BY FirstFacts, FeedEmpty
<1> HIDE DEF e
<1>4. CASE e = 0
  <2>1. ParseLine(p, s) = Step(Outcome(p, Incomplete(p, s)), 0)
    BY <1>0, <1>4 DEF ParseLine, e
  <2>2. \/ /\ x = Ref(p, s, d, "open")
           /\ \A i \in 1 .. Len(s) : ~Oversized(p, First(s, i))
        \/ /\ x.verdict = TooLarge(p) /\ x.done = d
           /\ \E i \in 1 .. Len(s) : Oversized(p, First(s, i))
    <3> DEFINE N == Len(s)
               y == Feed(Ref(p, <<>>, d, "open"), First(s, N))
    <3>1. N \in 0 .. Len(s) /\ \A i \in 1 .. N - 1 : ~(s[i] = CR /\ s[i + 1] = LF)
      BY <1>0, <1>1, <1>4
    <3> HIDE DEF N
    <3>2. \/ /\ y = Ref(p, First(s, N), d, "open")
             /\ \A i \in 1 .. N : ~Oversized(p, First(s, i))
          \/ /\ y.verdict = TooLarge(p) /\ y.done = d
             /\ \E i \in 1 .. N : Oversized(p, First(s, i))
      BY <3>1, LineHeld
    <3> QED
      BY <1>3, <3>2 DEF N
  <2> HIDE DEF x
  <2>3. ASSUME Incomplete(p, s) # "NeedMoreData"
        PROVE  Incomplete(p, s) = TooLarge(p) /\ Refused(x, d, TooLarge(p))
    <3>1. /\ Incomplete(p, s) = TooLarge(p)
          /\ \/ Len(s) > LineLimit(p)
             \/ p.state = "Headers" /\ p.headers_size + Len(s) > MAX_HEADERS_SIZE
             \/ p.state = "ChunkTrailers" /\ p.trailer_size + Len(s) > MAX_HEADERS_SIZE
      BY <2>3 DEF Incomplete
    <3>2. CASE x.verdict = TooLarge(p) /\ x.done = d
      BY <3>1, <3>2 DEF Refused
    <3>3. CASE /\ x = Ref(p, s, d, "open")
               /\ \A i \in 1 .. Len(s) : ~Oversized(p, First(s, i))
      <4>1. Len(s) \in 1 .. Len(s)
        BY <1>0, <3>1
      <4>2. /\ p.state # "ChunkTrailers" =>
                 Len(s) <= LineLimit(p) \/ (Len(s) = LineLimit(p) + 1 /\ s[Len(s)] = CR)
            /\ p.state = "Headers" => p.headers_size + Len(s) <= MAX_HEADERS_SIZE
            /\ p.state = "ChunkTrailers" => p.trailer_size + Len(s) <= MAX_HEADERS_SIZE
        BY <3>3, <4>1, OversizedFacts
      <4>3. \/ Len(s) = LineLimit(p) + 1 /\ Last(s) = CR
            \/ p.state = "ChunkTrailers" /\ Len(s) > MAX_HEADER_LINE_SIZE
        BY <1>0, <3>1, <4>2 DEF Last, LineLimit
      <4>4. x.verdict = "open" /\ x.parser = p /\ x.line = s
        BY <3>3, RefFacts
      <4> QED
        BY <3>1, <4>3, <4>4 DEF Refused, AtLimit
    <3> QED
      BY <2>2, <3>1, <3>2, <3>3
  <2>4. ASSUME Incomplete(p, s) = "NeedMoreData"
        PROVE  x = Ref(p, s, d, "open")
    <3>1. /\ Len(s) <= LineLimit(p)
          /\ p.state = "Headers" => p.headers_size + Len(s) <= MAX_HEADERS_SIZE
          /\ p.state = "ChunkTrailers" => p.trailer_size + Len(s) <= MAX_HEADERS_SIZE
      BY <1>0, <2>4 DEF Incomplete
    <3>2. ASSUME NEW i \in 1 .. Len(s) PROVE ~Oversized(p, First(s, i))
      BY <1>0, <3>1, OversizedFacts
    <3> QED
      BY <2>2, <3>2
  <2>5. SubSeq(s, 0 + 1, Len(s)) = s
    BY <1>0
  <2> HIDE DEF r
  <2> DEFINE step == ParseLine(p, s)
  <2>6. step.parser = p /\ step.result = Incomplete(p, s) /\ step.bytes = 0
    BY <2>1, StepFacts
  <2> HIDE DEF step
  <2>7. CASE Incomplete(p, s) = "NeedMoreData"
    <3>1. Feed(Match(p, d), First(s, 0)) = Match(p, d)
      BY <1>2, <1>3
    <3>2. Feed(Match(p, d), s) = Ref(p, SubSeq(s, 0 + 1, Len(s)), d, "open")
      BY <1>2, <2>4, <2>5, <2>7 DEF x
    <3> QED
      BY <2>6, <2>7, <3>1, <3>2, AgreesIntro DEF step
  <2>8. CASE Incomplete(p, s) # "NeedMoreData"
    <3>1. Refused(Feed(Match(p, d), s), d, TooLarge(p)) /\ Incomplete(p, s) = TooLarge(p)
      BY <1>2, <2>3, <2>8 DEF x
    <3> QED
      BY <1>0, <2>6, <3>1, AgreesIntro DEF step
  <2> QED
    BY <2>7, <2>8
<1>5. CASE e # 0
  <2>0. /\ e \in 0 .. Len(s) /\ e + 1 \in 0 .. Len(s) /\ e \in 1 .. Len(s) /\ e \in 0 .. Len(s) - 1
        /\ s[e] = CR /\ s[e + 1] = LF /\ e \in 1 .. e
    BY <1>0, <1>1, <1>5
  <2>1. line \in Seq(Bytes) /\ Len(line) = e - 1
    BY <1>0, <2>0
  <2> DEFINE y == Feed(r, First(s, e))
             z == Feed(r, First(s, e + 1))
  <2>2. \/ /\ y = Ref(p, First(s, e), d, "open")
           /\ \A i \in 1 .. e : ~Oversized(p, First(s, i))
        \/ /\ y.verdict = TooLarge(p) /\ y.done = d
           /\ \E i \in 1 .. e : Oversized(p, First(s, i))
    BY <1>1, <1>5, <2>0, LineHeld
  <2>3. z = NextByte(y, LF)
    BY <2>0, FeedNext
  <2>4. z.verdict # "open" => x = z
    BY <2>0, FeedRefusedEarly
  <2>5. y.verdict # "open" => x = y
    BY <2>0, FeedRefusedEarly
  <2> HIDE DEF x, y, z
  <2>6. CASE e > LineLimit(p) + 1 /\ p.state # "ChunkTrailers"
    <3>1. ParseLine(p, s) = Step(Outcome(p, TooLarge(p)), 0)
      BY <1>5, <2>6 DEF ParseLine, e
    <3>2. Oversized(p, First(s, e))
      BY <1>0, <2>0, <2>6, OversizedFacts
    <3>3. y.verdict = TooLarge(p) /\ y.done = d
      BY <2>0, <2>2, <3>2
    <3>4. Refused(x, d, TooLarge(p))
      BY <1>0, <2>5, <3>3 DEF Refused
    <3> HIDE DEF r
    <3> QED
      BY <1>0, <1>2, <3>1, <3>4, StepFacts, AgreesIntro DEF x
  <2>7. CASE ~(e > LineLimit(p) + 1 /\ p.state # "ChunkTrailers")
    <3>1. ParseLine(p, s) = Step(o, e + 1)
      BY <1>5, <2>7 DEF ParseLine, e
    <3>2. p.state # "ChunkTrailers" => Len(line) <= LineLimit(p)
      BY <1>0, <2>0, <2>1, <2>7
    <3> HIDE DEF line
    <3>3. Keeps(o)
      BY <2>1, <3>2, OnLineKeeps
    <3>4. CASE y = Ref(p, First(s, e), d, "open")
      <4>1. First(s, e) # <<>> /\ Last(First(s, e)) = CR /\ Front(First(s, e)) = line
        <5>1. Len(First(s, e)) = e /\ First(s, e)[e] = s[e]
          BY <2>0, FirstFacts
        <5>2. SubSeq(First(s, e), 1, e - 1) = SubSeq(s, 1, e - 1)
          BY <2>0 DEF First
        <5> QED
          BY <2>0, <5>1, <5>2 DEF Last, Front, line
      <4>2. z = Conclude(y, o)
        <5> DEFINE f == First(s, e)
        <5>1. f # <<>> /\ Last(f) = CR /\ Front(f) = line /\ y = Ref(p, f, d, "open")
          BY <3>4, <4>1
        <5> HIDE DEF f
        <5> QED
          BY <2>3, <5>1, LineByteFacts
      <4> HIDE DEF o
      <4>3. /\ o.result = "continue" => z = Match(o.parser, d)
            /\ o.result = "Complete" => z = Ref(Fresh, <<>>, Append(d, Message(o.parser)), "open")
        BY <3>4, <4>2, ConcludeMatches
      <4>4. o.result \notin {"continue", "Complete"} => z = Ref(p, First(s, e), d, o.result)
        BY <3>4, <4>2, ConcludeMatches
      <4>5. o.result \notin {"continue", "Complete"} => Refused(x, d, o.result)
        <5> SUFFICES ASSUME o.result \notin {"continue", "Complete"} PROVE Refused(x, d, o.result)
          OBVIOUS
        <5>1. z.verdict = o.result /\ z.done = d
          BY <4>4, RefFacts
        <5>2. o.result # "open"
          BY <3>3 DEF Keeps
        <5> QED
          BY <2>4, <5>1, <5>2 DEF Refused
      <4>6. o.result # "NeedMoreData"
        BY <3>3 DEF Keeps
      <4>7. /\ ParseLine(p, s).parser = o.parser /\ ParseLine(p, s).result = o.result
            /\ ParseLine(p, s).bytes = e + 1
        BY <3>1 DEF Step
      <4> HIDE DEF r
      <4> QED
        BY <1>2, <4>3, <4>5, <4>6, <4>7, AgreesIntro DEF x, z
    <3>5. CASE /\ y.verdict = TooLarge(p) /\ y.done = d
               /\ \E i \in 1 .. e : Oversized(p, First(s, i))
      <4>1. PICK i \in 1 .. e : Oversized(p, First(s, i))
        BY <3>5
      <4>2. i \in 1 .. Len(s) /\ i <= e
        BY <1>0, <2>0
      <4>3. \/ p.state # "ChunkTrailers" /\ i > LineLimit(p)
                 /\ (i = LineLimit(p) + 1 => s[i] # CR)
            \/ p.state = "Headers" /\ p.headers_size + i > MAX_HEADERS_SIZE
            \/ p.state = "ChunkTrailers" /\ p.trailer_size + i > MAX_HEADERS_SIZE
        BY <4>1, <4>2, OversizedFacts
      <4>4. \/ p.state = "Headers" /\ p.headers_size + Len(line) + 2 > MAX_HEADERS_SIZE
            \/ p.state = "ChunkTrailers" /\ p.trailer_size + Len(line) + 2 > MAX_HEADERS_SIZE
        <5>1. ASSUME p.state # "ChunkTrailers", i > LineLimit(p), i = LineLimit(p) + 1 => s[i] # CR
              PROVE  FALSE
          <6>1. i = e /\ i = LineLimit(p) + 1
            BY <1>0, <2>0, <2>7, <4>2, <5>1
          <6> QED
            BY <2>0, <5>1, <6>1
        <5>2. i \in Nat /\ e \in Nat /\ Len(line) + 2 = e + 1
          BY <2>0, <2>1, <4>2
        <5>3. i < Len(line) + 2 /\ Len(line) \in Nat
          BY <2>1, <4>2, <5>2
        <5> QED
          BY <1>0, <4>3, <5>1, <5>2, <5>3, SMTT(60)
      <4>5. o.result = TooLarge(p)
        BY <2>1, <4>4, OnLineTooLarge
      <4> HIDE DEF o
      <4>6. Refused(x, d, TooLarge(p))
        BY <1>0, <2>5, <3>5 DEF Refused
      <4>7. /\ ParseLine(p, s).parser = o.parser /\ ParseLine(p, s).result = TooLarge(p)
            /\ ParseLine(p, s).bytes = e + 1
        BY <3>1, <4>5 DEF Step
      <4> HIDE DEF r
      <4> QED
        BY <1>0, <1>2, <4>6, <4>7, AgreesIntro DEF x
    <3> QED
      BY <2>2, <3>4, <3>5
  <2> QED
    BY <2>6, <2>7
<1> QED
  BY <1>4, <1>5

\* A parser with another body.
WithBody(p, b) == [p EXCEPT !.body = b]

\* The parts that are not replaced stay.
LEMMA WithBodyFacts ==
    ASSUME NEW p \in Parser, NEW b \in Seq(Bytes)
    PROVE  /\ WithBody(p, b) \in Parser /\ WithBody(p, b).body = b
           /\ WithBody(p, b).state = p.state /\ WithBody(p, b).content_length = p.content_length
           /\ WithBody(p, p.body) = p
           /\ \A c : WithBody(WithBody(p, b), c) = WithBody(p, c)
BY DEF WithBody, Parser

\* One byte more of the body and of the bytes.
LEMMA BodyNext ==
    ASSUME NEW b \in Seq(Bytes), NEW s \in Seq(Bytes), NEW j \in 0 .. Len(s) - 1
    PROVE  /\ b \o First(s, j) \in Seq(Bytes) /\ Len(b \o First(s, j)) = Len(b) + j
           /\ b \o First(s, j + 1) = Append(b \o First(s, j), s[j + 1])
<1>1. /\ First(s, j) \in Seq(Bytes) /\ s[j + 1] \in Bytes /\ Len(First(s, j)) = j
      /\ First(s, j + 1) = Append(First(s, j), s[j + 1])
  BY DEF First
<1> DEFINE f == First(s, j)
           c == s[j + 1]
<1> HIDE DEF f, c
<1>2. f \in Seq(Bytes) /\ c \in Bytes /\ Len(f) = j /\ First(s, j + 1) = Append(f, c)
  BY <1>1 DEF f, c
<1>3. b \o f \in Seq(Bytes) /\ Len(b \o f) = Len(b) + j
  <2>0. f \in Seq(Bytes)
    BY <1>2
  <2>1. b \o f \in Seq(Bytes)
    BY <2>0
  <2>2. Len(b \o f) = Len(b) + Len(f)
    BY <2>0
  <2> QED
    BY <1>2, <2>1, <2>2
<1>4. b \o Append(f, c) = Append(b \o f, c)
  BY <1>2
<1> QED
  BY <1>2, <1>3, <1>4 DEF f, c

\* A byte of a body that is not complete.
LEMMA BodyByteFacts ==
    ASSUME NEW p \in Parser, p.state = "Body", NEW d, NEW b \in Bytes,
           NEW r, r = Ref(p, <<>>, d, "open")
    PROVE  NextByte(r, b) = Match(WithBody(p, Append(p.body, b)), d)
<1> DEFINE q == WithBody(p, Append(p.body, b))
           o == Outcome(q, "continue")
<1>1. r.parser = p /\ r.verdict = "open"
  BY RefFacts
<1>2. NextByte(r, b) = BodyByte(r, b)
  BY <1>1 DEF NextByte, LineStates
<1>3. BodyByte(r, b) = Conclude(r, o)
  BY <1>1 DEF BodyByte, WithBody
<1> HIDE DEF q
<1>4. o.result = "continue" /\ o.parser = q
  BY OutcomeFacts
<1> HIDE DEF o
<1>5. Conclude(r, o) = Match(q, d)
  BY <1>4, ConcludeMatches
<1> QED
  BY <1>2, <1>3, <1>5 DEF q

\* A body with a length.
LEMMA ParseBodyAgrees ==
    ASSUME NEW p, Bounded(p), p.state = "Body", NEW s \in Seq(Bytes), NEW d
    PROVE  Agrees(p, s, d, ParseBody(p, s))
<1> DEFINE n == Min({Len(s), p.content_length - Len(p.body)})
           q == WithBody(p, p.body \o First(s, n))
           result == IF Len(q.body) < p.content_length THEN "NeedMoreData" ELSE "Complete"
           Q(j) == WithBody(p, p.body \o First(s, j))
           F(j) == Feed(Match(p, d), First(s, j))
           T == {j \in 0 .. n : F(j) = Match(Q(j), d)}
<1>0. /\ p \in Parser /\ p.body \in Seq(Bytes) /\ Len(s) \in Nat /\ Len(p.body) \in Nat
      /\ p.content_length \in Nat /\ Len(p.body) <= p.content_length
      /\ p.content_length - Len(p.body) \in Nat
  BY DEF Bounded, Parser, BodyBounded
<1>1. n = IF Len(s) <= p.content_length - Len(p.body) THEN Len(s) ELSE p.content_length - Len(p.body)
  BY <1>0, MinOfTwo
<1>2. n \in Nat /\ n \in 0 .. Len(s) /\ Len(p.body) + n <= p.content_length
  BY <1>0, <1>1
<1>3. ParseBody(p, s) = Step(Outcome(q, result), n)
  BY DEF ParseBody, WithBody, First
<1>4. p.body \o First(s, n) \in Seq(Bytes) /\ Len(p.body \o First(s, n)) = Len(p.body) + n
  BY <1>0, <1>2, AppendPart DEF First
<1> HIDE DEF n
<1>5. 0 \in T
  <2>1. First(s, 0) = <<>> /\ p.body \o <<>> = p.body
    BY <1>0, FirstFacts
  <2>2. Q(0) = p
    BY <1>0, <2>1, WithBodyFacts
  <2>3. F(0) = Match(p, d)
    BY <2>1, FeedEmpty
  <2> HIDE DEF Q, F
  <2> QED
    BY <1>2, <2>2, <2>3
<1>6. ASSUME NEW j \in 0 .. n - 1, j \in T PROVE j + 1 \in T
  <2>0. j + 1 \in 0 .. n /\ j \in 0 .. Len(s) - 1 /\ s[j + 1] \in Bytes /\ j \in Nat
    BY <1>0, <1>2
  <2> DEFINE b == p.body \o First(s, j)
             c == s[j + 1]
  <2>1. /\ b \in Seq(Bytes) /\ Len(b) = Len(p.body) + j
        /\ p.body \o First(s, j + 1) = Append(b, c)
    BY <1>0, <2>0, BodyNext
  <2>2. F(j + 1) = NextByte(F(j), c)
    BY <2>0, FeedNext
  <2>3. Q(j) = WithBody(p, b) /\ Q(j + 1) = WithBody(p, Append(b, c))
    BY <2>1
  <2>4. F(j) = Match(Q(j), d)
    BY <1>6
  <2> HIDE DEF Q, F, b, c
  <2>5. /\ Q(j) \in Parser /\ Q(j).body = b /\ Q(j).state = "Body"
        /\ Q(j).content_length = p.content_length
        /\ WithBody(Q(j), Append(b, c)) = Q(j + 1)
    BY <1>0, <2>1, <2>3, WithBodyFacts
  <2>6. Len(b) # p.content_length
    BY <1>0, <1>2, <2>0, <2>1
  <2>7. F(j) = Ref(Q(j), <<>>, d, "open")
    BY <2>4, <2>5, <2>6 DEF Match, BodyDone
  <2>8. NextByte(F(j), c) = Match(Q(j + 1), d)
    BY <2>0, <2>5, <2>7, BodyByteFacts DEF c
  <2> QED
    BY <2>0, <2>2, <2>8
<1>7. F(n) = Match(q, d)
  <2>1. \A j \in 0 .. n : j \in T
    <3> HIDE DEF T
    <3> QED
      BY <1>2, <1>5, <1>6, UpTo
  <2>2. n \in T
    BY <1>2, <2>1
  <2> QED
    BY <2>2
<1>8. q.body = p.body \o First(s, n) /\ q.state = "Body" /\ q.content_length = p.content_length
  BY <1>0, <1>4, WithBodyFacts
<1> HIDE DEF q
<1>9. CASE Len(q.body) < p.content_length
  <2>1. n = Len(s) /\ ~BodyDone(q)
    <3>1. Len(p.body) + n < p.content_length
      BY <1>4, <1>8, <1>9
    <3>2. n = Len(s)
      BY <1>0, <1>1, <1>2, <3>1
    <3>3. Len(q.body) # q.content_length
      BY <1>0, <1>2, <1>4, <1>8, <3>1
    <3> QED
      BY <3>2, <3>3 DEF BodyDone
  <2>2. First(s, n) = s /\ SubSeq(s, n + 1, Len(s)) = <<>>
    BY <1>0, <2>1, FirstFacts
  <2>3. Match(q, d) = Ref(q, <<>>, d, "open")
    BY <2>1 DEF Match
  <2>4. result = "NeedMoreData"
    BY <1>9
  <2>5. Feed(Match(p, d), s) = Ref(q, SubSeq(s, n + 1, Len(s)), d, "open")
    BY <1>7, <2>2, <2>3
  <2> HIDE DEF result
  <2> QED
    BY <1>3, <1>7, <2>4, <2>5, StepFacts, AgreesIntro
<1>10. CASE ~(Len(q.body) < p.content_length)
  <2>1. BodyDone(q)
    BY <1>0, <1>2, <1>4, <1>8, <1>10 DEF BodyDone
  <2>2. Match(q, d) = Ref(Fresh, <<>>, Append(d, Message(q)), "open")
    BY <2>1 DEF Match
  <2>3. result = "Complete"
    BY <1>10
  <2> HIDE DEF result
  <2> QED
    BY <1>3, <1>7, <2>2, <2>3, StepFacts, AgreesIntro
<1> QED
  BY <1>9, <1>10

\* A parser with another body and so many bytes of the chunk, and one that has
\* all of them.
WithChunk(p, b, k) == [p EXCEPT !.body = b, !.chunk_bytes_read = k]
Ended(p) == [p EXCEPT !.state = "ChunkDataCRLF"]
Chunked(p, b, k) == IF k < p.chunk_size THEN WithChunk(p, b, k) ELSE Ended(WithChunk(p, b, k))

\* The parts that are not replaced stay.
LEMMA WithChunkFacts ==
    ASSUME NEW p \in Parser, NEW b \in Seq(Bytes), NEW k \in Nat
    PROVE  /\ WithChunk(p, b, k) \in Parser /\ WithChunk(p, b, k).body = b
           /\ WithChunk(p, b, k).state = p.state /\ WithChunk(p, b, k).chunk_size = p.chunk_size
           /\ WithChunk(p, b, k).chunk_bytes_read = k
           /\ WithChunk(p, p.body, p.chunk_bytes_read) = p
           /\ \A c, m : WithChunk(WithChunk(p, b, k), c, m) = WithChunk(p, c, m)
           /\ Ended(p).state = "ChunkDataCRLF"
<1>1. /\ WithChunk(p, b, k) \in Parser /\ WithChunk(p, b, k).body = b
      /\ WithChunk(p, b, k).state = p.state /\ WithChunk(p, b, k).chunk_size = p.chunk_size
      /\ WithChunk(p, b, k).chunk_bytes_read = k
  BY DEF WithChunk, Parser
<1>2. WithChunk(p, p.body, p.chunk_bytes_read) = p
  BY DEF WithChunk, Parser
<1>3. \A c, m : WithChunk(WithChunk(p, b, k), c, m) = WithChunk(p, c, m)
  BY DEF WithChunk, Parser
<1>4. Ended(p).state = "ChunkDataCRLF"
  BY DEF Ended, Parser
<1> QED
  BY <1>1, <1>2, <1>3, <1>4

\* A byte of a chunk.
LEMMA ChunkByteFacts ==
    ASSUME NEW p \in Parser, p.state = "ChunkData", NEW d, NEW b \in Bytes,
           NEW r, r = Ref(p, <<>>, d, "open")
    PROVE  NextByte(r, b) =
             IF Len(p.body) + 1 > MAX_BODY_SIZE THEN Ref(p, <<>>, d, "BodyTooLarge")
             ELSE Ref(Chunked(p, Append(p.body, b), p.chunk_bytes_read + 1), <<>>, d, "open")
<1> DEFINE c == Append(p.body, b)
           k == p.chunk_bytes_read + 1
           q == WithChunk(p, c, k)
           c1 == [r EXCEPT !.verdict = "BodyTooLarge"]
           c2 == [r EXCEPT !.parser = q]
           c3 == [r EXCEPT !.parser = Ended(q)]
<1>0. /\ p.body \in Seq(Bytes) /\ p.chunk_bytes_read \in Nat /\ c \in Seq(Bytes) /\ k \in Nat
      /\ Len(c) = Len(p.body) + 1
  BY DEF Parser
<1>1. r.parser = p /\ r.verdict = "open"
  BY RefFacts
<1>2. NextByte(r, b) = ChunkByte(r, b)
  BY <1>1 DEF NextByte, LineStates
<1>3. ChunkByte(r, b) = IF Len(q.body) > MAX_BODY_SIZE THEN c1
                        ELSE IF q.chunk_bytes_read < q.chunk_size THEN c2 ELSE c3
  BY <1>1 DEF ChunkByte, WithChunk, Ended
<1> HIDE DEF c, k
<1>4. q.body = c /\ q.chunk_bytes_read = k /\ q.chunk_size = p.chunk_size
  BY <1>0, WithChunkFacts
<1>5. Chunked(p, c, k) = IF k < p.chunk_size THEN q ELSE Ended(q)
  BY DEF Chunked
<1> HIDE DEF q
<1>6. c1 = Ref(p, <<>>, d, "BodyTooLarge")
  BY RefFacts
<1>7. c2 = Ref(q, <<>>, d, "open")
  BY RefFacts
<1>8. c3 = Ref(Ended(q), <<>>, d, "open")
  BY RefFacts
<1> HIDE DEF c1, c2, c3
<1>9. NextByte(r, b) = IF Len(p.body) + 1 > MAX_BODY_SIZE THEN Ref(p, <<>>, d, "BodyTooLarge")
                       ELSE Ref(Chunked(p, c, k), <<>>, d, "open")
  BY <1>0, <1>2, <1>3, <1>4, <1>5, <1>6, <1>7, <1>8
<1> QED
  BY <1>9 DEF c, k

\* The bytes of a chunk, as long as the body has room for them.
LEMMA ChunkHeld ==
    ASSUME NEW p, Bounded(p), p.state = "ChunkData", NEW s \in Seq(Bytes), NEW d,
           NEW n \in 0 .. Len(s), p.chunk_bytes_read + n <= p.chunk_size,
           Len(p.body) + n <= MAX_BODY_SIZE
    PROVE  Feed(Ref(p, <<>>, d, "open"), First(s, n)) =
             Ref(Chunked(p, p.body \o First(s, n), p.chunk_bytes_read + n), <<>>, d, "open")
<1> DEFINE r == Ref(p, <<>>, d, "open")
           F(j) == Feed(r, First(s, j))
           Q(j) == Chunked(p, p.body \o First(s, j), p.chunk_bytes_read + j)
           T == {j \in 0 .. n : F(j) = Ref(Q(j), <<>>, d, "open")}
<1>0. /\ p \in Parser /\ p.body \in Seq(Bytes) /\ Len(s) \in Nat /\ Len(p.body) \in Nat
      /\ p.chunk_size \in Nat /\ p.chunk_bytes_read \in Nat /\ n \in Nat /\ MAX_BODY_SIZE \in Nat
      /\ p.chunk_bytes_read < p.chunk_size
  BY Limits DEF Bounded, Parser, BodyBounded
<1>1. 0 \in T
  <2>1. First(s, 0) = <<>> /\ p.body \o <<>> = p.body /\ p.chunk_bytes_read + 0 = p.chunk_bytes_read
    BY <1>0, FirstFacts
  <2>2. Q(0) = WithChunk(p, p.body, p.chunk_bytes_read)
    BY <1>0, <2>1 DEF Chunked
  <2>3. Q(0) = p
    BY <1>0, <2>2, WithChunkFacts
  <2>4. F(0) = r
    BY <2>1, FeedEmpty
  <2> HIDE DEF Q, F
  <2> QED
    BY <1>0, <2>3, <2>4
<1>2. ASSUME NEW j \in 0 .. n - 1, j \in T PROVE j + 1 \in T
  <2>0. j + 1 \in 0 .. n /\ j \in 0 .. Len(s) - 1 /\ s[j + 1] \in Bytes /\ j \in Nat
    BY <1>0
  <2> DEFINE b == p.body \o First(s, j)
             c == s[j + 1]
             k == p.chunk_bytes_read + j
             q == WithChunk(p, b, k)
  <2>1. /\ b \in Seq(Bytes) /\ Len(b) = Len(p.body) + j
        /\ p.body \o First(s, j + 1) = Append(b, c)
    BY <1>0, <2>0, BodyNext
  <2>2. F(j + 1) = NextByte(F(j), c)
    BY <2>0, FeedNext
  <2>3. k \in Nat /\ k < p.chunk_size /\ k + 1 = p.chunk_bytes_read + (j + 1) /\ c \in Bytes
        /\ ~(Len(b) + 1 > MAX_BODY_SIZE) /\ Append(b, c) \in Seq(Bytes)
    <3>1. k \in Nat /\ k < p.chunk_size /\ k + 1 = p.chunk_bytes_read + (j + 1)
      <4>1. j \in Nat /\ j < n
        BY <1>0, <2>0
      <4>2. k < p.chunk_size
        BY <1>0, <4>1
      <4>3. k \in Nat /\ k + 1 = p.chunk_bytes_read + (j + 1)
        BY <1>0, <4>1, SMTT(60)
      <4> QED
        BY <4>2, <4>3
    <3>2. c \in Bytes
      BY <2>0
    <3>3. ~(Len(b) + 1 > MAX_BODY_SIZE)
      <4> HIDE DEF b
      <4> QED
        BY <1>0, <2>0, <2>1
    <3>4. Append(b, c) \in Seq(Bytes)
      <4> HIDE DEF b, c
      <4> QED
        BY <2>1, <3>2
    <3> QED
      BY <3>1, <3>2, <3>3, <3>4
  <2>4. Q(j) = q
    BY <2>3 DEF Chunked
  <2>5. Q(j + 1) = Chunked(p, Append(b, c), k + 1)
    BY <2>1, <2>3
  <2>6. F(j) = Ref(Q(j), <<>>, d, "open")
    BY <1>2
  <2> HIDE DEF Q, F, b, c, k
  <2>7. /\ q \in Parser /\ q.body = b /\ q.state = "ChunkData" /\ q.chunk_bytes_read = k
        /\ q.chunk_size = p.chunk_size
        /\ \A x, m : WithChunk(q, x, m) = WithChunk(p, x, m)
    <3>1. b \in Seq(Bytes) /\ k \in Nat /\ p \in Parser
      BY <1>0, <2>1, <2>3
    <3>2. /\ q \in Parser /\ q.body = b /\ q.state = p.state /\ q.chunk_bytes_read = k
          /\ q.chunk_size = p.chunk_size
      BY <3>1, WithChunkFacts
    <3>3. \A x, m : WithChunk(q, x, m) = WithChunk(p, x, m)
      BY <1>0, <3>1, WithChunkFacts
    <3> HIDE DEF q
    <3> QED
      BY <3>2, <3>3
  <2> HIDE DEF q
  <2>8. NextByte(F(j), c) = Ref(Chunked(q, Append(b, c), k + 1), <<>>, d, "open")
    BY <2>3, <2>4, <2>6, <2>7, ChunkByteFacts
  <2>9. Chunked(q, Append(b, c), k + 1) = Chunked(p, Append(b, c), k + 1)
    BY <2>7 DEF Chunked
  <2> QED
    BY <2>0, <2>2, <2>5, <2>8, <2>9
<1>3. \A j \in 0 .. n : j \in T
  <2> HIDE DEF T
  <2> QED
    BY <1>0, <1>1, <1>2, UpTo
<1>4. n \in T
  BY <1>0, <1>3
<1> QED
  BY <1>4

\* The data of a chunk.
LEMMA ParseChunkDataAgrees ==
    ASSUME NEW p, Bounded(p), p.state = "ChunkData", NEW s \in Seq(Bytes), NEW d
    PROVE  Agrees(p, s, d, ParseChunkData(p, s))
<1> DEFINE n == Min({Len(s), p.chunk_size - p.chunk_bytes_read})
           b == p.body \o First(s, n)
           c == p.chunk_bytes_read + n
           q == WithChunk(p, b, c)
           r == Ref(p, <<>>, d, "open")
           step == ParseChunkData(p, s)
<1>0. /\ p \in Parser /\ p.body \in Seq(Bytes) /\ Len(s) \in Nat /\ Len(p.body) \in Nat
      /\ p.chunk_size \in Nat /\ p.chunk_bytes_read \in Nat /\ p.chunk_bytes_read < p.chunk_size
      /\ p.chunk_size - p.chunk_bytes_read \in Nat
      /\ MAX_BODY_SIZE \in Nat /\ Len(p.body) <= MAX_BODY_SIZE
  BY Limits DEF Bounded, Parser, BodyBounded
<1>1. n = IF Len(s) <= p.chunk_size - p.chunk_bytes_read THEN Len(s)
          ELSE p.chunk_size - p.chunk_bytes_read
  BY <1>0, MinOfTwo
<1>2. n \in 0 .. Len(s) /\ c \in Nat /\ c <= p.chunk_size /\ n \in Nat
  BY <1>0, <1>1
<1>3. b \in Seq(Bytes) /\ Len(b) = Len(p.body) + n
  <2> HIDE DEF n
  <2> QED
    BY <1>0, <1>2, AppendPart DEF First
<1>4. step =
        CASE s = <<>> -> Step(Outcome(p, "NeedMoreData"), 0)
          [] s # <<>> /\ Len(q.body) > MAX_BODY_SIZE -> Step(Outcome(p, "BodyTooLarge"), 0)
          [] s # <<>> /\ Len(q.body) <= MAX_BODY_SIZE ->
               IF q.chunk_bytes_read < p.chunk_size THEN Step(Outcome(q, "NeedMoreData"), n)
               ELSE Step(Outcome(Ended(q), "continue"), n)
  BY DEF ParseChunkData, WithChunk, Ended, First
<1> HIDE DEF n, b, step
<1>5. Match(p, d) = r
  BY DEF Match, BodyDone
<1>6. q.body = b /\ q.chunk_bytes_read = c /\ q \in Parser /\ q.state = "ChunkData"
  <2>1. p \in Parser /\ b \in Seq(Bytes) /\ c \in Nat
    BY <1>0, <1>2, <1>3
  <2> HIDE DEF c
  <2> QED
    BY <2>1, WithChunkFacts
<1>7. Chunked(p, b, c) = IF c < p.chunk_size THEN q ELSE Ended(q)
  BY DEF Chunked
<1>8. Len(p.body) + n <= MAX_BODY_SIZE => Feed(r, First(s, n)) = Ref(Chunked(p, b, c), <<>>, d, "open")
  <2>1. p.chunk_bytes_read + n <= p.chunk_size
    BY <1>2
  <2> QED
    BY <1>2, <2>1, ChunkHeld DEF b
<1>9. CASE s = <<>>
  <2>1. step = Step(Outcome(p, "NeedMoreData"), 0)
    BY <1>4, <1>9
  <2>2. First(s, 0) = <<>> /\ SubSeq(s, 0 + 1, Len(s)) = <<>> /\ Feed(r, <<>>) = r
    <3>1. First(s, 0) = <<>>
      BY FirstFacts
    <3>2. SubSeq(s, 0 + 1, Len(s)) = <<>>
      BY <1>9
    <3>3. Feed(r, <<>>) = r
      <4> HIDE DEF r
      <4> QED
        BY FeedEmpty
    <3> QED
      BY <3>1, <3>2, <3>3
  <2>3. Feed(Match(p, d), First(s, 0)) = Match(p, d)
    BY <1>5, <2>2
  <2>4. Feed(Match(p, d), s) = Ref(p, SubSeq(s, 0 + 1, Len(s)), d, "open")
    BY <1>5, <1>9, <2>2
  <2>5. step.parser = p /\ step.result = "NeedMoreData" /\ step.bytes = 0
    BY <2>1, StepFacts
  <2> HIDE DEF r
  <2> QED
    BY <2>3, <2>4, <2>5, AgreesIntro DEF step
<1>10. CASE s # <<>> /\ Len(b) > MAX_BODY_SIZE
  <2>1. step = Step(Outcome(p, "BodyTooLarge"), 0)
    <3>1. ~(Len(b) <= MAX_BODY_SIZE)
      BY <1>0, <1>3, <1>10
    <3> HIDE DEF q
    <3> QED
      BY <1>4, <1>6, <1>10, <3>1
  <2> DEFINE m == MAX_BODY_SIZE - Len(p.body)
             u == p.body \o First(s, m)
             k == p.chunk_bytes_read + m
             x == WithChunk(p, u, k)
             y == Feed(r, First(s, m))
             z == Feed(r, First(s, m + 1))
  <2>2. /\ m \in 0 .. Len(s) - 1 /\ m \in 0 .. Len(s) /\ m + 1 \in 0 .. Len(s) /\ s[m + 1] \in Bytes
        /\ p.chunk_bytes_read + m < p.chunk_size /\ Len(p.body) + m = MAX_BODY_SIZE /\ m \in Nat
    <3>1. m \in Nat /\ m < n
      BY <1>0, <1>2, <1>3, <1>10
    <3> HIDE DEF m
    <3>2. m \in 0 .. Len(s) - 1
      BY <1>0, <1>2, <3>1
    <3>3. p.chunk_bytes_read + m < p.chunk_size
      BY <1>0, <1>2, <3>1
    <3>4. Len(p.body) + m = MAX_BODY_SIZE
      BY <1>0 DEF m
    <3>5. s[m + 1] \in Bytes /\ m \in 0 .. Len(s) /\ m + 1 \in 0 .. Len(s)
      BY <1>0, <3>2
    <3> QED
      BY <3>1, <3>2, <3>3, <3>4, <3>5
  <2> HIDE DEF m
  <2>3. u \in Seq(Bytes) /\ Len(u) = MAX_BODY_SIZE /\ k \in Nat /\ k < p.chunk_size
    <3>1. u \in Seq(Bytes) /\ Len(u) = Len(p.body) + m
      BY <1>0, <2>2, AppendPart DEF First
    <3>2. k \in Nat /\ k < p.chunk_size
      BY <1>0, <2>2
    <3> HIDE DEF u, k
    <3> QED
      BY <2>2, <3>1, <3>2
  <2>4. y = Ref(x, <<>>, d, "open")
    <3>1. y = Ref(Chunked(p, u, k), <<>>, d, "open")
      <4>1. p.chunk_bytes_read + m <= p.chunk_size /\ Len(p.body) + m <= MAX_BODY_SIZE
        BY <1>0, <2>2
      <4> QED
        BY <2>2, <4>1, ChunkHeld
    <3>2. Chunked(p, u, k) = x
      BY <2>3 DEF Chunked
    <3> QED
      BY <3>1, <3>2
  <2>5. z = NextByte(y, s[m + 1])
    BY <2>2, FeedNext
  <2>6. x \in Parser /\ x.state = "ChunkData" /\ x.body = u
    <3>1. p \in Parser /\ u \in Seq(Bytes) /\ k \in Nat
      BY <1>0, <2>3
    <3> HIDE DEF u, k
    <3> QED
      BY <3>1, WithChunkFacts
  <2> HIDE DEF u, k, x, y
  <2>7. z = Ref(x, <<>>, d, "BodyTooLarge")
    <3>1. Len(x.body) + 1 > MAX_BODY_SIZE
      BY <1>0, <2>3, <2>6
    <3> HIDE DEF z
    <3> QED
      BY <2>2, <2>4, <2>5, <2>6, <3>1, ChunkByteFacts
  <2>8. z.verdict = "BodyTooLarge" /\ z.done = d
    BY <2>7, RefFacts
  <2>9. Feed(r, s) = z
    BY <2>2, <2>8, FeedRefusedEarly
  <2>10. Refused(Feed(Match(p, d), s), d, "BodyTooLarge")
    BY <1>5, <2>8, <2>9 DEF Refused
  <2>11. step.parser = p /\ step.result = "BodyTooLarge" /\ step.bytes = 0
    BY <2>1, StepFacts
  <2> QED
    BY <2>10, <2>11, AgreesIntro DEF step
<1>11. CASE s # <<>> /\ Len(b) <= MAX_BODY_SIZE
  <2>1. step = IF c < p.chunk_size THEN Step(Outcome(q, "NeedMoreData"), n)
               ELSE Step(Outcome(Ended(q), "continue"), n)
    <3>1. ~(Len(b) > MAX_BODY_SIZE)
      BY <1>0, <1>3, <1>11
    <3> HIDE DEF q, c
    <3> QED
      BY <1>4, <1>6, <1>11, <3>1
  <2>2. Feed(r, First(s, n)) = Ref(Chunked(p, b, c), <<>>, d, "open")
    BY <1>3, <1>8, <1>11
  <2>3. CASE c < p.chunk_size
    <3>1. n = Len(s)
      BY <1>0, <1>1, <1>2, <2>3
    <3>2. First(s, n) = s /\ SubSeq(s, n + 1, Len(s)) = <<>>
      BY <1>0, <3>1, FirstFacts
    <3>3. Feed(r, First(s, n)) = Ref(q, <<>>, d, "open")
      BY <1>7, <2>2, <2>3
    <3>4. Match(q, d) = Ref(q, <<>>, d, "open")
      <4> HIDE DEF q
      <4> QED
        BY <1>6 DEF Match, BodyDone
    <3> HIDE DEF q, r
    <3>5. Feed(Match(p, d), s) = Ref(q, SubSeq(s, n + 1, Len(s)), d, "open")
      BY <1>5, <3>2, <3>3
    <3>6. Feed(Match(p, d), First(s, n)) = Match(q, d)
      BY <1>5, <3>3, <3>4
    <3>7. step.parser = q /\ step.result = "NeedMoreData" /\ step.bytes = n
      BY <2>1, <2>3, StepFacts
    <3> QED
      BY <3>5, <3>6, <3>7, AgreesIntro DEF step
  <2>4. CASE ~(c < p.chunk_size)
    <3> DEFINE t == Ended(q)
    <3>1. Feed(r, First(s, n)) = Ref(t, <<>>, d, "open")
      BY <1>7, <2>2, <2>4
    <3>2. Match(t, d) = Ref(t, <<>>, d, "open")
      <4> HIDE DEF q
      <4>1. t.state = "ChunkDataCRLF"
        BY <1>6 DEF Ended, Parser
      <4> HIDE DEF t
      <4> QED
        BY <4>1 DEF Match, BodyDone
    <3> HIDE DEF q, r
    <3>3. step.parser = t /\ step.result = "continue" /\ step.bytes = n
      BY <2>1, <2>4, StepFacts
    <3> HIDE DEF t
    <3>4. Feed(Match(p, d), First(s, n)) = Match(t, d)
      BY <1>5, <3>1, <3>2
    <3> QED
      BY <3>3, <3>4, AgreesIntro DEF step
  <2> QED
    BY <2>3, <2>4
<1>12. Len(b) > MAX_BODY_SIZE \/ Len(b) <= MAX_BODY_SIZE
  <2>1. Len(b) \in Nat
    BY <1>3
  <2> QED
    BY <1>0, <2>1
<1> QED
  BY <1>9, <1>10, <1>11, <1>12

\* One and two bytes.
LEMMA ShortSequences ==
    ASSUME NEW s \in Seq(Bytes)
    PROVE  /\ Len(s) >= 1 => First(s, 1) = <<s[1]>>
           /\ Len(s) >= 2 => First(s, 2) = <<s[1], s[2]>>
<1>0. Len(s) \in Nat
  OBVIOUS
<1>1. ASSUME Len(s) >= 1 PROVE First(s, 1) = <<s[1]>>
  <2>1. 1 \in 0 .. Len(s) /\ 1 \in 1 .. 1
    BY <1>0, <1>1
  <2>2. First(s, 1) \in Seq(Bytes) /\ Len(First(s, 1)) = 1 /\ First(s, 1)[1] = s[1]
    BY <2>1, FirstFacts
  <2> QED
    BY <2>2
<1>2. ASSUME Len(s) >= 2 PROVE First(s, 2) = <<s[1], s[2]>>
  <2>1. 2 \in 0 .. Len(s) /\ 1 \in 1 .. 2 /\ 2 \in 1 .. 2
    BY <1>0, <1>2
  <2>2. First(s, 2) \in Seq(Bytes) /\ Len(First(s, 2)) = 2
    BY <2>1, FirstFacts
  <2>3. First(s, 2)[1] = s[1] /\ First(s, 2)[2] = s[2]
    BY <2>1, FirstFacts
  <2> QED
    BY <2>2, <2>3
<1> QED
  BY <1>1, <1>2

\* A byte behind the data of a chunk.
LEMMA ChunkEndByteFacts ==
    ASSUME NEW p \in Parser, p.state = "ChunkDataCRLF", NEW l, NEW d, NEW b,
           NEW r, r = Ref(p, l, d, "open")
    PROVE  NextByte(r, b) =
             IF l = <<>> THEN Ref(p, <<b>>, d, "open")
             ELSE IF l = <<CR>> /\ b = LF THEN Ref([p EXCEPT !.state = "ChunkSize"], <<>>, d, "open")
             ELSE Ref(p, l, d, "BadRequest")
<1> DEFINE q == [p EXCEPT !.state = "ChunkSize"]
           c1 == [r EXCEPT !.line = <<b>>]
           c2 == [r EXCEPT !.line = <<>>, !.parser.state = "ChunkSize"]
           c3 == [r EXCEPT !.verdict = "BadRequest"]
<1>1. r.parser = p /\ r.line = l /\ r.verdict = "open"
  BY RefFacts
<1>2. NextByte(r, b) = ChunkEndByte(r, b)
  BY <1>1 DEF NextByte, LineStates
<1>3. ChunkEndByte(r, b) = CASE l = <<>> -> c1 [] l = <<CR>> /\ b = LF -> c2 [] OTHER -> c3
  BY <1>1 DEF ChunkEndByte
<1>4. c1 = Ref(p, <<b>>, d, "open")
  BY RefFacts
<1>5. c2 = Ref(q, <<>>, d, "open")
  <2> DEFINE y == [r EXCEPT !.line = <<>>]
             w == [y.parser EXCEPT !.state = "ChunkSize"]
  <2>1. y = Ref(p, <<>>, d, "open")
    BY RefFacts
  <2> HIDE DEF y
  <2>2. y.parser = p
    BY <2>1, RefFacts
  <2>3. w = q
    BY <2>2
  <2> HIDE DEF w, q
  <2>4. [y EXCEPT !.parser = w] = Ref(w, <<>>, d, "open")
    BY <2>1, RefFacts
  <2>5. c2 = [y EXCEPT !.parser = w]
    BY DEF y, w
  <2> QED
    BY <2>3, <2>4, <2>5
<1>6. c3 = Ref(p, l, d, "BadRequest")
  BY RefFacts
<1> HIDE DEF c1, c2, c3, q
<1>7. NextByte(r, b) = IF l = <<>> THEN c1 ELSE IF l = <<CR>> /\ b = LF THEN c2 ELSE c3
  <2>1. <<CR>> # <<>>
    OBVIOUS
  <2> QED
    BY <1>2, <1>3, <2>1
<1> QED
  BY <1>4, <1>5, <1>6, <1>7 DEF q

\* The end of a chunk.
LEMMA ParseChunkCRLFAgrees ==
    ASSUME NEW p, Bounded(p), p.state = "ChunkDataCRLF", NEW s \in Seq(Bytes), NEW d
    PROVE  Agrees(p, s, d, ParseChunkCRLF(p, s))
<1> DEFINE q == [p EXCEPT !.state = "ChunkSize"]
           r == Ref(p, <<>>, d, "open")
           step == ParseChunkCRLF(p, s)
           f1 == First(s, 1)
           f2 == First(s, 2)
<1>0. p \in Parser /\ Len(s) \in Nat
  BY DEF Bounded
<1>1. Match(p, d) = r
  BY DEF Match, BodyDone
<1>2. q \in Parser /\ q.state = "ChunkSize"
  BY <1>0 DEF Parser, States, LineStates
<1>3. step = CASE Len(s) < 2 -> Step(Outcome(p, "NeedMoreData"), 0)
               [] Len(s) >= 2 /\ f2 = <<CR, LF>> -> Step(Outcome(q, "continue"), 2)
               [] OTHER -> Step(Outcome(p, "BadRequest"), 0)
  BY DEF ParseChunkCRLF, First
<1> HIDE DEF q, step
<1>4. First(s, 0) = <<>> /\ First(s, Len(s)) = s /\ Feed(r, <<>>) = r
  BY FirstFacts, FeedEmpty
<1>5. ASSUME Len(s) >= 1 PROVE f1 = <<s[1]>> /\ Feed(r, f1) = Ref(p, f1, d, "open")
  <2>1. 0 \in 0 .. Len(s) - 1 /\ 0 + 1 = 1
    BY <1>0, <1>5
  <2>2. Feed(r, f1) = NextByte(r, s[1])
    BY <1>4, <2>1, FeedNext
  <2>3. f1 = <<s[1]>>
    BY <1>0, <1>5, ShortSequences
  <2> HIDE DEF f1
  <2>4. NextByte(r, s[1]) = Ref(p, <<s[1]>>, d, "open")
    <3> DEFINE b == s[1]
    <3> HIDE DEF b
    <3>1. NextByte(r, b) = Ref(p, <<b>>, d, "open")
      BY <1>0, ChunkEndByteFacts
    <3> QED
      BY <3>1 DEF b
  <2> QED
    BY <2>2, <2>3, <2>4
<1>6. CASE Len(s) < 2
  <2>1. step.parser = p /\ step.result = "NeedMoreData" /\ step.bytes = 0
    BY <1>3, <1>6, StepFacts
  <2>2. SubSeq(s, 0 + 1, Len(s)) = s
    BY <1>0
  <2>3. Feed(r, s) = Ref(p, s, d, "open")
    <3>1. CASE Len(s) = 0
      BY <1>4, <3>1
    <3>2. CASE Len(s) = 1
      BY <1>4, <1>5, <3>2
    <3>3. Len(s) = 0 \/ Len(s) = 1
      <4> DEFINE k == Len(s)
      <4>1. k \in Nat /\ k < 2
        BY <1>0, <1>6
      <4> HIDE DEF k
      <4>2. k = 0 \/ k = 1
        BY <4>1
      <4> QED
        BY <4>2 DEF k
    <3> QED
      BY <3>1, <3>2, <3>3
  <2>4. Feed(Match(p, d), First(s, 0)) = Match(p, d)
    BY <1>1, <1>4
  <2>5. Feed(Match(p, d), s) = Ref(p, SubSeq(s, 0 + 1, Len(s)), d, "open")
    BY <1>1, <2>2, <2>3
  <2> HIDE DEF r
  <2> QED
    BY <2>1, <2>4, <2>5, AgreesIntro DEF step
<1>7. CASE Len(s) >= 2
  <2>1. /\ 1 \in 0 .. Len(s) - 1 /\ 1 + 1 = 2 /\ 2 \in 0 .. Len(s) /\ Len(s) >= 1
    BY <1>0, <1>7
  <2>2. Feed(r, f2) = NextByte(Feed(r, f1), s[2])
    BY <2>1, FeedNext
  <2>3. f1 = <<s[1]>> /\ Feed(r, f1) = Ref(p, f1, d, "open")
    BY <1>5, <2>1
  <2>4. f2 = <<CR, LF>> <=> s[1] = CR /\ s[2] = LF
    <3>1. f2 = <<s[1], s[2]>>
      BY <1>7, ShortSequences
    <3> HIDE DEF f2
    <3> QED
      BY <3>1
  <2>5. f1 # <<>> /\ (f1 = <<CR>> <=> s[1] = CR)
    BY <2>3
  <2> DEFINE x == Feed(r, f1)
  <2>6. x = Ref(p, f1, d, "open")
    BY <2>3
  <2> HIDE DEF f1, x
  <2>7. NextByte(x, s[2]) = IF f1 = <<CR>> /\ s[2] = LF THEN Ref(q, <<>>, d, "open")
                            ELSE Ref(p, f1, d, "BadRequest")
    BY <1>0, <2>5, <2>6, ChunkEndByteFacts DEF q
  <2>8. Feed(r, f2) = IF f2 = <<CR, LF>> THEN Ref(q, <<>>, d, "open") ELSE Ref(p, f1, d, "BadRequest")
    BY <2>2, <2>4, <2>5, <2>7 DEF x
  <2>9. CASE f2 = <<CR, LF>>
    <3>1. step.parser = q /\ step.result = "continue" /\ step.bytes = 2
      BY <1>0, <1>3, <1>7, <2>9, StepFacts
    <3>2. Match(q, d) = Ref(q, <<>>, d, "open")
      BY <1>2 DEF Match, BodyDone
    <3>3. Feed(Match(p, d), First(s, 2)) = Match(q, d)
      BY <1>1, <2>8, <2>9, <3>2
    <3> HIDE DEF r
    <3> QED
      BY <3>1, <3>3, AgreesIntro DEF step
  <2>10. CASE f2 # <<CR, LF>>
    <3>1. step.parser = p /\ step.result = "BadRequest" /\ step.bytes = 0
      BY <1>0, <1>3, <1>7, <2>10, StepFacts
    <3> DEFINE y == Feed(r, First(s, 2))
    <3>2. y = Ref(p, f1, d, "BadRequest")
      BY <2>8, <2>10
    <3> HIDE DEF y
    <3>3. y.verdict = "BadRequest" /\ y.done = d
      BY <3>2, RefFacts
    <3>4. Feed(r, s) = y
      BY <2>1, <3>3, FeedRefusedEarly DEF y
    <3>5. Refused(Feed(Match(p, d), s), d, "BadRequest")
      BY <1>1, <3>3, <3>4 DEF Refused
    <3> HIDE DEF r
    <3> QED
      BY <3>1, <3>5, AgreesIntro DEF step
  <2> QED
    BY <2>9, <2>10
<1> QED
  BY <1>0, <1>6, <1>7

\* Any pass.
LEMMA ParseStepAgrees ==
    ASSUME NEW p, Bounded(p), NEW s \in Seq(Bytes), NEW d
    PROVE  Agrees(p, s, d, ParseStep(p, s))
<1>1. p.state \in States
  BY DEF Bounded, Parser
<1>2. CASE p.state \in LineStates
  BY <1>2, ParseLineAgrees DEF ParseStep, LineStates
<1>3. CASE p.state = "Body"
  BY <1>3, ParseBodyAgrees DEF ParseStep, LineStates
<1>4. CASE p.state = "ChunkData"
  BY <1>4, ParseChunkDataAgrees DEF ParseStep, LineStates
<1>5. CASE p.state = "ChunkDataCRLF"
  BY <1>5, ParseChunkCRLFAgrees DEF ParseStep, LineStates
<1> QED
  BY <1>1, <1>2, <1>3, <1>4, <1>5 DEF States

-----------------------------------------------------------------------------
(* The connection and the reference. *)

\* The bytes that have not been parsed are what the reference has seen and the
\* parser has not; with all of them it gets where it is. When more data is
\* wanted, the two are in the same state.
ReferenceFollowed ==
    /\ pc # "closed" =>
         Reference = Feed(Match(parser, done), SubSeq(buffer, cursor + 1, Len(buffer)))
    /\ pc = "read" => Reference = Ref(parser, buffer, done, "open")
    /\ pc = "closed" => Refused(Reference, done, verdict)

\* The end of the end of a sequence.
LEMMA RestOfRest ==
    ASSUME NEW b \in Seq(Bytes), NEW c \in 0 .. Len(b),
           NEW s, s = SubSeq(b, c + 1, Len(b)), NEW k \in 0 .. Len(s)
    PROVE  SubSeq(s, k + 1, Len(s)) = SubSeq(b, c + k + 1, Len(b))
<1> DEFINE x == SubSeq(s, k + 1, Len(s))
           m == c + k
           y == SubSeq(b, m + 1, Len(b))
<1>0. Len(b) \in Nat /\ c \in Nat /\ c <= Len(b)
  OBVIOUS
<1>1. s \in Seq(Bytes) /\ Len(s) = Len(b) - c /\ \A i \in 1 .. Len(b) - c : s[i] = b[i + c]
  BY <1>0
<1>2. k \in Nat /\ m \in Nat /\ m <= Len(b) /\ Len(s) - k = Len(b) - m
  BY <1>0, <1>1
<1>3. x \in Seq(Bytes) /\ Len(x) = Len(b) - m /\ \A i \in 1 .. Len(b) - m : x[i] = s[i + k]
  BY <1>1, <1>2
<1>4. y \in Seq(Bytes) /\ Len(y) = Len(b) - m /\ \A i \in 1 .. Len(b) - m : y[i] = b[i + m]
  <2> HIDE DEF m
  <2> QED
    BY <1>0, <1>2
<1>5. ASSUME NEW i \in 1 .. Len(b) - m PROVE x[i] = y[i]
  <2>1. i + k \in 1 .. Len(b) - c /\ i + k + c = i + m
    BY <1>0, <1>2
  <2>2. s[i + k] = b[i + m]
    BY <1>1, <2>1
  <2> QED
    BY <1>3, <1>4, <2>2
<1>6. x = y
  <2> HIDE DEF x, y
  <2> QED
    BY <1>3, <1>4, <1>5, SeqEqual
<1> QED
  BY <1>6

\* Reading.
LEMMA ReadFollows == LimitsKept /\ ReferenceFollowed /\ Read => ReferenceFollowed'
<1> SUFFICES ASSUME LimitsKept, ReferenceFollowed, Read PROVE ReferenceFollowed'
  OBVIOUS
<1>1. LimitsKept'
  BY ReadKeeps
<1>2. PICK n \in 1 .. Min({Len(wire), ReadSize, MAX_RECEIVE_BUFFER - Len(buffer)}) :
         /\ buffer' = buffer \o SubSeq(wire, 1, n)
         /\ input' = input \o SubSeq(wire, 1, n)
  BY DEF Read
<1> DEFINE x == SubSeq(wire, 1, n)
           M == Match(parser, done)
<1>3. /\ pc \in {"read", "pending"} /\ pc' = "parse"
      /\ UNCHANGED <<cursor, parser, done>>
  BY DEF Read
<1>4. /\ buffer \in Seq(Bytes) /\ input \in Seq(Bytes) /\ cursor = 0 /\ wire \in Seq(Bytes)
      /\ MAX_RECEIVE_BUFFER \in Nat /\ ReadSize \in Nat /\ Len(buffer) < MAX_RECEIVE_BUFFER
  BY <1>3, Limits DEF LimitsKept, ConnectionType, RoomLeft
<1>5. x \in Seq(Bytes)
  <2> DEFINE T == {Len(wire), ReadSize, MAX_RECEIVE_BUFFER - Len(buffer)}
  <2>1. Len(wire) \in Nat /\ Len(buffer) \in Nat
    BY <1>4
  <2>2. T \subseteq Nat /\ Len(wire) \in T
    BY <1>4, <2>1
  <2> HIDE DEF T
  <2>3. Min(T) \in Nat /\ Min(T) <= Len(wire)
    BY <2>2, MinFacts
  <2>4. n \in 0 .. Len(wire)
    BY <1>2, <2>1, <2>3 DEF T
  <2> QED
    BY <1>4, <2>4
<1> HIDE DEF x
<1>6. Reference = Feed(Started, input)
  BY DEF Reference, Feed
<1>7. Reference' = Feed(Started, input')
  BY DEF Reference, Feed
<1>8. Feed(Started, input \o x) = Feed(Feed(Started, input), x)
  BY <1>4, <1>5, FeedConcat
<1>9. SubSeq(buffer, cursor + 1, Len(buffer)) = buffer
  BY <1>4
<1>10. Reference = Feed(M, buffer)
  BY <1>3, <1>9 DEF ReferenceFollowed
<1>11. Feed(M, buffer \o x) = Feed(Feed(M, buffer), x)
  <2> HIDE DEF M
  <2> QED
    BY <1>4, <1>5, FeedConcat
<1>12. Reference' = Feed(M, buffer')
  BY <1>2, <1>6, <1>7, <1>8, <1>10, <1>11 DEF x
<1>13. SubSeq(buffer', cursor' + 1, Len(buffer')) = buffer'
  <2>1. buffer' \in Seq(Bytes) /\ cursor' = 0
    BY <1>1, <1>3, <1>4 DEF LimitsKept, ConnectionType
  <2> QED
    BY <2>1
<1>14. Match(parser, done)' = M
  BY <1>3 DEF Match, BodyDone, Message
<1> HIDE DEF M
<1> QED
  BY <1>3, <1>12, <1>13, <1>14 DEF ReferenceFollowed

\* Parsing.
LEMMA ParseFollows == LimitsKept /\ ReferenceFollowed /\ Parse => ReferenceFollowed'
<1> SUFFICES ASSUME LimitsKept, ReferenceFollowed, Parse PROVE ReferenceFollowed'
  OBVIOUS
<1> DEFINE s == SubSeq(buffer, cursor + 1, Len(buffer))
           step == ParseStep(parser, s)
           p == step.parser
           k == step.bytes
           n == cursor + k
           rest == SubSeq(s, k + 1, Len(s))
           M == Match(parser, done)
<1>1. /\ pc = "parse" /\ UNCHANGED <<wire, input>>
      /\ \/ /\ step.result = "continue"
            /\ parser' = p /\ cursor' = n
            /\ UNCHANGED <<buffer, pc, done, verdict>>
         \/ /\ step.result = "NeedMoreData"
            /\ parser' = p /\ ConsumeParsedBytes(n)
            /\ pc' = "read"
            /\ UNCHANGED <<done, verdict>>
         \/ /\ step.result = "Complete"
            /\ done' = Append(done, Message(p))
            /\ parser' = Fresh /\ ConsumeParsedBytes(n)
            /\ pc' \in {"pending", "parse"}
            /\ UNCHANGED verdict
         \/ /\ step.result \notin {"continue", "NeedMoreData", "Complete"}
            /\ parser' = p /\ cursor' = n
            /\ pc' = "closed" /\ verdict' = step.result
            /\ UNCHANGED <<buffer, done>>
  BY DEF Parse, Close
<1>2. /\ buffer \in Seq(Bytes) /\ Len(buffer) \in Nat /\ cursor \in 0 .. Len(buffer)
      /\ Bounded(parser)
  BY <1>1 DEF LimitsKept, ConnectionType
<1>3. s \in Seq(Bytes) /\ Len(s) = Len(buffer) - cursor
  BY <1>2, Rest
<1>4. Reference = Feed(M, s)
  BY <1>1 DEF ReferenceFollowed
<1>5. Reference' = Reference
  BY <1>1 DEF Reference
<1> HIDE DEF s
<1>6. Advances(parser, s, step) /\ Agrees(parser, s, done, step)
  BY <1>2, <1>3, ParseStepAdvances, ParseStepAgrees
<1> HIDE DEF step
<1>7. k \in 0 .. Len(s)
  BY <1>6 DEF Advances
<1>8. rest = SubSeq(buffer, n + 1, Len(buffer)) /\ rest \in Seq(Bytes) /\ Feed(M, s) = Feed(Feed(M, First(s, k)), rest)
  <2> HIDE DEF k, M
  <2>1. SubSeq(s, k + 1, Len(s)) = SubSeq(buffer, cursor + k + 1, Len(buffer))
    BY <1>2, <1>7, RestOfRest DEF s
  <2>2. rest \in Seq(Bytes) /\ Feed(M, s) = Feed(Feed(M, First(s, k)), rest)
    BY <1>3, <1>7, FeedSplit
  <2> QED
    BY <2>1, <2>2
<1> DEFINE used == Feed(M, First(s, k))
<1>9. /\ step.result \in {"continue", "NeedMoreData"} => used = Match(p, done)
      /\ step.result = "Complete" => used = Ref(Fresh, <<>>, Append(done, Message(p)), "open")
      /\ step.result = "NeedMoreData" => Feed(M, s) = Ref(p, rest, done, "open")
      /\ step.result \notin {"continue", "NeedMoreData", "Complete"} =>
           Refused(Feed(M, s), done, step.result)
  BY <1>6 DEF Agrees
<1> HIDE DEF used, M, p, k, n, rest
<1>10. Reference' = Feed(used, rest)
  BY <1>4, <1>5, <1>8 DEF used
<1>11. SubSeq(rest, 0 + 1, Len(rest)) = rest
  BY <1>8
<1>12. CASE step.result = "continue"
  <2>1. /\ parser' = p /\ cursor' = n /\ pc' = "parse" /\ done' = done /\ buffer' = buffer
    BY <1>1, <1>12
  <2>2. Match(parser, done)' = Match(p, done)
    BY <2>1 DEF Match, BodyDone, Message
  <2>3. SubSeq(buffer, cursor + 1, Len(buffer))' = rest
    BY <1>8, <2>1
  <2> QED
    BY <1>9, <1>10, <1>12, <2>1, <2>2, <2>3 DEF ReferenceFollowed
<1>13. CASE step.result = "NeedMoreData"
  <2>1. /\ parser' = p /\ cursor' = 0 /\ pc' = "read" /\ done' = done /\ buffer' = rest
    BY <1>1, <1>8, <1>13 DEF ConsumeParsedBytes
  <2>2. Match(parser, done)' = Match(p, done)
    BY <2>1 DEF Match, BodyDone, Message
  <2>3. SubSeq(buffer, cursor + 1, Len(buffer))' = rest
    BY <1>11, <2>1
  <2>4. Reference' = Ref(p, rest, done, "open")
    BY <1>4, <1>5, <1>9, <1>13
  <2>5. Ref(parser, buffer, done, "open")' = Ref(p, rest, done, "open")
    BY <2>1 DEF Ref
  <2> QED
    BY <1>9, <1>10, <1>13, <2>1, <2>2, <2>3, <2>4, <2>5 DEF ReferenceFollowed
<1>14. CASE step.result = "Complete"
  <2>1. /\ parser' = Fresh /\ cursor' = 0 /\ pc' \in {"pending", "parse"}
        /\ done' = Append(done, Message(p)) /\ buffer' = rest
    BY <1>1, <1>8, <1>14 DEF ConsumeParsedBytes
  <2> DEFINE e == Append(done, Message(p))
  <2>2. Match(Fresh, e) = Ref(Fresh, <<>>, e, "open")
    BY FreshBounded DEF Match, BodyDone
  <2>3. Match(parser, done)' = Match(Fresh, e)
    BY <2>1 DEF Match, BodyDone, Message
  <2>4. SubSeq(buffer, cursor + 1, Len(buffer))' = rest
    BY <1>11, <2>1
  <2> QED
    BY <1>9, <1>10, <1>14, <2>1, <2>2, <2>3, <2>4 DEF ReferenceFollowed
<1>15. CASE step.result \notin {"continue", "NeedMoreData", "Complete"}
  <2>1. /\ pc' = "closed" /\ verdict' = step.result /\ done' = done
    BY <1>1, <1>15
  <2>2. Refused(Reference', done', verdict')
    BY <1>4, <1>5, <1>9, <1>15, <2>1
  <2> QED
    BY <2>1, <2>2 DEF ReferenceFollowed, Refused, AtLimit, TooLarge, LineLimit
<1> QED
  BY <1>12, <1>13, <1>14, <1>15

\* A prefix of itself, and of itself with one element more.
LEMMA PrefixOfMore ==
    ASSUME NEW d \in Seq(Request)
    PROVE  IsPrefix(d, d) /\ \A m \in Request : IsPrefix(d, Append(d, m))
<1>1. IsPrefix(d, d)
  BY DEF IsPrefix
<1> QED
  BY <1>1, PrefixAppend

\* What the reference has seen begins with what was handed to the handler.
LEMMA DoneIsPrefix ==
    ASSUME NEW p, Bounded(p), NEW d \in Seq(Request), NEW s \in Seq(Bytes)
    PROVE  IsPrefix(d, Feed(Match(p, d), s).done)
<1> DEFINE m == Message(p)
           e == Append(d, m)
           r == Match(p, d)
<1>1. /\ p \in Parser /\ m \in Request /\ Fresh \in Parser /\ <<>> \in Seq(Bytes)
  BY FreshBounded DEF Bounded, Parser, Message, Request
<1> HIDE DEF m
<1>2. e \in Seq(Request) /\ IsPrefix(d, e) /\ IsPrefix(d, d)
  BY <1>1, PrefixOfMore
<1>3. r = Ref(Fresh, <<>>, e, "open") \/ r = Ref(p, <<>>, d, "open")
  BY DEF Match, m
<1> HIDE DEF e, r
<1>4. IsRef(r) /\ IsPrefix(d, r.done)
  <2>1. CASE r = Ref(Fresh, <<>>, e, "open")
    <3>1. r.done = e
      BY <2>1, RefFacts
    <3>2. IsRef(r)
      BY <1>1, <1>2, <2>1 DEF IsRef
    <3> QED
      BY <1>2, <3>1, <3>2
  <2>2. CASE r = Ref(p, <<>>, d, "open")
    <3>1. r.done = d
      BY <2>2, RefFacts
    <3>2. IsRef(r)
      BY <1>1, <2>2 DEF IsRef
    <3> QED
      BY <1>2, <3>1, <3>2
  <2> QED
    BY <1>3, <2>1, <2>2
<1>5. IsPrefix(d, Feed(r, s).done)
  BY <1>4, FeedGrows
<1> QED
  BY <1>5 DEF r

\* What parse() makes of a byte stream does not depend on how recv() cut it,
\* except that a line at its limit may be refused early: for any streams, any
\* limits and any cuts, the requests handed over, the state of the parser and
\* the error are those of a parser that reads one byte at a time.
THEOREM CutsIrrelevant == Spec => []CutsDoNotMatter
<1> DEFINE I == LimitsKept /\ ReferenceFollowed
<1>1. Init => I
  <2> SUFFICES ASSUME Init PROVE I
    OBVIOUS
  <2>1. LimitsKept
    BY InitLimitsKept
  <2>2. buffer = <<>> /\ cursor = 0 /\ parser = Fresh /\ pc = "read" /\ done = <<>> /\ input = <<>>
    BY DEF Init
  <2>3. Started = Ref(Fresh, <<>>, <<>>, "open")
    BY DEF Started, Ref
  <2>4. Match(Fresh, <<>>) = Ref(Fresh, <<>>, <<>>, "open")
    BY FreshBounded DEF Match, BodyDone
  <2>5. Reference = Feed(Started, <<>>)
    BY <2>2 DEF Reference, Feed
  <2>6. Reference = Started /\ Feed(Match(Fresh, <<>>), <<>>) = Match(Fresh, <<>>)
    BY <2>5, FeedEmpty
  <2>7. SubSeq(buffer, cursor + 1, Len(buffer)) = <<>>
    BY <2>2
  <2>8. ReferenceFollowed
    BY <2>2, <2>3, <2>4, <2>6, <2>7 DEF ReferenceFollowed
  <2> QED
    BY <2>1, <2>8
<1>2. I /\ [Next]_vars => I'
  <2> SUFFICES ASSUME I, [Next]_vars PROVE I'
    OBVIOUS
  <2>1. LimitsKept'
    BY NextLimitsKept
  <2>2. CASE UNCHANGED vars
    <3>1. ReferenceFollowed'
      BY <2>2 DEF vars, ReferenceFollowed, Reference, Match, BodyDone, Message, Refused, AtLimit,
                  TooLarge, LineLimit, Ref
    <3> QED
      BY <2>1, <3>1
  <2> QED
    BY <2>1, <2>2, ReadFollows, ParseFollows DEF Next, Idle
<1>3. I => CutsDoNotMatter
  <2> SUFFICES ASSUME I PROVE CutsDoNotMatter
    OBVIOUS
  <2> DEFINE r == Reference
  <2>1. ASSUME pc = "read" PROVE /\ r.verdict = "open"
                                 /\ done = r.done /\ parser = r.parser /\ buffer = r.line /\ cursor = 0
    <3>1. r = Ref(parser, buffer, done, "open") /\ cursor = 0
      BY <2>1 DEF ReferenceFollowed, LimitsKept, RoomLeft
    <3> HIDE DEF r
    <3> QED
      BY <3>1, RefFacts
  <2>2. ASSUME pc = "closed"
        PROVE  \/ verdict = r.verdict /\ done = r.done
               \/ r.verdict = "open" /\ AtLimit(r) /\ verdict = TooLarge(r.parser)
    BY <2>2 DEF ReferenceFollowed, Refused
  <2>3. ASSUME pc \in {"parse", "pending"} PROVE IsPrefix(done, r.done)
    <3> DEFINE s == SubSeq(buffer, cursor + 1, Len(buffer))
    <3>1. Bounded(parser) /\ done \in Seq(Request) /\ buffer \in Seq(Bytes) /\ cursor \in 0 .. Len(buffer)
      BY <2>3 DEF LimitsKept, ConnectionType
    <3>2. s \in Seq(Bytes)
      BY <3>1, Rest
    <3>3. r = Feed(Match(parser, done), s)
      BY <2>3 DEF ReferenceFollowed
    <3> HIDE DEF s, r
    <3> QED
      BY <3>1, <3>2, <3>3, DoneIsPrefix
  <2> HIDE DEF r
  <2> QED
    BY <2>1, <2>2, <2>3 DEF CutsDoNotMatter, r
<1> QED
  BY <1>1, <1>2, <1>3, PTL DEF Spec

=============================================================================
