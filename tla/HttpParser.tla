----------------------------- MODULE HttpParser -----------------------------
(***************************************************************************)
(* The incremental HTTP parser (http/HttpParser.cpp) and the loop that     *)
(* feeds it: Connection::read, parseRequest and consumeParsedBytes, called *)
(* by Reactor::handleClient. What arrives in one read is up to the         *)
(* network, so the interesting question is whether it matters.             *)
(*                                                                         *)
(* Bytes are CR, LF and letters. A line says what its first letter says,   *)
(* and its length counts, so that a class of lines is one letter, repeated:*)
(*   "q" "a"    a request line, answered at once or by a worker            *)
(*   "v"        a request line of another version                          *)
(*   "h" "o"    a Host header; any other header                            *)
(*   L letters  a Content-Length header, see LengthOf                      *)
(*   "t" "u"    Transfer-Encoding: chunked; another encoding               *)
(*   C letters  a chunk-size line, see SizeOf                              *)
(*   "x"        malformed as a line of any kind; body bytes                *)
(***************************************************************************)
EXTENDS Naturals, Sequences, SequencesExt, FiniteSetsExt

CONSTANTS
    Streams,                \* what a client may send: sequences of bytes
    LengthOf,               \* L letters and the length they announce
    SizeOf,                 \* C letters and the chunk size they announce
    ReadSize,               \* bytes read() takes at most: 4096
    MAX_RECEIVE_BUFFER,
    MAX_REQUEST_LINE_SIZE, MAX_HEADER_LINE_SIZE, MAX_HEADERS_SIZE,
    MAX_HEADER_COUNT, MAX_BODY_SIZE

CR == "CR"
LF == "LF"
HeaderLetters == {"h", "o", "t", "u"} \cup DOMAIN LengthOf
Bytes == {CR, LF, "q", "a", "v", "x"} \cup HeaderLetters \cup DOMAIN SizeOf

ASSUME HttpParserAssumption ==
    /\ {ReadSize, MAX_RECEIVE_BUFFER, MAX_REQUEST_LINE_SIZE, MAX_HEADER_LINE_SIZE,
        MAX_HEADERS_SIZE, MAX_HEADER_COUNT, MAX_BODY_SIZE} \subseteq Nat \ {0}
    /\ MAX_REQUEST_LINE_SIZE < MAX_RECEIVE_BUFFER
    /\ MAX_HEADER_LINE_SIZE < MAX_RECEIVE_BUFFER
    /\ Streams \subseteq Seq(Bytes)
    /\ LengthOf \in [DOMAIN LengthOf -> Nat]
    /\ SizeOf \in [DOMAIN SizeOf -> Nat]

VARIABLES
    wire,     \* bytes on their way to the server
    buffer,   \* Connection::receive_buffer
    cursor,   \* HttpParser::cursor
    parser,   \* the other members of HttpParser
    pc,       \* "read", "parse", "pending" behind a worker, or "closed"
    done,     \* requests handed to the handler so far
    verdict,  \* why the connection was closed, or "open"
    input     \* history: all bytes read

vars == <<wire, buffer, cursor, parser, pc, done, verdict, input>>

\* reset()
Fresh ==
    [state |-> "RequestLine", line |-> <<>>, headers |-> <<>>, body |-> <<>>,
     content_length |-> 0, headers_size |-> 0, host_count |-> 0,
     chunk_size |-> 0, chunk_bytes_read |-> 0, trailer_size |-> 0, trailer_count |-> 0,
     has_content_length |-> FALSE, has_transfer_encoding |-> FALSE]

Init ==
    /\ wire \in Streams
    /\ buffer = <<>> /\ cursor = 0
    /\ parser = Fresh
    /\ pc = "read"
    /\ done = <<>>
    /\ verdict = "open"
    /\ input = <<>>

-----------------------------------------------------------------------------
(* What one line does to the parser. An outcome is the parser afterwards and *)
(* the result that parse() returns, or "continue".                           *)

Outcome(p, result) == [parser |-> p, result |-> result]

Stray(line) == \E i \in DOMAIN line : line[i] \in {CR, LF}

Letter(line) == IF line = <<>> THEN "x" ELSE line[1]

RequestLine(p, line) ==
    CASE Letter(line) \in {"q", "a"} /\ ~Stray(line) ->
           Outcome([p EXCEPT !.state = "Headers", !.line = line], "continue")
      [] Letter(line) = "v" /\ ~Stray(line) -> Outcome(p, "UnsupportedVersion")
      [] OTHER -> Outcome(p, "BadRequest")

\* The empty line: which part comes next.
HeadersEnd(p) ==
    CASE p.host_count # 1 -> Outcome(p, "BadRequest")
      [] p.has_transfer_encoding /\ p.has_content_length -> Outcome(p, "BadRequest")
      [] OTHER -> Outcome([p EXCEPT !.state = IF p.has_transfer_encoding THEN "ChunkSize" ELSE "Body"],
                          "continue")

\* One header field. Only Host and other headers may hold a stray CR or LF.
Field(p, line) ==
    LET k == Letter(line)
        q == [p EXCEPT !.headers = Append(@, line)]
    IN  CASE k \notin HeaderLetters -> Outcome(p, "BadRequest")
          [] k = "o" -> Outcome(q, "continue")
          [] k = "h" -> Outcome([q EXCEPT !.host_count = @ + 1],
                                IF p.host_count = 1 THEN "BadRequest" ELSE "continue")
          [] k \in DOMAIN LengthOf ->
               Outcome([q EXCEPT !.content_length = LengthOf[k], !.has_content_length = TRUE],
                       IF Stray(line) THEN "BadRequest"
                       ELSE IF LengthOf[k] > MAX_BODY_SIZE THEN "BodyTooLarge"
                       ELSE IF p.has_content_length /\ p.content_length # LengthOf[k] THEN "BadRequest"
                       ELSE "continue")
          [] k = "t" -> Outcome([q EXCEPT !.has_transfer_encoding = TRUE],
                                IF p.has_transfer_encoding THEN "BadRequest"
                                ELSE IF Stray(line) THEN "UnsupportedTransferEncoding" ELSE "continue")
          [] k = "u" -> Outcome(p, IF p.has_transfer_encoding THEN "BadRequest"
                                   ELSE "UnsupportedTransferEncoding")

HeaderLine(p, line) ==
    LET q == [p EXCEPT !.headers_size = @ + Len(line) + 2]
    IN  CASE q.headers_size > MAX_HEADERS_SIZE -> Outcome(p, "HeadersTooLarge")
          [] q.headers_size <= MAX_HEADERS_SIZE /\ line = <<>> -> HeadersEnd(q)
          [] q.headers_size <= MAX_HEADERS_SIZE /\ line # <<>> ->
               IF Len(p.headers) + 1 > MAX_HEADER_COUNT THEN Outcome(p, "TooManyHeaders")
               ELSE Field(q, line)

\* isValidChunkSize() refuses a size beyond MAX_BODY_SIZE.
ChunkSizeLine(p, line) ==
    LET k == Letter(line)
    IN  IF k \in DOMAIN SizeOf /\ ~Stray(line) /\ SizeOf[k] <= MAX_BODY_SIZE
          THEN Outcome([p EXCEPT !.chunk_size = SizeOf[k], !.chunk_bytes_read = 0,
                                 !.state = IF SizeOf[k] = 0 THEN "ChunkTrailers" ELSE "ChunkData"],
                       "continue")
          ELSE Outcome(p, "BadRequest")

\* Trailers are checked and dropped.
TrailerLine(p, line) ==
    LET q == [p EXCEPT !.trailer_size = @ + Len(line) + 2,
                       !.trailer_count = @ + IF line = <<>> THEN 0 ELSE 1]
    IN  CASE q.trailer_size > MAX_HEADERS_SIZE -> Outcome(p, "HeadersTooLarge")
          [] q.trailer_size <= MAX_HEADERS_SIZE /\ line = <<>> -> Outcome(q, "Complete")
          [] q.trailer_size <= MAX_HEADERS_SIZE /\ line # <<>> ->
               Outcome(q, IF q.trailer_count > MAX_HEADER_COUNT THEN "TooManyHeaders"
                          ELSE IF Letter(line) \in HeaderLetters THEN "continue"
                          ELSE "BadRequest")

LineStates == {"RequestLine", "Headers", "ChunkSize", "ChunkTrailers"}

OnLine(p, line) ==
    CASE p.state = "RequestLine" -> RequestLine(p, line)
      [] p.state = "Headers" -> HeaderLine(p, line)
      [] p.state = "ChunkSize" -> ChunkSizeLine(p, line)
      [] p.state = "ChunkTrailers" -> TrailerLine(p, line)

-----------------------------------------------------------------------------
(* One pass through the loop of parse(), on the bytes behind the cursor: the *)
(* outcome and the number of bytes the cursor moves.                         *)

Step(outcome, bytes) ==
    [parser |-> outcome.parser, result |-> outcome.result, bytes |-> bytes]

\* Position of the first CR LF in s, or 0.
EndOfLine(s) ==
    LET at == {i \in 1 .. Len(s) - 1 : s[i] = CR /\ s[i + 1] = LF}
    IN  IF at = {} THEN 0 ELSE Min(at)

LineLimit(p) == IF p.state = "RequestLine" THEN MAX_REQUEST_LINE_SIZE ELSE MAX_HEADER_LINE_SIZE

TooLarge(p) == IF p.state = "RequestLine" THEN "RequestLineTooLarge" ELSE "HeadersTooLarge"

\* A line that is not complete yet. Its CR counts, if that is there.
Incomplete(p, s) ==
    IF \/ Len(s) > LineLimit(p)
       \/ p.state = "Headers" /\ p.headers_size + Len(s) > MAX_HEADERS_SIZE
       \/ p.state = "ChunkTrailers" /\ p.trailer_size + Len(s) > MAX_HEADERS_SIZE
    THEN TooLarge(p) ELSE "NeedMoreData"

\* The line limit is not applied to a trailer that has arrived whole.
ParseLine(p, s) ==
    LET e == EndOfLine(s) IN
    CASE e = 0 -> Step(Outcome(p, Incomplete(p, s)), 0)
      [] e > LineLimit(p) + 1 /\ p.state # "ChunkTrailers" -> Step(Outcome(p, TooLarge(p)), 0)
      [] OTHER -> Step(OnLine(p, SubSeq(s, 1, e - 1)), e + 1)

ParseBody(p, s) ==
    LET n == Min({Len(s), p.content_length - Len(p.body)})
        q == [p EXCEPT !.body = @ \o SubSeq(s, 1, n)]
    IN  Step(Outcome(q, IF Len(q.body) < p.content_length THEN "NeedMoreData" ELSE "Complete"), n)

\* Mutant of ParseChunkData: each chunk is within the limit, see isValidChunkSize.
ParseChunkUnbounded(p, s) ==
    LET n == Min({Len(s), p.chunk_size - p.chunk_bytes_read})
        q == [p EXCEPT !.body = @ \o SubSeq(s, 1, n), !.chunk_bytes_read = @ + n]
    IN  IF q.chunk_bytes_read < p.chunk_size THEN Step(Outcome(q, "NeedMoreData"), n)
        ELSE Step(Outcome([q EXCEPT !.state = "ChunkDataCRLF"], "continue"), n)

ParseChunkData(p, s) ==
    LET n == Min({Len(s), p.chunk_size - p.chunk_bytes_read})
        q == [p EXCEPT !.body = @ \o SubSeq(s, 1, n), !.chunk_bytes_read = @ + n]
    IN  CASE s = <<>> -> Step(Outcome(p, "NeedMoreData"), 0)
          [] s # <<>> /\ Len(q.body) > MAX_BODY_SIZE -> Step(Outcome(p, "BodyTooLarge"), 0)
          [] s # <<>> /\ Len(q.body) <= MAX_BODY_SIZE ->
               IF q.chunk_bytes_read < p.chunk_size THEN Step(Outcome(q, "NeedMoreData"), n)
               ELSE Step(Outcome([q EXCEPT !.state = "ChunkDataCRLF"], "continue"), n)

ParseChunkCRLF(p, s) ==
    CASE Len(s) < 2 -> Step(Outcome(p, "NeedMoreData"), 0)
      [] Len(s) >= 2 /\ SubSeq(s, 1, 2) = <<CR, LF>> ->
           Step(Outcome([p EXCEPT !.state = "ChunkSize"], "continue"), 2)
      [] OTHER -> Step(Outcome(p, "BadRequest"), 0)

ParseStep(p, s) ==
    CASE p.state \in LineStates -> ParseLine(p, s)
      [] p.state = "Body" -> ParseBody(p, s)
      [] p.state = "ChunkData" -> ParseChunkData(p, s)
      [] p.state = "ChunkDataCRLF" -> ParseChunkCRLF(p, s)

-----------------------------------------------------------------------------
(* The connection.                                                           *)

\* Connection::read(), followed by a parse. That it never finds the buffer
\* full is part of RequestsBounded.
Read ==
    /\ pc \in {"read", "pending"}
    /\ \E n \in 1 .. Min({Len(wire), ReadSize, MAX_RECEIVE_BUFFER - Len(buffer)}) :
         /\ buffer' = buffer \o SubSeq(wire, 1, n)
         /\ input' = input \o SubSeq(wire, 1, n)
         /\ wire' = SubSeq(wire, n + 1, Len(wire))
    /\ pc' = "parse"
    /\ UNCHANGED <<cursor, parser, done, verdict>>

Close(why) ==
    /\ pc' = "closed"
    /\ verdict' = why

\* Mutant of ConsumeParsedBytes: the cursor stays where it was.
ConsumeKeepCursor(n) ==
    /\ buffer' = SubSeq(buffer, n + 1, Len(buffer))
    /\ cursor' = n

\* Connection::consumeParsedBytes(), with the cursor at n.
ConsumeParsedBytes(n) ==
    /\ buffer' = SubSeq(buffer, n + 1, Len(buffer))
    /\ cursor' = 0

\* The request the handler gets.
Message(p) == [line |-> p.line, headers |-> p.headers, body |-> p.body]

\* One pass through the loop of parse() and, when it returns, what
\* handleClient() does with the result: with more data wanted it reads again;
\* with a request it goes on parsing, or leaves if a worker has it; with an
\* error it closes the connection.
Parse ==
    /\ pc = "parse"
    /\ LET step == ParseStep(parser, SubSeq(buffer, cursor + 1, Len(buffer)))
           p == step.parser
           n == cursor + step.bytes
       IN  \/ /\ step.result = "continue"
              /\ parser' = p /\ cursor' = n
              /\ UNCHANGED <<buffer, pc, done, verdict>>
           \/ /\ step.result = "NeedMoreData"
              /\ parser' = p /\ ConsumeParsedBytes(n)
              /\ pc' = "read"
              /\ UNCHANGED <<done, verdict>>
           \/ /\ step.result = "Complete"
              /\ done' = Append(done, Message(p))
              /\ parser' = Fresh /\ ConsumeParsedBytes(n)
              /\ pc' = IF Letter(p.line) = "a" THEN "pending" ELSE "parse"
              /\ UNCHANGED verdict
           \/ /\ step.result \notin {"continue", "NeedMoreData", "Complete"}
              /\ parser' = p /\ cursor' = n
              /\ Close(step.result)
              /\ UNCHANGED <<buffer, done>>
    /\ UNCHANGED <<wire, input>>

\* The client has sent everything and is waiting.
Idle ==
    /\ pc = "closed" \/ (pc \in {"read", "pending"} /\ wire = <<>>)
    /\ UNCHANGED vars

Next == Read \/ Parse \/ Idle

Spec == Init /\ [][Next]_vars

-----------------------------------------------------------------------------
(* Reference: a parser that takes one byte at a time and keeps no buffer but *)
(* the line it is in. It never sees how the bytes were cut.                  *)

Started == [parser |-> Fresh, line |-> <<>>, done |-> <<>>, verdict |-> "open"]

\* A request ends at once when it has no body.
Conclude(r, outcome) ==
    LET p == outcome.parser
        complete == \/ outcome.result = "Complete"
                    \/ /\ outcome.result = "continue"
                       /\ p.state = "Body" /\ Len(p.body) = p.content_length
    IN  CASE complete -> [r EXCEPT !.parser = Fresh, !.line = <<>>, !.done = Append(@, Message(p))]
          [] ~complete /\ outcome.result = "continue" -> [r EXCEPT !.parser = p, !.line = <<>>]
          [] OTHER -> [r EXCEPT !.verdict = outcome.result]

\* Bytes of a line without the CR that may turn out to be its end.
Content(line) == Len(line) - IF line # <<>> /\ Last(line) = CR THEN 1 ELSE 0

\* The total may be seen to be exceeded before the line ends.
Oversized(p, line) ==
    \/ Content(line) > LineLimit(p) /\ p.state # "ChunkTrailers"
    \/ p.state = "Headers" /\ p.headers_size + Len(line) > MAX_HEADERS_SIZE
    \/ p.state = "ChunkTrailers" /\ p.trailer_size + Len(line) > MAX_HEADERS_SIZE

LineByte(r, b) ==
    LET s == Append(r.line, b)
        whole == b = LF /\ r.line # <<>> /\ Last(r.line) = CR
    IN  CASE whole -> Conclude(r, OnLine(r.parser, Front(r.line)))
          [] ~whole /\ Oversized(r.parser, s) -> [r EXCEPT !.verdict = TooLarge(r.parser)]
          [] OTHER -> [r EXCEPT !.line = s]

BodyByte(r, b) ==
    LET p == [r.parser EXCEPT !.body = Append(@, b)]
    IN  Conclude(r, Outcome(p, "continue"))

ChunkByte(r, b) ==
    LET p == [r.parser EXCEPT !.body = Append(@, b), !.chunk_bytes_read = @ + 1]
    IN  IF Len(p.body) > MAX_BODY_SIZE THEN [r EXCEPT !.verdict = "BodyTooLarge"]
        ELSE IF p.chunk_bytes_read < p.chunk_size THEN [r EXCEPT !.parser = p]
        ELSE [r EXCEPT !.parser = [p EXCEPT !.state = "ChunkDataCRLF"]]

ChunkEndByte(r, b) ==
    CASE r.line = <<>> -> [r EXCEPT !.line = <<b>>]
      [] r.line = <<CR>> /\ b = LF ->
           [r EXCEPT !.line = <<>>, !.parser.state = "ChunkSize"]
      [] OTHER -> [r EXCEPT !.verdict = "BadRequest"]

NextByte(r, b) ==
    IF r.verdict # "open" THEN r
    ELSE CASE r.parser.state \in LineStates -> LineByte(r, b)
           [] r.parser.state = "Body" -> BodyByte(r, b)
           [] r.parser.state = "ChunkData" -> ChunkByte(r, b)
           [] r.parser.state = "ChunkDataCRLF" -> ChunkEndByte(r, b)

Reference ==
    LET after[n \in 0 .. Len(input)] ==
          IF n = 0 THEN Started ELSE NextByte(after[n - 1], input[n])
    IN after[Len(input)]

-----------------------------------------------------------------------------
(* Properties.                                                               *)

\* The line the reference is in is as long as a line may be, and a CR follows;
\* or it is a trailer beyond the line limit.
AtLimit(r) ==
    /\ r.parser.state \in LineStates
    /\ \/ Len(r.line) = LineLimit(r.parser) + 1 /\ Last(r.line) = CR
       \/ r.parser.state = "ChunkTrailers" /\ Len(r.line) > MAX_HEADER_LINE_SIZE

\* What parse() makes of a byte stream, the requests and their bodies, the
\* state it is in and the bytes it leaves in the buffer, the error it reports,
\* does not depend on how recv() cut the stream, except that a line at its
\* limit may be refused early. Requests that wait in the buffer behind one
\* that a worker has are not lost or changed either.
CutsDoNotMatter ==
    LET r == Reference IN
    /\ pc = "read" =>
         /\ r.verdict = "open"
         /\ done = r.done /\ parser = r.parser /\ buffer = r.line /\ cursor = 0
    /\ pc = "closed" =>
         \/ verdict = r.verdict /\ done = r.done
         \/ r.verdict = "open" /\ AtLimit(r) /\ verdict = TooLarge(r.parser)
    /\ pc \in {"parse", "pending"} => IsPrefix(done, r.done)

\* README.md, "Parser limits" and "supports incremental parsing": how a line
\* is cut does not decide whether it is within the limits.
LimitsIgnoreCuts ==
    pc = "closed" => verdict = Reference.verdict

Sum(lines) ==
    LET upto[n \in 0 .. Len(lines)] ==
          IF n = 0 THEN 0 ELSE upto[n - 1] + Len(lines[n]) + 2
    IN upto[Len(lines)]

WithinLimits(m) ==
    /\ Len(m.line) <= MAX_REQUEST_LINE_SIZE
    /\ Len(m.headers) <= MAX_HEADER_COUNT
    /\ \A i \in DOMAIN m.headers : Len(m.headers[i]) <= MAX_HEADER_LINE_SIZE
    /\ Sum(m.headers) + 2 <= MAX_HEADERS_SIZE
    /\ Len(m.body) <= MAX_BODY_SIZE

\* A request that reaches the handler is within all limits of the parser,
\* bodies of several chunks included, and a connection about to read has room
\* in its buffer, also if requests have piled up behind one that a worker has:
\* the connection is never closed because of BufferFull.
RequestsBounded ==
    /\ \A i \in DOMAIN done : WithinLimits(done[i])
    /\ pc \in {"read", "pending"} => Len(buffer) < MAX_RECEIVE_BUFFER
=============================================================================
