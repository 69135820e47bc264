---------------------------- MODULE MCHttpParser ----------------------------
(* Byte streams for HttpParser, built from lines whose lengths lie on both   *)
(* sides of the limits.                                                      *)
EXTENDS HttpParser

MCLengthOf == [L0 |-> 0, L2 |-> 2, L9 |-> 9]
MCSizeOf == [C0 |-> 0, C2 |-> 2, C9 |-> 9]

EOL == <<CR, LF>>
Line(letter, n) == [i \in 1 .. n |-> letter] \o EOL

RequestLines == {Line("q", 1), Line("q", 2), Line("q", 3), Line("v", 1), EOL,
                 Line("q", 11), <<"q", CR>> \o EOL}

HeaderLines == {Line("h", 1), Line("o", 2), Line("o", 3), Line("t", 1), Line("u", 1),
                Line("x", 1), <<"o", LF>> \o EOL} \cup {Line(k, 1) : k \in DOMAIN LengthOf}

Heads == {FlattenSeq(hs) : hs \in UNION {[1 .. n -> HeaderLines] : n \in 0 .. 3}}

\* Chunks, good and bad, as they follow one another.
ChunkParts == {Line("C2", 1) \o <<"x", CR>> \o EOL, Line("C2", 1) \o <<"x", "x", "x", LF>>,
               Line("C0", 1), Line("C9", 1), Line("C0", 3), Line("o", 1), Line("o", 3),
               Line("x", 1), EOL}
Chunks == {FlattenSeq(cs) : cs \in UNION {[1 .. n -> ChunkParts] : n \in 1 .. 4}}

Small == Line("q", 1) \o Line("h", 1) \o EOL
Async == Line("a", 1) \o Line("h", 1) \o EOL

MCStreams ==
    {l \o Line("h", 1) \o EOL : l \in RequestLines}
    \cup {Line("q", 1) \o h \o EOL \o <<"x">> : h \in Heads}
    \cup {Line("q", 1) \o Line("h", 1) \o Line("L2", 1) \o EOL \o <<b, LF>> \o Small : b \in {CR, "x"}}
    \cup {Line("q", 1) \o Line("h", 1) \o Line("t", 1) \o EOL \o c : c \in Chunks}
    \cup {Line("q", 1) \o Line("o", 11) \o EOL}
    \cup {Async \o Async \o Small, Async \o Small \o Async \o Async \o Async}

\* Lines at their limits and nothing else.
MCLimitStreams ==
    {Line("q", n) \o Line("h", m) \o EOL : n, m \in 1 .. 2}
=============================================================================
