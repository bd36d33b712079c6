---------------------------- MODULE MCTransport -----------------------------
EXTENDS Transport

Token1(kind, n) == [kind |-> kind, n |-> n]
Crlf == Token1("crlf", 0)
Data(p) == [i \in DOMAIN p |-> Token1("data", p[i])]
Sized(p) == <<Token1("sized", Len(p))>> \o Data(p)
Chunk(p) == <<Token1("size", Len(p))>> \o Data(p) \o <<Crlf>>
LastChunk == <<Token1("size", 0), Crlf>>
Chunked(parts) == <<Token1("chunked", 0)>> \o parts \o LastChunk
Message(tokens, payload) == [tokens |-> tokens, payload |-> payload]

\* Bodies of every length up to one past the allowance, in one piece and in two;
\* bytes after a sized body; then heads, sizes and trailers that are not right.
MCMessages ==
  {Message(Sized(p), p) : p \in {<<>>, <<1, 2, 3>>, <<1, 2, 3, 4>>}}
  \cup {Message(Sized(<<1, 2>>) \o Data(<<9>>), <<1, 2>>)}
  \cup {Message(Chunked(Chunk(<<1, 2, 3>>)), <<1, 2, 3>>),
        Message(Chunked(Chunk(<<1>>) \o Chunk(<<2, 3>>)), <<1, 2, 3>>),
        Message(Chunked(Chunk(<<1, 2>>) \o Chunk(<<3, 4>>)), <<1, 2, 3, 4>>),
        Message(Chunked(<<>>), <<>>)}
  \cup {Message(<<Token1("unframed", 0)>>, None),
        Message(<<Token1("sized", 3)>> \o Data(<<1, 2>>), None),
        Message(Chunked(<<Token1("size", 2)>> \o Data(<<1>>) \o <<Crlf>>), None),
        Message(Chunked(<<Token1("size", 1)>> \o Data(<<1, 2>>) \o <<Crlf>>), None),
        Message(Chunked(<<Token1("junk", 0)>>), None),
        Message(<<Token1("chunked", 0), Token1("size", 0), Token1("junk", 0), Crlf>>, None)}
=============================================================================
