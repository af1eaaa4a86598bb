---------------------------- MODULE MCResponseReader ----------------------------
EXTENDS ResponseReader

Data(n) == [i \in 1..n |-> Byte("data")]
CrLf(n) == <<Byte("cr"), LineFeed(n)>>
SizeLine(n) == <<Byte("digit")>> \o CrLf(n)
Chunk(n) == SizeLine(n) \o Data(n) \o CrLf(0)

Plain(n)   == [framing |-> "content_length", length |-> n, bytes |-> Data(n)]
Closing(n) == [framing |-> "until_close", length |-> 0, bytes |-> Data(n)]
Chunked(bytes) == [framing |-> "chunked", length |-> 0, bytes |-> bytes]

\* A body that fits, one that fills the window and one that is too long for it,
\* by length and by close; chunked: two chunks, a trailer, bare line feeds, a size
\* line that is none, and data that goes on where its chunk should end.
SomeResponses ==
    {[framing |-> "none", length |-> 0, bytes |-> <<>>]}
    \cup {Plain(n) : n \in {2, 5, 7}} \cup {Closing(n) : n \in {0, 3, 5, 6}}
    \cup {Chunked(Chunk(2) \o Chunk(1) \o SizeLine(0) \o CrLf(0)),
          Chunked(Chunk(3) \o SizeLine(0) \o SizeLine(0) \o CrLf(0)),
          Chunked(<<Byte("digit"), LineFeed(1)>> \o Data(1) \o <<LineFeed(0)>>
                  \o <<Byte("digit"), LineFeed(0)>> \o <<LineFeed(0)>>),
          Chunked(Chunk(1) \o <<Byte("digit"), LineFeed(Malformed)>> \o CrLf(0) \o Data(1)),
          Chunked(<<Byte("digit"), LineFeed(1)>> \o Data(1) \o SizeLine(0))}

ShortResponses == {Closing(n) : n \in {1, 2, 3}}
=================================================================================
