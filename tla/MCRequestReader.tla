---------------------------- MODULE MCRequestReader -----------------------------
EXTENDS RequestReader

Bytes(n, what) == [i \in 1..n |-> Byte(what)]
CrLf == <<Byte("cr"), Byte("lf")>>
Size(n) == <<Digit(n)>> \o CrLf
Chunk(n) == Size(n) \o Bytes(n, "data") \o CrLf
LastChunk == Size(0) \o CrLf
Bare(n) == <<Digit(n), Byte("lf")>> \o Bytes(n, "data") \o <<Byte("lf")>>

Request(head, framing, length, bytes) ==
    [head |-> head, framing |-> framing, length |-> length, bytes |-> bytes]
Chunked(head, bytes) == Request(head, "chunked", 0, bytes)
Plain(n) == Request(1, "content_length", n, Bytes(n, "data"))

\* Without a body, and with bytes of the next request behind; with one that fits,
\* one that does not, and one of length 0; chunked: two chunks, an extension on
\* each size line, three chunks between bare line feeds, two chunks that do not fit,
\* and bytes of the next request behind the last one.
SomeRequests ==
    {Request(2, "none", 0, <<>>), Request(1, "none", 0, Bytes(2, "extension")),
     Request(1, "malformed", 0, Bytes(1, "data")), Plain(3), Plain(21), Plain(0),
     Request(1, "content_length", 2, Bytes(3, "data")),
     Chunked(1, Chunk(2) \o Chunk(1) \o LastChunk),
     Chunked(2, <<Digit(2), Byte("extension")>> \o CrLf \o Bytes(2, "data") \o CrLf
                \o <<Digit(0), Byte("extension")>> \o CrLf),
     Chunked(1, Bare(1) \o Bare(1) \o Bare(2) \o <<Digit(0), Byte("lf")>>),
     Chunked(1, Chunk(4) \o Chunk(4) \o LastChunk),
     Chunked(2, Chunk(3) \o LastChunk \o Bytes(2, "extension"))}

CutShort == {Plain(3)}

\* A size of two digits, as 0x10 or as 02.
TwoDigits ==
    {Chunked(1, <<Digit(0), Digit(2)>> \o CrLf \o Bytes(2, "data") \o CrLf \o LastChunk),
     Chunked(1, <<Digit(1), Digit(0)>> \o CrLf \o Bytes(16, "data") \o CrLf \o LastChunk)}
=================================================================================
