---------------------------- MODULE MCClientSession -----------------------------
EXTENDS ClientSession

Get(interims, length, status, how) ==
    [head |-> FALSE, interim |-> interims, headers |-> TRUE, length |-> length,
     status |-> status, framing |-> how]
ByHead(x) == [x EXCEPT !.head = TRUE]
Bare(x) == [x EXCEPT !.headers = FALSE]

\* Every framing, with and without interim responses, asked for by GET and by
\* HEAD, a response without header lines and one that makes no sense.
SomeExchanges ==
    {Get(0, 2, "other", "length"), ByHead(Get(1, 2, "other", "length")),
     Get(1, 1, "other", "chunked"), ByHead(Get(0, 1, "other", "chunked")),
     Get(0, 0, "other", "length"), Get(0, 1, "none", "length"),
     Bare(Get(0, 2, "other", "close")), Get(0, 2, "other", "close"),
     Get(0, 0, "malformed", "length")}

WithoutHeaders == {Bare(Get(0, 2, "other", "close"))}
=================================================================================
