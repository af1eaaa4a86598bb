-------------------------------- MODULE MCMessage --------------------------------
EXTENDS Message

SomeNames == {"host", "length", "encoding"}
SomeValues == {<<>>, <<"a">>, <<"a", ":", "b">>, <<"2">>}

\* As a peer may write them: no blank before the value, or several, and some behind
\* it; a name in capitals; a line that is no header; a name used twice.
SomeLines ==
    {Line(<<"host", ":", "a">>, "host", <<"a">>),
     Line(<<"host", ":", "space", "b", "space", "c", "space">>, "host", <<"b", "space", "c">>),
     Line(<<"LENGTH", ":", "space", "space", "2">>, "length", <<"2">>),
     Line(<<"length", ":", "x">>, "length", <<"x">>),
     Line(<<"junk", "space", "host">>, "", <<>>),
     Line(<<"encoding", ":", "chunked">>, "encoding", <<"chunked">>)}

\* Line ends in a body are data.
SomeBodies == {<<>>, <<"a", "b">>, Crlf \o Crlf, <<"a", "crlf", "crlf", "b">>}
==================================================================================
