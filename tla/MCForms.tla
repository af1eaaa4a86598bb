--------------------------------- MODULE MCForms ---------------------------------
EXTENDS Forms, SequencesExt

SomeNames == {<<97>>, <<97, 98>>}

\* Bytes that have a meaning to the one reader or the other: separators and escapes,
\* dashes and line ends, and what looks like the end of a part.
SomeValues ==
    {<<>>, <<97>>, <<Blank, Plus>>, <<Percent, Ampersand>>, <<Equals, Question, 200>>,
     <<Dash>>, DashDash, CrLf, CrLf \o DashDash, <<Dash, Dash, Dash, 97>>}

\* Each byte by one of its writings: the least, or the longest with digits in lower
\* case.
Shortest(c) == CHOOSE w \in Writings(c) : \A other \in Writings(c) : Len(w) <= Len(other)
Longest(c) ==
    CHOOSE w \in Escapes(c) : \A other \in Escapes(c) : w[2] >= other[2] /\ w[3] >= other[3]
Written(value, Writing(_)) == FlattenSeq([i \in DOMAIN value |-> Writing(value[i])])
SomeEncodings ==
    UNION {{[value |-> value, raw |-> Written(value, Shortest)],
            [value |-> value, raw |-> Written(value, Longest)]} : value \in SomeValues}

\* A boundary that begins with dashes, as those of browsers do.
SomeBoundaries == {<<98>>, <<Dash, Dash, 98>>}

SomeBytes == {Percent, Equals, Ampersand, Question, Dash, 98, Cr, Lf}
SomePieces == {DashDash \o <<98>>, CrLf, <<97>>}
SomeTexts ==
    UNION {[1..n -> SomeBytes] : n \in 0..4}
    \cup {FlattenSeq(pieces) : pieces \in UNION {[1..n -> SomePieces] : n \in 0..6}}
==================================================================================
