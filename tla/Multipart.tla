-------------------------------- MODULE Multipart --------------------------------
(***************************************************************************)
(* multipart.c: the parts of a multipart/form-data body.  Text is a        *)
(* sequence of byte values; the words of a part's headers are one value    *)
(* each, beyond those of bytes.                                            *)
(***************************************************************************)
EXTENDS Integers, Sequences, FiniteSetsExt

Dash == 45
Cr == 13
Lf == 10
Colon == 58
Semicolon == 59
Equal == 61
Quote == 34
Space == 32

ContentDisposition == 256
ContentType == 257
FormData == 258
Name == 259
Filename == 260
Boundary == 261

CrLf == <<Cr, Lf>>
DashDash == <<Dash, Dash>>

\* span_find, from a place on: where a text begins, or 0.
FindFrom(text, from, what) ==
    LET at == {i \in from..(Len(text) - Len(what) + 1) :
                  SubSeq(text, i, i + Len(what) - 1) = what}
    IN IF at = {} THEN 0 ELSE Min(at)

Rest(text, from) == SubSeq(text, from, Len(text))
StartsWith(text, what) == Len(text) >= Len(what) /\ SubSeq(text, 1, Len(what)) = what

Trimmed(text) ==
    LET ink == {i \in DOMAIN text : text[i] # Space} IN
    IF ink = {} THEN <<>> ELSE Rest(text, Min(ink))

Unquoted(value) ==
    IF value = <<>> \/ value[1] # Quote THEN value
    ELSE SubSeq(value, 2, IF Len(value) > 1 /\ value[Len(value)] = Quote
                          THEN Len(value) - 1 ELSE Len(value))

\* param_value: the first segment key=value with that key.  Segments begin behind a
\* separator.
Segment(header, i) ==
    Trimmed(SubSeq(header, i, Min({j \in i..Len(header) : header[j] = Semicolon}
                                  \cup {Len(header) + 1}) - 1))
ParamValue(header, key) ==
    LET hits == {i \in 1..(Len(header) + 1) :
                    /\ i = 1 \/ header[i - 1] = Semicolon
                    /\ StartsWith(Segment(header, i), <<key, Equal>>)}
    IN IF hits = {} THEN <<>> ELSE Unquoted(Rest(Segment(header, Min(hits)), 3))

-------------------------------------------------------------------------------

\* The "--" that find_boundary looks behind: it goes on behind each, so that of
\* dashes in a row it sees every second pair.
DashesSeen(text, offset) ==
    {at \in offset..(Len(text) - 1) :
        \E run \in offset..at :
            /\ run = offset \/ text[run - 1] # Dash
            /\ \A i \in run..(at + 1) : text[i] = Dash
            /\ (at - run) % 2 = 0}

\* find_boundary: where the first delimiter begins, or 0.
FindBoundary(text, offset, boundary) ==
    LET hits == {at \in DashesSeen(text, offset) : StartsWith(Rest(text, at + 2), boundary)}
    IN IF hits = {} THEN 0 ELSE Min(hits)

\* The lines of a part's headers, by where they begin.
HeaderStarts(block) ==
    {i \in 1..(Len(block) + 1) : i = 1 \/ (i > 2 /\ SubSeq(block, i - 2, i - 1) = CrLf)}
HeaderLine(block, i) ==
    LET end == FindFrom(block, i, CrLf) IN SubSeq(block, i, IF end = 0 THEN Len(block) ELSE end - 1)

\* parse_header_line, until there is none: a blank line or one without a colon ends
\* them.  The value of a header is the last of its name; <<>> if there is none.
HeaderValue(block, name) ==
    LET Ends(i) == \A j \in DOMAIN HeaderLine(block, i) : HeaderLine(block, i)[j] # Colon
        hits == {i \in HeaderStarts(block) :
                    /\ \A j \in HeaderStarts(block) : j <= i => ~Ends(j)
                    /\ StartsWith(HeaderLine(block, i), <<name, Colon>>)}
    IN IF hits = {} THEN <<>> ELSE Trimmed(Rest(HeaderLine(block, Max(hits)), 3))

\* mp_iterator_init
PartIterator(content_type, body) ==
    LET boundary == ParamValue(content_type, Boundary) IN
    [boundary |-> boundary, cursor |-> IF boundary = <<>> THEN <<>> ELSE body,
     done |-> boundary = <<>>]

\* The line end before a delimiter belongs to the delimiter.
MutantDataEnds(text, start, delimiter) == delimiter
DataEnds(text, start, delimiter) ==
    IF delimiter >= start + 2 /\ SubSeq(text, delimiter - 2, delimiter - 1) = CrLf
    THEN delimiter - 2 ELSE delimiter

\* What is left when a part was found between two delimiters: the second of them
\* begins the next one.
MutantOnward(text, first, second) == Rest(text, first)
Onward(text, first, second) == Rest(text, second)

\* mp_iterator_next
PartNext(it) ==
    LET c == it.cursor
        End == [result |-> "end_of_data", it |-> [it EXCEPT !.done = TRUE]]
        first == FindBoundary(c, 1, it.boundary)
        after == first + 2 + Len(it.boundary)
        headers == IF StartsWith(Rest(c, after), CrLf) THEN after + 2 ELSE after
        hend == FindFrom(c, headers, CrLf \o CrLf)
        start == hend + 4
        next == FindBoundary(c, start, it.boundary)
        block == SubSeq(c, headers, hend + 1)
    IN IF it.done \/ first = 0 THEN End
       ELSE IF StartsWith(Rest(c, after), DashDash) THEN End
       ELSE IF hend = 0 THEN End
       ELSE IF next = 0 THEN End
       ELSE [result |-> "ok",
             name |-> ParamValue(HeaderValue(block, ContentDisposition), Name),
             filename |-> ParamValue(HeaderValue(block, ContentDisposition), Filename),
             content_type |-> HeaderValue(block, ContentType),
             data |-> SubSeq(c, start, DataEnds(c, start, next) - 1),
             it |-> [it EXCEPT !.cursor = Onward(c, first, next)]]
=================================================================================
