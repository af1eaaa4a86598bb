--------------------------------- MODULE Message ---------------------------------
(***************************************************************************)
(* Headers and the messages around them: a header object (http_headers.c)  *)
(* is filled line by line, serialised with a body (http_request.c,         *)
(* http_response.c), parsed at the other end, and looked up and iterated.  *)
(* The other end is the blocking one, which parses a message in one go, or *)
(* the server's incremental one (http_request_parser.c).                   *)
(*                                                                         *)
(* Text is a sequence of tokens: names, pieces of values, ":", "space",    *)
(* and "crlf", which may also be data of a body.  A span is the text it    *)
(* shows.  The first line of a message is the token "start".               *)
(***************************************************************************)
EXTENDS Integers, Sequences, FiniteSetsExt

CONSTANTS
    Names, Values,   \* of the headers this side adds
    PeerLines,       \* the header lines a peer may write
    Bodies,
    Room,            \* sizes of the buffer headers are added to
    MaxLines         \* bound: header lines in a message

Text == Seq(STRING)

\* A value has no blanks around it, and no line ends in it.
IsValue(value) ==
    /\ value \in Text /\ \A i \in DOMAIN value : value[i] # "crlf"
    /\ value # <<>> => value[1] # "space" /\ value[Len(value)] # "space"

\* A line as it is written, with the name and the value that it means; a line
\* that is no header has the name "".
Line(text, name, value) == [text |-> text, name |-> name, value |-> value]
NoHeader(line) ==
    /\ line.name = "" /\ line.text # <<>>
    /\ \A i \in DOMAIN line.text : line.text[i] \notin {":", "crlf"}
\* Any blanks around the value, and the name in small letters or, for one of them,
\* in capitals.
IsHeader(line) ==
    LET text == line.text IN
    /\ IsValue(line.value) /\ Len(text) >= 2
    /\ text[1] \notin {"crlf", ":", "space", ""} /\ text[2] = ":"
    /\ line.name = IF text[1] = "LENGTH" THEN "length" ELSE text[1]
    /\ \E first \in 3..(Len(text) + 1), last \in 2..Len(text) :
          /\ first <= last + 1 /\ line.value = SubSeq(text, first, last)
          /\ \A i \in 3..Len(text) : i < first \/ i > last => text[i] = "space"

ASSUME NamesAssumption ==
    \A name \in Names : name \in STRING /\ name \notin {"crlf", ":", "space", "LENGTH", ""}
ASSUME ValuesAssumption == \A value \in Values : IsValue(value)
ASSUME PeerLinesAssumption ==
    \A line \in PeerLines : line.text \in Text /\ (NoHeader(line) \/ IsHeader(line))
ASSUME BodiesAssumption == \A body \in Bodies : body \in Text /\ Len(body) <= 4   \* bound: digits
ASSUME RoomAssumption == Room \subseteq Nat /\ MaxLines \in Nat

VARIABLES
    block,      \* headers->buffer up to used_size
    room,       \* size of headers->buffer
    iterator,   \* headers->iterator
    draft,      \* the header lines that a peer has written
    lines,      \* the header lines that were added or written
    wire,       \* the message, or <<>> while there is none
    sent, got,  \* its body; the body that was parsed
    at,         \* "built", or the parser that took it, or "refused"
    returned,   \* by the last call
    pass,       \* what get_next gave since it last ended, line by line
    begun       \* how much of the block there was to give by then

message_vars ==
    <<block, room, iterator, draft, lines, wire, sent, got, at, returned, pass, begun>>

MessageInit ==
    /\ block = <<>> /\ room \in Room /\ iterator = <<>> /\ draft = <<>>
    /\ lines = <<>> /\ wire = <<>> /\ sent = <<>> /\ got = <<>>
    /\ at = "built" /\ returned = "none" /\ pass = <<>> /\ begun = 0

-------------------------------------------------------------------------------
(* Spans: where a text occurs in another, and the parts before and behind it. *)

Crlf == <<"crlf">>
Terminator == Crlf \o Crlf

Occurs(what, text) ==
    {i \in 1..(Len(text) - Len(what) + 1) : SubSeq(text, i, i + Len(what) - 1) = what}
Before(what, text) == SubSeq(text, 1, Min(Occurs(what, text)) - 1)
Behind(what, text) == SubSeq(text, Min(Occurs(what, text)) + Len(what), Len(text))

\* span_iterate with crlf: the lines that are not empty, by where they begin.
LineStarts(text) == {i \in DOMAIN text : text[i] # "crlf" /\ (i = 1 \/ text[i - 1] = "crlf")}
LineEnd(text, i) == Min({j \in i..Len(text) : text[j] = "crlf"} \cup {Len(text) + 1})
LineAt(text, i) == SubSeq(text, i, LineEnd(text, i) - 1)

TrimOptionalWhitespace(value) ==
    LET ink == {i \in DOMAIN value : value[i] # "space"} IN
    IF ink = {} THEN <<>> ELSE SubSeq(value, Min(ink), Max(ink))

\* Names are compared without their case.
Lower(name) == IF name = <<"LENGTH">> THEN <<"length">> ELSE name

-------------------------------------------------------------------------------
(* http_headers.c *)

\* http_headers_find takes the first line with that name.  A line without a colon
\* is passed over.
MutantNamed(line, name) ==
    Occurs(<<":", "space">>, line) # {} /\ Lower(Before(<<":", "space">>, line)) = <<name>>
Named(line, name) ==
    Occurs(<<":">>, line) # {} /\ Lower(Before(<<":">>, line)) = <<name>>

NotFound == <<"not_found">>
Find(text, name) ==
    LET hits == {i \in LineStarts(text) : Named(LineAt(text, i), name)} IN
    IF hits = {} THEN NotFound
    ELSE TrimOptionalWhitespace(Behind(<<":">>, LineAt(text, Min(hits))))

\* http_headers_parse: up to the last blank line, or else to the last line's end.
HeadersParse(text) ==
    IF Occurs(Terminator, text) # {} THEN SubSeq(text, 1, Max(Occurs(Terminator, text)))
    ELSE IF Occurs(Crlf, text) # {} THEN SubSeq(text, 1, Max(Occurs(Crlf, text)))
    ELSE text

\* http_headers_add takes a copy that is empty for one that does not fit: whether an
\* empty value can be added is up to span_copy.
Add(name, value) ==
    LET text == <<name, ":", "space">> \o value IN
    /\ at = "built" /\ wire = <<>> /\ draft = <<>> /\ Len(lines) < MaxLines
    /\ \/ /\ Len(block) + Len(text) + 1 > room \/ value = <<>>
          /\ returned' = "overflow" /\ UNCHANGED <<block, lines>>
       \/ /\ Len(block) + Len(text) + 1 <= room
          /\ block' = block \o text \o Crlf
          /\ lines' = Append(lines, Line(text, name, value)) /\ returned' = "ok"
    /\ UNCHANGED <<room, iterator, draft, wire, sent, got, at, pass, begun>>

\* A block of no lines may still hold the end of the head.
ToGive(text) == IF text = Crlf THEN 0 ELSE Len(text)

\* http_headers_get_next ends a pass by beginning the next one, with all the lines
\* there are by then.
MutantRewound == iterator
Rewound == block

GetNext ==
    /\ IF block = <<>> THEN returned' = "eof" /\ UNCHANGED <<iterator, pass, begun>>
       ELSE IF iterator \in {<<>>, Crlf}
       THEN /\ returned' = "eof" /\ iterator' = Rewound
            /\ pass' = <<>> /\ begun' = ToGive(block)
       ELSE IF Occurs(Crlf, iterator) = {}
       THEN returned' = "error" /\ UNCHANGED <<iterator, pass, begun>>
       ELSE LET current == Before(Crlf, iterator) IN
            /\ iterator' = Behind(Crlf, iterator)
            /\ returned' = IF Occurs(<<":", "space">>, current) = {} THEN "error" ELSE "ok"
            /\ pass' = pass \o current \o Crlf /\ UNCHANGED begun
    /\ UNCHANGED <<block, room, draft, lines, wire, sent, got, at>>

-------------------------------------------------------------------------------
(* Messages: http_request.c, http_response.c, http_request_parser.c. *)

Digits == [n \in 0..4 |-> <<"0", "1", "2", "3", "4">>[n + 1]]
Numbers == {<<Digits[n]>> : n \in DOMAIN Digits}

\* The value that some lines give a name.
Meant(ls, name) ==
    LET hits == {i \in DOMAIN ls : ls[i].name = name} IN
    IF hits = {} THEN NotFound ELSE ls[Min(hits)].value

\* The sender gives a body its length, or no length, or one that is no number.
Agree(ls, body) == Meant(ls, "length") \in Numbers => Meant(ls, "length") = <<Digits[Len(body)]>>

\* http_request_serialize_to, http_response_serialize_to
Serialize(body) ==
    /\ at = "built" /\ wire = <<>> /\ draft = <<>> /\ Agree(lines, body)
    /\ sent' = body /\ wire' = <<"start", "crlf">> \o block \o Crlf \o body
    /\ UNCHANGED <<block, room, iterator, draft, lines, got, at, returned, pass, begun>>

\* Another program may write its lines differently.  A message that is parsed in one
\* go may lack its blank line, and a single header line its own end.
PeerWrites(line) ==
    /\ at = "built" /\ wire = <<>> /\ block = <<>> /\ Len(lines) < MaxLines
    /\ draft' = draft \o line.text \o Crlf /\ lines' = Append(lines, line)
    /\ UNCHANGED <<block, room, iterator, wire, sent, got, at, returned, pass, begun>>
PeerSends(body, lacks) ==
    LET text == <<"start", "crlf">> \o draft \o Crlf \o body
    IN /\ at = "built" /\ wire = <<>> /\ block = <<>> /\ Agree(lines, body)
       /\ lacks > 0 => body = <<>> /\ lines # <<>>
       /\ lacks > 1 => Len(lines) = 1
       /\ sent' = body /\ wire' = SubSeq(text, 1, Len(text) - lacks)
       /\ UNCHANGED <<block, room, iterator, draft, lines, got, at, returned, pass, begun>>

Parsed(text) ==
    /\ block' = HeadersParse(text) /\ room' = Len(text) /\ iterator' = HeadersParse(text)
    /\ pass' = <<>> /\ begun' = ToGive(HeadersParse(text)) /\ returned' = "ok"

\* http_request_parse, http_response_parse: the start line, then the headers up to
\* the first blank line, the rest being body.
BlankLine(text) == Min(Occurs(Terminator, text))

ParseWhole ==
    LET rest == Behind(Crlf, wire) IN
    /\ at = "built" /\ wire # <<>> /\ at' = "whole"
    /\ IF Occurs(Terminator, rest) # {}
       THEN /\ Parsed(SubSeq(rest, 1, BlankLine(rest)))
            /\ got' = SubSeq(rest, BlankLine(rest) + 2, Len(rest))
       ELSE Parsed(rest) /\ got' = <<>>
    /\ UNCHANGED <<draft, lines, wire, sent>>

\* http_request_parser_feed with all of it: the first blank line ends the head, and
\* the body is as long as Content-Length says.
ParseHead ==
    LET end == BlankLine(wire) + 1
        rest == Behind(Crlf, SubSeq(wire, 1, end))
        length == Find(HeadersParse(rest), "length")
        size == {n \in DOMAIN Digits : length = <<Digits[n]>>}
    IN /\ at = "built" /\ Occurs(Terminator, wire) # {}
       /\ IF (length # NotFound /\ size = {}) \/ Find(HeadersParse(rest), "encoding") # NotFound
          THEN at' = "refused" /\ returned' = "error"
               /\ UNCHANGED <<block, room, iterator, got, pass, begun>>
          ELSE /\ Parsed(rest) /\ at' = "incremental"
               /\ got' = IF size = {} THEN <<>> ELSE SubSeq(wire, end + 1, end + Max(size))
       /\ UNCHANGED <<draft, lines, wire, sent>>

MessageNext ==
    \/ \E name \in Names, value \in Values : Add(name, value)
    \/ \E body \in Bodies : Serialize(body)
    \/ \E line \in PeerLines : PeerWrites(line)
    \/ \E body \in Bodies, lacks \in 0..2 : PeerSends(body, lacks)
    \/ ParseWhole \/ ParseHead \/ GetNext

MessageSpec == MessageInit /\ [][MessageNext]_message_vars

-------------------------------------------------------------------------------
(* Correctness. *)

\* A message without headers loses its body, or takes it for headers.
BodyHasHeaders == lines # <<>> \/ sent = <<>>
Received == at \in {"whole", "incremental"}

\* What one end says is what the other end finds: each header, however its line is
\* written, and the body, whatever bytes are in it.  (trim_optional_whitespace and
\* http_headers_find, http_headers.c.)
MessageComesBack ==
    /\ \A name \in Names :
          at = "built" /\ wire = <<>> /\ draft = <<>> => Find(block, name) = Meant(lines, name)
    /\ Received /\ BodyHasHeaders =>
        /\ \A name \in Names : Find(block, name) = Meant(lines, name)
        /\ at = "whole" \/ Meant(lines, "length") # NotFound => got = sent

\* A pass of http_headers_get_next that ends has given back, line by line, all that was
\* there when it began, once and in order, with or without an #error for some lines.
PassesAreComplete ==
    [][GetNext /\ returned' = "eof" /\ BodyHasHeaders =>
           pass = SubSeq(block, 1, begun)]_message_vars
=================================================================================
