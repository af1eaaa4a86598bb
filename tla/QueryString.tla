------------------------------- MODULE QueryString -------------------------------
(***************************************************************************)
(* http_query.c: the parameters of a query string, one by one or by name,  *)
(* raw or decoded.  Text is a sequence of byte values.                     *)
(***************************************************************************)
EXTENDS Integers, Sequences, FiniteSetsExt

Question == 63
Ampersand == 38
Equals == 61
Plus == 43
Percent == 37
Blank == 32

\* The first of some bytes at or behind a place, or the place behind the text.
FirstOf(text, from, bytes) == Min({i \in from..Len(text) : text[i] \in bytes} \cup {Len(text) + 1})

MutantHexValue(c) ==
    IF c \in 48..57 THEN c - 48 ELSE IF c \in 97..102 THEN 10 + (c - 97) ELSE -1
HexValue(c) ==
    IF c \in 48..57 THEN c - 48
    ELSE IF c \in 97..102 THEN 10 + (c - 97)
    ELSE IF c \in 65..70 THEN 10 + (c - 65)
    ELSE -1

\* What follows the first question mark, or all of it if there is none.
LocateQuery(path) ==
    LET mark == FirstOf(path, 1, {Question}) IN
    IF mark > Len(path) THEN path ELSE SubSeq(path, mark + 1, Len(path))

-------------------------------------------------------------------------------
(* The iterator. *)

QueryIterator(path) == [query |-> LocateQuery(path), cursor |-> 0]

\* http_query_iterator_next: empty pairs are skipped; without "=" the value is empty.
QueryNext(it) ==
    LET q == it.query
        n == Len(q)
        start == Min({i \in (it.cursor + 1)..n : q[i] # Ampersand} \cup {n + 1})
        name_end == FirstOf(q, start, {Equals, Ampersand})
        end == IF name_end <= n /\ q[name_end] = Equals THEN FirstOf(q, name_end + 1, {Ampersand}) ELSE name_end
    IN IF start > n THEN [result |-> "end_of_data", it |-> [it EXCEPT !.cursor = n]]
       ELSE [result |-> "ok", name |-> SubSeq(q, start, name_end - 1),
             value |-> SubSeq(q, name_end + 1, end - 1),
             it |-> [it EXCEPT !.cursor = IF end <= n THEN end ELSE n]]

-------------------------------------------------------------------------------
(* Looking up a name. *)

\* http_query_find: the first pair with that name.  Pairs begin behind a separator.
QueryFind(path, name) ==
    LET query == LocateQuery(path)
        starts == {i \in DOMAIN query :
                      query[i] # Ampersand /\ (i = 1 \/ query[i - 1] = Ampersand)}
        PairAt(i) == QueryNext([query |-> query, cursor |-> i - 1])
        hits == {i \in starts : PairAt(i).name = name}
    IN IF hits = {} THEN [result |-> "not_found"]
       ELSE [result |-> "ok", value |-> PairAt(Min(hits)).value]

\* What bytes stand for, up to the first escape that is none: of the decoding loop of
\* http_query_find_decoded, what does not depend on the room.
Decoded(raw) ==
    LET n == Len(raw)
        Put(byte, rest) == [result |-> rest.result, text |-> <<byte>> \o rest.text]
        from[i \in 1..(n + 1)] ==
            IF i > n THEN [result |-> "ok", text |-> <<>>]
            ELSE IF raw[i] = Plus THEN Put(Blank, from[i + 1])
            ELSE IF raw[i] # Percent THEN Put(raw[i], from[i + 1])
            ELSE IF i + 2 > n \/ HexValue(raw[i + 1]) < 0 \/ HexValue(raw[i + 2]) < 0
            THEN [result |-> "unexpected_char", text |-> <<>>]
            ELSE Put(HexValue(raw[i + 1]) * 16 + HexValue(raw[i + 2]), from[i + 3])
    IN from[1]

\* That loop, into a span of some size: room is asked for before each byte is looked
\* at, and an escape has to be whole.
Decode(raw, size) ==
    LET all == Decoded(raw) IN
    IF Len(all.text) > size \/ (Len(all.text) = size /\ all.result # "ok")
    THEN [result |-> "insufficient_size"]
    ELSE IF all.result = "ok" THEN all ELSE [result |-> all.result]

QueryFindDecoded(path, name, size) ==
    LET raw == QueryFind(path, name) IN
    IF raw.result = "ok" THEN Decode(raw.value, size) ELSE raw

\* http_query_value_needs_decoding
NeedsDecoding(value) == \E i \in DOMAIN value : value[i] \in {Percent, Plus}
=================================================================================
