---------------------------------- MODULE Forms ----------------------------------
(***************************************************************************)
(* A form on its way to a handler: the same fields as a query string       *)
(* (http_query.c) or as a multipart/form-data body (multipart.c), written  *)
(* field by field by somebody who knows the rules, or a text of somebody   *)
(* who does not; and read with the iterators.                              *)
(***************************************************************************)
EXTENDS QueryString, Multipart

CONSTANTS
    FieldNames,    \* what names of fields may be
    Encodings,     \* and values, with the ways to write them in a query
    Boundaries,    \* of a multipart body
    MaxFields,     \* bound: fields of a form
    Sizes,         \* of the span a value is decoded into
    Texts          \* what somebody may send who does not know the rules

Bytes == Seq(0..255)
FieldValues == {encoding.value : encoding \in Encodings}

\* What stands for a byte in a query: itself, a plus sign for a blank, or an escape.
HexDigits(n) == IF n < 10 THEN {48 + n} ELSE {65 + (n - 10), 97 + (n - 10)}
Escapes(c) == {<<Percent, hi, lo>> : hi \in HexDigits(c \div 16), lo \in HexDigits(c % 16)}
Writings(c) ==
    Escapes(c) \cup (IF c \in {Percent, Plus, Ampersand} THEN {} ELSE {<<c>>})
               \cup (IF c = Blank THEN {<<Plus>>} ELSE {})

\* The bytes of a value are written one behind the other.
Encodes(raw, value) ==
    \E at \in [1..(Len(value) + 1) -> 1..(Len(raw) + 1)] :
        /\ at[1] = 1 /\ at[Len(value) + 1] = Len(raw) + 1
        /\ \A i \in 1..Len(value) :
              at[i] < at[i + 1] /\ SubSeq(raw, at[i], at[i + 1] - 1) \in Writings(value[i])

ASSUME FieldNamesAssumption ==
    \A name \in FieldNames :
        /\ name \in Bytes /\ name # <<>>
        /\ \A i \in DOMAIN name : name[i] \notin {Ampersand, Equals, Semicolon, Cr, Lf}
ASSUME EncodingsAssumption ==
    \A encoding \in Encodings :
        encoding.value \in Bytes /\ encoding.raw \in Bytes /\ Encodes(encoding.raw, encoding.value)
ASSUME BoundariesAssumption ==
    \A boundary \in Boundaries :
        /\ boundary \in Bytes /\ boundary # <<>>
        /\ \A i \in DOMAIN boundary : boundary[i] \notin {Quote, Semicolon, Cr, Lf}
ASSUME SizesAssumption == MaxFields \in Nat /\ Sizes \subseteq Nat
ASSUME TextsAssumption == Texts \subseteq Bytes

VARIABLES
    kind,             \* a "query" or "parts"; "query_text" and "parts_text" make no sense
    boundary, choice, \* how a body is written
    fields, form,     \* the fields, <<name, value>>, and the text they were written as
    ends,             \* where each of them ends in it
    opened,           \* the reader has begun
    reader,           \* the iterator, of that kind
    seen,             \* the fields it gave
    result            \* of the last call

form_vars == <<kind, boundary, choice, fields, form, ends, opened, reader, seen, result>>
writerVars == <<kind, boundary, choice, fields, form, ends>>
readerVars == <<opened, reader, seen, result>>

-------------------------------------------------------------------------------
(* The sender (external). *)

\* An empty value may come with its "=" or without.
Pair(name, raw, bare) ==
    name \o (IF raw = <<>> /\ bare THEN <<>> ELSE <<Equals>>) \o raw \o <<Ampersand>>

\* A part has a name, and a type or not.
DashBoundary(bound) == DashDash \o bound
Part(bound, name, value, typed) ==
    DashBoundary(bound) \o CrLf
    \o (IF typed THEN <<ContentType, Colon, Space, FormData>> \o CrLf ELSE <<>>)
    \o <<ContentDisposition, Colon, Space, FormData, Semicolon, Space, Name, Equal, Quote>>
    \o name \o <<Quote>> \o CrLf \o CrLf \o value \o CrLf

ContentTypeOf(bound, quoted) ==
    <<FormData, Semicolon, Space, Boundary, Equal>>
    \o (IF quoted THEN <<Quote>> \o bound \o <<Quote>> ELSE bound)

\* The sender picks a boundary that its values do not hold.
Delimits(bound, value) == FindFrom(value, 1, DashBoundary(bound)) = 0

\* The text as it is sent.
Sent ==
    CASE kind = "query" -> <<47, Question>> \o form
      [] kind = "parts" -> form \o DashBoundary(boundary) \o DashDash
      [] OTHER -> form

-------------------------------------------------------------------------------
FormInit ==
    /\ fields = <<>> /\ ends = <<>> /\ opened = FALSE /\ reader = QueryIterator(<<>>)
    /\ seen = <<>> /\ result = "ok"
    /\ \/ kind = "query" /\ form = <<>> /\ boundary = <<>> /\ choice \in BOOLEAN
       \/ kind = "parts" /\ form = <<>> /\ boundary \in Boundaries /\ choice \in BOOLEAN
       \/ kind = "query_text" /\ form \in Texts /\ boundary = <<>> /\ choice = FALSE
       \/ kind = "parts_text" /\ form \in Texts /\ boundary \in Boundaries /\ choice = FALSE

Writes(name, value, text) ==
    /\ ~opened /\ Len(fields) < MaxFields
    /\ fields' = Append(fields, <<name, value>>)
    /\ form' = form \o text /\ ends' = Append(ends, Len(form) + Len(text))
    /\ UNCHANGED <<kind, boundary, choice, readerVars>>

WritePair(name, encoding) ==
    kind = "query" /\ Writes(name, encoding.value, Pair(name, encoding.raw, choice))

WritePart(name, value) ==
    kind = "parts" /\ Delimits(boundary, value)
    /\ Writes(name, value, Part(boundary, name, value, choice))

Open ==
    /\ ~opened /\ opened' = TRUE
    /\ reader' = IF kind \in {"query", "query_text"} THEN QueryIterator(Sent)
                 ELSE PartIterator(ContentTypeOf(boundary, choice), Sent)
    /\ UNCHANGED <<writerVars, seen, result>>

\* A value is decoded with as much room as it needs.
NextPair ==
    /\ opened /\ kind \in {"query", "query_text"} /\ result = "ok"
    /\ LET next == QueryNext(reader) IN
       /\ reader' = next.it /\ result' = next.result
       /\ seen' = IF next.result # "ok" THEN seen
                  ELSE Append(seen, <<next.name, Decode(next.value, Len(next.value))>>)
    /\ UNCHANGED <<writerVars, opened>>

NextPart ==
    /\ opened /\ kind \in {"parts", "parts_text"} /\ result = "ok"
    /\ LET next == PartNext(reader) IN
       /\ reader' = next.it /\ result' = next.result
       /\ seen' = IF next.result # "ok" THEN seen
                  ELSE Append(seen, <<next.name, [result |-> "ok", text |-> next.data]>>)
    /\ UNCHANGED <<writerVars, opened>>

FormNext ==
    \/ \E name \in FieldNames, encoding \in Encodings : WritePair(name, encoding)
    \/ \E name \in FieldNames, value \in FieldValues : WritePart(name, value)
    \/ Open \/ NextPair \/ NextPart

FormSpec == FormInit /\ [][FormNext]_form_vars

-------------------------------------------------------------------------------
(* Correctness. *)

Proper == kind \in {"query", "parts"}

\* The fields of a form come back one by one, in order and whole, whatever bytes are
\* in them, and none is left when the iterator ends.  (http_query_iterator_next and
\* mp_iterator_next.)
FieldsComeBack ==
    Proper =>
        /\ Len(seen) <= Len(fields)
        /\ \A i \in DOMAIN seen : seen[i] = <<fields[i][1], [result |-> "ok", text |-> fields[i][2]]>>
        /\ result # "ok" => Len(seen) = Len(fields)

\* Looking a name up gives the first field of that name, decoded, if there is room
\* for it, and never a part of it; raw, it is the same if it needs no decoding
\* (http_query_find_decoded and http_query_value_needs_decoding, http_query.h).
LookupIsFirst ==
    kind = "query" =>
        \A name \in FieldNames, size \in Sizes :
            LET hits == {i \in DOMAIN fields : fields[i][1] = name}
                found == QueryFindDecoded(Sent, name, size)
            IN IF hits = {} THEN found.result = "not_found"
               ELSE LET value == fields[Min(hits)][2]
                        raw == QueryFind(Sent, name).value
                    IN
                    /\ NeedsDecoding(raw) \/ raw = value
                    /\ IF Len(value) > size THEN found.result = "insufficient_size"
                       ELSE found = [result |-> "ok", text |-> value]

\* Every call that gives something has moved on, whatever the text is: the iteration
\* ends.
Left == IF kind \in {"query", "query_text"} THEN Len(reader.query) - reader.cursor
        ELSE Len(reader.cursor)
IterationAdvances ==
    [][NextPair \/ NextPart => (result' = "ok" => Left' < Left)]_form_vars
=================================================================================
