------------------------------ MODULE RequestReader ------------------------------
(***************************************************************************)
(* One call of http_connection_receive_request (src/src/http_connection.c):*)
(* the blocking server's reader.  It reads the head into the front of the  *)
(* caller's buffer, together with whatever comes with it, and then the     *)
(* body into what the head left free.  A chunked body is decoded in place: *)
(* raw chunk stream and decoded body share the free part of the buffer,    *)
(* and the body is written over raw bytes already decoded.                 *)
(*                                                                         *)
(* As in ResponseReader a byte of the buffer is known by its offset in     *)
(* what the peer sends; what it says is data.  Every split of the stream   *)
(* into reads and every place where the peer may stop is a behaviour.      *)
(***************************************************************************)
EXTENDS Integers, Sequences, FiniteSetsExt, SequencesExt

CONSTANTS
    Requests,      \* what peers may send: [head, framing, length, bytes]
    Capacity,      \* size of the caller's buffer
    SizeModulus    \* chunk sizes are computed modulo this: 2^32

Byte(is) == [is |-> is, says |-> 0]
Digit(n) == [is |-> "digit", says |-> n]

Framings == {"none", "content_length", "chunked", "malformed"}

\* The head takes at least one byte; the bytes are those that follow it.
ASSUME RequestAssumption ==
    /\ Capacity \in Nat /\ SizeModulus \in Nat \ {0}
    /\ \A r \in Requests :
           /\ r.head \in Nat \ {0} /\ r.framing \in Framings /\ r.length \in Nat
           /\ r.bytes \in Seq([is : {"data", "digit", "extension", "cr", "lf"}, says : 0..15])

VARIABLES
    request, sent,   \* what the peer sends, and how much of it before it closes
    buffer,          \* the caller's buffer, as offsets into that; 0 was not written
    received,        \* bytes taken from the connection
    free,            \* maybe_read_body: where free_buffer starts
    raw_len, pos,    \* read_chunked_body: raw bytes in the free part, and parsed
    olen,            \* decoded bytes written there
    chunk,           \* chunk_size, then what remains of it
    body_start, body_length,   \* request->body
    at, result       \* where the call is; what it returns

stream == <<request, sent>>
raw == <<raw_len, pos, olen, chunk>>
body == <<body_start, body_length>>
vars == <<stream, buffer, received, free, raw, body, at, result>>

Positions == 0..(Capacity - 1)
At == {"head", "parse", "body", "size", "digits", "skip", "data", "data_end", "done"}
InChunks == at \in {"size", "digits", "skip", "data", "data_end"}
StreamLength == request.head + Len(request.bytes)
raw_cap == Capacity - free

TypeOK ==
    /\ request \in Requests /\ sent \in 0..StreamLength
    /\ buffer \in [Positions -> 0..StreamLength]
    /\ received \in 0..sent /\ free \in 0..Capacity
    /\ raw_len \in 0..Capacity /\ pos \in 0..Capacity /\ olen \in 0..Capacity
    /\ chunk \in 0..(SizeModulus - 1)
    /\ body_start \in 0..Capacity /\ body_length \in 0..Capacity
    /\ at \in At /\ result \in {"none", "ok", "error", "insufficient_size"}

Init ==
    /\ request \in Requests /\ sent \in 0..(request.head + Len(request.bytes))
    /\ buffer = [p \in Positions |-> 0]
    /\ received = 0 /\ free = 0
    /\ raw_len = 0 /\ pos = 0 /\ olen = 0 /\ chunk = 0
    /\ body_start = 0 /\ body_length = 0
    /\ at = "head" /\ result = "none"

-------------------------------------------------------------------------------
(* Reading from the connection. *)

Return(r) == at' = "done" /\ result' = r
Goto(a) == at' = a /\ UNCHANGED result

\* stream_read puts n more bytes at position p.
Take(p, n) ==
    /\ n \in 1..Min({Capacity - p, sent - received})
    /\ buffer' = [q \in Positions |->
                     IF q \in p..(p + n - 1) THEN received + (q - p) + 1 ELSE buffer[q]]
    /\ received' = received + n

TakesNothing == UNCHANGED <<buffer, received>>

\* The peer has closed: stream_read gives end_of_data or end_of_file, which for
\* is_error is no error.
Closed == sent = received

\* The socket fails, or await_progress gives up.
Fails == TakesNothing /\ Return("error")

\* read_until_headers_complete.
ReadHead ==
    /\ at = "head"
    /\ \/ received = Capacity /\ TakesNothing /\ Return("insufficient_size")
       \/ \E n \in 1..Capacity :
             /\ Take(received, n)
             /\ Goto(IF received + n >= request.head THEN "parse" ELSE "head")
       \/ received < Capacity /\ Closed /\ TakesNothing /\ Goto("parse")
       \/ received < Capacity /\ Fails
    /\ UNCHANGED <<stream, free, raw, body>>

\* ensure_buffered found less than it needs: one turn of its loop.  Here the end
\* of the data is an error.
EnsureBuffered ==
    /\ \/ raw_len = raw_cap /\ TakesNothing /\ Return("insufficient_size") /\ UNCHANGED raw_len
       \/ \E n \in 1..Capacity :
             Take(free + raw_len, n) /\ raw_len' = raw_len + n /\ UNCHANGED <<at, result>>
       \/ raw_len < raw_cap /\ Fails /\ UNCHANGED raw_len
    /\ UNCHANGED <<pos, olen, chunk, body>>

-------------------------------------------------------------------------------
(* http_request_parse, and maybe_read_body up to its first read. *)

\* The spans of the head were never written if the peer closed before it was
\* complete: parsing them fails, or finds a request in what happens to be there.
ParseGarbage ==
    /\ received < request.head
    /\ Return("error") \/ Return("ok")
    /\ UNCHANGED <<buffer, free, raw, body>>

\* What came with the head is the body's beginning.  Without framing, or with a
\* length of 0, it is left as the body.
Parse ==
    /\ at = "parse"
    /\ \/ ParseGarbage
       \/ /\ received >= request.head
          /\ free' = received
          /\ body_start' = request.head /\ body_length' = received - request.head
          /\ \/ request.framing = "malformed" /\ Return("error")
             \/ request.framing = "none" /\ Return("ok")
             \/ request.framing = "content_length" /\ request.length = 0 /\ Return("ok")
             \/ request.framing = "content_length" /\ request.length > 0 /\ Goto("body")
             \/ request.framing = "chunked" /\ Goto("size")
          /\ IF request.framing = "chunked"
             THEN LET rlen == Min({received - request.head, Capacity - received}) IN
                  /\ raw_len' = rlen /\ pos' = 0 /\ olen' = 0 /\ chunk' = 0
                  /\ buffer' = [p \in Positions |->
                                   IF p \in received..(received + rlen - 1)
                                   THEN buffer[request.head + (p - received)] ELSE buffer[p]]
             ELSE UNCHANGED <<raw, buffer>>
    /\ UNCHANGED <<stream, received>>

\* One turn of read_remaining_body.  The caller takes the peer's close for ok.
ReadBody ==
    /\ at = "body"
    /\ \/ body_length >= request.length /\ TakesNothing /\ Return("ok") /\ UNCHANGED body_length
       \/ /\ body_length < request.length
          /\ \/ received = Capacity /\ TakesNothing /\ Return("insufficient_size")
                /\ UNCHANGED body_length
             \/ \E n \in 1..Capacity :
                   Take(received, n) /\ body_length' = body_length + n /\ UNCHANGED <<at, result>>
             \/ received < Capacity /\ Closed /\ TakesNothing /\ Return("ok") /\ UNCHANGED body_length
             \/ received < Capacity /\ Fails /\ UNCHANGED body_length
    /\ UNCHANGED <<stream, free, raw, body_start>>

-------------------------------------------------------------------------------
(* read_chunked_body. *)

Raw(p) == request.bytes[buffer[free + p] - request.head]
Has(need) == raw_len - pos >= need

\* At least one byte of the size line is there.
SizeLine ==
    /\ at = "size"
    /\ IF Has(1)
       THEN chunk' = 0 /\ Goto("digits") /\ TakesNothing /\ UNCHANGED <<raw_len, pos, olen, body>>
       ELSE EnsureBuffered
    /\ UNCHANGED <<stream, free>>

\* The digits that are in the buffer; where it ends the number ends.
Digits ==
    /\ at = "digits"
    /\ IF Has(1) /\ Raw(pos).is = "digit"
       THEN chunk' = (chunk * 16 + Raw(pos).says) % SizeModulus /\ pos' = pos + 1
            /\ UNCHANGED <<at, result>>
       ELSE Goto("skip") /\ UNCHANGED <<pos, chunk>>
    /\ TakesNothing /\ UNCHANGED <<stream, free, raw_len, olen, body>>

\* Whatever else the line holds, up to its line feed; a size of 0 ends the body.
SkipLine ==
    /\ at = "skip"
    /\ IF Has(1)
       THEN /\ pos' = pos + 1
            /\ IF Raw(pos).is # "lf" THEN UNCHANGED <<at, result, body>>
               ELSE IF chunk = 0
               THEN Return("ok") /\ body_start' = free /\ body_length' = olen
               ELSE Goto("data") /\ UNCHANGED body
            /\ TakesNothing /\ UNCHANGED <<raw_len, olen, chunk>>
       ELSE EnsureBuffered
    /\ UNCHANGED <<stream, free>>

\* How many bytes of the chunk to decode now.
Takeable ==
    LET take == Min({raw_len - pos, chunk}) IN
    IF olen + take > raw_cap THEN raw_cap - olen ELSE take

\* The decoded bytes move down within the free part.
Decode(take) ==
    /\ buffer' = [p \in Positions |->
                     IF p \in (free + olen)..(free + olen + take - 1)
                     THEN buffer[p + (pos - olen)] ELSE buffer[p]]
    /\ olen' = olen + take /\ pos' = pos + take /\ chunk' = chunk - take

ChunkData ==
    /\ at = "data"
    /\ IF chunk = 0 THEN Goto("data_end") /\ TakesNothing /\ UNCHANGED <<raw, body>>
       ELSE IF ~Has(1) THEN EnsureBuffered
       ELSE IF Takeable = 0
       THEN Return("insufficient_size") /\ TakesNothing /\ UNCHANGED <<raw, body>>
       ELSE Decode(Takeable) /\ UNCHANGED <<received, raw_len, body, at, result>>
    /\ UNCHANGED <<stream, free>>

\* A CR and then a line feed are skipped, if they are there.
MutantAfterCr == pos
AfterCr == IF Raw(pos).is = "cr" THEN pos + 1 ELSE pos

ChunkEnd ==
    /\ at = "data_end"
    /\ IF Has(2)
       THEN /\ pos' = (IF Raw(AfterCr).is = "lf" THEN AfterCr + 1 ELSE AfterCr)
            /\ Goto("size") /\ TakesNothing /\ UNCHANGED <<raw_len, olen, chunk, body>>
       ELSE EnsureBuffered
    /\ UNCHANGED <<stream, free>>

\* out_buffer_remainder begins here (http_connection_receive_request).
MutantRemainderStart == free
RemainderStart ==
    IF body_length <= Capacity - free THEN free + body_length ELSE Capacity

Next == ReadHead \/ Parse \/ ReadBody \/ SizeLine \/ Digits \/ SkipLine \/ ChunkData \/ ChunkEnd

Spec == Init /\ [][Next]_vars
-------------------------------------------------------------------------------
(* Correctness. *)

Done(r) == at = "done" /\ result = r
HeadRead == received >= request.head

\* The bytes request->body stands for, as offsets.
BodyOffsets == [i \in 1..body_length |-> buffer[body_start + i - 1]]

\* Where a chunked request of whole chunks has its body.
ChunkedData ==
    {request.head + i : i \in {j \in 1..Len(request.bytes) : request.bytes[j].is = "data"}}

InOrder == \A i, j \in 1..body_length : i < j => BodyOffsets[i] < BodyOffsets[j]

\* A request the code accepts has in its body the bytes the peer sent: the data
\* of all its chunks, once and in order, or the bytes that follow the head.  The
\* chunk stream is decoded over itself, from a prefix that was moved and possibly
\* cut (read_chunked_body, http_connection.c).
BodyIsIntact ==
    Done("ok") /\ HeadRead =>
        IF request.framing = "chunked"
        THEN InOrder /\ {BodyOffsets[i] : i \in 1..body_length} = ChunkedData
        ELSE \A i \in 1..body_length : BodyOffsets[i] = request.head + i

\* The part of the buffer the caller is told is free holds no byte of the head or
\* of the body, nor does the body reach into the head.
RemainderIsFree ==
    Done("ok") /\ HeadRead =>
        /\ body_start \in request.head..Capacity
        /\ body_start + body_length <= RemainderStart

(* Why: an inductive invariant. *)

\* The raw bytes that are not parsed yet are the peer's, in order.
UnreadIsIntact ==
    InChunks => \A p \in pos..(raw_len - 1) : buffer[free + p] = request.head + p + 1

\* What is decoded is in order, and lies behind what is parsed ("output trails
\* input", the comment before the memmove).
DecodedInOrder ==
    InChunks =>
        /\ olen <= pos /\ pos <= raw_len /\ raw_len <= raw_cap
        /\ \A i \in 0..(olen - 1) : buffer[free + i] \in (request.head + 1)..(request.head + pos)
        /\ \A i, j \in 0..(olen - 1) : i < j => buffer[free + i] < buffer[free + j]

\* The raw buffer was cut only if it is full, so that no gap is ever read over.
NoGap == InChunks => free >= request.head /\ (raw_len < raw_cap => received = request.head + raw_len)

\* What is read at the front of the buffer, head and plain body.
FrontIsIntact ==
    at \in {"head", "parse", "body"} =>
        received <= Capacity /\ \A p \in 0..(received - 1) : buffer[p] = p + 1

BodyAt ==
    at = "body" => /\ free \in request.head..received /\ body_start = request.head
                   /\ body_start + body_length = received /\ request.framing # "chunked"

\* The body of a request that was accepted.
AcceptedBody ==
    Done("ok") /\ HeadRead =>
        /\ InOrder
        /\ request.framing # "chunked" =>
               \A i \in 1..body_length : BodyOffsets[i] = request.head + i

IInv ==
    /\ TypeOK /\ UnreadIsIntact /\ DecodedInOrder /\ NoGap /\ FrontIsIntact /\ BodyAt
    /\ AcceptedBody /\ RemainderIsFree
    /\ InChunks => request.framing = "chunked" /\ HeadRead
    /\ result # "none" <=> at = "done"

(* What is known of a chunked body, if every size has one digit. *)

\* A size at i, whose line ends at e.
SizeLineAt(b, i, e) ==
    /\ i \in 1..Len(b) /\ b[i].is = "digit" /\ e \in (i + 1)..Len(b) /\ b[e].is = "lf"
    /\ \A j \in (i + 1)..(e - 1) : b[j].is \in {"extension", "cr"}

\* So much data follows, then a line end, then the next size.
DataBehind(b, e, n) ==
    /\ \A j \in (e + 1)..(e + n) : j < Len(b) /\ b[j].is = "data"
    /\ \E d \in {e + n + 1, e + n + 2} :
          /\ d < Len(b) /\ b[d].is = "lf" /\ b[d + 1].is = "digit"
          /\ d = e + n + 2 => b[e + n + 1].is = "cr"

NothingBehind(b, e) == \A j \in e..Len(b) : b[j].is # "data"

OneDigitChunks(b) ==
    /\ Len(b) > 0 /\ b[1].is = "digit"
    /\ \A i \in 1..Len(b) :
          b[i].is = "digit" =>
              \E e \in 1..Len(b) :
                  /\ SizeLineAt(b, i, e)
                  /\ IF b[i].says = 0 THEN NothingBehind(b, e) ELSE DataBehind(b, e, b[i].says)

\* Sizes of more digits can be cut in two by a read, and are then misread.
OneDigitSizes ==
    /\ SizeModulus > 15
    /\ \A r \in Requests : r.framing = "chunked" => OneDigitChunks(r.bytes)

\* Where in the chunk stream the parser is.
AtSize(b) == pos < Len(b) /\ b[pos + 1].is = "digit"

AtDigits(b) ==
    \/ chunk = 0 /\ pos < raw_len /\ AtSize(b)
    \/ pos \in 1..Len(b) /\ b[pos].is = "digit" /\ chunk = b[pos].says

InSizeLine(b) ==
    \E i \in 1..Len(b) :
        /\ i <= pos /\ b[i].is = "digit" /\ chunk = b[i].says
        /\ \A j \in (i + 1)..pos : j <= Len(b) /\ b[j].is \in {"extension", "cr"}

InData(b) ==
    \E e, n \in 0..Len(b) : DataBehind(b, e, n) /\ chunk <= n /\ pos + chunk = e + n

AtItsPlace ==
    /\ at = "size" => AtSize(request.bytes)
    /\ at = "digits" => AtDigits(request.bytes)
    /\ at = "skip" => InSizeLine(request.bytes)
    /\ at \in {"data", "data_end"} => InData(request.bytes)
    /\ at = "data_end" => chunk = 0

\* The data in front of it is what is decoded.
DecodedIsData ==
    InChunks => \A j \in 1..pos :
        request.bytes[j].is = "data" <=> \E i \in 0..(olen - 1) : buffer[free + i] = request.head + j

ChunkInv == AtItsPlace /\ DecodedIsData /\ BodyIsIntact

(* What the documentation says, and the code does not do. *)

\* http_connection.c: "Reads `needed` more bytes from the stream ... Updates
\* `body_so_far` to span the full body."  The peer may close before.
OkBodyIsWhole ==
    Done("ok") /\ HeadRead /\ request.framing = "content_length" => body_length >= request.length
=================================================================================
