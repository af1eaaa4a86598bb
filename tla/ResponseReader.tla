----------------------------- MODULE ResponseReader -----------------------------
(***************************************************************************)
(* How a client reads the body of a response (response_body_reader of      *)
(* src/src/http_connection.c): a window of the caller's buffer is filled   *)
(* from the connection, framing is consumed from its start, and body bytes *)
(* are handed to the caller's handler or, without one, moved down to the   *)
(* front of the same window, where the body accumulates.                   *)
(*                                                                         *)
(* A byte of the window is known by where it comes from: its offset in the *)
(* bytes the peer sends after the head.  What is in the window, and where, *)
(* is the point of this module; what a byte says is only data, a digit of  *)
(* a framing line, CR, or the line feed that ends a line and then carries  *)
(* the number the line says.                                               *)
(***************************************************************************)
EXTENDS Integers, Sequences, FiniteSetsExt, SequencesExt

CONSTANTS
    Responses,   \* bodies a peer may send: [framing, length, bytes]
    Capacity     \* size of the window

Malformed == -1
Byte(is) == [is |-> is, says |-> 0]
LineFeed(n) == [is |-> "lf", says |-> n]     \* ends a line that says n

ASSUME ReaderAssumption ==
    /\ Capacity \in Nat
    /\ \A r \in Responses :
           /\ r.framing \in {"none", "content_length", "chunked", "until_close"}
           /\ r.length \in Nat
           /\ r.bytes \in Seq([is : {"data", "digit", "cr", "lf"}, says : Nat \cup {Malformed}])

VARIABLES
    response, sent,      \* what the peer sends, and how much of it before it closes
    handler,             \* body_handler is not NULL
    buffer, start, end, stored_length,   \* the reader
    received,            \* bytes taken from the connection
    scanned,             \* read_line: bytes after start that hold no line feed
    length,              \* pass_through: body bytes still to pass on
    at,                  \* where the reader is
    result,              \* what receive_response returns
    delivered            \* history: offsets of the bytes given to the handler

window == <<buffer, start, end, stored_length>>
vars == <<response, sent, handler, window, received, scanned, length, at, result, delivered>>

Positions == 0..(Capacity - 1)
At == {"pass", "size", "chunk", "chunk_end", "trailer", "drain", "done"}

\* The body that response r carries, as offsets of its bytes.  A chunked one is all
\* that is not framing.
DataOf(bytes) == {i \in 1..Len(bytes) : bytes[i].is = "data"}

BodyOf(r) ==
    CASE r.framing = "none"           -> {}
      [] r.framing = "content_length" -> 1..r.length
      [] r.framing = "until_close"    -> 1..sent
      [] r.framing = "chunked"        -> DataOf(r.bytes)

\* What has been handed over of it.
BodySoFar == IF handler THEN delivered ELSE [i \in 1..stored_length |-> buffer[i - 1]]

TypeOK ==
    /\ response \in Responses /\ sent \in 0..Len(response.bytes) /\ handler \in BOOLEAN
    /\ buffer \in [Positions -> 0..Len(response.bytes)]
    /\ start \in 0..Capacity /\ end \in 0..Capacity /\ stored_length \in 0..Capacity
    /\ received \in 0..sent /\ scanned \in 0..Capacity /\ length \in Nat
    /\ at \in At /\ result \in {"none", "ok", "error", "insufficient_size"}
    /\ delivered \in Seq(1..Len(response.bytes))

\* receive_response has parsed the head: the bytes that came with it are in the
\* window, and the head says how the body is framed.
Init ==
    /\ response \in Responses /\ handler \in BOOLEAN
    /\ sent \in 0..Len(response.bytes)
    /\ received \in 0..Min({sent, Capacity})
    /\ buffer = [p \in Positions |-> IF p < received THEN p + 1 ELSE 0]
    /\ start = 0 /\ end = received /\ stored_length = 0
    /\ scanned = 0 /\ delivered = <<>>
    /\ length = response.length
    /\ at = CASE response.framing = "none"           -> "done"
              [] response.framing = "content_length" -> "pass"
              [] response.framing = "chunked"        -> "size"
              [] response.framing = "until_close"    -> "drain"
    /\ result = IF response.framing = "none" THEN "ok" ELSE "none"

Return(r) == result' = r /\ at' = "done"

-------------------------------------------------------------------------------
(* response_body_reader_fill *)

\* The window is compacted only when it has to be, and never over the body.
Empty == start = end
Compacts == ~Empty /\ end = Capacity /\ start > stored_length
MovedStart == IF Empty \/ Compacts THEN stored_length ELSE start
MovedEnd == MovedStart + (end - start)

\* Mutant: the window is compacted to the front of the buffer.
MutantMoved ==
    IF Compacts THEN [p \in Positions |-> IF p < end - start THEN buffer[start + p] ELSE buffer[p]]
    ELSE buffer

\* Mutant: the bytes are not moved.
MutantNotMoved == buffer

Moved ==
    IF Compacts
    THEN [p \in Positions |->
             IF p \in MovedStart..(MovedEnd - 1) THEN buffer[start + (p - MovedStart)] ELSE buffer[p]]
    ELSE buffer

\* Mutant: a window full to its end is taken for full.
MutantNoRoom == end = Capacity

NoRoom == MovedEnd = Capacity

\* More bytes, in any number that fits; or no room, the peer's close, or a failure
\* of the socket or its time-out.
Fill(onClose) ==
    /\ start' = MovedStart /\ stored_length' = stored_length
    /\ \/ /\ NoRoom
          /\ buffer' = Moved /\ end' = MovedEnd
          /\ Return("insufficient_size") /\ UNCHANGED received
       \/ /\ ~NoRoom
          /\ \E n \in 1..Min({Capacity - MovedEnd, sent - received}) :
                /\ buffer' = [p \in Positions |->
                                 IF p \in MovedEnd..(MovedEnd + n - 1)
                                 THEN received + (p - MovedEnd) + 1 ELSE Moved[p]]
                /\ end' = MovedEnd + n
                /\ received' = received + n
          /\ UNCHANGED <<at, result>>
       \/ /\ ~NoRoom /\ buffer' = Moved /\ end' = MovedEnd
          /\ (sent = received /\ Return(onClose)) \/ Return("error")
          /\ UNCHANGED received

-------------------------------------------------------------------------------
(* response_body_reader_deliver *)

Stays == UNCHANGED <<at, result>>

\* The next n bytes of the window are body.
Deliver(n) ==
    /\ start' = start + n
    /\ IF handler
       THEN /\ delivered' = delivered \o [i \in 1..n |-> buffer[start + i - 1]]
            /\ UNCHANGED <<buffer, stored_length>>
            /\ Stays \/ Return("error")       \* as the handler says
       ELSE /\ buffer' = [p \in Positions |->
                             IF p \in stored_length..(stored_length + n - 1)
                             THEN buffer[start + (p - stored_length)] ELSE buffer[p]]
            /\ stored_length' = stored_length + n
            /\ Stays /\ UNCHANGED delivered
    /\ UNCHANGED <<end, received>>

\* One turn of response_body_reader_pass_through.
PassThrough ==
    /\ at \in {"pass", "chunk"}
    /\ IF length = 0
       THEN /\ IF at = "pass" THEN Return("ok") ELSE at' = "chunk_end" /\ UNCHANGED result
            /\ UNCHANGED <<window, received, length, delivered>>
       ELSE IF Empty
       THEN Fill("error") /\ UNCHANGED <<length, delivered>>
       ELSE LET take == Min({end - start, length}) IN
            /\ Deliver(take)
            /\ length' = length - take
    /\ UNCHANGED <<response, sent, handler, scanned>>

-------------------------------------------------------------------------------
(* response_body_reader_read_line and _chunked *)

Holds(p) == response.bytes[buffer[p]]
LineEnds == {p \in (start + scanned)..(end - 1) : Holds(p).is = "lf"}
FirstLineEnd(p) == p \in LineEnds /\ \A q \in LineEnds : p <= q

\* A line without content: nothing before its CR LF or bare LF.
Blank(line_end) == line_end = start \/ (line_end = start + 1 /\ Holds(start).is = "cr")

\* Mutant: a size that cannot be parsed counts as the last chunk.
MutantLine(line_end) ==
    CASE at = "size" ->
            /\ length' = Max({0, Holds(line_end).says})
            /\ at' = IF length' = 0 THEN "trailer" ELSE "chunk"
            /\ UNCHANGED result
      [] at = "chunk_end" ->
            /\ IF Blank(line_end) THEN at' = "size" /\ UNCHANGED result ELSE Return("error")
            /\ UNCHANGED length
      [] at = "trailer" ->
            /\ IF Blank(line_end) THEN Return("ok") ELSE Stays
            /\ UNCHANGED length

\* What the line that ends there means at this place.
Line(line_end) ==
    CASE at = "size" ->
            IF Blank(line_end) \/ Holds(line_end).says = Malformed
            THEN Return("error") /\ UNCHANGED length
            ELSE /\ length' = Holds(line_end).says
                 /\ at' = IF length' = 0 THEN "trailer" ELSE "chunk"
                 /\ UNCHANGED result
      [] at = "chunk_end" ->
            /\ IF Blank(line_end) THEN at' = "size" /\ UNCHANGED result ELSE Return("error")
            /\ UNCHANGED length
      [] at = "trailer" ->
            /\ IF Blank(line_end) THEN Return("ok") ELSE Stays
            /\ UNCHANGED length

ReadLine ==
    /\ at \in {"size", "chunk_end", "trailer"}
    /\ IF LineEnds # {}
       THEN /\ \E p \in Positions :
                  FirstLineEnd(p) /\ start' = p + 1 /\ Line(p)
            /\ scanned' = 0
            /\ UNCHANGED <<buffer, end, stored_length, received>>
       ELSE /\ scanned' = end - start
            /\ Fill("error")
            /\ UNCHANGED length
    /\ UNCHANGED <<response, sent, handler, delivered>>

-------------------------------------------------------------------------------
\* One turn of response_body_reader_until_close.
Drain ==
    /\ at = "drain"
    /\ IF Empty THEN Fill("ok") /\ UNCHANGED delivered
       ELSE Deliver(end - start)
    /\ UNCHANGED <<response, sent, handler, scanned, length>>

Next == PassThrough \/ ReadLine \/ Drain

Spec     == Init /\ [][Next]_vars
FairSpec == Spec /\ WF_vars(Next)

-------------------------------------------------------------------------------
(* Properties. *)

\* The sequence s holds the offsets of the set, in order and each once.
Lists(s, set) ==
    /\ \A i, j \in 1..Len(s) : i < j => s[i] < s[j]
    /\ {s[i] : i \in 1..Len(s)} = set

\* The caller gets the peer's body and nothing else, whatever pieces it arrives
\* in: framing left out, no byte lost, repeated, reordered or overwritten by the
\* moves within the window.
BodyIsIntact ==
    \E n \in 0..Len(response.bytes) : Lists(BodySoFar, BodyOf(response) \cap 1..n)

\* ok means that the body is complete; a body cut short by the peer is an error,
\* unless its end is the peer's close.
OkMeansComplete == result = "ok" => Lists(BodySoFar, BodyOf(response))

\* Bytes received and not consumed are still there, in order, behind the stored
\* body: moving either never overwrites the other.
UnreadIsSafe ==
    /\ stored_length <= start /\ start <= end
    /\ \A p \in start..(end - 1) : buffer[p] = received - (end - p) + 1

\* The reader gives up for lack of room only when there is none left to be made:
\* every byte of the window is body kept or framing not yet complete.
RefusesOnlyWhenFull ==
    result = "insufficient_size" => stored_length + (end - start) = Capacity

\* The inductive invariant.  Of a body that is not chunked it also says how far
\* it has been handed over.
TakenOut == received - (end - start)
Offsets(n) == [i \in 1..n |-> i]

BodyAt ==
    response.framing # "chunked" =>
        /\ BodySoFar = Offsets(TakenOut) /\ (handler \/ stored_length = TakenOut)
        /\ response.framing = "none" => at = "done" /\ TakenOut = 0
        /\ response.framing = "content_length" =>
               /\ at \in {"pass", "done"} /\ TakenOut <= response.length
               /\ at = "pass" => TakenOut + length = response.length
               /\ result = "ok" => TakenOut = response.length
        /\ response.framing = "until_close" =>
               at \in {"drain", "done"} /\ (result = "ok" => TakenOut = sent)

IInv ==
    /\ TypeOK /\ UnreadIsSafe /\ RefusesOnlyWhenFull /\ BodyAt
    /\ TakenOut >= 0
    /\ result # "none" <=> at = "done"

-------------------------------------------------------------------------------
(* What is known of a chunked body, if its framing is where its sizes say. *)

\* The line that begins at i ends at e, and has no content.
LineAt(b, i, e) == e \in i..Len(b) /\ b[e].is = "lf" /\ \A j \in i..(e - 1) : b[j].is # "lf"
BlankLine(b, i, e) == e = i \/ (e = i + 1 /\ b[i].is = "cr")

LineStarts(b) == {i \in 1..(Len(b) + 1) : i = 1 \/ b[i - 1].is = "lf"}

\* Behind a chunk that ends at n, the line after its blank line is a size line.
SizeLineBehind(b, lines, n) ==
    \A e \in 1..Len(b) : LineAt(b, n + 1, e) /\ BlankLine(b, n + 1, e) => e + 1 \in lines

\* Behind a size that ends at e there is as much data as it says, and none after 0.
ChunkBehind(b, lines, e) ==
    LET n == b[e].says IN
    IF n = 0 THEN \A j \in e..Len(b) : b[j].is # "data"
    ELSE /\ e + n <= Len(b) /\ \A j \in (e + 1)..(e + n) : b[j].is = "data"
         /\ SizeLineBehind(b, lines, e + n)

\* These lines begin with the sizes of b.  A line that says no size, or is missing
\* behind a chunk, is the end of what is known.
SizeLines(b, lines) ==
    /\ 1 \in lines
    /\ \A i \in lines, e \in 1..Len(b) :
          LineAt(b, i, e) /\ ~BlankLine(b, i, e) /\ b[e].says # Malformed =>
              (\A j \in i..e : b[j].is # "data") /\ ChunkBehind(b, lines, e)

ChunksAreFramed ==
    \A r \in Responses :
        r.framing = "chunked" => \E lines \in SUBSET LineStarts(r.bytes) : SizeLines(r.bytes, lines)

\* Where in the chunks the reader is.
AtItsPlace(b, lines) ==
    /\ at = "size" => TakenOut + 1 \in lines
    /\ at = "chunk" => /\ TakenOut + length <= Len(b)
                       /\ \A j \in (TakenOut + 1)..(TakenOut + length) : b[j].is = "data"
                       /\ SizeLineBehind(b, lines, TakenOut + length)
    /\ at = "chunk_end" => SizeLineBehind(b, lines, TakenOut)
    /\ at = "trailer" => \A j \in (TakenOut + 1)..Len(b) : b[j].is # "data"

\* No line ends in what was scanned; what was taken out is handed over if it is data.
ChunkInv ==
    response.framing = "chunked" =>
        /\ at \notin {"pass", "drain"} /\ (at = "chunk" => scanned = 0)
        /\ at # "done" =>
              /\ \A j \in (TakenOut + 1)..(TakenOut + scanned) : response.bytes[j].is # "lf"
              /\ Lists(BodySoFar, DataOf(response.bytes) \cap 1..TakenOut)
        /\ BodyIsIntact /\ OkMeansComplete
        /\ \E lines \in SUBSET LineStarts(response.bytes) :
              SizeLines(response.bytes, lines) /\ AtItsPlace(response.bytes, lines)

-------------------------------------------------------------------------------
(* What the documentation says, and the code does not do. *)

\* http_connection.h: "Returns insufficient_size when headers and body together
\* do not fit".
RefusedDoesNotFit ==
    result = "insufficient_size" /\ ~handler => Cardinality(BodyOf(response)) > Capacity
=================================================================================
