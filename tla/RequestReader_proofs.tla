------------------------- MODULE RequestReader_proofs --------------------------
(***************************************************************************)
(* Proofs about RequestReader: for every buffer, every request and every   *)
(* way its bytes may arrive, the chunk stream can be decoded over itself,  *)
(* and what the caller is told is free holds no byte of the request.       *)
(***************************************************************************)
EXTENDS RequestReader, SequenceTheorems, TLAPS

\* The smaller of two numbers.
LEMMA MinOfTwo ==
    ASSUME NEW a \in Int, NEW b \in Int
    PROVE  Min({a, b}) = IF a <= b THEN a ELSE b
  BY DEF Min

\* What reading n bytes to position p does.
LEMMA TakeFacts ==
    ASSUME TypeOK, NEW p \in 0..Capacity, NEW n \in 1..Capacity, Take(p, n)
    PROVE  /\ p + n <= Capacity /\ received' = received + n /\ received' \in 0..sent
           /\ buffer' \in [Positions -> 0..StreamLength]
           /\ \A q \in 0..(p - 1) : buffer'[q] = buffer[q]
           /\ \A q \in p..(p + n - 1) : buffer'[q] = received + (q - p) + 1
  <1> USE RequestAssumption DEF TypeOK, Positions
  <1>1. StreamLength \in Nat
    BY DEF StreamLength
  <1>2. received \in Nat /\ sent \in Nat /\ sent <= StreamLength
    BY <1>1
  <1>3. n <= Capacity - p /\ n <= sent - received
    <2>1. n \in 1..Min({Capacity - p, sent - received})
      BY DEF Take
    <2>2. Capacity - p \in Int /\ sent - received \in Int
      BY <1>2
    <2>3. Min({Capacity - p, sent - received})
            = IF Capacity - p <= sent - received THEN Capacity - p ELSE sent - received
      BY <2>2, MinOfTwo
    <2> QED
      BY <2>1, <2>2, <2>3
  <1>4. buffer' = [q \in Positions |->
                     IF q \in p..(p + n - 1) THEN received + (q - p) + 1 ELSE buffer[q]]
    BY DEF Take
  <1>5. ASSUME NEW q \in p..(p + n - 1)
        PROVE  received + (q - p) + 1 \in 0..StreamLength /\ q \in Positions
    BY <1>1, <1>2, <1>3
  <1>6. buffer' \in [Positions -> 0..StreamLength]
    BY <1>4, <1>5
  <1>7. \A q \in 0..(p - 1) : buffer'[q] = buffer[q]
    BY <1>3, <1>4
  <1>8. \A q \in p..(p + n - 1) : buffer'[q] = received + (q - p) + 1
    BY <1>4, <1>5
  <1>9. received' = received + n /\ received' \in 0..sent
    BY <1>2, <1>3 DEF Take
  <1> QED
    BY <1>3, <1>6, <1>7, <1>8, <1>9

\* A call that ends without a request leaves nothing to say.
LEMMA Refused ==
    ASSUME IInv, NEW r \in {"error", "insufficient_size"}, Return(r),
           UNCHANGED <<stream, buffer, received, free, raw, body>>
    PROVE  IInv'
  BY DEF IInv, Return, TypeOK, UnreadIsIntact, DecodedInOrder, NoGap, FrontIsIntact, BodyAt,
         AcceptedBody, RemainderIsFree, InChunks, Done, HeadRead, stream, raw, body, At,
         StreamLength, Positions

\* The parts of the invariant that hold in the state of a chunk.
ChunksInv ==
    /\ TypeOK /\ UnreadIsIntact /\ DecodedInOrder /\ NoGap
    /\ InChunks /\ request.framing = "chunked" /\ HeadRead /\ result = "none"

\* What is known in the midst of chunks is as much as the invariant says.
LEMMA ChunksInvIsEnough ==
    ChunksInv => IInv
  BY DEF ChunksInv, IInv, InChunks, FrontIsIntact, BodyAt, AcceptedBody, RemainderIsFree, Done

\* And the invariant says as much in the midst of chunks.
LEMMA ChunksInvHolds ==
    IInv /\ InChunks => ChunksInv
  BY DEF ChunksInv, IInv, InChunks, TypeOK

\* The ranges of the two quantified parts, in the state after a step.
LEMMA UnreadAfter ==
    ASSUME NEW h, NEW f, NEW p, NEW l, request'.head = h, free' = f, pos' = p, raw_len' = l,
           \A q \in p..(l - 1) : buffer'[f + q] = h + q + 1
    PROVE  UnreadIsIntact'
  BY DEF UnreadIsIntact

\* Decoded bytes are in order after a step that leaves them in order.
LEMMA DecodedAfter ==
    ASSUME NEW h, NEW f, NEW p, NEW l, NEW o,
           request'.head = h, free' = f, pos' = p, raw_len' = l, olen' = o,
           o <= p, p <= l, l <= Capacity - f,
           \A i \in 0..(o - 1) : buffer'[f + i] \in (h + 1)..(h + p),
           \A i, j \in 0..(o - 1) : i < j => buffer'[f + i] < buffer'[f + j]
    PROVE  DecodedInOrder'
  BY DEF DecodedInOrder, raw_cap

\* Waiting for bytes that are not in the raw buffer.
LEMMA EnsureBufferedKeeps ==
    ASSUME IInv, InChunks, EnsureBuffered, UNCHANGED <<stream, free>>
    PROVE  IInv'
  <1> USE RequestAssumption
  <1>0. ChunksInv
    BY ChunksInvHolds
  <1>1. CASE raw_len = raw_cap /\ TakesNothing /\ Return("insufficient_size") /\ UNCHANGED raw_len
    BY <1>1, Refused DEF EnsureBuffered, TakesNothing, raw, body
  <1>2. CASE raw_len < raw_cap /\ Fails /\ UNCHANGED raw_len
    BY <1>2, Refused DEF EnsureBuffered, Fails, TakesNothing, raw, body
  <1>3. ASSUME NEW n \in 1..Capacity, Take(free + raw_len, n), raw_len' = raw_len + n,
               UNCHANGED <<at, result>>
        PROVE  IInv'
    <2>0. UNCHANGED <<stream, free, pos, olen, chunk, body, at, result>>
      BY <1>3 DEF EnsureBuffered
    <2>1. /\ free \in Nat /\ raw_len \in Nat /\ pos \in Nat /\ olen \in Nat /\ free + raw_len <= Capacity
          /\ olen <= pos /\ pos <= raw_len /\ received \in Nat /\ request.head \in Nat
          /\ free + raw_len \in 0..Capacity /\ Capacity \in Nat
      BY <1>0 DEF ChunksInv, DecodedInOrder, TypeOK, raw_cap
    <2>2. /\ free + raw_len + n <= Capacity /\ received' = received + n /\ received' \in 0..sent
          /\ buffer' \in [Positions -> 0..StreamLength]
          /\ \A q \in 0..(free + raw_len - 1) : buffer'[q] = buffer[q]
          /\ \A q \in (free + raw_len)..(free + raw_len + n - 1) :
                 buffer'[q] = received + (q - (free + raw_len)) + 1
      BY <1>0, <1>3, <2>1, TakeFacts DEF ChunksInv
    <2>3. received = request.head + raw_len
      BY <1>0, <2>1, <2>2 DEF ChunksInv, NoGap, raw_cap
    <2>4. TypeOK'
      BY <1>0, <1>3, <2>0, <2>1, <2>2 DEF ChunksInv, TypeOK, stream, body, StreamLength, Positions
    <2>5. ASSUME NEW p \in pos..((raw_len + n) - 1)
          PROVE  buffer'[free + p] = request.head + p + 1
      <3>1. CASE p < raw_len
        BY <1>0, <2>1, <2>2, <3>1 DEF ChunksInv, UnreadIsIntact
      <3>2. CASE p >= raw_len
        BY <2>1, <2>2, <2>3, <3>2
      <3> QED
        BY <2>1, <3>1, <3>2
    <2>6. UnreadIsIntact'
      BY <1>3, <2>0, <2>5, UnreadAfter DEF stream
    <2>7. \A i \in 0..(olen - 1) : buffer'[free + i] = buffer[free + i]
      BY <2>1, <2>2
    <2>8. DecodedInOrder'
      <3>1. /\ \A i \in 0..(olen - 1) : buffer'[free + i] \in (request.head + 1)..(request.head + pos)
            /\ \A i, j \in 0..(olen - 1) : i < j => buffer'[free + i] < buffer'[free + j]
        BY <1>0, <2>7 DEF ChunksInv, DecodedInOrder
      <3>2. pos <= raw_len + n /\ raw_len + n <= Capacity - free
        BY <2>1, <2>2
      <3> QED
        BY <1>3, <2>0, <2>1, <3>1, <3>2, DecodedAfter DEF stream
    <2>9. NoGap'
      BY <1>0, <1>3, <2>0, <2>1, <2>2, <2>3 DEF ChunksInv, NoGap, stream, raw_cap, InChunks
    <2>10. ChunksInv'
      BY <1>0, <2>0, <2>1, <2>2, <2>4, <2>6, <2>8, <2>9
         DEF ChunksInv, InChunks, HeadRead, stream
    <2> QED
      BY <2>10, ChunksInvIsEnough, PTL
  <1> QED
    BY <1>1, <1>2, <1>3 DEF EnsureBuffered

\* Parsing ahead in the raw buffer, without reading or decoding.
LEMMA ParsedAhead ==
    ASSUME IInv, InChunks, NEW p \in pos..raw_len, NEW c \in 0..(SizeModulus - 1),
           pos' = p, chunk' = c, at' \in {"size", "digits", "skip", "data", "data_end"},
           UNCHANGED <<stream, buffer, received, free, raw_len, olen, body, result>>
    PROVE  IInv'
  <1> USE RequestAssumption
  <1>0. ChunksInv
    BY ChunksInvHolds
  <1>1. /\ free \in Nat /\ raw_len \in Nat /\ pos \in Nat /\ olen \in Nat /\ p \in Nat
        /\ olen <= pos /\ pos <= p /\ p <= raw_len /\ raw_len <= Capacity - free
        /\ request.head \in Nat /\ Capacity \in Nat
    BY <1>0 DEF ChunksInv, DecodedInOrder, TypeOK, raw_cap
  <1>2. TypeOK'
    BY <1>0, <1>1 DEF ChunksInv, TypeOK, stream, body, StreamLength, Positions, At
  <1>3. \A q \in p..(raw_len - 1) : buffer[free + q] = request.head + q + 1
    BY <1>0, <1>1 DEF ChunksInv, UnreadIsIntact
  <1>4. UnreadIsIntact'
    BY <1>3, UnreadAfter DEF stream
  <1>5. /\ \A i \in 0..(olen - 1) : buffer[free + i] \in (request.head + 1)..(request.head + p)
        /\ \A i, j \in 0..(olen - 1) : i < j => buffer[free + i] < buffer[free + j]
    <2>1. ASSUME NEW i \in 0..(olen - 1)
          PROVE  buffer[free + i] \in (request.head + 1)..(request.head + p)
      <3>1. buffer[free + i] \in (request.head + 1)..(request.head + pos)
        BY <1>0 DEF ChunksInv, DecodedInOrder
      <3> QED
        BY <1>1, <3>1
    <2> QED
      BY <1>0, <2>1 DEF ChunksInv, DecodedInOrder
  <1>6. DecodedInOrder'
    <2>1. /\ request'.head = request.head /\ free' = free /\ olen' = olen /\ pos' = p
          /\ raw_len' = raw_len
      BY DEF stream
    <2>2. /\ \A i \in 0..(olen - 1) : buffer'[free + i] \in (request.head + 1)..(request.head + p)
          /\ \A i, j \in 0..(olen - 1) : i < j => buffer'[free + i] < buffer'[free + j]
      <3>1. buffer' = buffer
        BY DEF stream, body
      <3> QED
        BY <1>5, <3>1
    <2> QED
      BY ONLY <1>1, <2>1, <2>2 DEF DecodedInOrder, raw_cap
  <1>7. NoGap'
    BY <1>0 DEF ChunksInv, NoGap, stream, raw_cap, InChunks
  <1>8. ChunksInv'
    BY <1>0, <1>2, <1>4, <1>6, <1>7 DEF ChunksInv, InChunks, HeadRead, stream
  <1> QED
    BY <1>8, ChunksInvIsEnough, PTL

\* The arithmetic of moving decoded bytes down.
LEMMA TakeableBounds ==
    ASSUME ChunksInv, Has(1), chunk # 0
    PROVE  /\ Takeable \in Nat /\ Takeable <= raw_len - pos /\ Takeable <= chunk
           /\ olen + Takeable <= raw_cap
  <1> USE RequestAssumption DEF ChunksInv, TypeOK, DecodedInOrder, raw_cap
  <1>1. /\ raw_len - pos \in Nat /\ chunk \in Nat /\ olen \in Nat /\ pos \in Nat /\ free \in Nat
        /\ olen <= pos /\ raw_len \in Nat /\ raw_len <= Capacity - free /\ Capacity \in Nat
    OBVIOUS
  <1>2. Min({raw_len - pos, chunk}) = IF raw_len - pos <= chunk THEN raw_len - pos ELSE chunk
    BY <1>1, MinOfTwo
  <1> QED
    BY <1>1, <1>2 DEF Takeable

\* What decoding does to the buffer.
LEMMA DecodedBytes ==
    ASSUME IInv, InChunks, Has(1), chunk # 0, Decode(Takeable)
    PROVE  LET k == Takeable IN
           /\ k \in Nat /\ k <= chunk
           /\ olen' = olen + k /\ pos' = pos + k /\ chunk' = chunk - k
           /\ \A i \in 0..(olen - 1) : buffer'[free + i] = buffer[free + i]
           /\ \A i \in olen..((olen + k) - 1) :
                 buffer'[free + i] = request.head + pos + (i - olen) + 1
  <1> USE RequestAssumption
  <1> DEFINE k == Takeable
  <1>0. ChunksInv
    BY ChunksInvHolds
  <1>1. /\ free \in Nat /\ raw_len \in Nat /\ pos \in Nat /\ olen \in Nat /\ k \in Nat
        /\ olen <= pos /\ pos + k <= raw_len /\ raw_len <= Capacity - free /\ k <= chunk
        /\ request.head \in Nat /\ Capacity \in Nat
    BY <1>0, TakeableBounds DEF ChunksInv, DecodedInOrder, TypeOK, raw_cap
  <1> HIDE DEF k
  <1>2. /\ olen' = olen + k /\ pos' = pos + k /\ chunk' = chunk - k
        /\ buffer' = [p \in Positions |->
                        IF p \in (free + olen)..(free + olen + k - 1)
                        THEN buffer[p + (pos - olen)] ELSE buffer[p]]
    BY DEF Decode, k
  <1>3. ASSUME NEW i \in 0..(olen - 1)
        PROVE  buffer'[free + i] = buffer[free + i]
    <2>1. free + i \in Positions /\ ~(free + i \in (free + olen)..(free + olen + k - 1))
      BY <1>1 DEF Positions
    <2> QED
      BY <1>2, <2>1
  <1>4. ASSUME NEW i \in olen..((olen + k) - 1)
        PROVE  buffer'[free + i] = request.head + pos + (i - olen) + 1
    <2>1. /\ free + i \in Positions /\ free + i \in (free + olen)..(free + olen + k - 1)
          /\ (free + i) + (pos - olen) = free + (pos + (i - olen))
          /\ pos + (i - olen) \in pos..(raw_len - 1)
      BY <1>1 DEF Positions
    <2>2. buffer'[free + i] = buffer[free + (pos + (i - olen))]
      BY <1>2, <2>1
    <2>3. buffer[free + (pos + (i - olen))] = request.head + (pos + (i - olen)) + 1
      BY <1>0, <2>1 DEF ChunksInv, UnreadIsIntact
    <2> QED
      BY <1>1, <2>2, <2>3
  <1> QED
    BY <1>1, <1>2, <1>3, <1>4 DEF k

\* The decoded bytes are bytes that were not parsed before, put behind the
\* decoded ones; what is still to be parsed is beyond the place they go to.
LEMMA DecodeKeeps ==
    ASSUME IInv, InChunks, Has(1), chunk # 0, Decode(Takeable),
           UNCHANGED <<stream, free, received, raw_len, body, at, result>>
    PROVE  IInv'
  <1> USE RequestAssumption
  <1> DEFINE k == Takeable
  <1>0. ChunksInv
    BY ChunksInvHolds
  <1>1. /\ free \in Nat /\ raw_len \in Nat /\ pos \in Nat /\ olen \in Nat /\ k \in Nat
        /\ olen <= pos /\ pos + k <= raw_len /\ raw_len <= Capacity - free /\ k <= chunk
        /\ request.head \in Nat /\ Capacity \in Nat /\ chunk \in 0..(SizeModulus - 1)
        /\ SizeModulus \in Nat /\ buffer \in [Positions -> 0..StreamLength]
        /\ olen + k <= Capacity - free
    BY <1>0, TakeableBounds DEF ChunksInv, DecodedInOrder, TypeOK, raw_cap
  <1> HIDE DEF k
  <1>2. /\ olen' = olen + k /\ pos' = pos + k /\ chunk' = chunk - k
        /\ buffer' = [p \in Positions |->
                        IF p \in (free + olen)..(free + olen + k - 1)
                        THEN buffer[p + (pos - olen)] ELSE buffer[p]]
    BY DEF Decode, k
  <1>3. \A p \in Positions : p \in (free + olen)..(free + olen + k - 1)
                               => p + (pos - olen) \in Positions
    BY <1>1 DEF Positions
  <1>4. buffer' \in [Positions -> 0..StreamLength]
    BY <1>1, <1>2, <1>3
  <1>5. TypeOK'
    BY <1>0, <1>1, <1>2, <1>4 DEF ChunksInv, TypeOK, stream, body, StreamLength, Positions
  <1>6. ASSUME NEW q \in (pos + k)..(raw_len - 1)
        PROVE  buffer'[free + q] = request.head + q + 1
    <2>1. free + q \in Positions /\ ~(free + q \in (free + olen)..(free + olen + k - 1))
      BY <1>1 DEF Positions
    <2>2. buffer'[free + q] = buffer[free + q]
      BY <1>2, <2>1
    <2> QED
      BY <1>0, <1>1, <2>2 DEF ChunksInv, UnreadIsIntact
  <1>7. UnreadIsIntact'
    BY <1>2, <1>6, UnreadAfter DEF stream
  <1>8. ASSUME NEW i \in 0..(olen - 1)
        PROVE  buffer'[free + i] = buffer[free + i]
               /\ buffer'[free + i] \in (request.head + 1)..(request.head + pos)
    <2>1. buffer'[free + i] = buffer[free + i]
      BY DecodedBytes
    <2> QED
      BY <1>0, <2>1 DEF ChunksInv, DecodedInOrder
  <1>9. ASSUME NEW i \in olen..((olen + k) - 1)
        PROVE  buffer'[free + i] = request.head + pos + (i - olen) + 1
    BY DecodedBytes DEF k
  <1>10. ASSUME NEW i \in 0..((olen + k) - 1)
         PROVE  buffer'[free + i] \in (request.head + 1)..(request.head + (pos + k))
    <2>1. CASE i < olen
      <3>1. i \in 0..(olen - 1)
        BY <1>1, <2>1
      <3>2. buffer'[free + i] \in (request.head + 1)..(request.head + pos)
        BY <1>8, <3>1
      <3> QED
        BY <1>1, <3>2
    <2>2. CASE i >= olen
      BY <1>1, <1>9, <2>2
    <2> QED
      BY <1>1, <2>1, <2>2
  <1>11. ASSUME NEW i \in 0..((olen + k) - 1), NEW j \in 0..((olen + k) - 1), i < j
         PROVE  buffer'[free + i] < buffer'[free + j]
    <2>1. CASE j < olen
      <3>1. i \in 0..(olen - 1) /\ j \in 0..(olen - 1)
        BY <1>1, <1>11, <2>1
      <3>2. buffer[free + i] < buffer[free + j]
        BY <1>0, <1>11, <3>1 DEF ChunksInv, DecodedInOrder
      <3> QED
        BY <1>8, <3>1, <3>2
    <2>2. CASE i < olen /\ j >= olen
      <3>1. i \in 0..(olen - 1) /\ j \in olen..((olen + k) - 1)
        BY <1>1, <2>2
      <3>2. buffer'[free + i] \in (request.head + 1)..(request.head + pos)
        BY <1>8, <3>1
      <3>3. buffer'[free + j] = request.head + pos + (j - olen) + 1
        BY <1>9, <3>1
      <3> QED
        BY <1>1, <3>1, <3>2, <3>3
    <2>3. CASE i >= olen
      <3>1. i \in olen..((olen + k) - 1) /\ j \in olen..((olen + k) - 1)
        BY <1>1, <1>11, <2>3
      <3>2. /\ buffer'[free + i] = request.head + pos + (i - olen) + 1
            /\ buffer'[free + j] = request.head + pos + (j - olen) + 1
        BY <1>9, <3>1
      <3> QED
        BY <1>1, <1>11, <3>1, <3>2
    <2> QED
      BY <1>1, <1>11, <2>1, <2>2, <2>3
  <1>12. DecodedInOrder'
    <2>1. /\ request'.head = request.head /\ free' = free /\ olen' = olen + k /\ pos' = pos + k
          /\ raw_len' = raw_len /\ olen + k <= pos + k
      BY <1>1, <1>2 DEF stream
    <2> QED
      BY <1>1, <1>10, <1>11, <2>1, DecodedAfter
  <1>13. NoGap'
    BY <1>0 DEF ChunksInv, NoGap, stream, raw_cap, InChunks
  <1>14. ChunksInv'
    BY <1>0, <1>5, <1>7, <1>12, <1>13 DEF ChunksInv, InChunks, HeadRead, stream
  <1> QED
    BY <1>14, ChunksInvIsEnough, PTL

\* Reading the head.
LEMMA ReadHeadKeeps ==
    ASSUME IInv, ReadHead
    PROVE  IInv'
  <1> USE RequestAssumption
  <1>0. /\ at = "head" /\ received \in 0..Capacity /\ result = "none"
        /\ UNCHANGED <<stream, free, raw, body>>
    BY DEF IInv, FrontIsIntact, ReadHead, TypeOK
  <1>1. CASE TakesNothing /\ Return("insufficient_size")
    BY <1>0, <1>1, Refused DEF TakesNothing
  <1>2. CASE Fails
    BY <1>0, <1>2, Refused DEF Fails, TakesNothing
  <1>3. CASE TakesNothing /\ Goto("parse")
    BY <1>0, <1>3
       DEF IInv, Goto, TakesNothing, TypeOK, UnreadIsIntact, DecodedInOrder, NoGap, FrontIsIntact,
           BodyAt, AcceptedBody, RemainderIsFree, InChunks, Done, HeadRead, stream, raw, body, At,
           StreamLength, Positions
  <1>4. ASSUME NEW n \in 1..Capacity, Take(received, n),
               Goto(IF received + n >= request.head THEN "parse" ELSE "head")
        PROVE  IInv'
    <2>1. /\ received + n <= Capacity /\ received' = received + n /\ received' \in 0..sent
          /\ buffer' \in [Positions -> 0..StreamLength]
          /\ \A q \in 0..(received - 1) : buffer'[q] = buffer[q]
          /\ \A q \in received..(received + n - 1) : buffer'[q] = received + (q - received) + 1
      BY <1>0, <1>4, TakeFacts DEF IInv
    <2>2. at' \in {"parse", "head"} /\ result' = "none"
      BY <1>0, <1>4 DEF Goto
    <2>3. ASSUME NEW p \in 0..((received + n) - 1)
          PROVE  buffer'[p] = p + 1
      <3>1. CASE p < received
        BY <1>0, <2>1, <3>1 DEF IInv, FrontIsIntact
      <3>2. CASE p >= received
        BY <1>0, <2>1, <3>2
      <3> QED
        BY <1>0, <3>1, <3>2
    <2>4. FrontIsIntact'
      <3>1. \A p \in 0..(received' - 1) : buffer'[p] = p + 1
        BY <2>1, <2>3
      <3> QED
        BY <2>1, <3>1 DEF FrontIsIntact
    <2>5. TypeOK'
      BY <1>0, <2>1, <2>2 DEF IInv, TypeOK, stream, raw, body, StreamLength, Positions, At
    <2> QED
      BY <2>2, <2>4, <2>5
         DEF IInv, UnreadIsIntact, DecodedInOrder, NoGap, BodyAt, AcceptedBody, RemainderIsFree,
             InChunks, Done
  <1> QED
    BY <1>1, <1>2, <1>3, <1>4 DEF ReadHead

\* A body that starts behind the head ends no later than one that starts in the
\* free part.
LEMMA BodyBehindHead ==
    ASSUME NEW h \in Nat, NEW f \in Nat, NEW b \in Nat, f >= h
    PROVE  f + b >= h + b
  OBVIOUS

\* A plain body that starts behind the head is accepted.
LEMMA PlainAccepted ==
    ASSUME TypeOK', FrontIsIntact, at \in {"head", "parse", "body"}, buffer' = buffer,
           UNCHANGED <<stream, received>>, Return("ok"), request \in Requests,
           request.head <= received, received \in Nat,
           request.framing # "chunked", free' \in request.head..received,
           body_start' = request.head, body_start' + body_length' = received
    PROVE  IInv'
  <1> USE RequestAssumption
  <1>1. at' = "done" /\ result' = "ok" /\ request' = request /\ received' = received
    BY DEF Return, stream
  <1>2. received <= Capacity /\ \A p \in 0..(received - 1) : buffer[p] = p + 1
    BY DEF FrontIsIntact
  <1>3. request.head \in Nat /\ body_length' \in Nat /\ free' \in Nat /\ Capacity \in Nat
    BY DEF TypeOK
  <1>4. ASSUME NEW i \in 1..body_length'
        PROVE  BodyOffsets'[i] = request.head + i
    <2>1. BodyOffsets'[i] = buffer[request.head + i - 1]
      BY DEF BodyOffsets
    <2>2. request.head + i - 1 \in 0..(received - 1)
      BY <1>3
    <2>3. buffer[request.head + i - 1] = (request.head + i - 1) + 1
      BY <1>2, <2>2
    <2> QED
      BY <1>3, <2>1, <2>3
  <1>5. AcceptedBody'
    BY <1>1, <1>3, <1>4 DEF AcceptedBody, InOrder
  <1>6. RemainderIsFree'
    <2>1. request'.head = request.head /\ body_start' \in request.head..Capacity
      BY <1>1, <1>2, <1>3
    <2>2. free' + body_length' >= received /\ Capacity >= received
      <3>1. request.head + body_length' = received /\ free' >= request.head
            /\ received \in Nat /\ request.head \in Nat /\ free' \in Nat /\ body_length' \in Nat
            /\ Capacity \in Nat /\ received <= Capacity
        <4>1. received <= Capacity
          BY <1>2
        <4>2. /\ request.head \in Nat /\ free' \in Nat /\ body_length' \in Nat
              /\ Capacity \in Nat
          BY <1>3
        <4>3. free' >= request.head
          BY <4>2
        <4> QED
          BY <4>1, <4>2, <4>3
      <3> QED
        BY ONLY <3>1, BodyBehindHead
    <2>3. received <= RemainderStart'
      BY <2>2 DEF RemainderStart
    <2> QED
      BY <2>1, <2>3 DEF RemainderIsFree
  <1>7. ~InChunks' /\ ~(at' \in {"head", "parse", "body"})
    BY <1>1 DEF InChunks
  <1>8. UnreadIsIntact' /\ DecodedInOrder' /\ NoGap'
    BY <1>7 DEF UnreadIsIntact, DecodedInOrder, NoGap
  <1>9. FrontIsIntact'
    BY <1>7 DEF FrontIsIntact
  <1>10. BodyAt'
    BY <1>1 DEF BodyAt
  <1> QED
    BY <1>1, <1>5, <1>6, <1>7, <1>8, <1>9, <1>10 DEF IInv

\* Parsing the head, and choosing how the body is read.
LEMMA ParseKeeps ==
    ASSUME IInv, Parse
    PROVE  IInv'
  <1> USE RequestAssumption
  <1>0. /\ at = "parse" /\ result = "none" /\ TypeOK /\ FrontIsIntact /\ UNCHANGED <<stream, received>>
        /\ received \in 0..Capacity /\ request.head \in Nat \ {0} /\ Capacity \in Nat
        /\ request \in Requests
    BY DEF IInv, FrontIsIntact, Parse, TypeOK
  <1>1. CASE ParseGarbage
    <2>1. at' = "done" /\ result' \in {"ok", "error"} /\ ~HeadRead'
          /\ UNCHANGED <<buffer, free, raw, body>>
      BY <1>0, <1>1 DEF ParseGarbage, Return, HeadRead, stream
    <2>2. TypeOK'
      BY <1>0, <2>1 DEF TypeOK, stream, raw, body, StreamLength, Positions, At
    <2> QED
      BY <2>1, <2>2 DEF IInv, UnreadIsIntact, DecodedInOrder, NoGap, FrontIsIntact, BodyAt,
                        AcceptedBody, RemainderIsFree, InChunks, Done
  <1>2. CASE ~ParseGarbage
    <2>1. /\ received >= request.head /\ free' = received
          /\ body_start' = request.head /\ body_length' = received - request.head
          /\ received \in Nat /\ body_length' \in 0..Capacity /\ free' \in 0..Capacity
          /\ body_start' \in 0..Capacity
      BY <1>0, <1>2 DEF Parse
    <2>2. ASSUME request.framing # "chunked"
          PROVE  IInv'
      <3>1. UNCHANGED <<raw, buffer>>
        BY <1>2, <2>2 DEF Parse
      <3>2. CASE Return("error")
        <4>1. TypeOK'
          BY <1>0, <2>1, <3>1, <3>2 DEF TypeOK, Return, stream, raw, StreamLength, Positions, At
        <4> QED
          BY <3>2, <4>1 DEF Return, IInv, UnreadIsIntact, DecodedInOrder, NoGap, FrontIsIntact,
                            BodyAt, AcceptedBody, RemainderIsFree, InChunks, Done
      <3>3. CASE Return("ok")
        <4>1. TypeOK'
          BY <1>0, <2>1, <3>1, <3>3 DEF TypeOK, Return, stream, raw, StreamLength, Positions, At
        <4> QED
          BY <1>0, <2>1, <2>2, <3>1, <3>3, <4>1, PlainAccepted
      <3>4. CASE Goto("body")
        <4>1. at' = "body" /\ result' = "none" /\ request' = request /\ received' = received
              /\ buffer' = buffer
          BY <1>0, <3>1, <3>4 DEF Goto, stream
        <4>2. TypeOK'
          BY <1>0, <2>1, <3>1, <4>1 DEF TypeOK, stream, raw, StreamLength, Positions, At
        <4>3. FrontIsIntact'
          BY <1>0, <4>1 DEF FrontIsIntact
        <4>4. BodyAt'
          BY <1>0, <2>1, <2>2, <4>1 DEF BodyAt
        <4> QED
          BY <4>1, <4>2, <4>3, <4>4
             DEF IInv, UnreadIsIntact, DecodedInOrder, NoGap, AcceptedBody, RemainderIsFree,
                 InChunks, Done
      <3> QED
        BY <1>2, <2>2, <3>2, <3>3, <3>4 DEF Parse
    <2>3. ASSUME request.framing = "chunked"
          PROVE  IInv'
      <3> DEFINE k == Min({received - request.head, Capacity - received})
      <3>1. /\ k \in 0..Capacity /\ k <= received - request.head /\ received + k <= Capacity
            /\ (k < Capacity - received => k = received - request.head)
        <4>1. received - request.head \in Int /\ Capacity - received \in Int
          BY <1>0, <2>1
        <4>2. k = IF received - request.head <= Capacity - received
                  THEN received - request.head ELSE Capacity - received
          BY <4>1, MinOfTwo
        <4> QED
          BY <1>0, <2>1, <4>2
      <3> HIDE DEF k
      <3>2. /\ raw_len' = k /\ pos' = 0 /\ olen' = 0 /\ chunk' = 0
            /\ buffer' = [p \in Positions |->
                            IF p \in received..(received + k - 1)
                            THEN buffer[request.head + (p - received)] ELSE buffer[p]]
        BY <1>2, <2>3 DEF Parse, k
      <3>3. at' = "size" /\ result' = "none" /\ request' = request /\ received' = received
            /\ sent' = sent
        BY <1>0, <1>2, <2>3 DEF Parse, Goto, stream
      <3>4. ASSUME NEW p \in Positions, p \in received..(received + k - 1)
            PROVE  request.head + (p - received) \in Positions
        BY <1>0, <2>1, <3>1, <3>4 DEF Positions
      <3>5. buffer' \in [Positions -> 0..StreamLength]
        BY <1>0, <3>2, <3>4 DEF TypeOK
      <3>6. TypeOK'
        BY <1>0, <2>1, <3>1, <3>2, <3>3, <3>5 DEF TypeOK, StreamLength, Positions, At
      <3>7. ASSUME NEW q \in 0..(k - 1)
            PROVE  buffer'[received + q] = request.head + q + 1
        <4>1. /\ received + q \in Positions /\ received + q \in received..(received + k - 1)
              /\ request.head + ((received + q) - received) = request.head + q
              /\ request.head + q \in 0..(received - 1)
          BY <1>0, <2>1, <3>1 DEF Positions
        <4>2. buffer'[received + q] = buffer[request.head + q]
          BY <3>2, <4>1
        <4>3. buffer[request.head + q] = (request.head + q) + 1
          BY <1>0, <4>1 DEF FrontIsIntact
        <4> QED
          BY <4>2, <4>3
      <3>8. UnreadIsIntact'
        <4>1. request'.head = request.head /\ free' = received /\ pos' = 0 /\ raw_len' = k
          BY <2>1, <3>2, <3>3
        <4> QED
          BY ONLY <3>7, <4>1 DEF UnreadIsIntact
      <3>9. DecodedInOrder'
        BY <1>0, <2>1, <3>1, <3>2 DEF DecodedInOrder, raw_cap
      <3>10. NoGap'
        BY <1>0, <2>1, <3>1, <3>2, <3>3 DEF NoGap, raw_cap
      <3>11. ChunksInv'
        BY <2>1, <2>3, <3>3, <3>6, <3>8, <3>9, <3>10 DEF ChunksInv, InChunks, HeadRead
      <3> QED
        BY <3>11, ChunksInvIsEnough, PTL
    <2> QED
      BY <2>2, <2>3
  <1> QED
    BY <1>1, <1>2

\* Reading the rest of a plain body.
LEMMA ReadBodyKeeps ==
    ASSUME IInv, ReadBody
    PROVE  IInv'
  <1> USE RequestAssumption
  <1>0. /\ at = "body" /\ received \in 0..Capacity /\ result = "none" /\ TypeOK /\ FrontIsIntact
        /\ UNCHANGED <<stream, free, raw, body_start>> /\ request \in Requests
        /\ body_start = request.head /\ body_start + body_length = received
        /\ free \in request.head..received /\ request.framing # "chunked"
        /\ request.head \in Nat /\ Capacity \in Nat /\ body_length \in Nat
    BY DEF IInv, FrontIsIntact, ReadBody, TypeOK, BodyAt
  <1>1. CASE TakesNothing /\ Return("insufficient_size") /\ UNCHANGED body_length
    BY <1>0, <1>1, Refused DEF TakesNothing, body
  <1>2. CASE Fails /\ UNCHANGED body_length
    BY <1>0, <1>2, Refused DEF Fails, TakesNothing, body
  <1>3. CASE TakesNothing /\ Return("ok") /\ UNCHANGED body_length
    <2>1. TypeOK'
      BY <1>0, <1>3 DEF TypeOK, Return, TakesNothing, stream, raw, StreamLength, Positions, At
    <2>2. /\ buffer' = buffer /\ UNCHANGED <<stream, received>> /\ free' \in request.head..received
          /\ body_start' = request.head /\ body_start' + body_length' = received
          /\ request.head <= received /\ received \in Nat
      BY <1>0, <1>3 DEF TakesNothing
    <2> QED
      BY <1>0, <1>3, <2>1, <2>2, PlainAccepted
  <1>4. ASSUME NEW n \in 1..Capacity, Take(received, n), body_length' = body_length + n,
               UNCHANGED <<at, result>>
        PROVE  IInv'
    <2>1. /\ received + n <= Capacity /\ received' = received + n /\ received' \in 0..sent
          /\ buffer' \in [Positions -> 0..StreamLength]
          /\ \A q \in 0..(received - 1) : buffer'[q] = buffer[q]
          /\ \A q \in received..(received + n - 1) : buffer'[q] = received + (q - received) + 1
      BY <1>0, <1>4, TakeFacts
    <2>2. at' = "body" /\ result' = "none" /\ request' = request /\ free' = free
          /\ body_start' = request.head
      BY <1>0, <1>4 DEF stream
    <2>3. ASSUME NEW p \in 0..((received + n) - 1)
          PROVE  buffer'[p] = p + 1
      <3>1. CASE p < received
        BY <1>0, <2>1, <3>1 DEF FrontIsIntact
      <3>2. CASE p >= received
        BY <1>0, <2>1, <3>2
      <3> QED
        BY <1>0, <3>1, <3>2
    <2>4. FrontIsIntact'
      <3>1. \A p \in 0..(received' - 1) : buffer'[p] = p + 1
        BY <2>1, <2>3
      <3> QED
        BY <2>1, <3>1 DEF FrontIsIntact
    <2>7. /\ body_length' \in 0..Capacity /\ request.head + body_length' = received + n
          /\ free \in request.head..(received + n)
      <3>1. body_length' = body_length + n /\ n \in Nat /\ received \in Nat
            /\ request.head + body_length = received /\ free >= request.head /\ free <= received
            /\ free \in Int
        BY <1>0, <1>4
      <3>2. request.head + body_length' = received + n
        BY ONLY <1>0, <3>1
      <3> QED
        BY ONLY <1>0, <2>1, <3>1, <3>2
    <2>5. TypeOK'
      BY <1>0, <1>4, <2>1, <2>2, <2>7 DEF TypeOK, stream, raw, StreamLength, Positions, At
    <2>6. BodyAt'
      BY ONLY <1>0, <2>1, <2>2, <2>7 DEF BodyAt
    <2> QED
      BY <2>2, <2>4, <2>5, <2>6
         DEF IInv, UnreadIsIntact, DecodedInOrder, NoGap, AcceptedBody, RemainderIsFree,
             InChunks, Done
  <1> QED
    BY <1>1, <1>2, <1>3, <1>4 DEF ReadBody

\* Decoding the chunks.
LEMMA ChunkStepKeeps ==
    ASSUME IInv, SizeLine \/ Digits \/ SkipLine \/ ChunkData \/ ChunkEnd
    PROVE  IInv'
  <1> USE RequestAssumption
  <1>0. /\ InChunks /\ ChunksInv /\ UNCHANGED <<stream, free>> /\ pos \in Nat /\ raw_len \in Nat
        /\ pos <= raw_len /\ chunk \in 0..(SizeModulus - 1) /\ SizeModulus \in Nat \ {0}
    <2>1. InChunks /\ UNCHANGED <<stream, free>>
      BY DEF InChunks, SizeLine, Digits, SkipLine, ChunkData, ChunkEnd
    <2> QED
      BY <2>1, ChunksInvHolds DEF ChunksInv, DecodedInOrder, TypeOK
  <1>1. CASE EnsureBuffered
    BY <1>0, <1>1, EnsureBufferedKeeps
  <1>2. ASSUME SizeLine, ~EnsureBuffered
        PROVE  IInv'
    <2>1. /\ pos \in pos..raw_len /\ 0 \in 0..(SizeModulus - 1) /\ pos' = pos /\ chunk' = 0
          /\ at' \in {"size", "digits", "skip", "data", "data_end"}
          /\ UNCHANGED <<stream, buffer, received, free, raw_len, olen, body, result>>
      BY <1>0, <1>2 DEF SizeLine, Goto, TakesNothing
    <2> QED
      BY <1>0, <2>1, ParsedAhead
  <1>3. ASSUME Digits
        PROVE  IInv'
    <2> DEFINE d == Has(1) /\ Raw(pos).is = "digit"
    <2>1. CASE d
      <3>1. (chunk * 16 + Raw(pos).says) % SizeModulus \in 0..(SizeModulus - 1)
        <4>1. pos \in pos..(raw_len - 1)
          BY <1>0, <2>1 DEF Has
        <4>2. buffer[free + pos] = request.head + pos + 1
          BY <1>0, <4>1 DEF ChunksInv, UnreadIsIntact
        <4>3. buffer[free + pos] \in 0..StreamLength
          <5>1. free + pos \in Positions
            BY <1>0, <4>1 DEF ChunksInv, DecodedInOrder, TypeOK, Positions, raw_cap
          <5> QED
            BY <1>0, <5>1 DEF ChunksInv, TypeOK
        <4>4. request \in Requests /\ request.head \in Nat /\ Len(request.bytes) \in Nat
          BY <1>0 DEF ChunksInv, TypeOK
        <4>5. buffer[free + pos] - request.head \in 1..Len(request.bytes)
          BY <1>0, <4>2, <4>3, <4>4 DEF StreamLength
        <4>6. Raw(pos) \in [is : {"data", "digit", "extension", "cr", "lf"}, says : 0..15]
          <5>1. request.bytes \in Seq([is : {"data", "digit", "extension", "cr", "lf"}, says : 0..15])
            BY <4>4
          <5> QED
            BY <4>5, <5>1, ElementOfSeq DEF Raw
        <4>7. chunk * 16 + Raw(pos).says \in Int
          BY <1>0, <4>6
        <4> QED
          BY <1>0, <4>7
      <3>2. /\ pos + 1 \in pos..raw_len /\ pos' = pos + 1
            /\ chunk' = (chunk * 16 + Raw(pos).says) % SizeModulus
            /\ at' \in {"size", "digits", "skip", "data", "data_end"}
            /\ UNCHANGED <<stream, buffer, received, free, raw_len, olen, body, result>>
        BY <1>0, <1>3, <2>1 DEF Digits, TakesNothing, Has, InChunks
      <3> QED
        BY <1>0, <3>1, <3>2, ParsedAhead
    <2>2. CASE ~d
      <3>1. /\ pos \in pos..raw_len /\ pos' = pos /\ chunk' = chunk
            /\ at' \in {"size", "digits", "skip", "data", "data_end"}
            /\ UNCHANGED <<stream, buffer, received, free, raw_len, olen, body, result>>
        BY <1>0, <1>3, <2>2 DEF Digits, TakesNothing, Goto
      <3> QED
        BY <1>0, <3>1, ParsedAhead
    <2> QED
      BY <2>1, <2>2
  <1>4. ASSUME SkipLine, ~EnsureBuffered
        PROVE  IInv'
    <2>0. /\ Has(1) /\ pos' = pos + 1 /\ pos + 1 \in pos..raw_len
          /\ UNCHANGED <<stream, free, buffer, received, raw_len, olen, chunk>>
      BY <1>0, <1>4 DEF SkipLine, TakesNothing, Has
    <2>1. CASE /\ at' \in {"size", "digits", "skip", "data", "data_end"}
               /\ UNCHANGED <<body, result>>
      BY <1>0, <2>0, <2>1, ParsedAhead
    <2>2. CASE Return("ok") /\ body_start' = free /\ body_length' = olen
      <3>1. /\ at' = "done" /\ result' = "ok" /\ request' = request /\ free' = free
            /\ received' = received /\ buffer' = buffer
        BY <2>0, <2>2 DEF Return, stream
      <3>2. /\ free \in Nat /\ olen \in Nat /\ olen <= Capacity - free /\ Capacity \in Nat
            /\ free >= request.head /\ request.head \in Nat /\ request.framing = "chunked"
        BY <1>0 DEF ChunksInv, DecodedInOrder, NoGap, TypeOK, raw_cap
      <3>3. TypeOK'
        BY <1>0, <2>0, <2>2, <3>1, <3>2
           DEF ChunksInv, TypeOK, stream, StreamLength, Positions, At
      <3>4. ASSUME NEW i \in 1..olen, NEW j \in 1..olen, i < j
            PROVE  BodyOffsets'[i] < BodyOffsets'[j]
        <4>1. BodyOffsets'[i] = buffer[free + i - 1] /\ BodyOffsets'[j] = buffer[free + j - 1]
          BY <2>2, <3>1 DEF BodyOffsets
        <4>2. i - 1 \in 0..(olen - 1) /\ j - 1 \in 0..(olen - 1) /\ i - 1 < j - 1
              /\ free + (i - 1) = free + i - 1 /\ free + (j - 1) = free + j - 1
          BY <3>2, <3>4
        <4>3. buffer[free + (i - 1)] < buffer[free + (j - 1)]
          BY <1>0, <4>2 DEF ChunksInv, DecodedInOrder
        <4> QED
          BY <4>1, <4>2, <4>3
      <3>5. AcceptedBody'
        BY <2>2, <3>1, <3>2, <3>4 DEF AcceptedBody, InOrder
      <3>6. RemainderIsFree'
        BY <2>2, <3>1, <3>2 DEF RemainderIsFree, RemainderStart
      <3>7. ~InChunks' /\ ~(at' \in {"head", "parse", "body"})
        BY <3>1 DEF InChunks
      <3>8. UnreadIsIntact' /\ DecodedInOrder' /\ NoGap'
        BY <3>7 DEF UnreadIsIntact, DecodedInOrder, NoGap
      <3>9. FrontIsIntact'
        BY <3>7 DEF FrontIsIntact
      <3>10. BodyAt'
        BY <3>1 DEF BodyAt
      <3> QED
        BY <3>1, <3>3, <3>5, <3>6, <3>7, <3>8, <3>9, <3>10 DEF IInv
    <2> QED
      BY <1>4, <2>0, <2>1, <2>2 DEF SkipLine, Goto
  <1>5. ASSUME ChunkData, ~EnsureBuffered
        PROVE  IInv'
    <2>1. CASE chunk = 0
      <3>1. /\ pos \in pos..raw_len /\ pos' = pos /\ chunk' = chunk
            /\ at' \in {"size", "digits", "skip", "data", "data_end"}
            /\ UNCHANGED <<stream, buffer, received, free, raw_len, olen, body, result>>
        BY <1>0, <1>5, <2>1 DEF ChunkData, TakesNothing, Goto, raw
      <3> QED
        BY <1>0, <3>1, ParsedAhead
    <2>2. CASE chunk # 0 /\ Takeable = 0
      BY <1>0, <1>5, <2>2, Refused DEF ChunkData, TakesNothing
    <2>3. CASE chunk # 0 /\ Takeable # 0
      BY <1>0, <1>5, <2>3, DecodeKeeps DEF ChunkData
    <2> QED
      BY <2>1, <2>2, <2>3
  <1>6. ASSUME ChunkEnd, ~EnsureBuffered
        PROVE  IInv'
    <2> DEFINE p == IF Raw(AfterCr).is = "lf" THEN AfterCr + 1 ELSE AfterCr
    <2>1. /\ p \in pos..raw_len /\ pos' = p /\ chunk' = chunk
          /\ at' \in {"size", "digits", "skip", "data", "data_end"}
          /\ UNCHANGED <<stream, buffer, received, free, raw_len, olen, body, result>>
      <3>1. Has(2)
        BY <1>6 DEF ChunkEnd
      <3>2. p \in pos..raw_len
        BY <1>0, <3>1 DEF Has, AfterCr
      <3> QED
        BY <1>0, <1>6, <3>1, <3>2 DEF ChunkEnd, TakesNothing, Goto
    <2> HIDE DEF p
    <2> QED
      BY <1>0, <2>1, ParsedAhead
  <1> QED
    BY <1>1, <1>2, <1>3, <1>4, <1>5, <1>6

\* The invariant of the reader holds at first.
LEMMA InvariantInit ==
    Init => IInv
  BY RequestAssumption
     DEF Init, IInv, TypeOK, UnreadIsIntact, DecodedInOrder, NoGap, FrontIsIntact, BodyAt,
         AcceptedBody, RemainderIsFree, InChunks, Done, Positions, StreamLength, At

\* Every step of the reader keeps its invariant.
LEMMA InvariantStep ==
    IInv /\ [Next]_vars => IInv'
  <1> SUFFICES ASSUME IInv, [Next]_vars
               PROVE  IInv'
    OBVIOUS
  <1>1. CASE UNCHANGED vars
    BY <1>1
       DEF vars, stream, raw, body, IInv, TypeOK, UnreadIsIntact, DecodedInOrder, NoGap, FrontIsIntact,
           BodyAt, AcceptedBody, RemainderIsFree, InChunks, Done, Positions, StreamLength, At,
           HeadRead, BodyOffsets, InOrder, RemainderStart, raw_cap
  <1> QED
    BY <1>1, ReadHeadKeeps, ParseKeeps, ReadBodyKeeps, ChunkStepKeeps DEF Next

\* Whatever arrives, and however it is cut into reads: no raw byte is lost or
\* overwritten before it is parsed, and the decoded bytes are in order.
THEOREM Invariant ==
    Spec => []IInv
  BY InvariantInit, InvariantStep, PTL DEF Spec

\* An accepted body is the bytes that follow the head or, for a chunked one,
\* bytes of the chunk stream, none twice and in their order.
THEOREM BodyInOrder ==
    Spec => []AcceptedBody
  <1>1. IInv => AcceptedBody
    BY DEF IInv
  <1> QED
    BY <1>1, Invariant, PTL

\* What http_connection_receive_request gives back as free, the caller may use.
THEOREM RemainderSafe ==
    Spec => []RemainderIsFree
  <1>1. IInv => RemainderIsFree
    BY DEF IInv
  <1> QED
    BY <1>1, Invariant, PTL

-------------------------------------------------------------------------------
(* A chunked body with sizes of one digit has all the data of its chunks.    *)

\* The bytes of a chunked request, and those of them that are still to be parsed.
LEMMA ChunkBytes ==
    ASSUME IInv, InChunks
    PROVE  LET b == request.bytes IN
           /\ Len(b) \in Nat /\ request.head \in Nat /\ free \in Nat /\ request \in Requests
           /\ pos \in Nat /\ raw_len \in Nat /\ olen \in Nat /\ chunk \in Nat
           /\ olen <= pos /\ pos <= raw_len /\ request.framing = "chunked"
           /\ \A j \in 1..Len(b) : b[j].is \in {"data", "digit", "extension", "cr", "lf"}
                                   /\ b[j].says \in 0..15
           /\ \A p \in pos..(raw_len - 1) : p + 1 \in 1..Len(b) /\ Raw(p) = b[p + 1]
  <1> DEFINE b == request.bytes
             R == [is : {"data", "digit", "extension", "cr", "lf"}, says : 0..15]
  <1>0. ChunksInv
    BY ChunksInvHolds
  <1>1. /\ request \in Requests /\ request.head \in Nat /\ b \in Seq(R)
        /\ request.framing = "chunked"
    BY <1>0, RequestAssumption DEF ChunksInv, TypeOK
  <1>2. /\ free \in Nat /\ pos \in Nat /\ raw_len \in Nat /\ olen \in Nat /\ chunk \in Nat
        /\ olen <= pos /\ pos <= raw_len /\ raw_len <= Capacity - free /\ Capacity \in Nat
    BY <1>0, RequestAssumption DEF ChunksInv, DecodedInOrder, TypeOK, raw_cap
  <1>3. Len(b) \in Nat /\ \A j \in 1..Len(b) : b[j] \in R
    BY <1>1, ElementOfSeq, LenProperties
  <1>4. ASSUME NEW p \in pos..(raw_len - 1)
        PROVE  p + 1 \in 1..Len(b) /\ Raw(p) = b[p + 1]
    <2>1. buffer[free + p] = request.head + p + 1
      BY <1>0 DEF ChunksInv, UnreadIsIntact
    <2>2. buffer[free + p] \in 0..StreamLength
      <3>1. free + p \in Positions
        BY <1>2 DEF Positions
      <3> QED
        BY <1>0, <3>1 DEF ChunksInv, TypeOK
    <2>3. p + 1 <= Len(b) /\ p + 1 >= 1
      BY <1>1, <1>2, <1>3, <2>1, <2>2 DEF StreamLength
    <2>4. buffer[free + p] - request.head = p + 1
      BY <1>1, <1>2, <2>1
    <2>5. Raw(p) = b[p + 1]
      BY <2>4 DEF Raw
    <2> QED
      BY <1>2, <1>3, <2>3, <2>5
  <1> QED
    BY <1>1, <1>2, <1>3, <1>4

\* Outside of the chunks only a body that is accepted is to be looked at.
LEMMA NotInChunks ==
    ASSUME IInv', ~InChunks', (Done("ok") /\ HeadRead => request.framing # "chunked")'
    PROVE  ChunkInv'
  <1>1. AtItsPlace' /\ DecodedIsData'
    BY DEF AtItsPlace, DecodedIsData, InChunks
  <1>2. BodyIsIntact'
    BY DEF IInv, AcceptedBody, BodyIsIntact
  <1> QED
    BY <1>1, <1>2 DEF ChunkInv

\* In the chunks nothing is accepted.
LEMMA StillInChunks ==
    ASSUME IInv', InChunks', AtItsPlace', DecodedIsData'
    PROVE  ChunkInv'
  BY DEF ChunkInv, BodyIsIntact, Done, InChunks

\* What is parsed and is no data leaves the decoded data as it is.
LEMMA ParsedNoData ==
    ASSUME IInv, InChunks, DecodedIsData, NEW p \in pos..raw_len,
           \A j \in (pos + 1)..p : request.bytes[j].is # "data",
           pos' = p, UNCHANGED <<request, free, olen>>,
           \A i \in 0..(olen - 1) : buffer'[free + i] = buffer[free + i]
    PROVE  DecodedIsData'
  <1> DEFINE b == request.bytes
             Holds(buf, j) == \E i \in 0..(olen - 1) : buf[free + i] = request.head + j
  <1>1. /\ request.head \in Nat /\ pos \in Nat /\ raw_len \in Nat /\ olen \in Nat /\ p \in Nat
        /\ \A i \in 0..(olen - 1) : buffer[free + i] \in (request.head + 1)..(request.head + pos)
    BY ChunkBytes DEF IInv, DecodedInOrder
  <1>2. ASSUME NEW j \in 1..p
        PROVE  b[j].is = "data" <=> Holds(buffer, j)
    <2>1. CASE j <= pos
      BY <1>1, <2>1 DEF DecodedIsData
    <2>2. CASE j > pos
      <3>1. b[j].is # "data"
        BY <1>1, <2>2
      <3>2. ~Holds(buffer, j)
        BY <1>1, <2>2
      <3> QED
        BY <3>1, <3>2
    <2> QED
      BY <1>1, <2>1, <2>2
  <1>3. \A j \in 1..p : Holds(buffer', j) <=> Holds(buffer, j)
    OBVIOUS
  <1>4. \A j \in 1..p : b[j].is = "data" <=> Holds(buffer', j)
    BY <1>2, <1>3
  <1> QED
    BY <1>4 DEF DecodedIsData

\* Waiting for more bytes.
LEMMA EnsureBufferedIntact ==
    ASSUME IInv, ChunkInv, IInv', InChunks, EnsureBuffered, UNCHANGED <<stream, free>>
    PROVE  ChunkInv'
  <1>1. UNCHANGED <<request, free, pos, olen, chunk>>
    BY DEF EnsureBuffered, stream
  <1>2. CASE at' = "done" /\ result' # "ok"
    BY <1>2, NotInChunks DEF InChunks, Done
  <1>3. ASSUME NEW n \in 1..Capacity, Take(free + raw_len, n), raw_len' = raw_len + n, at' = at
        PROVE  ChunkInv'
    <2>1. /\ free \in Nat /\ raw_len \in Nat /\ olen \in Nat /\ olen <= raw_len
          /\ free + raw_len \in 0..Capacity /\ TypeOK /\ pos \in pos..raw_len
      <3>1. /\ free \in Nat /\ raw_len \in Nat /\ olen \in Nat /\ pos \in Nat
            /\ olen <= pos /\ pos <= raw_len
        BY ChunkBytes
      <3>2. raw_len <= Capacity - free /\ Capacity \in Nat /\ TypeOK
        BY RequestAssumption DEF IInv, DecodedInOrder, raw_cap
      <3> QED
        BY <3>1, <3>2
    <2>2. \A q \in 0..(free + raw_len - 1) : buffer'[q] = buffer[q]
      BY <1>3, <2>1, TakeFacts
    <2>3. \A i \in 0..(olen - 1) : buffer'[free + i] = buffer[free + i]
      BY <2>1, <2>2
    <2>4. \A j \in (pos + 1)..pos : request.bytes[j].is # "data"
      BY <2>1, ChunkBytes
    <2>5. DecodedIsData'
      BY <1>1, <2>1, <2>3, <2>4, ParsedNoData DEF ChunkInv
    <2>6. AtItsPlace'
      <3>1. AtDigits(request.bytes) => AtDigits(request.bytes)'
        BY <1>1, <1>3, <2>1 DEF AtDigits, AtSize
      <3> QED
        BY <1>1, <1>3, <3>1 DEF ChunkInv, AtItsPlace, AtSize, InSizeLine, InData
    <2> QED
      BY <1>3, <2>5, <2>6, StillInChunks DEF InChunks
  <1> QED
    BY <1>2, <1>3 DEF EnsureBuffered, Fails, Return

\* Parsing ahead, into another place of the chunk stream.
LEMMA ParsedIntact ==
    ASSUME IInv, ChunkInv, IInv', InChunks, InChunks', NEW p \in pos..raw_len, pos' = p,
           \A j \in (pos + 1)..p : request.bytes[j].is # "data",
           UNCHANGED <<request, free, olen, buffer>>, AtItsPlace'
    PROVE  ChunkInv'
  <1>1. DecodedIsData'
    BY ParsedNoData DEF ChunkInv
  <1> QED
    BY <1>1, StillInChunks

\* Beginning a size line keeps the body intact.
LEMMA SizeLineIntact ==
    ASSUME IInv, ChunkInv, IInv', SizeLine
    PROVE  ChunkInv'
  <1>1. InChunks /\ at = "size"
    BY DEF SizeLine, InChunks
  <1>2. CASE Has(1)
    <2>1. /\ at' = "digits" /\ chunk' = 0 /\ pos' = pos /\ InChunks'
          /\ UNCHANGED <<request, free, raw_len, olen, buffer>>
      BY <1>2 DEF SizeLine, Goto, TakesNothing, stream, InChunks
    <2>2. pos \in Nat /\ raw_len \in Nat /\ pos <= raw_len
      BY <1>1, ChunkBytes
    <2>3. AtSize(request.bytes) /\ pos < raw_len
      BY <1>1, <1>2, <2>2 DEF ChunkInv, AtItsPlace, Has
    <2>4. AtItsPlace'
      BY <2>1, <2>3 DEF AtItsPlace, AtDigits, AtSize
    <2>5. pos \in pos..raw_len /\ \A j \in (pos + 1)..pos : request.bytes[j].is # "data"
      BY <2>2
    <2> QED
      BY <1>1, <2>1, <2>4, <2>5, ParsedIntact
  <1>3. CASE ~Has(1)
    BY <1>1, <1>3, EnsureBufferedIntact DEF SizeLine
  <1> QED
    BY <1>2, <1>3

\* Reading the digit of a size keeps the body intact.
LEMMA DigitsIntact ==
    ASSUME OneDigitSizes, IInv, ChunkInv, IInv', Digits
    PROVE  ChunkInv'
  <1> DEFINE b == request.bytes
  <1>1. InChunks /\ at = "digits" /\ UNCHANGED <<request, free, raw_len, olen, buffer>>
    BY DEF Digits, InChunks, TakesNothing, stream
  <1>2. /\ Len(b) \in Nat /\ pos \in Nat /\ raw_len \in Nat /\ pos <= raw_len
        /\ \A j \in 1..Len(b) : b[j].says \in 0..15
        /\ \A p \in pos..(raw_len - 1) : p + 1 \in 1..Len(b) /\ Raw(p) = b[p + 1]
    BY <1>1, ChunkBytes
  <1>3. Has(1) <=> pos < raw_len
    BY <1>2 DEF Has
  <1>4. Has(1) => pos + 1 \in 1..Len(b) /\ Raw(pos) = b[pos + 1]
    BY <1>2, <1>3
  <1>5. AtDigits(b)
    BY <1>1 DEF ChunkInv, AtItsPlace
  <1>6. CASE Has(1) /\ Raw(pos).is = "digit"
    <2>1. /\ at' = "digits" /\ pos' = pos + 1 /\ InChunks'
          /\ chunk' = (chunk * 16 + Raw(pos).says) % SizeModulus
      BY <1>1, <1>6 DEF Digits, InChunks
    <2>2. chunk = 0
      <3>1. CASE pos \in 1..Len(b) /\ b[pos].is = "digit"
        <4>1. PICK e \in 1..Len(b) : SizeLineAt(b, pos, e)
          <5>1. OneDigitChunks(b)
            BY <1>1, ChunkBytes DEF OneDigitSizes
          <5> QED
            BY <3>1, <5>1 DEF OneDigitChunks
        <4>2. pos + 1 = e \/ pos + 1 \in (pos + 1)..(e - 1)
          BY <1>2, <4>1 DEF SizeLineAt
        <4>3. b[pos + 1].is # "digit"
          BY <4>1, <4>2 DEF SizeLineAt
        <4> QED
          BY <1>4, <1>6, <4>3
      <3> QED
        BY <1>5, <3>1 DEF AtDigits
    <2>3. chunk' = b[pos + 1].says
      <3>1. b[pos + 1].says \in 0..15 /\ Raw(pos).says = b[pos + 1].says
        BY <1>2, <1>4, <1>6
      <3>2. SizeModulus \in Nat /\ SizeModulus > 15
        BY RequestAssumption DEF OneDigitSizes
      <3>3. \A n \in 0..15 : (0 * 16 + n) % SizeModulus = n
        BY <3>2
      <3> QED
        BY <2>1, <2>2, <3>1, <3>3
    <2>4. AtItsPlace'
      <3>1. pos + 1 \in 1..Len(b) /\ b[pos + 1].is = "digit"
        BY <1>4, <1>6
      <3> QED
        BY <1>1, <2>1, <2>3, <3>1 DEF AtItsPlace, AtDigits
    <2>5. pos + 1 \in pos..raw_len /\ \A j \in (pos + 1)..(pos + 1) : b[j].is # "data"
      BY <1>2, <1>3, <1>4, <1>6
    <2> QED
      BY <1>1, <2>1, <2>4, <2>5, ParsedIntact
  <1>7. CASE ~(Has(1) /\ Raw(pos).is = "digit")
    <2>1. at' = "skip" /\ pos' = pos /\ chunk' = chunk /\ InChunks'
      BY <1>1, <1>7 DEF Digits, Goto, InChunks
    <2>2. pos \in 1..Len(b) /\ b[pos].is = "digit" /\ chunk = b[pos].says
      BY <1>3, <1>4, <1>5, <1>7 DEF AtDigits, AtSize
    <2>3. InSizeLine(b)'
      <3>1. \A j \in (pos + 1)..pos : j <= Len(b) /\ b[j].is \in {"extension", "cr"}
        BY <1>2
      <3> QED
        BY <1>1, <1>2, <2>1, <2>2, <3>1 DEF InSizeLine
    <2>4. AtItsPlace'
      BY <1>1, <2>1, <2>3 DEF AtItsPlace
    <2>5. pos \in pos..raw_len /\ \A j \in (pos + 1)..pos : b[j].is # "data"
      BY <1>2
    <2> QED
      BY <1>1, <2>1, <2>4, <2>5, ParsedIntact
  <1> QED
    BY <1>6, <1>7

\* The size line that the parser is in ends at e, and e is not yet passed.
LEMMA LineEndAhead ==
    ASSUME OneDigitSizes, IInv, ChunkInv, at = "skip"
    PROVE  \E i, e \in 1..Len(request.bytes) :
              /\ request.bytes[i].is = "digit" /\ chunk = request.bytes[i].says /\ i <= pos
              /\ \A j \in (i + 1)..pos : request.bytes[j].is \in {"extension", "cr"}
              /\ SizeLineAt(request.bytes, i, e) /\ pos < e
              /\ chunk = 0 => NothingBehind(request.bytes, e)
              /\ chunk # 0 => DataBehind(request.bytes, e, chunk)
  <1> DEFINE b == request.bytes
  <1>1. InChunks /\ InSizeLine(b)
    BY DEF InChunks, ChunkInv, AtItsPlace
  <1>2. PICK i \in 1..Len(b) :
           /\ i <= pos /\ b[i].is = "digit" /\ chunk = b[i].says
           /\ \A j \in (i + 1)..pos : j <= Len(b) /\ b[j].is \in {"extension", "cr"}
    BY <1>1 DEF InSizeLine
  <1>3. OneDigitChunks(b) /\ pos \in Nat /\ Len(b) \in Nat
    BY <1>1, ChunkBytes DEF OneDigitSizes
  <1>4. PICK e \in 1..Len(b) :
           /\ SizeLineAt(b, i, e)
           /\ IF b[i].says = 0 THEN NothingBehind(b, e) ELSE DataBehind(b, e, b[i].says)
    BY <1>2, <1>3 DEF OneDigitChunks
  <1>5. pos < e
    <2>1. e \in (i + 1)..Len(b) /\ b[e].is = "lf"
      BY <1>4 DEF SizeLineAt
    <2> QED
      BY <1>2, <1>3, <2>1
  <1> QED
    BY <1>2, <1>4, <1>5

\* Skipping the rest of a size line keeps the body intact.
LEMMA SkipLineIntact ==
    ASSUME OneDigitSizes, IInv, ChunkInv, IInv', SkipLine
    PROVE  ChunkInv'
  <1> DEFINE b == request.bytes
  <1>1. InChunks /\ at = "skip" /\ UNCHANGED <<stream, request, free>>
    BY DEF SkipLine, InChunks, stream
  <1>2. /\ Len(b) \in Nat /\ pos \in Nat /\ raw_len \in Nat /\ pos <= raw_len /\ olen \in Nat
        /\ chunk \in Nat /\ request.head \in Nat /\ free \in Nat
        /\ \A p \in pos..(raw_len - 1) : p + 1 \in 1..Len(b) /\ Raw(p) = b[p + 1]
    BY <1>1, ChunkBytes
  <1>3. PICK i, e \in 1..Len(b) :
           /\ b[i].is = "digit" /\ chunk = b[i].says /\ i <= pos
           /\ \A j \in (i + 1)..pos : b[j].is \in {"extension", "cr"}
           /\ SizeLineAt(b, i, e) /\ pos < e
           /\ chunk = 0 => NothingBehind(b, e)
           /\ chunk # 0 => DataBehind(b, e, chunk)
    BY <1>1, LineEndAhead
  <1>4. CASE ~Has(1)
    BY <1>1, <1>4, EnsureBufferedIntact DEF SkipLine
  <1>5. CASE Has(1)
    <2>1. /\ pos' = pos + 1 /\ UNCHANGED <<buffer, received, raw_len, olen, chunk>>
          /\ pos < raw_len
      BY <1>2, <1>5 DEF SkipLine, TakesNothing, Has
    <2>2. pos + 1 \in 1..Len(b) /\ Raw(pos) = b[pos + 1]
      BY <1>2, <2>1
    <2>3. /\ pos + 1 = e \/ pos + 1 \in (i + 1)..(e - 1)
          /\ b[e].is = "lf" /\ \A j \in (i + 1)..(e - 1) : b[j].is \in {"extension", "cr"}
      BY <1>2, <1>3 DEF SizeLineAt
    <2>4. b[pos + 1].is = "lf" => pos + 1 = e
      BY <2>3
    <2>5. pos + 1 \in pos..raw_len /\ \A j \in (pos + 1)..(pos + 1) : b[j].is # "data"
      BY <1>2, <2>1, <2>3
    <2>6. CASE b[pos + 1].is # "lf"
      <3>1. at' = "skip" /\ InChunks'
        BY <1>1, <1>5, <2>2, <2>6 DEF SkipLine, InChunks
      <3>2. b[pos + 1].is \in {"extension", "cr"}
        BY <2>3, <2>6
      <3>3. \A j \in (i + 1)..(pos + 1) : j <= Len(b) /\ b[j].is \in {"extension", "cr"}
        BY <1>2, <1>3, <2>2, <3>2
      <3>4. InSizeLine(b)'
        BY <1>1, <1>2, <1>3, <2>1, <3>3, SMTT(40) DEF InSizeLine
      <3>5. AtItsPlace'
        BY <1>1, <3>1, <3>4 DEF AtItsPlace
      <3> QED
        BY <1>1, <2>1, <2>5, <3>1, <3>5, ParsedIntact
    <2>7. CASE b[pos + 1].is = "lf" /\ chunk # 0
      <3>1. at' = "data" /\ InChunks'
        BY <1>5, <2>2, <2>7 DEF SkipLine, InChunks, Goto
      <3>2. DataBehind(b, e, chunk)
        BY <1>3, <2>7
      <3>3. \E d \in {e + chunk + 1, e + chunk + 2} : d < Len(b)
        BY <3>2 DEF DataBehind
      <3>4. e \in 0..Len(b) /\ chunk \in 0..Len(b) /\ (pos + 1) + chunk = e + chunk
        BY <1>2, <2>4, <2>7, <3>3
      <3>5. InData(b)'
        BY <1>1, <1>2, <2>1, <3>2, <3>4 DEF InData
      <3>6. AtItsPlace'
        BY <1>1, <3>1, <3>5 DEF AtItsPlace
      <3> QED
        BY <1>1, <2>1, <2>5, <3>1, <3>6, ParsedIntact
    <2>8. CASE b[pos + 1].is = "lf" /\ chunk = 0
      <3>1. at' = "done" /\ result' = "ok" /\ body_start' = free /\ body_length' = olen
        BY <1>5, <2>2, <2>8 DEF SkipLine, Return
      <3>2. NothingBehind(b, e) /\ pos + 1 = e
        BY <1>3, <2>4, <2>8
      <3>3. ASSUME NEW j \in 1..Len(b), b[j].is = "data"
            PROVE  \E k \in 0..(olen - 1) : buffer[free + k] = request.head + j
        <4>1. j < e
          BY <1>2, <3>2, <3>3 DEF NothingBehind
        <4>2. j \in 1..pos
          BY <1>2, <2>3, <2>8, <3>2, <3>3, <4>1
        <4> QED
          BY <1>1, <3>3, <4>2 DEF ChunkInv, DecodedIsData
      <3>4. ASSUME NEW k \in 0..(olen - 1)
            PROVE  \E j \in 1..Len(b) : b[j].is = "data" /\ buffer[free + k] = request.head + j
        <4>1. buffer[free + k] \in (request.head + 1)..(request.head + pos)
          BY <1>1 DEF IInv, DecodedInOrder
        <4>2. PICK j \in 1..pos : buffer[free + k] = request.head + j
          <5>1. buffer[free + k] - request.head \in 1..pos
            BY <1>2, <4>1
          <5> QED
            BY <1>2, <4>1, <5>1
        <4>3. b[j].is = "data"
          BY <1>1, <4>2 DEF ChunkInv, DecodedIsData
        <4>4. j \in 1..Len(b)
          BY <1>2, <2>2, <4>2
        <4> QED
          BY <4>2, <4>3, <4>4
      <3>5. \A k \in 1..olen : BodyOffsets'[k] = buffer[free + (k - 1)]
        BY <1>2, <2>1, <3>1 DEF BodyOffsets
      <3>6. {BodyOffsets'[k] : k \in 1..olen} = ChunkedData
        <4>1. ASSUME NEW k \in 1..olen
              PROVE  BodyOffsets'[k] \in ChunkedData
          <5>1. k - 1 \in 0..(olen - 1)
            BY <1>2
          <5> QED
            BY <3>4, <3>5, <5>1 DEF ChunkedData
        <4>2. ASSUME NEW x \in ChunkedData
              PROVE  \E k \in 1..olen : BodyOffsets'[k] = x
          <5>1. PICK j \in 1..Len(b) : b[j].is = "data" /\ x = request.head + j
            BY <4>2 DEF ChunkedData
          <5>2. PICK k \in 0..(olen - 1) : buffer[free + k] = request.head + j
            BY <3>3, <5>1
          <5>3. k + 1 \in 1..olen /\ (k + 1) - 1 = k
            BY <1>2
          <5>4. BodyOffsets'[k + 1] = buffer[free + k]
            BY <3>5, <5>3
          <5> QED
            BY <5>1, <5>2, <5>3, <5>4
        <4> QED
          BY <4>1, <4>2
      <3>7. BodyIsIntact'
        <4>1. ChunkedData' = ChunkedData
          BY <1>1 DEF ChunkedData
        <4>2. (Done("ok") /\ HeadRead)' => InOrder'
          BY DEF IInv, AcceptedBody
        <4>3. request'.framing = "chunked"
          BY <1>1, ChunkBytes
        <4>4. {BodyOffsets[k] : k \in 1..body_length}' = ChunkedData'
          BY <3>1, <3>6, <4>1
        <4> QED
          BY <4>2, <4>3, <4>4 DEF BodyIsIntact
      <3>8. AtItsPlace' /\ DecodedIsData'
        BY <3>1 DEF AtItsPlace, DecodedIsData, InChunks
      <3> QED
        BY <3>7, <3>8 DEF ChunkInv
    <2> QED
      BY <2>6, <2>7, <2>8
  <1> QED
    BY <1>4, <1>5

\* The decoded data grows by that which is parsed.
LEMMA DecodeIntact ==
    ASSUME IInv, ChunkInv, IInv', at = "data", Has(1), chunk # 0, Decode(Takeable),
           UNCHANGED <<request, free, at>>
    PROVE  ChunkInv'
  <1> DEFINE b == request.bytes
             k == Takeable
  <1>1. InChunks /\ InChunks' /\ InData(b)
    BY DEF InChunks, ChunkInv, AtItsPlace
  <1>2. /\ Len(b) \in Nat /\ pos \in Nat /\ raw_len \in Nat /\ pos <= raw_len /\ olen \in Nat
        /\ chunk \in Nat /\ request.head \in Nat /\ free \in Nat
    BY <1>1, ChunkBytes
  <1>3. /\ k \in Nat /\ k <= chunk
        /\ olen' = olen + k /\ pos' = pos + k /\ chunk' = chunk - k
        /\ \A i \in 0..(olen - 1) : buffer'[free + i] = buffer[free + i]
        /\ \A i \in olen..((olen + k) - 1) :
              buffer'[free + i] = request.head + pos + (i - olen) + 1
    BY <1>1, DecodedBytes
  <1>4. \A i \in 0..(olen - 1) : buffer[free + i] \in (request.head + 1)..(request.head + pos)
    BY <1>1 DEF IInv, DecodedInOrder
  <1> HIDE DEF k
  <1>5. PICK e \in 0..Len(b), n \in 0..Len(b) : DataBehind(b, e, n) /\ chunk <= n /\ pos + chunk = e + n
    BY <1>1 DEF InData
  <1>6. ASSUME NEW j \in (pos + 1)..(pos + k)
        PROVE  b[j].is = "data"
    <2>1. j \in (e + 1)..(e + n)
      BY <1>2, <1>3, <1>5
    <2> QED
      BY <1>5, <2>1 DEF DataBehind
  <1>7. ASSUME NEW j \in 1..(pos + k)
        PROVE  b[j].is = "data" <=>
                   \E i \in 0..((olen + k) - 1) : buffer'[free + i] = request.head + j
    <2>1. CASE j <= pos
      <3>1. b[j].is = "data" <=> \E i \in 0..(olen - 1) : buffer[free + i] = request.head + j
        <4>1. \A m \in 1..pos :
                 b[m].is = "data" <=> \E i \in 0..(olen - 1) : buffer[free + i] = request.head + m
          BY <1>1 DEF ChunkInv, DecodedIsData
        <4>2. j \in 1..pos
          BY <1>2, <2>1
        <4> QED
          BY <4>1, <4>2
      <3>2. ASSUME NEW i \in olen..((olen + k) - 1)
            PROVE  buffer'[free + i] # request.head + j
        <4>1. buffer'[free + i] = request.head + pos + (i - olen) + 1
          BY <1>3
        <4> QED
          BY <1>2, <1>3, <2>1, <4>1
      <3>3. \A i \in 0..((olen + k) - 1) : i \in 0..(olen - 1) \/ i \in olen..((olen + k) - 1)
        BY <1>2, <1>3
      <3>4. \A i \in 0..(olen - 1) : i \in 0..((olen + k) - 1)
        BY <1>2, <1>3
      <3> QED
        BY <1>3, <3>1, <3>2, <3>3, <3>4
    <2>2. CASE j > pos
      <3>1. b[j].is = "data"
        BY <1>2, <1>6, <2>2
      <3>2. PICK i \in olen..((olen + k) - 1) : j = pos + (i - olen) + 1
        <4>1. olen + ((j - pos) - 1) \in olen..((olen + k) - 1)
          BY <1>2, <1>3, <2>2
        <4>2. j = pos + ((olen + ((j - pos) - 1)) - olen) + 1
          BY <1>2
        <4> QED
          BY <4>1, <4>2
      <3>3. buffer'[free + i] = request.head + pos + (i - olen) + 1
        BY <1>3
      <3>4. buffer'[free + i] = request.head + j /\ i \in 0..((olen + k) - 1)
        BY <1>2, <1>3, <3>2, <3>3
      <3> QED
        BY <3>1, <3>4
    <2> QED
      BY <1>2, <2>1, <2>2
  <1>8. DecodedIsData'
    BY <1>3, <1>7 DEF DecodedIsData
  <1>9. InData(b)'
    <2>1. chunk - k <= n /\ (pos + k) + (chunk - k) = e + n
      BY <1>2, <1>3, <1>5
    <2> QED
      BY <1>3, <1>5, <2>1 DEF InData
  <1>10. AtItsPlace'
    BY <1>9 DEF AtItsPlace
  <1> QED
    BY <1>1, <1>8, <1>10, StillInChunks

\* Decoding the bytes of a chunk keeps the body intact.
LEMMA ChunkDataIntact ==
    ASSUME IInv, ChunkInv, IInv', ChunkData
    PROVE  ChunkInv'
  <1> DEFINE b == request.bytes
  <1>1. InChunks /\ at = "data" /\ InData(b) /\ UNCHANGED <<stream, request, free>>
    BY DEF ChunkData, InChunks, ChunkInv, AtItsPlace, stream
  <1>2. CASE chunk = 0
    <2>1. at' = "data_end" /\ InChunks' /\ UNCHANGED <<pos, chunk, olen, buffer>>
      BY <1>2 DEF ChunkData, Goto, InChunks, TakesNothing, raw
    <2>2. AtItsPlace'
      BY <1>1, <1>2, <2>1 DEF AtItsPlace, InData
    <2>3. pos \in pos..raw_len /\ \A j \in (pos + 1)..pos : b[j].is # "data"
      BY <1>1, ChunkBytes
    <2> QED
      BY <1>1, <2>1, <2>2, <2>3, ParsedIntact
  <1>3. CASE chunk # 0 /\ ~Has(1)
    BY <1>1, <1>3, EnsureBufferedIntact DEF ChunkData
  <1>4. CASE chunk # 0 /\ Has(1) /\ Takeable = 0
    <2>1. at' = "done" /\ result' # "ok"
      BY <1>4 DEF ChunkData, Return
    <2> QED
      BY <2>1, NotInChunks DEF InChunks, Done
  <1>5. CASE chunk # 0 /\ Has(1) /\ Takeable # 0
    BY <1>1, <1>5, DecodeIntact DEF ChunkData
  <1> QED
    BY <1>2, <1>3, <1>4, <1>5

\* Consuming the end of a chunk keeps the body intact.
LEMMA ChunkEndIntact ==
    ASSUME IInv, ChunkInv, IInv', ChunkEnd
    PROVE  ChunkInv'
  <1> DEFINE b == request.bytes
  <1>1. /\ InChunks /\ at = "data_end" /\ InData(b) /\ chunk = 0
        /\ UNCHANGED <<stream, request, free>>
    BY DEF ChunkEnd, InChunks, ChunkInv, AtItsPlace, stream
  <1>2. /\ Len(b) \in Nat /\ pos \in Nat /\ raw_len \in Nat /\ pos <= raw_len
        /\ \A p \in pos..(raw_len - 1) : p + 1 \in 1..Len(b) /\ Raw(p) = b[p + 1]
    BY <1>1, ChunkBytes
  <1>3. CASE ~Has(2)
    BY <1>1, <1>3, EnsureBufferedIntact DEF ChunkEnd
  <1>4. CASE Has(2)
    <2>1. /\ at' = "size" /\ InChunks' /\ UNCHANGED <<buffer, olen>>
          /\ pos' = IF Raw(AfterCr).is = "lf" THEN AfterCr + 1 ELSE AfterCr
      BY <1>4 DEF ChunkEnd, Goto, InChunks, TakesNothing
    <2>2. PICK e \in 0..Len(b), n \in 0..Len(b) : DataBehind(b, e, n) /\ pos = e + n
      BY <1>1, <1>2 DEF InData
    <2>3. PICK d \in {pos + 1, pos + 2} :
             /\ d < Len(b) /\ b[d].is = "lf" /\ b[d + 1].is = "digit"
             /\ d = pos + 2 => b[pos + 1].is = "cr"
      BY <2>2 DEF DataBehind
    <2>4. /\ pos \in pos..(raw_len - 1) /\ pos + 1 \in pos..(raw_len - 1)
          /\ pos + 1 <= raw_len /\ pos + 2 <= raw_len
      BY <1>2, <1>4 DEF Has
    <2>5. Raw(pos) = b[pos + 1] /\ Raw(pos + 1) = b[pos + 2]
      <3>1. (pos + 1) + 1 = pos + 2
        BY <1>2
      <3> QED
        BY <1>2, <2>4, <3>1
    <2>6. pos' = d /\ \A j \in (pos + 1)..d : b[j].is # "data"
      <3>1. CASE d = pos + 1
        <4>1. AfterCr = pos /\ Raw(AfterCr).is = "lf"
          BY <2>3, <2>5, <3>1 DEF AfterCr
        <4> QED
          BY <1>2, <2>1, <2>3, <3>1, <4>1
      <3>2. CASE d = pos + 2
        <4>1. AfterCr = pos + 1 /\ Raw(AfterCr).is = "lf"
          BY <2>3, <2>5, <3>2 DEF AfterCr
        <4>2. (pos + 1) + 1 = pos + 2 /\ \A j \in (pos + 1)..(pos + 2) : j = pos + 1 \/ j = pos + 2
          BY <1>2
        <4> QED
          BY <2>1, <2>3, <3>2, <4>1, <4>2
      <3> QED
        BY <2>3, <3>1, <3>2
    <2>7. AtItsPlace'
      BY <1>1, <2>1, <2>3, <2>6 DEF AtItsPlace, AtSize
    <2>8. d \in pos..raw_len
      BY <1>2, <2>3, <2>4
    <2> QED
      BY <1>1, <2>1, <2>6, <2>7, <2>8, ParsedIntact
  <1> QED
    BY <1>3, <1>4

\* Up to the chunks, and beside them.
LEMMA BeforeChunksIntact ==
    ASSUME OneDigitSizes, IInv, ChunkInv, IInv', ReadHead \/ Parse \/ ReadBody
    PROVE  ChunkInv'
  <1>1. CASE ReadHead
    <2>1. ~InChunks' /\ ~Done("ok")'
      BY <1>1 DEF ReadHead, Goto, Return, Fails, InChunks, Done, IInv
    <2> QED
      BY <2>1, NotInChunks
  <1>2. CASE ReadBody
    <2>1. at = "body" /\ request' = request /\ request.framing # "chunked"
      BY <1>2 DEF ReadBody, IInv, BodyAt, stream
    <2>2. ~InChunks'
      BY <1>2, <2>1 DEF ReadBody, Return, Fails, InChunks
    <2> QED
      BY <2>1, <2>2, NotInChunks
  <1>3. CASE Parse /\ received < request.head
    <2>1. at = "parse" /\ UNCHANGED <<stream, received>> /\ at' \in {"done", "body", "size"}
      BY <1>3 DEF Parse, ParseGarbage, Return, Goto
    <2>2. at' = "done"
      <3>1. received \in Int /\ request.head \in Int
        BY RequestAssumption, SMTT(40) DEF IInv, TypeOK
      <3> QED
        BY <1>3, <3>1 DEF Parse, ParseGarbage, Return
    <2>3. ~HeadRead'
      <3>1. received \in Int /\ request.head \in Int
        BY RequestAssumption, SMTT(40) DEF IInv, TypeOK
      <3> QED
        BY <1>3, <2>1, <3>1 DEF HeadRead, stream
    <2> QED
      BY <2>2, <2>3, NotInChunks DEF InChunks
  <1>4. CASE Parse /\ ~(received < request.head) /\ request.framing # "chunked"
    <2>1. request' = request /\ ~InChunks'
      BY <1>4 DEF Parse, ParseGarbage, Return, Goto, InChunks, stream
    <2> QED
      BY <1>4, <2>1, NotInChunks
  <1>5. CASE Parse /\ ~(received < request.head) /\ request.framing = "chunked"
    <2>1. at' = "size" /\ pos' = 0 /\ olen' = 0 /\ request' = request
      BY <1>5 DEF Parse, ParseGarbage, Return, Goto, stream
    <2>2. OneDigitChunks(request.bytes) /\ request.bytes[0 + 1].is = "digit"
      <3>1. request \in Requests /\ 0 + 1 = 1
        BY DEF IInv, TypeOK
      <3>2. OneDigitChunks(request.bytes)
        BY <1>5, <3>1 DEF OneDigitSizes
      <3> QED
        BY <3>1, <3>2 DEF OneDigitChunks
    <2>3. AtItsPlace'
      BY <2>1, <2>2 DEF AtItsPlace, AtSize, OneDigitChunks
    <2>4. DecodedIsData'
      BY <2>1 DEF DecodedIsData
    <2> QED
      BY <2>1, <2>3, <2>4, StillInChunks DEF InChunks
  <1> QED
    BY <1>1, <1>2, <1>3, <1>4, <1>5

\* With sizes of one digit every step keeps the body intact.
LEMMA ChunkStep ==
    ASSUME OneDigitSizes, IInv, ChunkInv, IInv', [Next]_vars
    PROVE  ChunkInv'
  <1>1. CASE UNCHANGED vars
    <2>1. UNCHANGED <<request, buffer, received, free, raw_len, pos, olen, chunk,
                      body_start, body_length, at, result>>
      BY <1>1 DEF vars, stream, raw, body
    <2>2. AtItsPlace'
      BY <2>1 DEF ChunkInv, AtItsPlace, AtSize, AtDigits, InSizeLine, InData
    <2>3. DecodedIsData'
      BY <2>1 DEF ChunkInv, DecodedIsData, InChunks
    <2>4. BodyIsIntact'
      BY <2>1, ZenonT(60) DEF ChunkInv, BodyIsIntact, Done, HeadRead, BodyOffsets, ChunkedData, InOrder
    <2> QED
      BY <2>2, <2>3, <2>4 DEF ChunkInv
  <1> QED
    BY <1>1, BeforeChunksIntact, SizeLineIntact, DigitsIntact, SkipLineIntact, ChunkDataIntact,
       ChunkEndIntact DEF Next

\* Nothing was decoded at first.
LEMMA ChunkInit ==
    Init => ChunkInv
  BY DEF Init, ChunkInv, AtItsPlace, DecodedIsData, BodyIsIntact, InChunks, Done

\* The body of an accepted request is the one that was sent: for every buffer and
\* however the bytes arrive, all the data of all the chunks, once and in order, if no
\* size has two digits; otherwise a read can cut a size in two (see the findings).
THEOREM WholeBodies ==
    ASSUME OneDigitSizes
    PROVE  Spec => []BodyIsIntact
  <1>1. Init => IInv /\ ChunkInv
    BY InvariantInit, ChunkInit
  <1>2. IInv /\ ChunkInv /\ [Next]_vars => IInv' /\ ChunkInv'
    BY InvariantStep, ChunkStep
  <1>3. ChunkInv => BodyIsIntact
    BY DEF ChunkInv
  <1> QED
    BY <1>1, <1>2, <1>3, PTL DEF Spec
=================================================================================
