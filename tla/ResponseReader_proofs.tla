------------------------- MODULE ResponseReader_proofs -------------------------
(***************************************************************************)
(* Proofs about ResponseReader: for every window and every response, the   *)
(* bytes in the window are where they should be, and the body is handed    *)
(* over whole and unaltered, of a chunked one if it is framed as it says.  *)
(***************************************************************************)
EXTENDS ResponseReader, SequenceTheorems, TLAPS

\* The smaller of two numbers.
LEMMA MinOfTwo ==
    ASSUME NEW a \in Int, NEW b \in Int
    PROVE  /\ Min({a, b}) = IF a <= b THEN a ELSE b
  BY DEF Min

\* Where the window is after it was, perhaps, compacted.
LEMMA MovedWindow ==
    ASSUME IInv
    PROVE  /\ MovedStart \in stored_length..Capacity /\ MovedEnd \in MovedStart..Capacity
           /\ MovedEnd - MovedStart = end - start
           /\ Moved \in [Positions -> 0..Len(response.bytes)]
           /\ \A p \in MovedStart..(MovedEnd - 1) : Moved[p] = received - (MovedEnd - p) + 1
           /\ \A p \in 0..(stored_length - 1) : Moved[p] = buffer[p]
           /\ NoRoom => stored_length + (end - start) = Capacity
  <1> USE ReaderAssumption DEF IInv, TypeOK, UnreadIsSafe, Positions
  <1>1. /\ MovedStart \in stored_length..Capacity /\ MovedEnd \in MovedStart..Capacity
        /\ MovedEnd - MovedStart = end - start
        /\ MovedStart = start \/ MovedStart = stored_length
        /\ NoRoom => stored_length + (end - start) = Capacity
    BY DEF MovedStart, MovedEnd, Compacts, Empty, NoRoom
  <1>2. CASE Compacts
    <2>1. MovedStart = stored_length
      BY <1>2 DEF MovedStart, Compacts
    <2>2. ASSUME NEW p \in Positions, p \in MovedStart..(MovedEnd - 1)
          PROVE  /\ start + (p - MovedStart) \in start..(end - 1)
                 /\ start + (p - MovedStart) \in Positions
      BY <1>1, <2>2
    <2>3. Moved = [p \in Positions |-> IF p \in MovedStart..(MovedEnd - 1)
                                       THEN buffer[start + (p - MovedStart)] ELSE buffer[p]]
      BY <1>2 DEF Moved
    <2>4. Moved \in [Positions -> 0..Len(response.bytes)]
      BY <2>2, <2>3
    <2>5. ASSUME NEW p \in MovedStart..(MovedEnd - 1)
          PROVE  Moved[p] = received - (MovedEnd - p) + 1
      <3>1. p \in Positions
        BY <1>1
      <3>2. Moved[p] = buffer[start + (p - MovedStart)]
        BY <2>3, <3>1
      <3>3. start + (p - MovedStart) \in start..(end - 1)
        BY <2>2, <3>1
      <3>4. end - (start + (p - MovedStart)) = MovedEnd - p
        BY <1>1
      <3> QED
        BY <3>2, <3>3, <3>4
    <2>6. ASSUME NEW p \in 0..(stored_length - 1)
          PROVE  Moved[p] = buffer[p]
      BY <1>1, <2>3
    <2> QED
      BY <1>1, <2>4, <2>5, <2>6
  <1>3. CASE ~Compacts
    <2>1. Moved = buffer
      BY <1>3 DEF Moved
    <2>2. Empty \/ (MovedStart = start /\ MovedEnd = end)
      BY <1>3 DEF MovedStart, MovedEnd
    <2>3. Empty => MovedStart = MovedEnd
      BY <1>1 DEF Empty
    <2> QED
      BY <1>1, <2>1, <2>2, <2>3, SMTT(40)
  <1> QED
    BY <1>2, <1>3

\* The unread bytes of a new window.
LEMMA UnreadNow ==
    ASSUME NEW a \in Nat, NEW b \in Nat, start' = a, end' = b, stored_length' <= a, a <= b,
           \A p \in a..(b - 1) : buffer'[p] = received' - (b - p) + 1
    PROVE  UnreadIsSafe'
  BY DEF UnreadIsSafe

\* What was taken out is what was received without what is in the buffer.
LEMMA TakenOutNow ==
    ASSUME NEW a \in Int, NEW b \in Int, NEW r \in Int, start' = a, end' = b, received' = r
    PROVE  TakenOut' = r - (b - a)
  BY DEF TakenOut

\* The stored body is what the first bytes of the window hold.
LEMMA BodyKept ==
    ASSUME stored_length \in Nat, UNCHANGED <<handler, delivered, stored_length>>,
           \A p \in 0..(stored_length - 1) : buffer'[p] = buffer[p]
    PROVE  BodySoFar' = BodySoFar
  <1>1. \A i \in 1..stored_length : i - 1 \in 0..(stored_length - 1)
    OBVIOUS
  <1>2. [i \in 1..stored_length |-> buffer'[i - 1]] = [i \in 1..stored_length |-> buffer[i - 1]]
    BY <1>1
  <1> QED
    BY <1>2 DEF BodySoFar

\* A fill leaves the body alone, and the unread bytes in order behind it.
LEMMA FillStep ==
    ASSUME IInv, NEW onClose \in {"ok", "error"}, Fill(onClose),
           UNCHANGED <<response, sent, handler, delivered>>
    PROVE  /\ buffer' \in [Positions -> 0..Len(response.bytes)]
           /\ start' \in 0..Capacity /\ end' \in 0..Capacity /\ stored_length' \in 0..Capacity
           /\ received' \in 0..sent
           /\ UnreadIsSafe'
           /\ TakenOut' = TakenOut /\ BodySoFar' = BodySoFar
           /\ \/ UNCHANGED <<at, result>>
              \/ at' = "done" /\ result' = "insufficient_size"
                 /\ stored_length' + (end' - start') = Capacity
              \/ at' = "done" /\ result' = onClose /\ sent = received /\ UNCHANGED received
              \/ at' = "done" /\ result' = "error"
  <1>0. /\ MovedStart \in stored_length..Capacity /\ MovedEnd \in MovedStart..Capacity
        /\ MovedEnd - MovedStart = end - start
    BY MovedWindow
  <1>m. /\ Moved \in [Positions -> 0..Len(response.bytes)]
        /\ \A p \in MovedStart..(MovedEnd - 1) : Moved[p] = received - (MovedEnd - p) + 1
        /\ \A p \in 0..(stored_length - 1) : Moved[p] = buffer[p]
        /\ NoRoom => stored_length + (end - start) = Capacity
    BY MovedWindow
  <1>t. /\ Capacity \in Nat /\ stored_length \in 0..Capacity
        /\ start \in 0..Capacity /\ end \in 0..Capacity
        /\ sent \in 0..Len(response.bytes) /\ received \in 0..sent
        /\ Len(response.bytes) \in Nat
    BY ReaderAssumption DEF IInv, TypeOK
  <1> USE <1>0, <1>t
  <1>1. start' = MovedStart /\ stored_length' = stored_length
    BY DEF Fill
  <1>2. \/ buffer' = Moved /\ end' = MovedEnd /\ UNCHANGED received
        \/ \E n \in 1..Min({Capacity - MovedEnd, sent - received}) :
              /\ buffer' = [p \in Positions |->
                               IF p \in MovedEnd..(MovedEnd + n - 1)
                               THEN received + (p - MovedEnd) + 1 ELSE Moved[p]]
              /\ end' = MovedEnd + n
              /\ received' = received + n
    BY DEF Fill
  <1>3. \/ UNCHANGED <<at, result>>
        \/ at' = "done" /\ result' = "insufficient_size"
           /\ stored_length' + (end' - start') = Capacity
        \/ at' = "done" /\ result' = onClose /\ sent = received /\ UNCHANGED received
        \/ at' = "done" /\ result' = "error"
    BY <1>1, <1>m DEF Fill, Return, NoRoom
  <1>4. /\ start' \in 0..Capacity /\ stored_length' \in 0..Capacity /\ MovedStart \in Nat
        /\ stored_length' <= MovedStart
    BY <1>1
  <1>5. CASE buffer' = Moved /\ end' = MovedEnd /\ UNCHANGED received
    <2>1. UnreadIsSafe'
      BY <1>1, <1>4, <1>5, <1>m, UnreadNow
    <2>2. BodySoFar' = BodySoFar
      BY <1>1, <1>5, <1>m, BodyKept
    <2>3. TakenOut' = TakenOut
      <3>1. MovedStart \in Int /\ MovedEnd \in Int /\ received \in Int
        OBVIOUS
      <3>2. TakenOut' = received - (MovedEnd - MovedStart)
        BY <1>1, <1>5, <3>1, TakenOutNow
      <3> QED
        BY <3>2 DEF TakenOut
    <2>4. /\ buffer' \in [Positions -> 0..Len(response.bytes)]
          /\ end' \in 0..Capacity /\ received' \in 0..sent
      BY <1>5, <1>m
    <2> QED
      BY <1>3, <1>4, <2>1, <2>2, <2>3, <2>4
  <1>6. ASSUME NEW n \in 1..Min({Capacity - MovedEnd, sent - received}),
               buffer' = [p \in Positions |->
                             IF p \in MovedEnd..(MovedEnd + n - 1)
                             THEN received + (p - MovedEnd) + 1 ELSE Moved[p]],
               end' = MovedEnd + n,
               received' = received + n
        PROVE  /\ buffer' \in [Positions -> 0..Len(response.bytes)]
               /\ end' \in 0..Capacity /\ received' \in 0..sent
               /\ UnreadIsSafe' /\ TakenOut' = TakenOut /\ BodySoFar' = BodySoFar
    <2>1. n \in Nat /\ n <= Capacity - MovedEnd /\ n <= sent - received
      <3>1. Capacity - MovedEnd \in Int /\ sent - received \in Int
        OBVIOUS
      <3> QED
        BY <1>6, <3>1, MinOfTwo
    <2>2. MovedEnd + n \in MovedStart..Capacity /\ received + n \in 0..sent
      BY <2>1
    <2>3. ASSUME NEW p \in Positions, p \in MovedEnd..(MovedEnd + n - 1)
          PROVE  received + (p - MovedEnd) + 1 \in 0..Len(response.bytes)
      BY <2>1, <2>3 DEF Positions
    <2>4. buffer' \in [Positions -> 0..Len(response.bytes)]
      BY <1>6, <1>m, <2>3
    <2>5. ASSUME NEW p \in MovedStart..(MovedEnd + n - 1)
          PROVE  buffer'[p] = received' - (MovedEnd + n - p) + 1
      <3>1. p \in Positions
        BY <2>2 DEF Positions
      <3>2. CASE p \in MovedEnd..(MovedEnd + n - 1)
        BY <1>6, <2>1, <3>1, <3>2
      <3>3. CASE p \in MovedStart..(MovedEnd - 1)
        <4>1. p \notin MovedEnd..(MovedEnd + n - 1)
          BY <3>3
        <4>2. buffer'[p] = Moved[p]
          BY <1>6, <3>1, <4>1
        <4> QED
          BY <1>6, <1>m, <2>1, <3>3, <4>2
      <3> QED
        BY <2>1, <3>2, <3>3
    <2>6. ASSUME NEW p \in 0..(stored_length - 1)
          PROVE  buffer'[p] = buffer[p]
      <3>1. p \in Positions /\ p \notin MovedEnd..(MovedEnd + n - 1)
        BY <2>1 DEF Positions
      <3> QED
        BY <1>6, <1>m, <3>1
    <2>7. UnreadIsSafe'
      <3>1. PICK e \in Nat : e = MovedEnd + n
        BY <2>2
      <3>2. \A p \in MovedStart..(e - 1) : buffer'[p] = received' - (e - p) + 1
        BY <2>5, <3>1
      <3>3. end' = e /\ MovedStart <= e
        BY <1>6, <2>2, <3>1
      <3> QED
        BY <1>1, <1>4, <3>2, <3>3, UnreadNow
    <2>8. BodySoFar' = BodySoFar
      BY <1>1, <2>6, BodyKept
    <2>9. TakenOut' = TakenOut
      <3>1. MovedStart \in Int /\ MovedEnd + n \in Int /\ received + n \in Int
        BY <2>1
      <3>2. TakenOut' = received + n - (MovedEnd + n - MovedStart)
        BY <1>1, <1>6, <3>1, TakenOutNow
      <3> QED
        BY <2>1, <3>2 DEF TakenOut
    <2> QED
      BY <1>6, <2>2, <2>4, <2>7, <2>8, <2>9
  <1> QED
    BY <1>2, <1>3, <1>4, <1>5, <1>6

-------------------------------------------------------------------------------
\* The first offsets and those that follow them.
LEMMA OffsetsFollow ==
    ASSUME NEW t \in Nat, NEW n \in Nat
    PROVE  Offsets(t) \o [i \in 1..n |-> t + i] = Offsets(t + n)
  <1> DEFINE a == Offsets(t)
             b == [i \in 1..n |-> t + i]
  <1>1. a \in Seq(Nat) /\ Len(a) = t /\ \A i \in 1..t : a[i] = i
    BY DEF Offsets
  <1>2. b \in Seq(Nat) /\ Len(b) = n /\ \A i \in 1..n : b[i] = t + i
    OBVIOUS
  <1>3. Offsets(t + n) \in Seq(Nat) /\ Len(Offsets(t + n)) = t + n
        /\ \A i \in 1..(t + n) : Offsets(t + n)[i] = i
    BY DEF Offsets
  <1> HIDE DEF a, b
  <1>4. /\ a \o b \in Seq(Nat) /\ Len(a \o b) = t + n
        /\ \A i \in 1..(t + n) : (a \o b)[i] = IF i <= t THEN a[i] ELSE b[i - t]
    BY <1>1, <1>2, ConcatProperties
  <1>5. ASSUME NEW i \in 1..(t + n)
        PROVE  (a \o b)[i] = i
    <2>1. CASE i <= t
      BY <1>1, <1>4, <2>1
    <2>2. CASE i > t
      <3>1. PICK j \in 1..n : j = i - t
        BY <2>2
      <3>2. (a \o b)[i] = b[j]
        BY <1>4, <2>2, <3>1
      <3> QED
        BY <1>2, <3>1, <3>2
    <2>3. i \in Int /\ t \in Int /\ (i <= t \/ i > t)
      OBVIOUS
    <2> QED
      BY <2>1, <2>2, <2>3, Zenon
  <1>6. a \o b = Offsets(t + n)
    BY <1>3, <1>4, <1>5, SeqEqual
  <1> QED
    BY <1>6 DEF a, b

\* The bytes at the front of the window follow those already taken out of it.
LEMMA UnreadBytes ==
    ASSUME IInv, NEW n \in 1..(end - start)
    PROVE  /\ n \in Nat /\ start + n \in 0..end /\ TakenOut \in Nat
           /\ TakenOut + n <= received /\ TakenOut + n <= Len(response.bytes)
           /\ \A i \in 1..n : start + i - 1 \in Positions /\ buffer[start + i - 1] = TakenOut + i
  <1>1. /\ Capacity \in Nat /\ start \in 0..Capacity /\ end \in 0..Capacity
        /\ sent \in 0..Len(response.bytes) /\ received \in 0..sent
        /\ Len(response.bytes) \in Nat /\ TakenOut \in Nat
    BY ReaderAssumption DEF IInv, TypeOK, TakenOut
  <1>2. n \in Nat /\ start + n \in 0..end
    BY <1>1
  <1>3. TakenOut + n <= received /\ TakenOut + n <= Len(response.bytes)
    BY <1>1, <1>2 DEF TakenOut
  <1>4. ASSUME NEW i \in 1..n
        PROVE  start + i - 1 \in Positions /\ buffer[start + i - 1] = TakenOut + i
    <2>1. PICK p \in start..(end - 1) : p = start + i - 1
      BY <1>1, <1>2
    <2>2. buffer[p] = received - (end - p) + 1
      BY DEF IInv, UnreadIsSafe
    <2>3. p \in Positions
      BY <1>1 DEF Positions
    <2>4. received - (end - p) + 1 = TakenOut + i
      BY <1>1, <2>1 DEF TakenOut
    <2> QED
      BY <2>1, <2>2, <2>3, <2>4
  <1> QED
    BY <1>1, <1>2, <1>3, <1>4

\* A delivery takes n bytes out of the window and adds them to the body.
LEMMA DeliverStep ==
    ASSUME IInv, NEW n \in 1..(end - start), Deliver(n), UNCHANGED <<response, sent, handler>>
    PROVE  /\ buffer' \in [Positions -> 0..Len(response.bytes)]
           /\ start' \in 0..Capacity /\ end' \in 0..Capacity /\ stored_length' \in 0..Capacity
           /\ received' \in 0..sent
           /\ delivered' \in Seq(1..Len(response.bytes))
           /\ UnreadIsSafe'
           /\ TakenOut' = TakenOut + n
           /\ UNCHANGED <<at, result>> \/ (at' = "done" /\ result' = "error")
           /\ BodySoFar = Offsets(TakenOut) /\ (handler \/ stored_length = TakenOut) =>
                 BodySoFar' = Offsets(TakenOut + n)
                 /\ (handler \/ stored_length' = TakenOut + n)
  <1>1. /\ n \in Nat /\ start + n \in 0..end /\ TakenOut \in Nat
        /\ TakenOut + n <= received /\ TakenOut + n <= Len(response.bytes)
    BY UnreadBytes
  <1>2. \A i \in 1..n : start + i - 1 \in Positions /\ buffer[start + i - 1] = TakenOut + i
    BY UnreadBytes
  <1>3. /\ Capacity \in Nat /\ stored_length \in 0..Capacity
        /\ start \in 0..Capacity /\ end \in 0..Capacity /\ stored_length <= start
        /\ sent \in 0..Len(response.bytes) /\ received \in 0..sent
        /\ Len(response.bytes) \in Nat
        /\ buffer \in [Positions -> 0..Len(response.bytes)]
        /\ delivered \in Seq(1..Len(response.bytes))
    BY ReaderAssumption DEF IInv, TypeOK, UnreadIsSafe
  <1>4. start' = start + n /\ end' = end /\ received' = received
    BY DEF Deliver
  <1>5. TakenOut' = TakenOut + n
    <2>1. TakenOut' = received - (end - (start + n))
      BY <1>1, <1>3, <1>4, TakenOutNow
    <2> QED
      BY <1>1, <1>3, <2>1 DEF TakenOut
  <1>6. UNCHANGED <<at, result>> \/ (at' = "done" /\ result' = "error")
    BY DEF Deliver, Stays, Return
  <1>7. start' \in 0..Capacity /\ end' \in 0..Capacity /\ received' \in 0..sent
    BY <1>1, <1>3, <1>4
  <1>8. \A p \in (start + n)..(end - 1) : buffer[p] = received - (end - p) + 1
    BY <1>1, <1>3 DEF IInv, UnreadIsSafe
  <1>9. CASE handler
    <2>1. /\ delivered' = delivered \o [i \in 1..n |-> buffer[start + i - 1]]
          /\ UNCHANGED <<buffer, stored_length>>
      BY <1>9 DEF Deliver
    <2>2. [i \in 1..n |-> buffer[start + i - 1]] = [i \in 1..n |-> TakenOut + i]
      BY <1>2
    <2>3. [i \in 1..n |-> TakenOut + i] \in Seq(1..Len(response.bytes))
      BY <1>1, <1>3
    <2>4. delivered' \in Seq(1..Len(response.bytes))
      BY <1>3, <2>1, <2>2, <2>3, ConcatProperties
    <2>5. UnreadIsSafe'
      <3>1. start + n \in Nat /\ end \in Nat /\ stored_length <= start + n /\ start + n <= end
        BY <1>1, <1>3
      <3> QED
        BY <1>4, <1>8, <2>1, <3>1, UnreadNow
    <2>6. BodySoFar = Offsets(TakenOut) => BodySoFar' = Offsets(TakenOut + n)
      BY <1>1, <1>9, <2>1, <2>2, OffsetsFollow DEF BodySoFar
    <2> QED
      BY <1>3, <1>5, <1>6, <1>7, <1>9, <2>1, <2>4, <2>5, <2>6
  <1>10. CASE ~handler
    <2>1. /\ buffer' = [p \in Positions |->
                           IF p \in stored_length..(stored_length + n - 1)
                           THEN buffer[start + (p - stored_length)] ELSE buffer[p]]
          /\ stored_length' = stored_length + n
          /\ UNCHANGED delivered
      BY <1>10 DEF Deliver
    <2>2. ASSUME NEW p \in stored_length..(stored_length + n - 1)
          PROVE  /\ p \in Positions
                 /\ buffer[start + (p - stored_length)] = TakenOut + (p - stored_length) + 1
      <3>1. PICK i \in 1..n : i = p - stored_length + 1
        BY <1>1, <1>3
      <3>2. start + i - 1 = start + (p - stored_length)
        BY <1>3, <3>1
      <3>3. p \in Positions
        BY <1>1, <1>3 DEF Positions
      <3>4. buffer[start + i - 1] = TakenOut + i
        BY <1>2
      <3>5. TakenOut + i = TakenOut + (p - stored_length) + 1
        BY <1>1, <1>3, <3>1
      <3> QED
        BY <3>2, <3>3, <3>4, <3>5, Zenon
    <2>3. buffer' \in [Positions -> 0..Len(response.bytes)]
      <3>1. ASSUME NEW p \in stored_length..(stored_length + n - 1)
            PROVE  buffer[start + (p - stored_length)] \in 0..Len(response.bytes)
        <4>1. TakenOut + (p - stored_length) + 1 \in 0..Len(response.bytes)
          BY <1>1, <1>3
        <4> QED
          BY <2>2, <4>1, Zenon
      <3> QED
        BY <1>3, <2>1, <3>1
    <2>4. stored_length + n \in 0..Capacity /\ stored_length + n <= start + n
      BY <1>1, <1>3
    <2>5. UnreadIsSafe'
      <3>1. start + n \in Nat /\ end \in Nat /\ start + n <= end
        BY <1>1, <1>3
      <3>2. ASSUME NEW p \in (start + n)..(end - 1)
            PROVE  buffer'[p] = received - (end - p) + 1
        <4>1. p \in Positions /\ p \notin stored_length..(stored_length + n - 1)
          BY <1>1, <1>3 DEF Positions
        <4> QED
          BY <1>8, <2>1, <4>1
      <3> QED
        BY <1>4, <2>1, <2>4, <3>1, <3>2, UnreadNow
    <2>6. ASSUME BodySoFar = Offsets(TakenOut), stored_length = TakenOut
          PROVE  BodySoFar' = Offsets(TakenOut + n)
      <3>1. ASSUME NEW i \in 1..(TakenOut + n)
            PROVE  buffer'[i - 1] = i
        <4>1. i - 1 \in Positions
          BY <1>1, <1>3, <2>4, <2>6 DEF Positions
        <4>2. CASE i <= TakenOut
          <5>1. buffer'[i - 1] = buffer[i - 1]
            BY <1>1, <2>1, <2>6, <4>1, <4>2
          <5>2. buffer[i - 1] = i
            BY <1>1, <1>10, <2>6, <4>2 DEF BodySoFar, Offsets
          <5> QED
            BY <5>1, <5>2
        <4>3. CASE i > TakenOut
          <5>1. PICK p \in stored_length..(stored_length + n - 1) : p = i - 1
            BY <1>1, <2>6, <4>3
          <5>2. buffer'[p] = TakenOut + (p - stored_length) + 1
            BY <2>1, <2>2, <5>1
          <5> QED
            BY <1>1, <2>6, <5>1, <5>2
        <4> QED
          BY <1>1, <4>2, <4>3
      <3>2. BodySoFar' = [i \in 1..(TakenOut + n) |-> buffer'[i - 1]]
        BY <1>10, <2>1, <2>6 DEF BodySoFar
      <3> QED
        BY <3>1, <3>2 DEF Offsets
    <2> QED
      BY <1>3, <1>5, <1>6, <1>7, <1>10, <2>1, <2>3, <2>4, <2>5, <2>6
  <1> QED
    BY <1>9, <1>10

-------------------------------------------------------------------------------
\* Which framing the reader follows at each place.
LEMMA FramingAt ==
    ASSUME IInv
    PROVE  /\ response \in Responses /\ response.length \in Nat
           /\ at \in {"size", "chunk", "chunk_end", "trailer"} => response.framing = "chunked"
           /\ at = "pass" => response.framing \in {"content_length", "chunked"}
           /\ at = "drain" => response.framing \in {"until_close", "chunked"}
           /\ at # "done" => result = "none"
  BY ReaderAssumption DEF IInv, TypeOK, BodyAt

\* A line moves the reader on or ends the body.
LEMMA LineStep ==
    ASSUME IInv, NEW p \in start..(end - 1), Line(p), at \in {"size", "chunk_end", "trailer"}
    PROVE  /\ length' \in Nat
           /\ \/ at' \in At \ {"done"} /\ UNCHANGED result
              \/ at' = "done" /\ result' \in {"ok", "error"}
  <1>1. buffer[p] \in 1..Len(response.bytes)
    <2>1. /\ Capacity \in Nat /\ start \in 0..Capacity /\ end \in 0..Capacity
          /\ received \in Nat /\ sent \in Nat /\ received <= sent /\ sent <= Len(response.bytes)
          /\ Len(response.bytes) \in Nat /\ received - (end - start) >= 0
      BY ReaderAssumption DEF IInv, TypeOK, TakenOut
    <2>2. buffer[p] = received - (end - p) + 1
      BY DEF IInv, UnreadIsSafe
    <2> QED
      BY <2>1, <2>2
  <1>2. Holds(p).says \in Nat \cup {Malformed}
    <2>1. response.bytes \in Seq([is : {"data", "digit", "cr", "lf"}, says : Nat \cup {Malformed}])
      BY ReaderAssumption, FramingAt
    <2>2. response.bytes[buffer[p]]
             \in [is : {"data", "digit", "cr", "lf"}, says : Nat \cup {Malformed}]
      BY <1>1, <2>1, ElementOfSeq
    <2> QED
      BY <2>2 DEF Holds
  <1>3. length \in Nat
    BY DEF IInv, TypeOK
  <1>4. CASE at = "size"
    <2>1. IF Blank(p) \/ Holds(p).says = Malformed
          THEN Return("error") /\ UNCHANGED length
          ELSE /\ length' = Holds(p).says
               /\ at' = IF length' = 0 THEN "trailer" ELSE "chunk"
               /\ UNCHANGED result
      BY <1>4 DEF Line
    <2>2. CASE Blank(p) \/ Holds(p).says = Malformed
      BY <1>3, <2>1, <2>2 DEF Return
    <2>3. CASE ~(Blank(p) \/ Holds(p).says = Malformed)
      <3>1. length' \in Nat /\ at' \in {"trailer", "chunk"} /\ UNCHANGED result
        BY <1>2, <2>1, <2>3
      <3> QED
        BY <3>1 DEF At
    <2> QED
      BY <2>2, <2>3
  <1>5. CASE at = "chunk_end"
    BY <1>3, <1>5 DEF Line, Return, At
  <1>6. CASE at = "trailer"
    BY <1>3, <1>6 DEF Line, Return, Stays, At
  <1> QED
    BY <1>4, <1>5, <1>6

\* All that a step has to establish, once the window and the body are known.
LEMMA StepKeeps ==
    ASSUME IInv, at # "done", UNCHANGED <<response, sent, handler>>,
           buffer' \in [Positions -> 0..Len(response.bytes)],
           start' \in 0..Capacity, end' \in 0..Capacity, stored_length' \in 0..Capacity,
           received' \in 0..sent, scanned' \in 0..Capacity, length' \in Nat,
           delivered' \in Seq(1..Len(response.bytes)),
           at' \in At, UnreadIsSafe', TakenOut' >= 0, BodyAt',
           \/ at' # "done" /\ UNCHANGED result
           \/ at' = "done" /\ result' \in {"ok", "error"}
           \/ at' = "done" /\ result' = "insufficient_size"
              /\ stored_length' + (end' - start') = Capacity
    PROVE  IInv'
  <1>1. result = "none"
    BY FramingAt
  <1>2. TypeOK'
    BY <1>1 DEF IInv, TypeOK
  <1> QED
    BY <1>1, <1>2 DEF IInv, RefusesOnlyWhenFull

\* Handing bytes of the body to the caller keeps the invariant.
LEMMA PassThroughStep == IInv /\ PassThrough => IInv'
  <1> SUFFICES ASSUME IInv, PassThrough PROVE IInv'
    OBVIOUS
  <1>1. /\ length \in Nat /\ scanned \in 0..Capacity /\ TakenOut \in Nat /\ at \in {"pass", "chunk"}
        /\ Capacity \in Nat /\ start \in 0..Capacity /\ end \in 0..Capacity /\ start <= end
        /\ delivered \in Seq(1..Len(response.bytes))
        /\ UNCHANGED <<response, sent, handler, scanned>>
    <2>1. TakenOut \in Int
      BY ReaderAssumption DEF IInv, TypeOK, TakenOut
    <2> QED
      BY <2>1, ReaderAssumption DEF IInv, TypeOK, UnreadIsSafe, PassThrough
  <1>2. result = "none" /\ at # "done" /\ at \in At
    BY <1>1, FramingAt DEF At
  <1>3. CASE length = 0
    <2>1. /\ UNCHANGED <<window, received, length, delivered>>
          /\ \/ at = "pass" /\ at' = "done" /\ result' = "ok"
             \/ at = "chunk" /\ at' = "chunk_end" /\ UNCHANGED result
      BY <1>1, <1>3 DEF PassThrough, Return
    <2>2. TakenOut' = TakenOut /\ BodySoFar' = BodySoFar /\ UnreadIsSafe'
      BY <1>1, <2>1 DEF TakenOut, BodySoFar, UnreadIsSafe, window, IInv
    <2>3. BodyAt'
      BY <1>1, <1>3, <2>1, <2>2, FramingAt DEF BodyAt, IInv, window
    <2>4. at' \in At
      BY <2>1 DEF At
    <2>5. /\ buffer' \in [Positions -> 0..Len(response.bytes)]
          /\ start' \in 0..Capacity /\ end' \in 0..Capacity /\ stored_length' \in 0..Capacity
          /\ received' \in 0..sent
      BY <2>1 DEF IInv, TypeOK, window
    <2>6. /\ TakenOut' >= 0 /\ length' \in Nat /\ scanned' \in 0..Capacity
          /\ delivered' \in Seq(1..Len(response.bytes))
      BY <1>1, <2>1, <2>2
    <2>7. \/ at' # "done" /\ UNCHANGED result
          \/ at' = "done" /\ result' \in {"ok", "error"}
      BY <2>1
    <2> QED
      BY <1>1, <1>2, <2>2, <2>3, <2>4, <2>5, <2>6, <2>7, StepKeeps
  <1>4. CASE length # 0 /\ Empty
    <2>1. Fill("error") /\ UNCHANGED <<length, delivered>>
      BY <1>4 DEF PassThrough
    <2>2. /\ buffer' \in [Positions -> 0..Len(response.bytes)]
          /\ start' \in 0..Capacity /\ end' \in 0..Capacity /\ stored_length' \in 0..Capacity
          /\ received' \in 0..sent
          /\ UnreadIsSafe'
          /\ TakenOut' = TakenOut /\ BodySoFar' = BodySoFar
          /\ \/ UNCHANGED <<at, result>>
             \/ at' = "done" /\ result' = "insufficient_size"
                /\ stored_length' + (end' - start') = Capacity
             \/ at' = "done" /\ result' = "error"
      BY <1>1, <2>1, FillStep
    <2>3. UNCHANGED stored_length
      BY <2>1 DEF Fill
    <2>4. BodyAt'
      BY <1>1, <1>2, <2>1, <2>2, <2>3, FramingAt DEF BodyAt, IInv
    <2>5. at' \in At
      BY <1>2, <2>2 DEF At
    <2>6. /\ TakenOut' >= 0 /\ length' \in Nat /\ scanned' \in 0..Capacity
          /\ delivered' \in Seq(1..Len(response.bytes))
      BY <1>1, <2>1, <2>2
    <2>7. \/ at' # "done" /\ UNCHANGED result
          \/ at' = "done" /\ result' \in {"ok", "error"}
          \/ at' = "done" /\ result' = "insufficient_size"
             /\ stored_length' + (end' - start') = Capacity
      BY <1>2, <2>2
    <2> QED
      BY <1>1, <1>2, <2>2, <2>4, <2>5, <2>6, <2>7, StepKeeps
  <1>5. CASE length # 0 /\ ~Empty
    <2>1. PICK take \in 1..(end - start) :
             /\ take <= length
             /\ Deliver(take)
             /\ length' = length - take
      <3>1. end - start \in Nat \ {0} /\ length \in Nat \ {0}
        BY <1>1, <1>5 DEF Empty
      <3>2. Min({end - start, length}) \in 1..(end - start) /\ Min({end - start, length}) <= length
        BY <3>1, MinOfTwo
      <3> QED
        BY <1>5, <3>2 DEF PassThrough
    <2>2. /\ buffer' \in [Positions -> 0..Len(response.bytes)]
          /\ start' \in 0..Capacity /\ end' \in 0..Capacity /\ stored_length' \in 0..Capacity
          /\ received' \in 0..sent
          /\ delivered' \in Seq(1..Len(response.bytes))
          /\ UnreadIsSafe'
          /\ TakenOut' = TakenOut + take
          /\ UNCHANGED <<at, result>> \/ (at' = "done" /\ result' = "error")
          /\ BodySoFar = Offsets(TakenOut) /\ (handler \/ stored_length = TakenOut) =>
                BodySoFar' = Offsets(TakenOut + take)
                /\ (handler \/ stored_length' = TakenOut + take)
      BY <1>1, <2>1, DeliverStep
    <2>3. length' \in Nat /\ TakenOut' >= 0 /\ TakenOut' + length' = TakenOut + length
      BY <1>1, <2>1, <2>2
    <2>4. BodyAt'
      <3>1. CASE response.framing = "chunked"
        BY <1>1, <3>1 DEF BodyAt
      <3>2. CASE response.framing = "content_length"
        <4>1. /\ BodySoFar = Offsets(TakenOut) /\ (handler \/ stored_length = TakenOut)
              /\ at = "pass" /\ TakenOut + length = response.length
          BY <1>1, <1>2, <3>2 DEF BodyAt, IInv
        <4>2. TakenOut + take <= response.length /\ response.length \in Nat
          BY <1>1, <2>1, <4>1, FramingAt
        <4> QED
          BY <1>1, <1>2, <2>2, <2>3, <3>2, <4>1, <4>2 DEF BodyAt
      <3> QED
        BY <1>1, <3>1, <3>2, FramingAt
    <2>5. at' \in At
      BY <1>2, <2>2 DEF At
    <2> QED
      BY <1>1, <1>2, <2>2, <2>3, <2>4, <2>5, StepKeeps
  <1> QED
    BY <1>3, <1>4, <1>5

\* Reading a line of the chunked coding keeps the invariant.
LEMMA ReadLineStep == IInv /\ ReadLine => IInv'
  <1> SUFFICES ASSUME IInv, ReadLine PROVE IInv'
    OBVIOUS
  <1>1. /\ length \in Nat /\ scanned \in 0..Capacity /\ TakenOut \in Nat
        /\ at \in {"size", "chunk_end", "trailer"}
        /\ Capacity \in Nat /\ start \in 0..Capacity /\ end \in 0..Capacity /\ start <= end
        /\ received \in 0..sent /\ received \in Nat
        /\ delivered \in Seq(1..Len(response.bytes))
        /\ UNCHANGED <<response, sent, handler, delivered>>
    <2>1. TakenOut \in Int /\ received \in Nat
      BY ReaderAssumption DEF IInv, TypeOK, TakenOut
    <2> QED
      BY <2>1, ReaderAssumption DEF IInv, TypeOK, UnreadIsSafe, ReadLine
  <1>2. result = "none" /\ at # "done" /\ at \in At
    BY <1>1, FramingAt DEF At
  <1>3. BodyAt'
    BY <1>1, FramingAt DEF BodyAt
  <1>4. CASE LineEnds # {}
    <2>1. PICK p \in Positions :
             FirstLineEnd(p) /\ start' = p + 1 /\ Line(p)
      BY <1>4 DEF ReadLine
    <2>2. UNCHANGED <<buffer, end, stored_length, received>> /\ scanned' = 0
      BY <1>4 DEF ReadLine
    <2>3. p \in start..(end - 1)
      BY <1>1, <2>1 DEF FirstLineEnd, LineEnds
    <2>4. /\ length' \in Nat
          /\ \/ at' \in At \ {"done"} /\ UNCHANGED result
             \/ at' = "done" /\ result' \in {"ok", "error"}
      BY <1>1, <2>1, <2>3, LineStep
    <2>5. p + 1 \in Nat /\ end \in Nat /\ p + 1 <= end /\ stored_length <= p + 1
          /\ p + 1 \in 0..Capacity /\ start <= p + 1
      BY <1>1, <2>3 DEF IInv, UnreadIsSafe, TypeOK
    <2>6. UnreadIsSafe'
      <3>1. \A q \in (p + 1)..(end - 1) : buffer[q] = received - (end - q) + 1
        BY <1>1, <2>5 DEF IInv, UnreadIsSafe
      <3> QED
        BY <2>1, <2>2, <2>5, <3>1, UnreadNow
    <2>7. TakenOut' >= 0
      <3>1. TakenOut' = received - (end - (p + 1))
        BY <1>1, <2>1, <2>2, <2>5, TakenOutNow
      <3>2. received - (end - start) >= 0
        BY <1>1 DEF TakenOut
      <3>3. received - (end - (p + 1)) >= 0
        BY <1>1, <2>5, <3>2
      <3> QED
        BY <3>1, <3>3
    <2>8. /\ buffer' \in [Positions -> 0..Len(response.bytes)]
          /\ start' \in 0..Capacity /\ end' \in 0..Capacity /\ stored_length' \in 0..Capacity
          /\ received' \in 0..sent /\ scanned' \in 0..Capacity
      BY <1>1, <2>1, <2>2, <2>5 DEF IInv, TypeOK
    <2>9. /\ at' \in At
          /\ \/ at' # "done" /\ UNCHANGED result
             \/ at' = "done" /\ result' \in {"ok", "error"}
      BY <2>4 DEF At
    <2> QED
      BY <1>1, <1>2, <1>3, <2>4, <2>6, <2>7, <2>8, <2>9, StepKeeps
  <1>5. CASE LineEnds = {}
    <2>1. Fill("error") /\ scanned' = end - start /\ UNCHANGED length
      BY <1>5 DEF ReadLine
    <2>2. /\ buffer' \in [Positions -> 0..Len(response.bytes)]
          /\ start' \in 0..Capacity /\ end' \in 0..Capacity /\ stored_length' \in 0..Capacity
          /\ received' \in 0..sent
          /\ UnreadIsSafe'
          /\ TakenOut' = TakenOut
          /\ \/ UNCHANGED <<at, result>>
             \/ at' = "done" /\ result' = "insufficient_size"
                /\ stored_length' + (end' - start') = Capacity
             \/ at' = "done" /\ result' = "error"
      BY <1>1, <2>1, FillStep
    <2>3. at' \in At
      BY <1>2, <2>2 DEF At
    <2>4. /\ TakenOut' >= 0 /\ length' \in Nat /\ scanned' \in 0..Capacity
          /\ delivered' \in Seq(1..Len(response.bytes))
      BY <1>1, <2>1, <2>2
    <2>5. \/ at' # "done" /\ UNCHANGED result
          \/ at' = "done" /\ result' \in {"ok", "error"}
          \/ at' = "done" /\ result' = "insufficient_size"
             /\ stored_length' + (end' - start') = Capacity
      BY <1>2, <2>2
    <2> QED
      BY <1>1, <1>2, <1>3, <2>2, <2>3, <2>4, <2>5, StepKeeps
  <1> QED
    BY <1>4, <1>5

\* Handing out a body that ends with the connection keeps the invariant.
LEMMA DrainStep == IInv /\ Drain => IInv'
  <1> SUFFICES ASSUME IInv, Drain PROVE IInv'
    OBVIOUS
  <1>1. /\ length \in Nat /\ scanned \in 0..Capacity /\ TakenOut \in Nat /\ at = "drain"
        /\ Capacity \in Nat /\ start \in 0..Capacity /\ end \in 0..Capacity /\ start <= end
        /\ received \in Nat /\ delivered \in Seq(1..Len(response.bytes))
        /\ UNCHANGED <<response, sent, handler, scanned, length>>
    <2>1. TakenOut \in Int /\ received \in Nat
      BY ReaderAssumption DEF IInv, TypeOK, TakenOut
    <2> QED
      BY <2>1, ReaderAssumption DEF IInv, TypeOK, UnreadIsSafe, Drain
  <1>2. /\ result = "none" /\ at # "done" /\ at \in At
        /\ response.framing \in {"until_close", "chunked"}
    BY <1>1, FramingAt DEF At
  <1>3. response.framing # "chunked" =>
           BodySoFar = Offsets(TakenOut) /\ (handler \/ stored_length = TakenOut)
    BY DEF IInv, BodyAt
  <1>4. CASE Empty
    <2>1. Fill("ok") /\ UNCHANGED delivered
      BY <1>4 DEF Drain
    <2>2. /\ buffer' \in [Positions -> 0..Len(response.bytes)]
          /\ start' \in 0..Capacity /\ end' \in 0..Capacity /\ stored_length' \in 0..Capacity
          /\ received' \in 0..sent
          /\ UnreadIsSafe'
          /\ TakenOut' = TakenOut /\ BodySoFar' = BodySoFar
          /\ \/ UNCHANGED <<at, result>>
             \/ at' = "done" /\ result' = "insufficient_size"
                /\ stored_length' + (end' - start') = Capacity
             \/ at' = "done" /\ result' = "ok" /\ sent = received /\ UNCHANGED received
             \/ at' = "done" /\ result' = "error"
      BY <1>1, <2>1, FillStep
    <2>3. TakenOut = received
      BY <1>1, <1>4 DEF TakenOut, Empty
    <2>4. UNCHANGED stored_length
      BY <2>1 DEF Fill
    <2>5. BodyAt'
      BY <1>1, <1>2, <1>3, <2>2, <2>3, <2>4 DEF BodyAt
    <2>6. at' \in At
      BY <1>2, <2>2 DEF At
    <2>7. /\ TakenOut' >= 0 /\ length' \in Nat /\ scanned' \in 0..Capacity
          /\ delivered' \in Seq(1..Len(response.bytes))
      BY <1>1, <2>1, <2>2
    <2>8. \/ at' # "done" /\ UNCHANGED result
          \/ at' = "done" /\ result' \in {"ok", "error"}
          \/ at' = "done" /\ result' = "insufficient_size"
             /\ stored_length' + (end' - start') = Capacity
      BY <1>2, <2>2
    <2> QED
      BY <1>1, <1>2, <2>2, <2>5, <2>6, <2>7, <2>8, StepKeeps
  <1>5. CASE ~Empty
    <2>1. PICK n \in 1..(end - start) : Deliver(n)
      <3>1. end - start \in 1..(end - start)
        BY <1>1, <1>5 DEF Empty
      <3> QED
        BY <1>5, <3>1 DEF Drain
    <2>2. /\ buffer' \in [Positions -> 0..Len(response.bytes)]
          /\ start' \in 0..Capacity /\ end' \in 0..Capacity /\ stored_length' \in 0..Capacity
          /\ received' \in 0..sent
          /\ delivered' \in Seq(1..Len(response.bytes))
          /\ UnreadIsSafe'
          /\ TakenOut' = TakenOut + n
          /\ UNCHANGED <<at, result>> \/ (at' = "done" /\ result' = "error")
          /\ BodySoFar = Offsets(TakenOut) /\ (handler \/ stored_length = TakenOut) =>
                BodySoFar' = Offsets(TakenOut + n)
                /\ (handler \/ stored_length' = TakenOut + n)
      BY <1>1, <2>1, DeliverStep
    <2>3. BodyAt'
      BY <1>1, <1>2, <1>3, <2>2 DEF BodyAt
    <2>4. at' \in At
      BY <1>2, <2>2 DEF At
    <2>5. TakenOut' >= 0 /\ length' \in Nat /\ scanned' \in 0..Capacity
      BY <1>1, <2>2
    <2>6. \/ at' # "done" /\ UNCHANGED result
          \/ at' = "done" /\ result' \in {"ok", "error"}
      BY <1>2, <2>2
    <2> QED
      BY <1>1, <1>2, <2>2, <2>3, <2>4, <2>5, <2>6, StepKeeps
  <1> QED
    BY <1>4, <1>5

\* The invariant of the reader holds at first.
LEMMA InitIInv == Init => IInv
  <1> SUFFICES ASSUME Init PROVE IInv
    OBVIOUS
  <1>1. /\ response \in Responses /\ Capacity \in Nat /\ response.length \in Nat
        /\ response.framing \in {"none", "content_length", "chunked", "until_close"}
        /\ Len(response.bytes) \in Nat
    BY ReaderAssumption DEF Init
  <1>2. received \in Nat /\ received <= sent /\ received <= Capacity /\ sent \in Nat
        /\ sent <= Len(response.bytes)
    <2>1. sent \in Nat /\ sent <= Len(response.bytes)
      BY <1>1 DEF Init
    <2>2. Min({sent, Capacity}) = IF sent <= Capacity THEN sent ELSE Capacity
      BY <1>1, <2>1, MinOfTwo
    <2>3. received \in 0..Min({sent, Capacity})
      BY DEF Init
    <2> QED
      BY <1>1, <2>1, <2>2, <2>3
  <1>3. start = 0 /\ end = received /\ stored_length = 0 /\ TakenOut = 0
    BY <1>2 DEF Init, TakenOut
  <1>4. buffer \in [Positions -> 0..Len(response.bytes)]
    <2>1. \A p \in Positions : p < received => p + 1 \in 0..Len(response.bytes)
      BY <1>1, <1>2 DEF Positions
    <2> QED
      BY <1>1, <2>1 DEF Init
  <1>5. UnreadIsSafe
    <2>1. ASSUME NEW p \in start..(end - 1)
          PROVE  buffer[p] = received - (end - p) + 1
      <3>1. p \in Positions /\ p < received
        BY <1>1, <1>2, <1>3 DEF Positions
      <3>2. buffer[p] = p + 1
        BY <3>1 DEF Init
      <3> QED
        BY <1>2, <1>3, <3>1, <3>2
    <2> QED
      BY <1>2, <1>3, <2>1 DEF UnreadIsSafe
  <1>6. /\ at \in At
        /\ response.framing = "none" => at = "done" /\ result = "ok"
        /\ response.framing = "content_length" => at = "pass" /\ result = "none"
        /\ response.framing = "until_close" => at = "drain" /\ result = "none"
        /\ response.framing = "chunked" => at = "size" /\ result = "none"
    BY <1>1 DEF Init, At
  <1>7. delivered = <<>> /\ scanned = 0 /\ length = response.length /\ handler \in BOOLEAN
        /\ sent \in 0..Len(response.bytes)
    BY DEF Init
  <1>8. TypeOK
    BY <1>1, <1>2, <1>3, <1>4, <1>6, <1>7 DEF TypeOK
  <1>9. BodySoFar = Offsets(0)
    <2>1. Offsets(0) = <<>>
      BY DEF Offsets
    <2>2. [i \in 1..0 |-> buffer[i - 1]] = <<>>
      OBVIOUS
    <2> QED
      BY <1>3, <1>7, <2>1, <2>2 DEF BodySoFar
  <1>10. BodyAt
    BY <1>1, <1>3, <1>6, <1>7, <1>9 DEF BodyAt
  <1> QED
    BY <1>1, <1>3, <1>5, <1>6, <1>8, <1>10 DEF IInv, RefusesOnlyWhenFull

\* Every step of the reader keeps its invariant.
LEMMA NextIInv == IInv /\ [Next]_vars => IInv'
  <1> SUFFICES ASSUME IInv, [Next]_vars PROVE IInv'
    OBVIOUS
  <1>1. CASE UNCHANGED vars
    BY <1>1 DEF vars, window, IInv, TypeOK, UnreadIsSafe, RefusesOnlyWhenFull, BodyAt, TakenOut,
                BodySoFar
  <1> QED
    BY <1>1, PassThroughStep, ReadLineStep, DrainStep DEF Next

\* The inductive invariant, for every window and all responses.
THEOREM Invariant == Spec => []IInv
  BY InitIInv, NextIInv, PTL DEF Spec

-------------------------------------------------------------------------------
\* Every variable keeps its type: no index leaves the window.
THEOREM TypeCorrect == Spec => []TypeOK
  <1>1. IInv => TypeOK
    BY DEF IInv
  <1> QED
    BY <1>1, Invariant, PTL

\* Neither compacting the window nor storing the body destroys unread bytes.
THEOREM WindowSafety == Spec => []UnreadIsSafe
  <1>1. IInv => UnreadIsSafe
    BY DEF IInv
  <1> QED
    BY <1>1, Invariant, PTL

\* insufficient_size is returned only when no room can be made.
THEOREM RefusalSafety == Spec => []RefusesOnlyWhenFull
  <1>1. IInv => RefusesOnlyWhenFull
    BY DEF IInv
  <1> QED
    BY <1>1, Invariant, PTL

\* The first offsets list themselves.
LEMMA OffsetsList ==
    ASSUME NEW t \in Nat
    PROVE  Lists(Offsets(t), 1..t)
  <1>1. Len(Offsets(t)) = t /\ \A i \in 1..t : Offsets(t)[i] = i
    BY DEF Offsets
  <1>2. \A i, j \in 1..t : i < j => Offsets(t)[i] < Offsets(t)[j]
    BY <1>1
  <1>3. {Offsets(t)[i] : i \in 1..t} = 1..t
    BY <1>1
  <1> QED
    BY <1>1, <1>2, <1>3, Zenon DEF Lists

\* What is handed over of a body that is not chunked, and when it is complete.
LEMMA PlainBody ==
    ASSUME IInv, response.framing # "chunked"
    PROVE  BodyIsIntact /\ OkMeansComplete
  <1>1. /\ TakenOut \in Nat /\ TakenOut <= sent /\ sent \in Nat /\ response.length \in Nat
        /\ Len(response.bytes) \in Nat /\ sent <= Len(response.bytes)
        /\ response.framing \in {"none", "content_length", "until_close"}
    <2>1. /\ start \in 0..Capacity /\ end \in 0..Capacity /\ start <= end /\ Capacity \in Nat
          /\ received \in 0..sent /\ sent \in Nat /\ received - (end - start) >= 0
          /\ sent \in 0..Len(response.bytes) /\ response \in Responses
      BY ReaderAssumption DEF IInv, TypeOK, UnreadIsSafe, TakenOut
    <2> QED
      BY <2>1, ReaderAssumption DEF TakenOut
  <1>2. BodySoFar = Offsets(TakenOut)
    BY DEF IInv, BodyAt
  <1>3. /\ BodyOf(response) \cap 1..TakenOut = 1..TakenOut
        /\ result = "ok" => BodyOf(response) = 1..TakenOut
    <2>1. CASE response.framing = "none"
      <3>1. BodyOf(response) = {}
        BY <2>1 DEF BodyOf
      <3>2. TakenOut = 0
        BY <2>1 DEF IInv, BodyAt
      <3> QED
        BY <3>1, <3>2
    <2>2. CASE response.framing = "content_length"
      <3>1. BodyOf(response) = 1..response.length
        BY <2>2 DEF BodyOf
      <3>2. TakenOut <= response.length /\ (result = "ok" => TakenOut = response.length)
        BY <2>2 DEF IInv, BodyAt
      <3> QED
        BY <1>1, <3>1, <3>2
    <2>3. CASE response.framing = "until_close"
      <3>1. BodyOf(response) = 1..sent
        BY <2>3 DEF BodyOf
      <3>2. result = "ok" => TakenOut = sent
        BY <2>3 DEF IInv, BodyAt
      <3> QED
        BY <1>1, <3>1, <3>2
    <2> QED
      BY <1>1, <2>1, <2>2, <2>3
  <1>4. Lists(BodySoFar, 1..TakenOut)
    BY <1>1, <1>2, OffsetsList
  <1>5. TakenOut \in 0..Len(response.bytes)
    BY <1>1
  <1> QED
    BY <1>3, <1>4, <1>5, Zenon DEF BodyIsIntact, OkMeansComplete

\* A body that is framed by its length or by the close reaches the caller byte for
\* byte, whatever pieces it arrived in.
THEOREM PlainBodyIsIntact == Spec => [](response.framing # "chunked" => BodyIsIntact)
  <1>1. IInv => (response.framing # "chunked" => BodyIsIntact)
    BY PlainBody
  <1> QED
    BY <1>1, Invariant, PTL

\* And ok is returned for all of it only.
THEOREM PlainOkMeansComplete == Spec => [](response.framing # "chunked" => OkMeansComplete)
  <1>1. IInv => (response.framing # "chunked" => OkMeansComplete)
    BY PlainBody
  <1> QED
    BY <1>1, Invariant, PTL

-------------------------------------------------------------------------------
(* Chunked bodies. *)

\* A list of the elements up to t is continued by the next n numbers, if they are
\* elements too.
LEMMA ListGrows ==
    ASSUME NEW S, NEW t \in Nat, NEW n \in Nat, NEW s \in Seq(Nat), NEW u \in Seq(Nat),
           Lists(s, S \cap 1..t), Len(u) = Len(s) + n,
           \A i \in 1..Len(s) : u[i] = s[i],
           \A i \in 1..n : u[Len(s) + i] = t + i,
           \A j \in (t + 1)..(t + n) : j \in S
    PROVE  Lists(u, S \cap 1..(t + n))
  <1>1. PICK l \in Nat : l = Len(s)
    OBVIOUS
  <1>2. /\ \A i \in 1..l : s[i] \in S /\ s[i] \in 1..t
        /\ \A x \in S : x \in 1..t => \E i \in 1..l : s[i] = x
        /\ \A i, j \in 1..l : i < j => s[i] < s[j]
    <2>1. {s[i] : i \in 1..l} = S \cap 1..t
      BY <1>1, Zenon DEF Lists
    <2>2. \A i, j \in 1..l : i < j => s[i] < s[j]
      BY <1>1, Zenon DEF Lists
    <2> QED
      BY <2>1, <2>2
  <1>3. /\ Len(u) = l + n
        /\ \A i \in 1..l : u[i] = s[i]
        /\ \A i \in 1..n : u[l + i] = t + i
    BY <1>1
  <1>4. \A i \in 1..(l + n) : i \in 1..l \/ (i - l \in 1..n /\ i = l + (i - l))
    BY <1>1
  <1>5. ASSUME NEW i \in 1..(l + n), i \notin 1..l
        PROVE  u[i] = t + (i - l) /\ u[i] \in (t + 1)..(t + n)
    <2>1. PICK k \in 1..n : i = l + k
      BY <1>4, <1>5
    <2>2. u[i] = t + k
      BY <1>3, <2>1
    <2> QED
      BY <1>1, <2>1, <2>2
  <1>6. ASSUME NEW i \in 1..Len(u), NEW j \in 1..Len(u), i < j
        PROVE  u[i] < u[j]
    <2>1. CASE j \in 1..l
      <3>1. i \in 1..l
        BY <1>1, <1>3, <1>6, <2>1
      <3> QED
        BY <1>2, <1>3, <1>6, <2>1, <3>1
    <2>2. CASE j \notin 1..l /\ i \in 1..l
      <3>1. u[j] \in (t + 1)..(t + n)
        BY <1>3, <1>5, <2>2
      <3>2. u[i] \in 1..t
        BY <1>2, <1>3, <2>2
      <3> QED
        BY <3>1, <3>2
    <2>3. CASE j \notin 1..l /\ i \notin 1..l
      <3>1. u[j] = t + (j - l) /\ u[i] = t + (i - l)
        BY <1>3, <1>5, <2>3
      <3> QED
        BY <1>1, <1>3, <1>6, <3>1
    <2> QED
      BY <2>1, <2>2, <2>3
  <1>7. ASSUME NEW i \in 1..Len(u)
        PROVE  u[i] \in S /\ u[i] \in 1..(t + n)
    <2>1. CASE i \in 1..l
      <3>1. u[i] = s[i] /\ s[i] \in S /\ s[i] \in 1..t
        BY <1>2, <1>3, <2>1, Zenon
      <3>2. \A x \in 1..t : x \in 1..(t + n)
        OBVIOUS
      <3> QED
        BY <3>1, <3>2, Zenon
    <2>2. CASE i \notin 1..l
      <3>1. u[i] \in (t + 1)..(t + n)
        BY <1>3, <1>5, <2>2
      <3> QED
        BY <3>1
    <2> QED
      BY <2>1, <2>2
  <1>8. ASSUME NEW x \in S, x \in 1..(t + n)
        PROVE  \E i \in 1..Len(u) : u[i] = x
    <2>1. CASE x \in 1..t
      <3>1. PICK i \in 1..l : s[i] = x
        BY <1>2, <2>1
      <3>2. i \in 1..Len(u) /\ u[i] = x
        BY <1>1, <1>3, <3>1
      <3> QED
        BY <3>2
    <2>2. CASE x \notin 1..t
      <3>1. PICK k \in 1..n : x = t + k
        <4>1. x - t \in 1..n /\ x = t + (x - t)
          BY <1>8, <2>2
        <4> QED
          BY <4>1
      <3>2. l + k \in 1..Len(u) /\ u[l + k] = x
        BY <1>1, <1>3, <3>1
      <3> QED
        BY <3>2
    <2> QED
      BY <2>1, <2>2
  <1>9. {u[i] : i \in 1..Len(u)} = S \cap 1..(t + n)
    BY <1>7, <1>8
  <1> QED
    BY <1>6, <1>9, Zenon DEF Lists

\* A delivery adds to the body the next n offsets.
LEMMA DeliverAppends ==
    ASSUME IInv, NEW n \in 1..(end - start), Deliver(n), UNCHANGED <<response, handler>>
    PROVE  /\ BodySoFar \in Seq(Nat) /\ BodySoFar' \in Seq(Nat)
           /\ Len(BodySoFar') = Len(BodySoFar) + n
           /\ \A i \in 1..Len(BodySoFar) : BodySoFar'[i] = BodySoFar[i]
           /\ \A i \in 1..n : BodySoFar'[Len(BodySoFar) + i] = TakenOut + i
  <1>1. /\ n \in Nat /\ TakenOut \in Nat
        /\ \A i \in 1..n : start + i - 1 \in Positions /\ buffer[start + i - 1] = TakenOut + i
    BY UnreadBytes
  <1>2. /\ Capacity \in Nat /\ stored_length \in 0..Capacity
        /\ start \in 0..Capacity /\ end \in 0..Capacity /\ stored_length <= start
        /\ start + n <= end
        /\ Len(response.bytes) \in Nat
        /\ buffer \in [Positions -> 0..Len(response.bytes)]
        /\ delivered \in Seq(1..Len(response.bytes))
    BY ReaderAssumption DEF IInv, TypeOK, UnreadIsSafe
  <1>3. CASE handler
    <2> DEFINE f == [i \in 1..n |-> buffer[start + i - 1]]
    <2>1. BodySoFar = delivered /\ BodySoFar' = delivered \o f
      BY <1>3 DEF BodySoFar, Deliver
    <2>2. f \in Seq(Nat) /\ Len(f) = n /\ \A i \in 1..n : f[i] = TakenOut + i
      <3>1. f = [i \in 1..n |-> TakenOut + i]
        BY <1>1
      <3>2. \A i \in 1..n : TakenOut + i \in Nat
        BY <1>1
      <3> QED
        BY <1>1, <3>1, <3>2
    <2>3. delivered \in Seq(Nat)
      <3>1. 1..Len(response.bytes) \subseteq Nat
        OBVIOUS
      <3> QED
        BY <1>2, <3>1
    <2> HIDE DEF f
    <2>4. /\ delivered \o f \in Seq(Nat) /\ Len(delivered \o f) = Len(delivered) + Len(f)
          /\ \A i \in 1..(Len(delivered) + Len(f)) :
                (delivered \o f)[i] = IF i <= Len(delivered) THEN delivered[i]
                                      ELSE f[i - Len(delivered)]
      BY <2>2, <2>3, ConcatProperties
    <2>5. PICK l \in Nat : l = Len(delivered)
      BY <2>3
    <2>6. \A i \in 1..l : (delivered \o f)[i] = delivered[i]
      BY <1>1, <2>2, <2>4, <2>5
    <2>7. ASSUME NEW i \in 1..n
          PROVE  (delivered \o f)[l + i] = TakenOut + i
      <3>1. l + i \in 1..(l + n) /\ ~(l + i <= l) /\ (l + i) - l = i
        BY <1>1, <2>5
      <3> QED
        BY <2>2, <2>4, <2>5, <3>1
    <2> QED
      BY <2>1, <2>2, <2>3, <2>4, <2>5, <2>6, <2>7
  <1>4. CASE ~handler
    <2>1. PICK l \in Nat : l = stored_length
      BY <1>2
    <2>2. /\ buffer' = [p \in Positions |->
                           IF p \in l..(l + n - 1) THEN buffer[start + (p - l)] ELSE buffer[p]]
          /\ stored_length' = l + n
      BY <1>4, <2>1 DEF Deliver
    <2>3. /\ BodySoFar = [i \in 1..l |-> buffer[i - 1]]
          /\ BodySoFar' = [i \in 1..(l + n) |-> buffer'[i - 1]]
      BY <1>4, <2>1, <2>2 DEF BodySoFar
    <2>4. \A i \in 1..(l + n) : i - 1 \in Positions
      BY <1>1, <1>2, <2>1 DEF Positions
    <2>5. ASSUME NEW i \in 1..l
          PROVE  buffer'[i - 1] = buffer[i - 1] /\ buffer[i - 1] \in Nat
      <3>1. i \in 1..(l + n) /\ i - 1 \notin l..(l + n - 1)
        BY <1>1, <2>1
      <3>2. buffer[i - 1] \in 0..Len(response.bytes)
        BY <1>2, <2>4, <3>1
      <3> QED
        BY <2>2, <2>4, <3>1, <3>2
    <2>6. ASSUME NEW i \in 1..n
          PROVE  buffer'[(l + i) - 1] = TakenOut + i
      <3>1. /\ l + i \in 1..(l + n) /\ (l + i) - 1 \in l..(l + n - 1)
            /\ start + (((l + i) - 1) - l) = start + i - 1
        BY <1>1, <1>2, <2>1
      <3> QED
        BY <1>1, <2>2, <2>4, <3>1
    <2>7. ASSUME NEW i \in 1..(l + n)
          PROVE  buffer'[i - 1] \in Nat
      <3>1. i \in 1..l \/ \E k \in 1..n : i = l + k
        <4>1. i \in 1..l \/ (i - l \in 1..n /\ i = l + (i - l))
          BY <1>1, <2>1
        <4> QED
          BY <4>1
      <3>2. CASE i \in 1..l
        <4>1. buffer'[i - 1] = buffer[i - 1] /\ buffer[i - 1] \in Nat
          BY <2>5, <3>2
        <4> QED
          BY <4>1
      <3>3. ASSUME NEW k \in 1..n, i = l + k
            PROVE  buffer'[i - 1] \in Nat
        <4>1. buffer'[i - 1] = TakenOut + k
          BY <2>6, <3>3
        <4> QED
          BY <1>1, <4>1
      <3> QED
        BY <3>1, <3>2, <3>3
    <2>8. l + n \in Nat
      BY <1>1
    <2>9. BodySoFar \in Seq(Nat) /\ Len(BodySoFar) = l
      BY <2>3, <2>5
    <2>10. BodySoFar' \in Seq(Nat) /\ Len(BodySoFar') = l + n
      BY <2>3, <2>7, <2>8
    <2>11. \A i \in 1..l : i \in 1..(l + n)
      BY <1>1
    <2>12. \A i \in 1..n : l + i \in 1..(l + n)
      BY <1>1, <2>1
    <2>13. \A i \in 1..l : BodySoFar'[i] = BodySoFar[i]
      BY <2>3, <2>5, <2>11
    <2>14. \A i \in 1..n : BodySoFar'[l + i] = TakenOut + i
      BY <2>3, <2>6, <2>12
    <2> QED
      BY <2>9, <2>10, <2>13, <2>14
  <1> QED
    BY <1>3, <1>4

\* What is known of the reader while a chunked body is read.
LEMMA ChunkTypes ==
    ASSUME IInv, response.framing = "chunked"
    PROVE  /\ TakenOut \in Nat /\ TakenOut <= received /\ TakenOut <= Len(response.bytes)
           /\ TakenOut = received - (end - start)
           /\ received \in Nat /\ received <= Len(response.bytes) /\ Len(response.bytes) \in Nat
           /\ start \in Nat /\ end \in Nat /\ start <= end /\ end <= Capacity /\ Capacity \in Nat
           /\ length \in Nat /\ scanned \in Nat
           /\ \A i \in 1..Len(response.bytes) : response.bytes[i].says \in Nat \cup {Malformed}
           /\ BodyOf(response) = DataOf(response.bytes)
  <1>r. /\ response \in Responses /\ Len(response.bytes) \in Nat
        /\ response.bytes \in Seq([is : {"data", "digit", "cr", "lf"}, says : Nat \cup {Malformed}])
    <2>1. response \in Responses
      BY DEF IInv, TypeOK
    <2>2. response.bytes \in Seq([is : {"data", "digit", "cr", "lf"}, says : Nat \cup {Malformed}])
      BY <2>1, ReaderAssumption
    <2> QED
      BY <2>1, <2>2
  <1>1. /\ Capacity \in Nat /\ start \in 0..Capacity /\ end \in 0..Capacity /\ start <= end
        /\ sent \in 0..Len(response.bytes) /\ received \in 0..sent
        /\ length \in Nat /\ scanned \in 0..Capacity /\ received - (end - start) >= 0
        /\ Len(response.bytes) \in Nat
    BY <1>r, ReaderAssumption DEF IInv, TypeOK, UnreadIsSafe, TakenOut
  <1>2. BodyOf(response) = DataOf(response.bytes)
    BY DEF BodyOf
  <1>3. ASSUME NEW i \in 1..Len(response.bytes)
        PROVE  response.bytes[i].says \in Nat \cup {Malformed}
    <2>1. response.bytes[i] \in [is : {"data", "digit", "cr", "lf"}, says : Nat \cup {Malformed}]
      BY <1>r, ElementOfSeq
    <2> QED
      BY <2>1
  <1>4. TakenOut = received - (end - start)
    BY DEF TakenOut
  <1> QED
    BY <1>1, <1>2, <1>3, <1>4

\* All that a step has to establish of a chunked body.
LEMMA ChunkKeeps ==
    ASSUME IInv, response.framing = "chunked", UNCHANGED response,
           NEW t \in Nat, TakenOut' = t,
           NEW k \in 0..Len(response.bytes),
           Lists(BodySoFar, DataOf(response.bytes) \cap 1..k)',
           at' # "done" => k = t,
           at' \notin {"pass", "drain"}, at' = "chunk" => scanned' = 0,
           at' # "done" => \A j \in (t + 1)..(t + scanned') : response.bytes[j].is # "lf",
           OkMeansComplete',
           NEW lines \in SUBSET LineStarts(response.bytes), SizeLines(response.bytes, lines),
           at' = "size" => t + 1 \in lines,
           at' = "chunk" =>
               /\ t + length' <= Len(response.bytes)
               /\ \A j \in (t + 1)..(t + length') : response.bytes[j].is = "data"
               /\ SizeLineBehind(response.bytes, lines, t + length'),
           at' = "chunk_end" => SizeLineBehind(response.bytes, lines, t),
           at' = "trailer" => \A j \in (t + 1)..Len(response.bytes) : response.bytes[j].is # "data"
    PROVE  ChunkInv'
  <1>1. AtItsPlace(response.bytes, lines)'
    BY DEF AtItsPlace
  <1>2. SizeLines(response.bytes, lines)'
    BY SMTT(40) DEF SizeLines, LineAt, BlankLine, ChunkBehind, SizeLineBehind
  <1>3. lines \in SUBSET LineStarts(response.bytes)'
    BY DEF LineStarts
  <1>4. BodyOf(response)' = DataOf(response.bytes)'
    BY DEF BodyOf
  <1>5. BodyIsIntact'
    BY <1>4 DEF BodyIsIntact
  <1> QED
    BY <1>1, <1>2, <1>3, <1>5 DEF ChunkInv

\* Handing bytes of a chunk to the caller keeps its place in the framing.
LEMMA ChunkPassStep == IInv /\ ChunkInv /\ PassThrough => ChunkInv'
  <1> SUFFICES ASSUME IInv, ChunkInv, PassThrough, response.framing = "chunked"
               PROVE  ChunkInv'
    BY DEF PassThrough, ChunkInv
  <1>1. /\ at = "chunk" /\ scanned = 0 /\ result = "none"
        /\ UNCHANGED <<response, sent, handler, scanned>>
    BY FramingAt DEF PassThrough, ChunkInv
  <1>2. PICK b : b = response.bytes
    OBVIOUS
  <1>3. /\ TakenOut \in Nat /\ TakenOut <= Len(b) /\ Len(b) \in Nat
        /\ start \in Nat /\ end \in Nat /\ start <= end /\ length \in Nat
    BY <1>2, ChunkTypes
  <1>4. PICK lines \in SUBSET LineStarts(b) : SizeLines(b, lines) /\ AtItsPlace(b, lines)
    BY <1>2 DEF ChunkInv
  <1>5. /\ TakenOut + length <= Len(b)
        /\ \A j \in (TakenOut + 1)..(TakenOut + length) : b[j].is = "data"
        /\ SizeLineBehind(b, lines, TakenOut + length)
    BY <1>1, <1>4 DEF AtItsPlace
  <1>6. Lists(BodySoFar, DataOf(b) \cap 1..TakenOut)
    BY <1>1, <1>2 DEF ChunkInv
  <1>7. \A t \in Nat : (t + 1)..(t + scanned') = {}
    BY <1>1
  <1>8. TakenOut \in 0..Len(b)
    BY <1>3
  <1>9. CASE length = 0
    <2>1. /\ UNCHANGED <<window, received, length, delivered>>
          /\ at' = "chunk_end" /\ UNCHANGED result
      BY <1>1, <1>9 DEF PassThrough
    <2>2. TakenOut' = TakenOut /\ BodySoFar' = BodySoFar
      BY <1>1, <2>1 DEF TakenOut, BodySoFar, window
    <2>3. TakenOut + length = TakenOut
      BY <1>3, <1>9
    <2>4. OkMeansComplete'
      BY <1>1, <2>1 DEF OkMeansComplete
    <2>5. Lists(BodySoFar, DataOf(response.bytes) \cap 1..TakenOut)'
      BY <1>1, <1>2, <1>6, <2>2
    <2> QED
      BY <1>1, <1>2, <1>3, <1>4, <1>5, <1>6, <1>7, <1>8, <2>1, <2>2, <2>3, <2>4, ChunkKeeps
  <1>10. CASE length # 0 /\ Empty
    <2>1. Fill("error") /\ UNCHANGED <<length, delivered>>
      BY <1>1, <1>10 DEF PassThrough
    <2>2. /\ TakenOut' = TakenOut /\ BodySoFar' = BodySoFar
          /\ \/ UNCHANGED <<at, result>>
             \/ at' = "done" /\ result' \in {"insufficient_size", "error"}
      BY <1>1, <2>1, FillStep
    <2>3. OkMeansComplete'
      BY <1>1, <2>2 DEF OkMeansComplete
    <2> QED
      BY <1>1, <1>2, <1>3, <1>4, <1>5, <1>6, <1>7, <1>8, <2>1, <2>2, <2>3, ChunkKeeps
  <1>11. CASE length # 0 /\ ~Empty
    <2>1. PICK take \in 1..(end - start) :
             /\ take <= length
             /\ Deliver(take)
             /\ length' = length - take
      <3>1. end - start \in Nat \ {0} /\ length \in Nat \ {0}
        BY <1>3, <1>11 DEF Empty
      <3>2. Min({end - start, length}) \in 1..(end - start) /\ Min({end - start, length}) <= length
        BY <3>1, MinOfTwo
      <3> QED
        BY <1>1, <1>11, <3>2 DEF PassThrough
    <2>2. /\ TakenOut' = TakenOut + take
          /\ UNCHANGED <<at, result>> \/ (at' = "done" /\ result' = "error")
      BY <1>1, <2>1, DeliverStep
    <2>3. PICK t \in Nat : t = TakenOut + take
      BY <1>3, <2>1
    <2>4. t + length' = TakenOut + length /\ t \in 0..Len(b) /\ take \in Nat
      BY <1>3, <1>5, <2>1, <2>3
    <2>5. \A j \in (TakenOut + 1)..(TakenOut + take) : j \in DataOf(b)
      <3>1. \A j \in (TakenOut + 1)..(TakenOut + take) :
               j \in (TakenOut + 1)..(TakenOut + length) /\ j \in 1..Len(b)
        BY <1>3, <1>5, <2>1
      <3> QED
        BY <1>5, <3>1 DEF DataOf
    <2>6. /\ BodySoFar \in Seq(Nat) /\ BodySoFar' \in Seq(Nat)
          /\ Len(BodySoFar') = Len(BodySoFar) + take
          /\ \A i \in 1..Len(BodySoFar) : BodySoFar'[i] = BodySoFar[i]
          /\ \A i \in 1..take : BodySoFar'[Len(BodySoFar) + i] = TakenOut + i
      BY <1>1, <2>1, DeliverAppends
    <2>7. Lists(BodySoFar', DataOf(b) \cap 1..t)
      BY <1>3, <1>6, <2>3, <2>4, <2>5, <2>6, ListGrows
    <2>8. OkMeansComplete'
      BY <1>1, <2>2 DEF OkMeansComplete
    <2>9. \A j \in (t + 1)..(t + length') : j \in (TakenOut + 1)..(TakenOut + length)
      BY <1>3, <2>1, <2>3, <2>4
    <2>10. SizeLineBehind(b, lines, t + length') /\ t + length' <= Len(b)
      BY <1>5, <2>4
    <2> QED
      BY <1>1, <1>2, <1>4, <1>5, <1>7, <2>2, <2>3, <2>4, <2>7, <2>8, <2>9, <2>10, ChunkKeeps
  <1> QED
    BY <1>9, <1>10, <1>11

\* A line feed found in the window ends the line that begins behind what was taken
\* out, and leaves it when it is consumed.
LEMMA LineFound ==
    ASSUME IInv, ChunkInv, response.framing = "chunked", at # "done",
           NEW p \in Positions, FirstLineEnd(p),
           start' = p + 1, UNCHANGED <<end, received>>
    PROVE  /\ buffer[p] \in (TakenOut + 1)..Len(response.bytes) /\ TakenOut' = buffer[p]
           /\ LineAt(response.bytes, TakenOut + 1, buffer[p])
           /\ Blank(p) <=> BlankLine(response.bytes, TakenOut + 1, buffer[p])
  <1>1. PICK b : b = response.bytes
    OBVIOUS
  <1>2. /\ TakenOut \in Nat /\ TakenOut = received - (end - start)
        /\ received \in Nat /\ received <= Len(b) /\ Len(b) \in Nat
        /\ start \in Nat /\ end \in Nat /\ start <= end /\ scanned \in Nat
    BY <1>1, ChunkTypes
  <1>3. /\ p \in (start + scanned)..(end - 1) /\ Holds(p).is = "lf"
        /\ \A q \in (start + scanned)..(end - 1) : Holds(q).is = "lf" => p <= q
    BY DEF FirstLineEnd, LineEnds
  <1>4. \A q \in start..(end - 1) : buffer[q] = (TakenOut + 1) + (q - start)
    <2>1. ASSUME NEW q \in start..(end - 1)
          PROVE  buffer[q] = (TakenOut + 1) + (q - start)
      <3>1. buffer[q] = received - (end - q) + 1
        BY DEF IInv, UnreadIsSafe
      <3> QED
        BY <1>2, <3>1
    <2> QED
      BY <2>1
  <1>5. p \in start..(end - 1) /\ p \in Nat
    BY <1>2, <1>3
  <1>6. PICK e \in Nat : e = (TakenOut + 1) + (p - start)
    BY <1>2, <1>5
  <1>7. buffer[p] = e
    BY <1>4, <1>5, <1>6
  <1>8. e \in (TakenOut + 1)..Len(b)
    BY <1>2, <1>5, <1>6
  <1>9. TakenOut' = e
    <2>1. TakenOut' = received - (end - (p + 1))
      BY <1>2, <1>5, TakenOutNow
    <2> QED
      BY <1>2, <1>5, <1>6, <2>1
  <1>10. b[e].is = "lf"
    BY <1>1, <1>3, <1>7 DEF Holds
  <1>11. ASSUME NEW j \in (TakenOut + 1)..(e - 1)
         PROVE  b[j].is # "lf"
    <2>1. CASE j \in (TakenOut + 1)..(TakenOut + scanned)
      BY <1>1, <2>1 DEF ChunkInv
    <2>2. CASE j \notin (TakenOut + 1)..(TakenOut + scanned)
      <3>1. PICK q \in (start + scanned)..(end - 1) : j = (TakenOut + 1) + (q - start) /\ q < p
        <4>1. /\ start + (j - (TakenOut + 1)) \in (start + scanned)..(end - 1)
              /\ j = (TakenOut + 1) + ((start + (j - (TakenOut + 1))) - start)
              /\ start + (j - (TakenOut + 1)) < p
          BY <1>2, <1>5, <1>6, <2>2
        <4> QED
          BY <4>1
      <3>2. q \in start..(end - 1) /\ ~(p <= q)
        BY <1>2, <1>5, <3>1
      <3>3. buffer[q] = j
        BY <1>4, <3>1, <3>2
      <3>4. Holds(q).is # "lf"
        BY <1>3, <3>1, <3>2
      <3> QED
        BY <1>1, <3>3, <3>4 DEF Holds
    <2> QED
      BY <2>1, <2>2
  <1>12. LineAt(b, TakenOut + 1, e)
    BY <1>8, <1>10, <1>11 DEF LineAt
  <1>13. Blank(p) <=> BlankLine(b, TakenOut + 1, e)
    <2>1. (p = start <=> e = TakenOut + 1) /\ (p = start + 1 <=> e = (TakenOut + 1) + 1)
      BY <1>2, <1>5, <1>6
    <2>2. p = start + 1 => buffer[start] = TakenOut + 1
      <3>1. p = start + 1 =>
               start \in start..(end - 1) /\ (TakenOut + 1) + (start - start) = TakenOut + 1
        BY <1>2, <1>5
      <3> QED
        BY <1>4, <3>1
    <2> QED
      BY <1>1, <2>1, <2>2 DEF Blank, BlankLine, Holds
  <1> QED
    BY <1>1, <1>7, <1>8, <1>9, <1>12, <1>13

\* Where there is no data, what is taken out changes nothing of the list.
LEMMA SameList ==
    ASSUME NEW b, Len(b) \in Nat, NEW t \in Nat, NEW u \in Nat, t <= u,
           \A j \in (t + 1)..u : j \notin DataOf(b)
    PROVE  DataOf(b) \cap 1..t = DataOf(b) \cap 1..u
  <1>1. \A j \in 1..u : j \in 1..t \/ j \in (t + 1)..u
    OBVIOUS
  <1>2. \A j \in 1..t : j \in 1..u
    OBVIOUS
  <1> QED
    BY <1>1, <1>2

\* Reading a line of the chunked coding keeps the place in the framing.
LEMMA ChunkReadLineStep == IInv /\ ChunkInv /\ ReadLine => ChunkInv'
  <1> SUFFICES ASSUME IInv, ChunkInv, ReadLine, response.framing = "chunked"
               PROVE  ChunkInv'
    BY DEF ReadLine, ChunkInv
  <1>1. /\ at \in {"size", "chunk_end", "trailer"} /\ at # "done" /\ result = "none"
        /\ UNCHANGED <<response, sent, handler, delivered>>
    BY FramingAt DEF ReadLine
  <1>2. PICK b : b = response.bytes
    OBVIOUS
  <1>3. /\ TakenOut \in Nat /\ TakenOut <= Len(b) /\ Len(b) \in Nat
        /\ TakenOut = received - (end - start) /\ received \in Nat
        /\ start \in Nat /\ end \in Nat /\ start <= end /\ length \in Nat /\ scanned \in Nat
        /\ \A i \in 1..Len(b) : b[i].says \in Nat \cup {Malformed}
        /\ BodyOf(response) = DataOf(b)
    BY <1>2, ChunkTypes
  <1>4. PICK lines \in SUBSET LineStarts(b) : SizeLines(b, lines) /\ AtItsPlace(b, lines)
    BY <1>2 DEF ChunkInv
  <1>5. /\ Lists(BodySoFar, DataOf(b) \cap 1..TakenOut)
        /\ \A j \in (TakenOut + 1)..(TakenOut + scanned) : b[j].is # "lf"
    BY <1>1, <1>2 DEF ChunkInv
  <1>6. TakenOut \in 0..Len(b)
    BY <1>3
  <1>7. CASE LineEnds = {}
    <2>1. Fill("error") /\ scanned' = end - start /\ UNCHANGED length
      BY <1>7 DEF ReadLine
    <2>2. /\ TakenOut' = TakenOut /\ BodySoFar' = BodySoFar
          /\ \/ UNCHANGED <<at, result>>
             \/ at' = "done" /\ result' \in {"insufficient_size", "error"}
      BY <1>1, <2>1, FillStep
    <2>3. OkMeansComplete'
      BY <1>1, <2>2 DEF OkMeansComplete
    <2>4. ASSUME NEW j \in (TakenOut + 1)..(TakenOut + scanned')
          PROVE  b[j].is # "lf"
      <3>1. CASE j \in (TakenOut + 1)..(TakenOut + scanned)
        BY <1>5, <3>1
      <3>2. CASE j \notin (TakenOut + 1)..(TakenOut + scanned)
        <4>1. PICK q \in (start + scanned)..(end - 1) : j = received - (end - q) + 1
          <5>1. /\ start + (j - (TakenOut + 1)) \in (start + scanned)..(end - 1)
                /\ j = received - (end - (start + (j - (TakenOut + 1)))) + 1
            BY <1>3, <2>1, <3>2
          <5> QED
            BY <5>1
        <4>2. q \in start..(end - 1)
          BY <1>3, <4>1
        <4>3. buffer[q] = j
          BY <4>1, <4>2 DEF IInv, UnreadIsSafe
        <4>4. Holds(q).is # "lf"
          BY <1>7, <4>1 DEF LineEnds
        <4> QED
          BY <1>2, <4>3, <4>4 DEF Holds
      <3> QED
        BY <3>1, <3>2
    <2>5. /\ at' = "size" => TakenOut + 1 \in lines
          /\ at' = "chunk_end" => SizeLineBehind(b, lines, TakenOut)
          /\ at' = "trailer" => \A j \in (TakenOut + 1)..Len(b) : b[j].is # "data"
          /\ at' # "chunk" /\ at' \notin {"pass", "drain"}
      BY <1>1, <1>4, <2>2 DEF AtItsPlace
    <2>6. Lists(BodySoFar, DataOf(response.bytes) \cap 1..TakenOut)'
      BY <1>1, <1>2, <1>5, <2>2
    <2> QED
      BY <1>1, <1>2, <1>3, <1>4, <1>5, <1>6, <2>2, <2>3, <2>4, <2>5, ChunkKeeps
  <1>8. CASE LineEnds # {}
    <2>1. PICK p \in Positions :
             FirstLineEnd(p) /\ start' = p + 1 /\ Line(p)
      BY <1>8 DEF ReadLine
    <2>2. UNCHANGED <<buffer, end, stored_length, received>> /\ scanned' = 0
      BY <1>8 DEF ReadLine
    <2>3. BodySoFar' = BodySoFar
      BY <1>1, <2>2 DEF BodySoFar
    <2>4. PICK e : e = buffer[p]
      OBVIOUS
    <2>5. /\ e \in (TakenOut + 1)..Len(b) /\ TakenOut' = e
          /\ LineAt(b, TakenOut + 1, e)
          /\ Blank(p) <=> BlankLine(b, TakenOut + 1, e)
          /\ Holds(p) = b[e]
      BY <1>1, <1>2, <2>1, <2>2, <2>4, LineFound DEF Holds
    <2>6. e \in Nat /\ e \in 0..Len(b) /\ TakenOut <= e /\ e \in 1..Len(b)
      BY <1>3, <2>5
    <2>7. \A j \in (e + 1)..(e + scanned') : b[j].is # "lf"
      BY <2>2, <2>6
    <2>8. CASE at' = "done" /\ result' = "error"
      <3>1. OkMeansComplete'
        BY <2>8 DEF OkMeansComplete
      <3> QED
        BY <1>1, <1>2, <1>4, <1>5, <1>6, <2>3, <2>5, <2>6, <2>8, <3>1, ChunkKeeps
    <2>9. ASSUME BlankLine(b, TakenOut + 1, e)
          PROVE  \A j \in (TakenOut + 1)..e : b[j].is # "data"
      <3>1. b[e].is = "lf"
        BY <2>5 DEF LineAt
      <3>2. CASE e = TakenOut + 1
        <4>1. \A j \in (TakenOut + 1)..e : j = e
          BY <1>3, <3>2
        <4> QED
          BY <3>1, <4>1
      <3>3. CASE e = (TakenOut + 1) + 1 /\ b[TakenOut + 1].is = "cr"
        <4>1. \A j \in (TakenOut + 1)..e : j = e \/ j = TakenOut + 1
          BY <1>3, <3>3
        <4> QED
          BY <3>1, <3>3, <4>1
      <3> QED
        BY <2>9, <3>2, <3>3 DEF BlankLine
    <2>10. ASSUME \A j \in (TakenOut + 1)..e : b[j].is # "data"
           PROVE  Lists(BodySoFar', DataOf(b) \cap 1..e)
      <3>1. \A j \in (TakenOut + 1)..e : j \notin DataOf(b)
        BY <2>10 DEF DataOf
      <3>2. DataOf(b) \cap 1..TakenOut = DataOf(b) \cap 1..e
        BY <1>3, <2>6, <3>1, SameList
      <3> QED
        BY <1>5, <2>3, <3>2
    <2>11. CASE at = "size" /\ at' # "done"
      <3>1. /\ ~Blank(p) /\ b[e].says # Malformed /\ UNCHANGED result
            /\ length' = b[e].says
            /\ at' = IF length' = 0 THEN "trailer" ELSE "chunk"
        BY <2>1, <2>5, <2>11 DEF Line, Return
      <3>2. TakenOut + 1 \in lines
        BY <1>4, <2>11 DEF AtItsPlace
      <3>3. (\A j \in (TakenOut + 1)..e : b[j].is # "data") /\ ChunkBehind(b, lines, e)
        BY <1>4, <2>5, <2>6, <3>1, <3>2 DEF SizeLines
      <3>4. Lists(BodySoFar', DataOf(b) \cap 1..e)
        BY <2>10, <3>3
      <3>5. OkMeansComplete'
        BY <1>1, <3>1 DEF OkMeansComplete
      <3>6. at' = "trailer" => \A j \in (e + 1)..Len(b) : b[j].is # "data"
        <4>1. \A j \in (e + 1)..Len(b) : j \in e..Len(b)
          BY <1>3, <2>6
        <4>2. at' = "trailer" => \A j \in e..Len(b) : b[j].is # "data"
          BY <3>1, <3>3 DEF ChunkBehind
        <4> QED
          BY <4>1, <4>2
      <3>7. at' = "chunk" => /\ e + length' <= Len(b)
                             /\ \A j \in (e + 1)..(e + length') : b[j].is = "data"
                             /\ SizeLineBehind(b, lines, e + length')
        BY <3>1, <3>3 DEF ChunkBehind
      <3>8. at' \in {"trailer", "chunk"}
        BY <3>1
      <3> QED
        BY <1>1, <1>2, <1>4, <2>2, <2>5, <2>6, <2>7, <3>4, <3>5, <3>6, <3>7, <3>8, ChunkKeeps
    <2>12. CASE at = "chunk_end" /\ at' # "done"
      <3>1. Blank(p) /\ at' = "size" /\ UNCHANGED result
        BY <2>1, <2>12 DEF Line, Return
      <3>2. SizeLineBehind(b, lines, TakenOut)
        BY <1>4, <2>12 DEF AtItsPlace
      <3>3. e + 1 \in lines
        BY <2>5, <2>6, <3>1, <3>2 DEF SizeLineBehind
      <3>4. Lists(BodySoFar', DataOf(b) \cap 1..e)
        BY <2>5, <2>9, <2>10, <3>1
      <3>5. OkMeansComplete'
        BY <1>1, <3>1 DEF OkMeansComplete
      <3> QED
        BY <1>1, <1>2, <1>4, <2>2, <2>5, <2>6, <2>7, <3>1, <3>3, <3>4, <3>5, ChunkKeeps
    <2>13. CASE at = "trailer"
      <3>1. \A j \in (TakenOut + 1)..Len(b) : b[j].is # "data"
        BY <1>4, <2>13 DEF AtItsPlace
      <3>2. \/ at' = "done" /\ result' = "ok"
            \/ at' = "trailer" /\ UNCHANGED result
        BY <2>1, <2>13 DEF Line, Return, Stays
      <3>3. \A j \in (TakenOut + 1)..e : b[j].is # "data"
        <4>1. \A j \in (TakenOut + 1)..e : j \in (TakenOut + 1)..Len(b)
          BY <1>3, <2>5, <2>6
        <4> QED
          BY <3>1, <4>1
      <3>4. Lists(BodySoFar', DataOf(b) \cap 1..e)
        BY <2>10, <3>3
      <3>5. Lists(BodySoFar', DataOf(b))
        <4>1. \A j \in 1..Len(b) : j \in 1..TakenOut \/ j \in (TakenOut + 1)..Len(b)
          BY <1>3
        <4>2. DataOf(b) \cap 1..TakenOut = DataOf(b)
          BY <3>1, <4>1 DEF DataOf
        <4> QED
          BY <1>5, <2>3, <4>2
      <3>6. OkMeansComplete'
        <4>1. BodyOf(response)' = DataOf(b)
          BY <1>1, <1>2 DEF BodyOf
        <4> QED
          BY <3>5, <4>1 DEF OkMeansComplete
      <3>7. \A j \in (e + 1)..Len(b) : b[j].is # "data"
        <4>1. \A j \in (e + 1)..Len(b) : j \in (TakenOut + 1)..Len(b)
          BY <1>3, <2>6
        <4> QED
          BY <3>1, <4>1
      <3> QED
        BY <1>1, <1>2, <1>4, <2>2, <2>5, <2>6, <2>7, <3>2, <3>4, <3>6, <3>7, ChunkKeeps
    <2>14. at' = "done" => result' = "error" \/ at = "trailer"
      BY <1>1, <2>1 DEF Line, Return, Stays
    <2> QED
      BY <1>1, <2>8, <2>11, <2>12, <2>13, <2>14
  <1> QED
    BY <1>7, <1>8

\* A body that is framed begins at the first line of its framing.
LEMMA InitChunkInv == ChunksAreFramed /\ Init => ChunkInv
  <1> SUFFICES ASSUME ChunksAreFramed, Init, response.framing = "chunked" PROVE ChunkInv
    BY DEF ChunkInv
  <1>1. /\ response \in Responses /\ at = "size" /\ result = "none" /\ scanned = 0
        /\ start = 0 /\ end = received /\ stored_length = 0 /\ delivered = <<>>
    BY DEF Init
  <1>2. IInv
    BY InitIInv
  <1>3. Len(response.bytes) \in Nat /\ TakenOut = 0
    <2>1. received \in Nat /\ Len(response.bytes) \in Nat
      BY <1>2, ChunkTypes
    <2> QED
      BY <1>1, <2>1 DEF TakenOut
  <1>4. BodySoFar = <<>>
    BY <1>1 DEF BodySoFar
  <1>5. Lists(BodySoFar, DataOf(response.bytes) \cap 1..0)
    <2>1. Len(BodySoFar) = 0 /\ 1..0 = {}
      BY <1>4
    <2> QED
      BY <2>1 DEF Lists
  <1>6. BodyIsIntact
    <2>1. BodyOf(response) = DataOf(response.bytes) /\ 0 \in 0..Len(response.bytes)
      BY <1>3 DEF BodyOf
    <2> QED
      BY <1>5, <2>1 DEF BodyIsIntact
  <1>7. OkMeansComplete
    BY <1>1 DEF OkMeansComplete
  <1>8. \A j \in (TakenOut + 1)..(TakenOut + scanned) : response.bytes[j].is # "lf"
    BY <1>1, <1>3
  <1>9. PICK lines \in SUBSET LineStarts(response.bytes) : SizeLines(response.bytes, lines)
    BY <1>1 DEF ChunksAreFramed
  <1>10. AtItsPlace(response.bytes, lines)
    BY <1>1, <1>3, <1>9 DEF AtItsPlace, SizeLines
  <1> QED
    BY <1>1, <1>3, <1>5, <1>6, <1>7, <1>8, <1>9, <1>10 DEF ChunkInv

\* Every step keeps the place in the framing.
LEMMA NextChunkInv == IInv /\ ChunkInv /\ [Next]_vars => ChunkInv'
  <1>1. ASSUME ChunkInv, UNCHANGED vars
        PROVE  ChunkInv'
    BY <1>1 DEF vars, window, ChunkInv, AtItsPlace, BodyIsIntact, OkMeansComplete, TakenOut,
                BodySoFar, BodyOf
  <1>2. ASSUME IInv, ChunkInv, Drain
        PROVE  ChunkInv'
    BY <1>2 DEF Drain, ChunkInv
  <1> QED
    BY <1>1, <1>2, ChunkPassStep, ChunkReadLineStep DEF Next

\* If the framing of every chunked response is where its sizes say, then any body
\* is handed over byte for byte, framing left out: whatever its framing, whatever
\* pieces it arrives in, and wherever the peer stops.
THEOREM WholeBodies == ASSUME ChunksAreFramed PROVE Spec => []BodyIsIntact
  <1>1. Init => ChunkInv
    BY InitChunkInv
  <1>2. IInv /\ ChunkInv => BodyIsIntact
    BY PlainBody DEF ChunkInv
  <1> QED
    BY <1>1, <1>2, InitIInv, NextIInv, NextChunkInv, PTL DEF Spec

\* And ok is returned only for all of it.
THEOREM CompleteBodies == ASSUME ChunksAreFramed PROVE Spec => []OkMeansComplete
  <1>1. Init => ChunkInv
    BY InitChunkInv
  <1>2. IInv /\ ChunkInv => OkMeansComplete
    BY PlainBody DEF ChunkInv
  <1> QED
    BY <1>1, <1>2, InitIInv, NextIInv, NextChunkInv, PTL DEF Spec
=================================================================================
