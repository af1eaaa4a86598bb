-------------------------- MODULE SlotPipeline_proofs --------------------------
(***************************************************************************)
(* Proofs about SlotPipeline, for any requests in any pieces and a receive *)
(* buffer of any size: handlers are given the client's requests in order,  *)
(* responses do not overtake one another, streamed bodies are finalized    *)
(* once, and only what cannot fit is refused.                              *)
(***************************************************************************)
EXTENDS SlotPipeline, FiniteSetTheorems, SequenceTheorems, TLAPS

-------------------------------------------------------------------------------
(* Induction over natural numbers, by the least counterexample.              *)

\* Every non-empty set of natural numbers has a least element: among the intervals
\* 0..m for its elements m one is minimal under inclusion.
LEMMA LeastNumber ==
    ASSUME NEW S, S \subseteq Nat, S # {}
    PROVE  \E x \in S : \A y \in S : x <= y
  <1>1. PICK n \in S : TRUE
    OBVIOUS
  <1> DEFINE U == 0..n
             T == {0..m : m \in {k \in S : k <= n}}
             R == StrictSubsetOrdering(U)
  <1>2. IsWellFoundedOn(R, FiniteSubsetsOf(U))
    BY FS_StrictSubsetOrderingWellFounded
  <1>3. T \subseteq FiniteSubsetsOf(U)
    <2> SUFFICES ASSUME NEW m \in S, m <= n PROVE 0..m \in FiniteSubsetsOf(U)
      OBVIOUS
    <2>1. IsFiniteSet(0..m)
      BY FS_Interval
    <2> QED
      BY <2>1 DEF FiniteSubsetsOf
  <1>4. T # {}
    OBVIOUS
  <1>5. \E x \in T : \A y \in T : <<y, x>> \notin R
    <2> HIDE DEF U, T, R
    <2> QED
      BY <1>2, <1>3, <1>4, WFMin
  <1>6. PICK m \in S : m <= n /\ \A y \in T : <<y, 0..m>> \notin R
    BY <1>5
  <1>7. ASSUME NEW y \in S, y < m PROVE FALSE
    <2>1. 0..y \in T
      BY <1>6, <1>7
    <2>2. 0..y \in SUBSET U /\ 0..m \in SUBSET U /\ 0..y \subseteq 0..m /\ 0..y # 0..m
      BY <1>6, <1>7
    <2> QED
      BY <1>6, <2>1, <2>2 DEF StrictSubsetOrdering
  <1> QED
    BY <1>7

\* A set with 0, and with the successor of each of its numbers, has them all.
LEMMA SetInduction ==
    ASSUME NEW S, 0 \in S, \A n \in Nat : n \in S => n + 1 \in S
    PROVE  Nat \subseteq S
  <1> SUFFICES ASSUME Nat \ S # {} PROVE FALSE
    OBVIOUS
  <1>1. PICK n \in Nat \ S : \A k \in Nat \ S : n <= k
    BY LeastNumber
  <1>2. n # 0 /\ n - 1 \in Nat /\ n - 1 \in S
    BY <1>1
  <1> QED
    BY <1>1, <1>2

-------------------------------------------------------------------------------
(* Where the requests of the client start.                                   *)

\* The heads of requests have bytes, and their bodies may have.
LEMMA RequestLengths ==
    /\ Len(Client) \in Nat
    /\ \A k \in 1..Len(Client) : /\ Client[k].head \in Nat \ {0} /\ Client[k].body \in Nat
                                 /\ Size(k) \in Nat \ {0} /\ Client[k].head <= Size(k)
  <1>1. Len(Client) \in Nat /\ DOMAIN Client = 1..Len(Client)
    BY PipelineAssumption
  <1>2. \A k \in 1..Len(Client) : Client[k] \in [head : Nat \ {0}, body : Nat]
    BY PipelineAssumption, ElementOfSeq
  <1> QED
    BY <1>1, <1>2 DEF Size

\* The recursive definition has a solution: it can be extended request by request.
LEMMA StartExists ==
    \E f \in [1..(Len(Client) + 1) -> Nat] :
        f[1] = 0 /\ \A k \in 1..Len(Client) : f[k + 1] = f[k] + Size(k)
  <1> DEFINE Starts(n, f) == /\ f \in [1..(n + 1) -> Nat] /\ f[1] = 0
                             /\ \A k \in 1..n : f[k + 1] = f[k] + Size(k)
             S == {n \in Nat : n <= Len(Client) => \E f : Starts(n, f)}
  <1>1. 0 \in S
    <2>1. Starts(0, [k \in 1..1 |-> 0])
      OBVIOUS
    <2> QED
      BY <2>1
  <1>2. ASSUME NEW n \in Nat, n \in S PROVE n + 1 \in S
    <2> SUFFICES ASSUME n + 1 <= Len(Client) PROVE \E f : Starts(n + 1, f)
      OBVIOUS
    <2>1. PICK f : Starts(n, f)
      BY <1>2, RequestLengths
    <2> DEFINE g == [k \in 1..((n + 1) + 1) |-> IF k = n + 2 THEN f[n + 1] + Size(n + 1) ELSE f[k]]
    <2>2. f[n + 1] \in Nat /\ Size(n + 1) \in Nat
      BY <2>1, RequestLengths
    <2>3. g \in [1..((n + 1) + 1) -> Nat] /\ g[1] = 0
      BY <2>1, <2>2
    <2>4. \A k \in 1..(n + 1) : g[k + 1] = g[k] + Size(k)
      BY <2>1
    <2> QED
      BY <2>3, <2>4
  <1>3. Len(Client) \in S
    <2> HIDE DEF S
    <2> QED
      BY <1>1, <1>2, SetInduction, RequestLengths
  <1> QED
    BY <1>3, RequestLengths

\* A request starts where the one before it ends.
LEMMA StartValues ==
    /\ Start[1] = 0
    /\ \A k \in 1..Len(Client) : Start[k + 1] = Start[k] + Size(k)
    /\ \A k \in 1..(Len(Client) + 1) : Start[k] \in Nat
  <1>1. PICK f \in [1..(Len(Client) + 1) -> Nat] :
            f[1] = 0 /\ \A k \in 1..Len(Client) : f[k + 1] = f[k] + Size(k)
    BY StartExists
  <1>2. f = [k \in 1..(Len(Client) + 1) |-> IF k = 1 THEN 0 ELSE f[k - 1] + Size(k - 1)]
    <2>1. \A k \in 1..(Len(Client) + 1) : k # 1 => k - 1 \in 1..Len(Client) /\ (k - 1) + 1 = k
      BY RequestLengths
    <2>2. \A k \in 1..(Len(Client) + 1) : f[k] = IF k = 1 THEN 0 ELSE f[k - 1] + Size(k - 1)
      BY <1>1, <2>1
    <2> QED
      BY <2>2
  <1>3. Start = [k \in 1..(Len(Client) + 1) |-> IF k = 1 THEN 0 ELSE Start[k - 1] + Size(k - 1)]
    BY <1>2 DEF Start
  <1>4. Start[1] = 0 /\ \A k \in 1..Len(Client) : Start[k + 1] = Start[k] + Size(k)
    <2>1. 1 \in 1..(Len(Client) + 1)
      BY RequestLengths
    <2>2. \A k \in 1..Len(Client) : k + 1 \in 1..(Len(Client) + 1) /\ k + 1 # 1 /\ (k + 1) - 1 = k
      BY RequestLengths
    <2> HIDE DEF Start
    <2> QED
      BY <1>3, <2>1, <2>2
  <1>5. \A k \in 1..(Len(Client) + 1) : Start[k] \in Nat
    <2> DEFINE S == {n \in Nat : n <= Len(Client) => Start[n + 1] \in Nat}
    <2>0. \A n \in Nat : n + 1 <= Len(Client) => Start[(n + 1) + 1] = Start[n + 1] + Size(n + 1)
                                                /\ Size(n + 1) \in Nat
      BY <1>4, RequestLengths
    <2>1. 0 \in S /\ \A n \in Nat : n \in S => n + 1 \in S
      <3> HIDE DEF Start
      <3> QED
        BY <1>4, <2>0, RequestLengths
    <2>2. Nat \subseteq S
      <3> HIDE DEF S
      <3> QED
        BY <2>1, SetInduction
    <2> SUFFICES ASSUME NEW k \in 1..(Len(Client) + 1) PROVE Start[k] \in Nat
      OBVIOUS
    <2>3. k - 1 \in S
      <3>1. k - 1 \in Nat
        BY RequestLengths
      <3> HIDE DEF S
      <3> QED
        BY <2>2, <3>1
    <2> QED
      BY <2>3, RequestLengths
  <1> QED
    BY <1>4, <1>5

\* A later request starts behind an earlier one.
LEMMA StartsGrow ==
    ASSUME NEW j \in 1..(Len(Client) + 1), NEW k \in 1..(Len(Client) + 1), j < k
    PROVE  Start[j] < Start[k]
  <1> DEFINE S == {n \in Nat : j + n + 1 <= Len(Client) + 1 => Start[j] < Start[j + n + 1]}
  <1>1. 0 \in S
    BY StartValues, RequestLengths
  <1>2. ASSUME NEW n \in Nat, n \in S PROVE n + 1 \in S
    <2> SUFFICES ASSUME j + n + 2 <= Len(Client) + 1 PROVE Start[j] < Start[j + n + 2]
      OBVIOUS
    <2>1. j + n + 1 \in 1..Len(Client) /\ Start[j] < Start[j + n + 1]
      BY <1>2, RequestLengths
    <2>2. /\ Start[(j + n + 1) + 1] = Start[j + n + 1] + Size(j + n + 1)
          /\ Start[j] \in Nat /\ Start[j + n + 1] \in Nat /\ Size(j + n + 1) \in Nat \ {0}
      BY <2>1, StartValues, RequestLengths
    <2> QED
      BY <2>1, <2>2
  <1>3. k - j - 1 \in S
    <2>1. k - j - 1 \in Nat
      BY RequestLengths
    <2> HIDE DEF S
    <2> QED
      BY <1>1, <1>2, <2>1, SetInduction
  <1> QED
    BY <1>3, RequestLengths

\* The whole stream, and each request's place in it.
LEMMA StreamBounds ==
    /\ Total \in Nat
    /\ \A k \in 1..(Len(Client) + 1) : Start[k] \in 0..Total
    /\ \A k \in 1..Len(Client) : Start[k] < Total /\ Client[k].head <= Total
                                 /\ Client[k].body <= Total /\ NumberAt(Start[k]) = {k}
  <1>1. Len(Client) + 1 \in 1..(Len(Client) + 1) /\ Total \in Nat
    BY StartValues, RequestLengths DEF Total
  <1>2. \A k \in 1..Len(Client) : k \in 1..(Len(Client) + 1) /\ Start[k] < Total
    BY <1>1, StartsGrow, RequestLengths DEF Total
  <1>3. \A k \in 1..(Len(Client) + 1) : Start[k] \in 0..Total
    BY <1>1, <1>2, StartValues, RequestLengths DEF Total
  <1>4. ASSUME NEW k \in 1..Len(Client) PROVE Client[k].head <= Total /\ Client[k].body <= Total
    <2>1. k + 1 \in 1..(Len(Client) + 1) /\ k \in 1..(Len(Client) + 1)
      BY RequestLengths
    <2>2. Start[k + 1] = Start[k] + Size(k) /\ Start[k + 1] \in 0..Total /\ Start[k] \in Nat
      BY <1>3, <2>1, StartValues
    <2>3. Size(k) <= Total
      BY <1>1, <2>2, RequestLengths
    <2>4. Client[k].head <= Size(k) /\ Client[k].body <= Size(k)
      BY RequestLengths DEF Size
    <2> QED
      BY <1>1, <2>3, <2>4, RequestLengths
  <1>5. ASSUME NEW k \in 1..Len(Client) PROVE NumberAt(Start[k]) = {k}
    <2>1. \A j \in 1..Len(Client) : j # k => Start[j] # Start[k]
      <3> SUFFICES ASSUME NEW j \in 1..Len(Client), j # k PROVE Start[j] # Start[k]
        OBVIOUS
      <3>1. Start[j] \in Nat /\ Start[k] \in Nat
        BY <1>2, StartValues, RequestLengths
      <3> QED
        <4>1. j \in 1..(Len(Client) + 1) /\ k \in 1..(Len(Client) + 1)
          BY RequestLengths
        <4>2. j < k \/ k < j
          BY RequestLengths
        <4> QED
          BY <3>1, <4>1, <4>2, StartsGrow
    <2>2. DOMAIN Client = 1..Len(Client)
      BY PipelineAssumption
    <2> QED
      BY <2>1, <2>2 DEF NumberAt
  <1> QED
    BY <1>1, <1>2, <1>3, <1>4, <1>5
-------------------------------------------------------------------------------
(* The parser.                                                               *)

Parsed(st, k) ==
    [state |-> st, headers_end |-> Client[k].head, content_length |-> Client[k].body]

ParserType ==
    [state : {"head", "body", "complete", "error"}, headers_end : 0..Total, content_length : 0..Total]

\* The values the model gives to the parser are of its type.
LEMMA ParserTypes ==
    /\ NewParser \in ParserType /\ NewParser.state = "head"
    /\ \A k \in 1..Len(Client), st \in {"body", "complete"} :
           Parsed(st, k) \in ParserType /\ Parsed(st, k).state = st
  <1>1. \A k \in 1..Len(Client) : Client[k].head \in 0..Total /\ Client[k].body \in 0..Total
    BY StreamBounds, RequestLengths
  <1>2. 0 \in 0..Total
    BY StreamBounds
  <1> QED
    BY <1>1, <1>2 DEF NewParser, Parsed, ParserType

\* Fed n bytes from the start of a request, the parser completes exactly if the
\* request is among them.
LEMMA FeedResult ==
    ASSUME NEW k \in 1..Len(Client), NEW n \in Nat,
           NEW p, p = NewParser \/ p = Parsed("body", k)
    PROVE  /\ n >= Size(k) => Feed(p, Start[k], n) = Parsed("complete", k)
           /\ n < Size(k) => Feed(p, Start[k], n) \in {NewParser, Parsed("body", k)}
  <1>1. NumberAt(Start[k]) = {k} /\ (CHOOSE j \in {k} : TRUE) = k
    BY StreamBounds
  <1>2. Client[k].head \in Nat \ {0} /\ Client[k].body \in Nat /\ Client[k].head <= Size(k)
        /\ Size(k) = Client[k].head + Client[k].body
    BY RequestLengths DEF Size
  <1>3. FeedHead(p, Start[k], n) = IF n < Client[k].head /\ p = NewParser THEN NewParser
                                                                         ELSE Parsed("body", k)
    <2>1. CASE p = NewParser
      BY <1>1, <1>2, <2>1 DEF FeedHead, NewParser, Parsed
    <2>2. CASE p = Parsed("body", k)
      BY <1>2, <2>2 DEF FeedHead, NewParser, Parsed
    <2> QED
      BY <2>1, <2>2
  <1> DEFINE q == FeedHead(p, Start[k], n)
  <1>4. p.state \notin {"complete", "error"}
    BY DEF NewParser, Parsed
  <1>5. CASE q = NewParser
    <2>1. n < Size(k)
      BY <1>2, <1>3, <1>5 DEF NewParser, Parsed
    <2>2. Feed(p, Start[k], n) = NewParser
      BY <1>4, <1>5 DEF Feed, NewParser
    <2> QED
      BY <1>2, <2>1, <2>2
  <1>6. CASE q = Parsed("body", k)
    <2>1. q.state = "body" /\ q.headers_end + q.content_length = Size(k)
      BY <1>2, <1>6 DEF Parsed
    <2>2. [q EXCEPT !.state = "complete"] = Parsed("complete", k)
      BY <1>6 DEF Parsed
    <2> QED
      BY <1>2, <1>4, <1>6, <2>1, <2>2 DEF Feed
  <1> QED
    BY <1>3, <1>5, <1>6

-------------------------------------------------------------------------------
(* What the operations that actions share do.                                *)

NetTyped ==
    /\ layered \in BOOLEAN /\ eof \in BOOLEAN
    /\ kernel \in 0..Total /\ layer \in 0..Total /\ sent \in 0..Total

\* The parser is fed what there is of the next request: it is handed over if it is
\* whole, and waited for if not.
LEMMA FedStep ==
    ASSUME IInv, Len(handled) < Len(Client), send_left = 0, ~stream_active,
           answered = Len(handled),
           NEW p, p = NewParser \/ p = Parsed("body", Len(handled) + 1),
           NEW n \in 1..RecvSize, NEW more \in {"loop", "receive"},
           Fed(p, Start[Len(handled) + 1], n, more), NetTyped', InvStream'
    PROVE  IInv'
  <1> DEFINE k == Len(handled) + 1
  <1>1. TypeOK /\ Len(handled) \in Nat /\ k \in 1..Len(Client) /\ k \in 1..(Len(Client) + 1)
    BY RequestLengths, LenProperties DEF IInv, TypeOK
  <1>2. /\ base' = Start[k] /\ recv_used' = n /\ parser' = Feed(p, Start[k], n)
        /\ UNCHANGED <<send_left, stream_active, chunks, posted, answered, offered, started,
                       finalized>>
    BY DEF Fed, streamVars
  <1>3. Start[k] \in 0..Total /\ n \in 0..RecvSize /\ n \in Nat
    <2>1. n \in 0..RecvSize /\ n \in Nat
      BY PipelineAssumption
    <2> QED
      BY <1>1, <2>1, StreamBounds
  <1>4. InvFinalized'
    BY <1>2 DEF IInv, InvFinalized
  <1>5. CASE n >= Size(k)
    <2>1. parser' = Parsed("complete", k) /\ parser'.state = "complete"
      BY <1>1, <1>2, <1>3, <1>5, FeedResult, ParserTypes
    <2>2. /\ at' = "handler" /\ state' = "receiving" /\ handled' = Append(handled, Start[k])
          /\ client_wants_close' \in BOOLEAN /\ UNCHANGED armed
      BY <2>1 DEF Fed
    <2>3. /\ handled' \in Seq(0..Total) /\ Len(handled') = k /\ handled'[k] = Start[k]
          /\ DOMAIN handled' = 1..k /\ \A j \in 1..Len(handled) : handled'[j] = handled[j]
      BY <1>1, <1>3, <2>2, AppendProperties DEF TypeOK
    <2>4. TypeOK'
      BY <1>1, <1>2, <1>3, <2>1, <2>2, <2>3, ParserTypes DEF TypeOK, NetTyped, ParserType
    <2>5. InvHandled'
      <3> SUFFICES ASSUME NEW j \in 1..k PROVE j <= Len(Client) /\ handled'[j] = Start[j]
        BY <2>3 DEF InvHandled
      <3>1. CASE j = k
        BY <1>1, <2>3, <3>1
      <3>2. CASE j \in 1..Len(handled)
        BY <1>1, <2>3, <3>2, LenProperties DEF IInv, InvHandled, TypeOK
      <3> QED
        BY <1>1, <3>1, <3>2
    <2>6. InvRequest'
      BY <1>1, <1>2, <1>5, <2>1, <2>2, <2>3 DEF InvRequest, InHand, Parsed
    <2>7. InvAnswers' /\ InvPlace'
      BY <1>1, <1>2, <2>1, <2>2, <2>3 DEF InvAnswers, InvPlace
    <2> QED
      BY <1>4, <2>4, <2>5, <2>6, <2>7 DEF IInv
  <1>6. CASE n < Size(k)
    <2>1. parser' \in {NewParser, Parsed("body", k)} /\ parser'.state \in {"head", "body"}
      BY <1>1, <1>2, <1>3, <1>6, FeedResult, ParserTypes
    <2>2. /\ at' = more /\ state' = "receiving" /\ armed' \in {armed, "read"}
          /\ UNCHANGED <<handled, client_wants_close>>
      BY <2>1 DEF Fed
    <2>3. TypeOK'
      BY <1>1, <1>2, <1>3, <2>1, <2>2, ParserTypes DEF TypeOK, NetTyped, ParserType
    <2>4. InvRequest'
      BY <1>1, <1>2, <1>6, <2>1, <2>2 DEF InvRequest, Awaited, Parsed
    <2>5. InvAnswers'
      <3>1. parser'.state # "complete" /\ at' # "finish"
        BY <2>1, <2>2
      <3>2. answered' = Len(handled') /\ Len(handled') \in Nat
        BY <1>1, <1>2, <2>2
      <3> QED
        BY <3>1, <3>2 DEF InvAnswers
    <2>6. InvPlace' /\ InvHandled'
      BY <1>2, <2>2 DEF IInv, InvPlace, InvHandled
    <2> QED
      BY <1>4, <2>3, <2>4, <2>5, <2>6 DEF IInv
  <1> QED
    BY <1>1, <1>3, <1>5, <1>6, RequestLengths

\* A closed connection keeps what it has done, and no streamed body.
LEMMA CloseStep ==
    ASSUME IInv, Close, UNCHANGED netVars
    PROVE  IInv'
  <1>1. /\ state' = "closed" /\ at' = "loop" /\ armed' = "none" /\ posted' = "none"
        /\ UNCHANGED <<base, recv_used, parser, send_left, client_wants_close, chunks, handled,
                       answered, offered, started, layered, kernel, layer, sent, eof>>
        /\ stream_active' = FALSE
        /\ finalized' = IF stream_active THEN finalized + 1 ELSE finalized
    BY DEF Close, StreamFinalize, recvVars, netVars
  <1>2. TypeOK'
    <2>1. finalized' \in Nat
      BY <1>1 DEF IInv, TypeOK
    <2> QED
      BY <1>1, <2>1 DEF IInv, TypeOK, Answer
  <1>3. InvFinalized'
    BY <1>1 DEF IInv, TypeOK, InvFinalized
  <1>4. InvStream' /\ InvPlace' /\ InvRequest' /\ InvHandled' /\ InvAnswers'
    BY <1>1 DEF IInv, InvStream, InvPlace, InvRequest, InvHandled, InvAnswers
  <1> QED
    BY <1>2, <1>3, <1>4 DEF IInv

\* A response starts to leave, or closes the connection, when no other is leaving:
\* for the request in hand, or instead of the one that is awaited.
LEMMA SerializeAndSendStep ==
    ASSUME IInv, NEW streamed \in BOOLEAN, SerializeAndSend(streamed), UNCHANGED netVars,
           state \in {"receiving", "pending"},
           client_wants_close' \in BOOLEAN, offered' \in Nat,
           parser.state = "complete" \/ client_wants_close'
    PROVE  IInv'
  <1>1. /\ at' = "loop" /\ posted' = "none" /\ armed' \in {"none", "write"}
        /\ UNCHANGED <<base, recv_used, parser, handled, answered, layered, kernel, layer, sent, eof>>
    BY DEF SerializeAndSend, recvVars, netVars
  <1>2. started' = IF streamed THEN started + 1 ELSE started
    BY DEF SerializeAndSend
  <1>3. at \notin {"send", "finish"} /\ send_left = 0 /\ ~stream_active /\ TypeOK
    BY DEF IInv, InvPlace
  <1>4. \/ /\ state' = "sending" /\ send_left' \in 1..MaxResponse /\ stream_active' = streamed
           /\ chunks' \in 0..MaxChunks /\ UNCHANGED finalized
        \/ /\ state' = "closed" /\ stream_active' = FALSE /\ UNCHANGED <<send_left, chunks>>
           /\ finalized' = IF streamed THEN finalized + 1 ELSE finalized
    BY PipelineAssumption DEF SerializeAndSend
  <1>5. TypeOK'
    <2>1. send_left' \in 0..MaxResponse /\ chunks' \in 0..MaxChunks
      BY <1>3, <1>4, PipelineAssumption, SMTT(40) DEF TypeOK
    <2>2. started' \in Nat /\ finalized' \in Nat
      BY <1>2, <1>3, <1>4 DEF TypeOK
    <2> QED
      BY <1>1, <1>3, <1>4, <2>1, <2>2 DEF TypeOK, Answer
  <1>6. InvFinalized'
    BY <1>2, <1>3, <1>4 DEF IInv, TypeOK, InvFinalized
  <1>7. InvRequest'
    BY <1>1, <1>4 DEF IInv, InvRequest, InHand, Awaited
  <1>8. InvStream' /\ InvPlace' /\ InvHandled' /\ InvAnswers'
    BY <1>1, <1>3, <1>4 DEF IInv, InvStream, InvPlace, InvHandled, InvAnswers
  <1> QED
    BY <1>5, <1>6, <1>7, <1>8 DEF IInv

-------------------------------------------------------------------------------
(* Receiving.                                                                *)

\* While the slot waits for a request, none is in hand.
LEMMA WaitingIsAwaited ==
    ASSUME IInv, state = "receiving", at # "handler"
    PROVE  /\ Awaited /\ parser.state # "complete" /\ answered = Len(handled)
           /\ send_left = 0 /\ ~stream_active /\ Len(handled) \in Nat
           /\ parser = NewParser \/ parser = Parsed("body", Len(handled) + 1)
  <1>1. Awaited /\ parser.state # "complete"
    BY DEF IInv, InvRequest, InHand
  <1>2. at # "finish" /\ send_left = 0 /\ ~stream_active
    BY DEF IInv, InvPlace
  <1>3. Len(handled) \in Nat
    BY LenProperties DEF IInv, TypeOK
  <1>4. answered = Len(handled)
    BY <1>1, <1>2, <1>3 DEF IInv, InvAnswers
  <1> QED
    BY <1>1, <1>2, <1>3, <1>4 DEF Awaited, Parsed

\* Bytes beyond the requests handed over belong to a further request.
LEMMA MoreToCome ==
    ASSUME IInv, NEW b, NEW n \in Nat \ {0}, b + n <= Total,
           Len(handled) \in 0..Len(Client), b = Start[Len(handled) + 1]
    PROVE  Len(handled) < Len(Client)
  <1>1. Start[Len(Client) + 1] = Total /\ Total \in Nat
    BY StreamBounds DEF Total
  <1> QED
    BY <1>1, RequestLengths

\* What a read takes was in the kernel or in the TLS layer.
LEMMA ReadsStep ==
    ASSUME IInv, NEW got \in Nat, Reads(got)
    PROVE  /\ NetTyped' /\ sent' = sent
           /\ (kernel' + layer') + got = kernel + layer
  <1>1. /\ kernel \in Nat /\ layer \in Nat /\ Total \in Nat
        /\ kernel <= Total /\ layer <= Total /\ sent \in 0..Total
        /\ layered \in BOOLEAN /\ eof \in BOOLEAN
    BY StreamBounds DEF IInv, TypeOK
  <1>2. UNCHANGED <<layered, sent, eof>>
    BY DEF Reads
  <1>3. /\ kernel' \in 0..Total /\ layer' \in 0..Total
        /\ (kernel' + layer') + got = kernel + layer
    <2>1. CASE layered
      BY <1>1, <2>1 DEF Reads
    <2>2. CASE ~layered
      BY <1>1, <2>2 DEF Reads
    <2> QED
      BY <1>1, <2>1, <2>2
  <1> QED
    BY <1>1, <1>2, <1>3 DEF NetTyped

\* The counts of bytes are numbers, and together they are what was sent.
LEMMA Numbers ==
    ASSUME IInv
    PROVE  /\ base \in Nat /\ recv_used \in Nat /\ kernel \in Nat /\ layer \in Nat /\ sent \in Nat
           /\ Total \in Nat /\ RecvSize \in Nat \ {0} /\ recv_used <= RecvSize
           /\ (base + recv_used) + (kernel + layer) = sent /\ sent <= Total
           /\ Len(handled) \in Nat /\ Len(Client) \in Nat
  BY StreamBounds, PipelineAssumption, RequestLengths, LenProperties DEF IInv, TypeOK, InvStream

\* Sums of natural numbers are natural numbers.
LEMMA NumbersAdd == \A a, b \in Nat : a + b \in Nat
  OBVIOUS

\* It does not matter which two of three numbers are added first.
LEMMA SumsAssociate == \A a, b, c \in Int : a + (b + c) = (a + b) + c
  OBVIOUS

\* What is read moves from the network to the buffer.
LEMMA BytesMove ==
    ASSUME NEW there \in Nat, NEW coming \in Nat, NEW left \in Nat, NEW got \in Nat,
           left + got = coming
    PROVE  (there + got) + left = there + coming /\ there + got <= there + coming
  OBVIOUS

\* slot_receive keeps the invariant of the slot.
LEMMA ReceiveStep ==
    ASSUME IInv, Receive
    PROVE  IInv'
  <1>1. at = "receive" /\ state = "receiving"
    BY DEF Receive, IInv, InvPlace
  <1>2. /\ Awaited /\ answered = Len(handled) /\ send_left = 0 /\ ~stream_active
        /\ parser = NewParser \/ parser = Parsed("body", Len(handled) + 1)
    BY <1>1, WaitingIsAwaited
  <1>3. CASE /\ recv_used = RecvSize /\ client_wants_close' = TRUE /\ SerializeAndSend(FALSE)
             /\ UNCHANGED <<netVars, offered>>
    <2>1. offered' \in Nat
      BY <1>3 DEF IInv, TypeOK
    <2> QED
      BY <1>1, <1>3, <2>1, SerializeAndSendStep
  <1>4. ASSUME NEW got \in Nat \ {0}, recv_used + got <= RecvSize, Reads(got),
               Fed(parser, base, recv_used + got, "receive")
        PROVE  IInv'
    <2> DEFINE n == recv_used + got
    <2>1. got \in Nat /\ n \in 1..RecvSize /\ n \in Nat \ {0}
      BY <1>4, Numbers
    <2>2. /\ NetTyped' /\ sent' = sent /\ (kernel' + layer') + got = kernel + layer
          /\ kernel' \in Nat /\ layer' \in Nat
      BY <1>4, <2>1, ReadsStep, StreamBounds DEF NetTyped
    <2>3. base + n <= Total /\ (base + n) + (kernel' + layer') = sent
      <3>1. /\ base + recv_used \in Nat /\ kernel + layer \in Nat /\ kernel' + layer' \in Nat
            /\ base + n = (base + recv_used) + got
        <4>1. /\ base \in Nat /\ recv_used \in Nat /\ kernel \in Nat /\ layer \in Nat
              /\ kernel' \in Nat /\ layer' \in Nat /\ got \in Nat
          BY <2>1, <2>2, Numbers
        <4>2. base + (recv_used + got) = (base + recv_used) + got
          BY <4>1, SumsAssociate
        <4>3. base + recv_used \in Nat /\ kernel + layer \in Nat
          BY <4>1
        <4>4. kernel' + layer' \in Nat
          BY <4>1, NumbersAdd
        <4> QED
          BY <4>2, <4>3, <4>4
      <3>2. /\ ((base + recv_used) + got) + (kernel' + layer')
                  = (base + recv_used) + (kernel + layer)
            /\ (base + recv_used) + got <= (base + recv_used) + (kernel + layer)
        BY <2>1, <2>2, <3>1, BytesMove
      <3>3. /\ (base + recv_used) + (kernel + layer) = sent /\ sent <= Total
            /\ sent \in Nat /\ Total \in Nat /\ (base + recv_used) + got \in Nat
        BY <2>1, Numbers
      <3> HIDE DEF n
      <3> QED
        BY <3>1, <3>2, <3>3
    <2>4. Len(handled) < Len(Client) /\ base = Start[Len(handled) + 1]
      BY <1>2, <2>1, <2>3, MoreToCome DEF Awaited
    <2>5. InvStream'
      <3>1. base' = base /\ recv_used' = n
        BY <1>4 DEF Fed
      <3> QED
        BY <2>2, <2>3, <3>1, Numbers DEF InvStream
    <2>6. Fed(parser, Start[Len(handled) + 1], n, "receive")
      BY <1>4, <2>4
    <2> HIDE DEF n
    <2> QED
      BY <1>2, <2>1, <2>2, <2>4, <2>5, <2>6, FedStep
  <1>5. CASE recv_used < RecvSize /\ Nothing /\ eof /\ Close /\ UNCHANGED netVars
    BY <1>5, CloseStep
  <1>6. CASE /\ at' = "loop" /\ armed' = "read"
             /\ UNCHANGED <<state, recvVars, send_left, client_wants_close, streamVars, posted,
                            historyVars>>
             /\ UNCHANGED netVars
    <2> USE <1>6 DEF IInv, recvVars, streamVars, historyVars, netVars
    <2>1. TypeOK' /\ InvStream' /\ InvPlace'
      BY DEF TypeOK, InvStream, InvPlace
    <2>2. InvRequest' /\ InvHandled' /\ InvFinalized'
      BY <1>1 DEF InvRequest, InHand, Awaited, InvHandled, InvFinalized
    <2>3. InvAnswers'
      BY <1>1 DEF InvAnswers
    <2> QED
      BY <2>1, <2>2, <2>3
  <1>7. \A got \in 1..(RecvSize - recv_used) : got \in Nat \ {0} /\ recv_used + got <= RecvSize
    BY Numbers
  <1> QED
    BY <1>3, <1>4, <1>5, <1>6, <1>7 DEF Receive

\* slot_finish_send: what follows the request answered is the start of the next.
LEMMA FinishSendStep ==
    ASSUME IInv, FinishSend
    PROVE  IInv'
  <1>1. at = "finish" /\ state = "sending" /\ send_left = 0 /\ ~stream_active
    BY DEF FinishSend, IInv, InvPlace
  <1>2. CASE client_wants_close
    BY <1>2, CloseStep DEF FinishSend
  <1>3. CASE ~client_wants_close
    <2> DEFINE h == Len(handled)
    <2>1. parser.state = "complete" /\ InHand
      BY <1>1, <1>3 DEF IInv, InvRequest, Awaited
    <2>2. h \in 1..Len(Client) /\ h \in Nat /\ base = Start[h] /\ Size(h) <= recv_used
          /\ Size(h) \in Nat \ {0} /\ Start[h + 1] = Start[h] + Size(h)
      BY <2>1, Numbers, StartValues, RequestLengths DEF InHand
    <2>3. Consumed = Size(h)
      <3>1. parser.headers_end + parser.content_length = Size(h)
        BY <2>1 DEF InHand, Size
      <3>2. Min({Size(h), recv_used}) = Size(h)
        BY <2>2, Numbers DEF Min
      <3> QED
        BY <2>1, <3>1, <3>2 DEF Consumed
    <2>4. base + Consumed = Start[h + 1] /\ base + Consumed \in 0..Total
      BY <2>2, <2>3, Numbers, SMTT(40)
    <2>5. answered = h
      BY <1>1, <2>1, <2>2 DEF IInv, InvAnswers
    <2>6. NetTyped' /\ UNCHANGED netVars
      BY DEF FinishSend, NetTyped, netVars, IInv, TypeOK
    <2>7. CASE recv_used > Consumed
      <3> DEFINE n == recv_used - Consumed
      <3>1. Fed(NewParser, base + Consumed, n, "loop")
        BY <1>3, <2>7 DEF FinishSend
      <3>2. n \in 1..RecvSize /\ n \in Nat \ {0}
        <4>1. recv_used \in Nat /\ RecvSize \in Nat /\ recv_used <= RecvSize
          BY Numbers
        <4>2. Consumed \in Nat
          BY <2>2, <2>3
        <4> QED
          BY <2>7, <4>1, <4>2
      <3>3. base + Consumed + n <= Total
        BY <2>2, <2>3, Numbers, SMTT(40)
      <3>4. h < Len(Client)
        BY <2>2, <2>4, <3>2, <3>3, MoreToCome
      <3>5. InvStream'
        <4>1. base' = base + Consumed /\ recv_used' = n
          BY <3>1 DEF Fed
        <4>2. (base + Consumed) + n = base + recv_used
          BY <2>2, <2>3, Numbers
        <4> QED
          BY <2>6, <4>1, <4>2, Numbers DEF InvStream, netVars
      <3>6. Fed(NewParser, Start[h + 1], n, "loop")
        BY <2>4, <3>1
      <3> HIDE DEF n
      <3> QED
        BY <1>1, <2>5, <2>6, <3>2, <3>4, <3>5, <3>6, FedStep
    <2>8. CASE ~(recv_used > Consumed)
      <3>1. /\ base' = base + Consumed /\ recv_used' = 0 /\ parser' = NewParser
            /\ state' = "receiving" /\ at' = "loop" /\ armed' = "read"
            /\ UNCHANGED <<send_left, client_wants_close, stream_active, chunks, posted, handled,
                           answered, offered, started, finalized>>
        BY <1>3, <2>8 DEF FinishSend, streamVars, historyVars
      <3>2. recv_used = Consumed
        BY <2>2, <2>3, <2>8, Numbers
      <3>3. TypeOK'
        <4>1. parser' \in ParserType /\ base' \in 0..Total /\ recv_used' \in 0..RecvSize
          BY <2>4, <3>1, ParserTypes, Numbers
        <4> QED
          BY <2>6, <3>1, <4>1 DEF IInv, TypeOK, NetTyped, ParserType
      <3>4. InvStream'
        BY <2>2, <2>3, <2>6, <3>1, <3>2, Numbers DEF InvStream, netVars
      <3>5. InvPlace' /\ InvHandled' /\ InvFinalized'
        BY <1>1, <3>1 DEF IInv, InvPlace, InvHandled, InvFinalized
      <3>6. InvRequest'
        <4>1. h < Len(Client) => Size(h + 1) > 0
          BY <2>2, RequestLengths
        <4>2. Awaited'
          BY <2>2, <2>4, <3>1, <4>1 DEF Awaited
        <4> QED
          BY <3>1, <4>2, ParserTypes DEF InvRequest
      <3>7. InvAnswers'
        BY <2>2, <2>5, <3>1, ParserTypes DEF InvAnswers
      <3> QED
        BY <3>3, <3>4, <3>5, <3>6, <3>7 DEF IInv
    <2> QED
      BY <2>7, <2>8
  <1> QED
    BY <1>2, <1>3

\* slot_probe_pending: bytes that arrive while the exchange is parked are kept.
LEMMA ProbePendingStep ==
    ASSUME IInv, ProbePending
    PROVE  IInv'
  <1>1. /\ state = "pending" /\ at = "loop" /\ parser.state = "complete" /\ InHand
    BY DEF ProbePending, IInv, InvRequest, Awaited
  <1>2. ASSUME NEW got \in 1..(RecvSize - recv_used), Reads(got), recv_used' = recv_used + got,
               UNCHANGED <<state, at, base, parser, armed, send_left, client_wants_close,
                           streamVars, posted, historyVars>>
        PROVE  IInv'
    <2>1. got \in Nat /\ recv_used + got \in 0..RecvSize /\ recv_used <= recv_used + got
      BY Numbers
    <2>2. NetTyped' /\ sent' = sent /\ (kernel' + layer') + got = kernel + layer
      BY <1>2, <2>1, ReadsStep
    <2>3. InvStream'
      <3>1. kernel' \in Nat /\ layer' \in Nat
        BY <2>2, StreamBounds DEF NetTyped
      <3>2. kernel' + layer' \in Nat
        BY <3>1, NumbersAdd
      <3>3. base + recv_used \in Nat /\ kernel + layer \in Nat
        BY Numbers
      <3>4. ((base + recv_used) + got) + (kernel' + layer') = sent
        BY <2>1, <2>2, <3>2, <3>3, BytesMove, Numbers
      <3>5. base' + recv_used' = (base + recv_used) + got
        BY <1>2, <2>1, SumsAssociate, Numbers
      <3> QED
        BY <2>2, <3>4, <3>5, Numbers DEF InvStream
    <2> USE <1>2 DEF IInv, streamVars, historyVars
    <2>4. TypeOK'
      BY <2>1, <2>2 DEF TypeOK, NetTyped
    <2>5. InHand'
      <3>1. Size(Len(handled)) <= recv_used'
        BY <1>1, <2>1, RequestLengths, Numbers DEF InHand
      <3> QED
        BY <1>1, <3>1 DEF InHand
    <2>6. InvRequest'
      BY <1>1, <2>5 DEF InvRequest
    <2>7. InvPlace' /\ InvHandled' /\ InvAnswers' /\ InvFinalized'
      BY DEF InvPlace, InvHandled, InvAnswers, InvFinalized
    <2> QED
      BY <2>3, <2>4, <2>6, <2>7
  <1>3. CASE Nothing /\ Close /\ UNCHANGED netVars
    BY <1>3, CloseStep
  <1> QED
    BY <1>2, <1>3 DEF ProbePending

-------------------------------------------------------------------------------
(* Sending, and steps that only move the loop thread or the network.         *)

\* The next chunk of a streamed body, or the end of the response, keeps the invariant.
LEMMA DrainedStep ==
    ASSUME IInv, Drained
    PROVE  IInv'
  <1>1. /\ at = "send" /\ send_left = 0 /\ state = "sending"
        /\ UNCHANGED <<state, layered, kernel, layer, sent, eof, base, recv_used, parser, armed,
                       client_wants_close, posted, handled, offered, started>>
    BY DEF Drained, IInv, InvPlace, netVars, recvVars
  <1>2. InvStream' /\ InvHandled'
    BY <1>1 DEF IInv, InvStream, InvHandled
  <1>3. InvRequest'
    BY <1>1 DEF IInv, InvRequest, InHand, Awaited
  <1>4. CASE stream_active /\ chunks > 0
    <2>1. /\ send_left' \in 1..MaxResponse /\ chunks' = chunks - 1
          /\ UNCHANGED <<at, stream_active, finalized, answered>>
      BY <1>4 DEF Drained
    <2>2. send_left' \in 0..MaxResponse /\ chunks' \in 0..MaxChunks
      BY <1>4, <2>1, PipelineAssumption DEF IInv, TypeOK
    <2>3. TypeOK'
      BY <1>1, <2>1, <2>2 DEF IInv, TypeOK
    <2>4. InvPlace' /\ InvAnswers' /\ InvFinalized'
      BY <1>1, <2>1 DEF IInv, InvPlace, InvAnswers, InvFinalized
    <2> QED
      BY <1>2, <1>3, <2>3, <2>4 DEF IInv
  <1>5. CASE ~(stream_active /\ chunks > 0)
    <2>1. /\ at' = "finish" /\ answered' = answered + 1 /\ UNCHANGED <<send_left, chunks>>
          /\ stream_active' = FALSE
          /\ finalized' = IF stream_active THEN finalized + 1 ELSE finalized
      BY <1>5 DEF Drained, StreamFinalize
    <2>2. answered' \in Nat /\ finalized' \in Nat
      BY <2>1 DEF IInv, TypeOK
    <2>3. TypeOK'
      BY <1>1, <2>1, <2>2 DEF IInv, TypeOK
    <2>4. InvPlace'
      BY <1>1, <2>1 DEF IInv, InvPlace
    <2>5. InvAnswers'
      BY <1>1, <2>1, Numbers, SMTT(40) DEF IInv, InvAnswers
    <2>6. InvFinalized'
      BY <1>1, <2>1 DEF IInv, TypeOK, InvFinalized
    <2> QED
      BY <1>2, <1>3, <2>3, <2>4, <2>5, <2>6 DEF IInv
  <1> QED
    BY <1>4, <1>5

\* Writing some of a response, or being blocked, keeps the invariant of the slot.
LEMMA WriteStep ==
    ASSUME IInv, WriteSome \/ WriteBlocked
    PROVE  IInv'
  <1>1. /\ at = "send" /\ at' \in {"send", "loop"} /\ state = "sending"
        /\ UNCHANGED <<state, layered, kernel, layer, sent, eof, base, recv_used, parser, armed,
                       client_wants_close, stream_active, chunks, posted, handled, answered,
                       offered, started, finalized>>
    BY DEF WriteSome, WriteBlocked, IInv, InvPlace, netVars, recvVars, streamVars, historyVars
  <1>2. send_left' \in 0..MaxResponse
    <2>1. send_left \in 0..MaxResponse /\ MaxResponse \in Nat
      BY PipelineAssumption DEF IInv, TypeOK
    <2>2. CASE WriteSome
      BY <2>1, <2>2 DEF WriteSome
    <2>3. CASE WriteBlocked
      BY <2>1, <2>3 DEF WriteBlocked
    <2> QED
      BY <2>2, <2>3
  <1>3. TypeOK'
    BY <1>1, <1>2 DEF IInv, TypeOK
  <1>4. InvStream' /\ InvPlace' /\ InvHandled' /\ InvFinalized'
    BY <1>1 DEF IInv, InvStream, InvPlace, InvHandled, InvFinalized
  <1>5. InvRequest' /\ InvAnswers'
    BY <1>1 DEF IInv, InvRequest, InHand, Awaited, InvAnswers
  <1> QED
    BY <1>3, <1>4, <1>5 DEF IInv

\* The loop thread turns to the slot.
LEMMA EventStep ==
    ASSUME IInv, OnReadable \/ OnWritable
    PROVE  IInv'
  <1>1. /\ \/ state = "receiving" /\ at' = "receive"
           \/ state = "sending" /\ at' = "send"
        /\ at = "loop"
        /\ UNCHANGED <<state, layered, kernel, layer, sent, eof, base, recv_used, parser, armed,
                       send_left, client_wants_close, stream_active, chunks, posted, handled,
                       answered, offered, started, finalized>>
    BY DEF OnReadable, OnWritable, netVars, recvVars, streamVars, historyVars
  <1>2. TypeOK' /\ InvStream' /\ InvPlace' /\ InvHandled' /\ InvFinalized'
    BY <1>1 DEF IInv, TypeOK, InvStream, InvPlace, InvHandled, InvFinalized
  <1>3. InvRequest' /\ InvAnswers'
    BY <1>1 DEF IInv, InvRequest, InHand, Awaited, InvAnswers
  <1> QED
    BY <1>2, <1>3 DEF IInv

\* While a handler has the request, or a worker owes its answer, it is in hand.
LEMMA HandlerDefersStep ==
    ASSUME IInv, HandlerDefers
    PROVE  IInv'
  <1>1. /\ at = "handler" /\ state = "receiving" /\ state' = "pending" /\ at' = "loop"
        /\ armed' = "read" /\ posted' = "none"
        /\ UNCHANGED <<layered, kernel, layer, sent, eof, base, recv_used, parser, send_left,
                       client_wants_close, stream_active, chunks, handled, answered, offered,
                       started, finalized>>
    BY DEF HandlerDefers, IInv, InvPlace, netVars, recvVars, streamVars, historyVars
  <1>2. parser.state = "complete"
    BY <1>1 DEF IInv, InvRequest, Awaited
  <1>3. TypeOK'
    BY <1>1 DEF IInv, TypeOK, Answer
  <1>4. InvStream' /\ InvPlace' /\ InvHandled' /\ InvFinalized'
    BY <1>1 DEF IInv, InvStream, InvPlace, InvHandled, InvFinalized
  <1>5. InvRequest' /\ InvAnswers'
    BY <1>1, <1>2 DEF IInv, InvRequest, InHand, InvAnswers
  <1> QED
    BY <1>3, <1>4, <1>5 DEF IInv

\* The answer of a worker keeps the invariant of the slot.
LEMMA PostStep ==
    ASSUME IInv, NEW answer \in Answer \ {"none"}, Post(answer)
    PROVE  IInv'
  <1>1. /\ posted' = answer /\ offered' \in Nat
        /\ UNCHANGED <<state, at, layered, kernel, layer, sent, eof, base, recv_used, parser, armed,
                       send_left, client_wants_close, stream_active, chunks, handled, answered,
                       started, finalized>>
    BY DEF Post, IInv, TypeOK, netVars, recvVars, streamVars
  <1>2. TypeOK' /\ InvStream' /\ InvPlace' /\ InvHandled' /\ InvFinalized'
    BY <1>1 DEF IInv, TypeOK, InvStream, InvPlace, InvHandled, InvFinalized
  <1>3. InvRequest' /\ InvAnswers'
    BY <1>1 DEF IInv, InvRequest, InHand, Awaited, InvAnswers
  <1> QED
    BY <1>2, <1>3 DEF IInv

\* What the client sends is in the kernel first.
LEMMA BytesArrive ==
    ASSUME NEW there \in Nat, NEW k \in Nat, NEW l \in Nat, NEW n \in Nat,
           NEW all, there + (k + l) = all
    PROVE  /\ there + ((k + n) + l) = all + n
           /\ k + n <= all + n /\ k + n \in Nat /\ all + n \in Nat
  OBVIOUS

\* A number that is no more than another is in the range up to it.
LEMMA InRange ==
    \A a, b, t \in Nat : b <= a /\ a <= t => a \in 0..t /\ b \in 0..t
  OBVIOUS

\* What the client sends, or its end, keeps the invariant of the slot.
LEMMA ClientStep ==
    ASSUME IInv, ClientFinishes \/ \E n \in 1..Total : ClientSends(n)
    PROVE  IInv'
  <1>1. UNCHANGED <<state, at, layered, layer, base, recv_used, parser, armed, send_left,
                    client_wants_close, stream_active, chunks, posted, handled, answered, offered,
                    started, finalized>>
    BY DEF ClientFinishes, ClientSends, recvVars, streamVars, historyVars
  <1>2. NetTyped' /\ InvStream'
    <2>1. CASE ClientFinishes
      BY <2>1 DEF ClientFinishes, recvVars, IInv, TypeOK, NetTyped, InvStream
    <2>2. ASSUME NEW n \in 1..Total, ClientSends(n) PROVE NetTyped' /\ InvStream'
      <3>1. /\ sent' = sent + n /\ kernel' = kernel + n /\ sent + n <= Total
            /\ UNCHANGED <<layered, layer, eof, base, recv_used>>
        BY <2>2 DEF ClientSends, recvVars
      <3>2. n \in Nat
        BY StreamBounds
      <3>3. /\ (base + recv_used) + ((kernel + n) + layer) = sent + n
            /\ kernel + n <= sent + n /\ kernel + n \in Nat /\ sent + n \in Nat
        <4>1. base + recv_used \in Nat /\ kernel \in Nat /\ layer \in Nat
              /\ (base + recv_used) + (kernel + layer) = sent
          BY Numbers
        <4> QED
          BY <3>2, <4>1, BytesArrive
      <3>4. sent + n \in 0..Total /\ kernel + n \in 0..Total
        BY <3>1, <3>3, Numbers, InRange
      <3> QED
        BY <3>1, <3>3, <3>4 DEF IInv, TypeOK, NetTyped, InvStream
    <2> QED
      BY <2>1, <2>2
  <1>3. TypeOK'
    BY <1>1, <1>2 DEF IInv, TypeOK, NetTyped
  <1>4. InvPlace' /\ InvHandled' /\ InvFinalized'
    BY <1>1 DEF IInv, InvPlace, InvHandled, InvFinalized
  <1>5. InvRequest' /\ InvAnswers'
    BY <1>1 DEF IInv, InvRequest, InHand, Awaited, InvAnswers
  <1> QED
    BY <1>2, <1>3, <1>4, <1>5 DEF IInv

\* The answers of handlers, of workers and of the deadline.
LEMMA AnswerStep ==
    ASSUME IInv,
           \/ \E streamed \in BOOLEAN : HandlerResponds(streamed)
           \/ Flush
           \/ Deadline
    PROVE  IInv'
  <1>1. at = "handler" => state = "receiving" /\ parser.state = "complete"
    BY DEF IInv, InvPlace, InvRequest, Awaited
  <1>2. state = "pending" => parser.state = "complete"
    BY DEF IInv, InvRequest, Awaited
  <1>3. offered \in Nat /\ client_wants_close \in BOOLEAN
    BY DEF IInv, TypeOK
  <1>4. ASSUME NEW streamed \in BOOLEAN, HandlerResponds(streamed) PROVE IInv'
    <2>1. client_wants_close' \in BOOLEAN /\ offered' \in Nat
      BY <1>3, <1>4 DEF HandlerResponds
    <2> QED
      BY <1>1, <1>4, <2>1, SerializeAndSendStep DEF HandlerResponds
  <1>5. CASE Flush
    <2>1. (posted = "streamed") \in BOOLEAN /\ client_wants_close' \in BOOLEAN /\ offered' \in Nat
      BY <1>3, <1>5 DEF Flush
    <2> QED
      BY <1>2, <1>5, <2>1, SerializeAndSendStep DEF Flush
  <1>6. CASE Deadline
    BY <1>2, <1>3, <1>6, SerializeAndSendStep DEF Deadline
  <1> QED
    BY <1>4, <1>5, <1>6

-------------------------------------------------------------------------------
(* The invariant.                                                            *)

\* The invariant of the slot holds at first.
LEMMA InitInvariant == Init => IInv
  <1> SUFFICES ASSUME Init PROVE IInv
    OBVIOUS
  <1>1. /\ handled = <<>> /\ Len(handled) = 0 /\ handled \in Seq(0..Total)
        /\ DOMAIN handled = {}
    BY EmptySeq DEF Init
  <1>2. 0 \in 0..Total /\ 0 \in 0..RecvSize /\ 0 \in 0..MaxResponse /\ 0 \in 0..MaxChunks
    BY StreamBounds, PipelineAssumption
  <1>3. TypeOK
    BY <1>1, <1>2, ParserTypes, PipelineAssumption DEF Init, TypeOK, ParserType, Answer
  <1>4. InvStream /\ InvPlace /\ InvHandled /\ InvFinalized
    BY <1>1, <1>2 DEF Init, InvStream, InvPlace, InvHandled, InvFinalized
  <1>5. InvRequest
    <2>1. 0 < Len(Client) => 0 < Size(0 + 1)
      BY RequestLengths
    <2>2. Start[0 + 1] = 0 /\ 0 \in 0..Len(Client)
      BY StartValues, RequestLengths
    <2>3. Awaited
      BY <1>1, <2>1, <2>2 DEF Init, Awaited
    <2> QED
      BY <2>3, ParserTypes DEF Init, InvRequest
  <1>6. InvAnswers
    BY <1>1, ParserTypes DEF Init, InvAnswers
  <1> QED
    BY <1>3, <1>4, <1>5, <1>6 DEF IInv

\* A step that changes nothing keeps the invariant of the slot.
LEMMA StutteringStep ==
    ASSUME IInv, UNCHANGED vars
    PROVE  IInv'
  <1>1. UNCHANGED <<state, at, layered, kernel, layer, sent, eof, base, recv_used, parser, armed,
                    send_left, client_wants_close, stream_active, chunks, posted, handled,
                    answered, offered, started, finalized>>
    BY DEF vars, netVars, recvVars, streamVars, historyVars
  <1>2. TypeOK' /\ InvStream' /\ InvPlace' /\ InvHandled' /\ InvFinalized'
    BY <1>1 DEF IInv, TypeOK, InvStream, InvPlace, InvHandled, InvFinalized
  <1>3. InvRequest' /\ InvAnswers'
    BY <1>1 DEF IInv, InvRequest, InHand, Awaited, InvAnswers
  <1> QED
    BY <1>2, <1>3 DEF IInv

\* Every step keeps the invariant of the slot.
LEMMA NextInvariant == IInv /\ [Next]_vars => IInv'
  <1> SUFFICES ASSUME IInv, [Next]_vars PROVE IInv'
    OBVIOUS
  <1>1. CASE Receive
    BY <1>1, ReceiveStep
  <1>2. CASE Drained
    BY <1>2, DrainedStep
  <1>3. CASE FinishSend
    BY <1>3, FinishSendStep
  <1>4. CASE OnReadable \/ OnWritable
    BY <1>4, EventStep
  <1>5. CASE ProbePending
    BY <1>5, ProbePendingStep
  <1>6. CASE Flush \/ Deadline \/ \E streamed \in BOOLEAN : HandlerResponds(streamed)
    BY <1>6, AnswerStep
  <1>7. CASE HandlerCloses \/ WriteFails \/ Lost
    BY <1>7, CloseStep DEF HandlerCloses, WriteFails, Lost
  <1>8. CASE HandlerDefers
    BY <1>8, HandlerDefersStep
  <1>9. CASE WriteSome \/ WriteBlocked
    BY <1>9, WriteStep
  <1>10. CASE ClientFinishes \/ \E n \in 1..Total : ClientSends(n)
    BY <1>10, ClientStep
  <1>11. ASSUME NEW answer \in Answer \ {"none"}, Post(answer) PROVE IInv'
    BY <1>11, PostStep
  <1>12. CASE UNCHANGED vars
    BY <1>12, StutteringStep
  <1> QED
    BY <1>1, <1>2, <1>3, <1>4, <1>5, <1>6, <1>7, <1>8, <1>9, <1>10, <1>11, <1>12
    DEF Next, LoopThread

\* Whatever the client sends, in whatever pieces, and however handlers, workers and
\* deadlines answer: the parts of the slot stay consistent with one another.
THEOREM Invariant == Spec => []IInv
  <1>1. Init => IInv
    BY InitInvariant
  <1>2. IInv /\ [Next]_vars => IInv'
    BY NextInvariant
  <1> QED
    BY <1>1, <1>2, PTL DEF Spec

-------------------------------------------------------------------------------
(* What it shows.                                                            *)

\* Every variable of the slot keeps its range: the receive buffer is never
\* overrun, and no counter of bytes leaves the stream.
THEOREM TypeCorrect == Spec => []TypeOK
  <1>1. IInv => TypeOK
    BY DEF IInv
  <1> QED
    BY <1>1, Invariant, PTL

\* slot_drive_receive, slot_finish_send and http_request_parser_feed hand the
\* client's requests to handlers each once and in order, in whatever pieces they
\* arrive, and never take a request of the client for a malformed one.
THEOREM OrderSafety == Spec => []RequestsInOrder
  <1>1. IInv => RequestsInOrder
    BY DEF IInv, InvRequest, InvHandled, RequestsInOrder
  <1> QED
    BY <1>1, Invariant, PTL

\* No handler is given a request before the response to the previous one is wholly
\* written.
THEOREM AnswerSafety == Spec => []AnswersKeepUp
  <1>1. ASSUME IInv PROVE AnswersKeepUp
    <2>1. CASE at = "handler"
      <3>1. state = "receiving" /\ send_left = 0
        BY <1>1, <2>1 DEF IInv, InvPlace
      <3>2. parser.state = "complete"
        BY <1>1, <2>1, <3>1 DEF IInv, InvRequest, Awaited
      <3> QED
        BY <1>1, <2>1, <3>1, <3>2, Numbers DEF IInv, InvAnswers, AnswersKeepUp
    <2>2. CASE state = "receiving" /\ at # "handler"
      BY <1>1, <2>2, WaitingIsAwaited DEF AnswersKeepUp
    <2> QED
      BY <2>1, <2>2 DEF AnswersKeepUp
  <1> QED
    BY <1>1, Invariant, PTL

\* The finalizer of a streamed body put to sending is called once, by the end of the
\* response or by slot_close.
THEOREM FinalizerSafety == Spec => []StreamsAreFinalized
  <1>1. ASSUME IInv PROVE StreamsAreFinalized
    <2>1. finalized \in Nat /\ started \in Nat
      BY <1>1 DEF IInv, TypeOK
    <2>2. state \in {"receiving", "closed"} => ~stream_active
      BY <1>1 DEF IInv, InvPlace
    <2> QED
      BY <1>1, <2>1, <2>2 DEF IInv, InvFinalized, StreamsAreFinalized
  <1> QED
    BY <1>1, Invariant, PTL

\* slot_drive_receive answers 413 to a request only if it cannot fit the receive
\* buffer, whatever came before it or follows it.
THEOREM RejectionSafety == Spec => []RejectsOnlyOversized
  <1>1. ASSUME IInv PROVE RejectsOnlyOversized
    <2> SUFFICES ASSUME at = "receive", recv_used = RecvSize
                 PROVE  Len(handled) < Len(Client) /\ Size(Len(handled) + 1) > RecvSize
      BY DEF RejectsOnlyOversized
    <2>1. Awaited
      BY <1>1, WaitingIsAwaited DEF IInv, InvPlace
    <2>2. base + recv_used <= Total /\ recv_used \in Nat \ {0}
      BY <1>1, Numbers
    <2>3. Len(handled) < Len(Client)
      BY <1>1, <2>1, <2>2, MoreToCome DEF Awaited
    <2>4. recv_used < Size(Len(handled) + 1)
      BY <2>1, <2>3 DEF Awaited
    <2>5. Size(Len(handled) + 1) \in Nat
      BY <1>1, <2>3, Numbers, RequestLengths
    <2> QED
      BY <1>1, <2>3, <2>4, <2>5, Numbers
  <1> QED
    BY <1>1, Invariant, PTL

================================================================================
