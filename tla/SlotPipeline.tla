------------------------------ MODULE SlotPipeline ------------------------------
(***************************************************************************)
(* One connection of src/src/http_server.c from its handshake to its close:*)
(* bytes arrive in any pieces, the parser of http_request_parser.c frames  *)
(* requests in the receive buffer, responses (buffered, streamed, deferred)*)
(* leave through the send buffer, and bytes that follow a request are kept *)
(* for the next one.                                                       *)
(*                                                                         *)
(* The client's bytes are a stream of whole requests, one after the other; *)
(* the receive buffer always holds a stretch of it, the recv_used bytes    *)
(* from offset base on.  What a byte says is known from its offset, so the *)
(* parser is modelled by where it finds the end of a head and of a body.   *)
(* Declared lengths are small against 2^32.                                *)
(***************************************************************************)
EXTENDS Integers, Sequences, FiniteSetsExt

CONSTANTS
    Client,      \* the requests: a sequence of [head, body] lengths in bytes
    RecvSize,    \* recv_buffer_size
    MaxResponse, \* bound: bytes of a response, and of a streamed chunk
    MaxChunks,   \* bound: chunks of a streamed body
    Sockets      \* of sockets, whether they keep decrypted bytes that epoll does not see

ASSUME PipelineAssumption ==
    /\ Client \in Seq([head : Nat \ {0}, body : Nat]) /\ Sockets \subseteq BOOLEAN
    /\ RecvSize \in Nat \ {0} /\ MaxResponse \in Nat \ {0} /\ MaxChunks \in Nat

Size(k) == Client[k].head + Client[k].body
Start[k \in 1..(Len(Client) + 1)] == IF k = 1 THEN 0 ELSE Start[k - 1] + Size(k - 1)
Total == Start[Len(Client) + 1]

VARIABLES
    layered,      \* the socket of this connection is TLS
    state,        \* slot->state, "closed" once the connection is gone
    at,           \* what the loop thread does with the slot; "loop": nothing
    kernel, layer,\* bytes of the stream in the kernel, and held by the TLS layer
    sent, eof,    \* bytes the client has sent; it has finished sending
    base, recv_used,        \* the receive buffer
    parser,       \* slot->parser: state, headers_end, content_length
    armed,        \* registered_events
    send_left,    \* send_used - send_offset
    client_wants_close,
    stream_active, chunks,  \* a streamed body, and what its provider has left
    posted,       \* the answer posted for the deferred request
    handled,      \* history: stream offsets of the requests handlers were given
    answered,     \* history: responses wholly written
    offered, started, finalized \* history: streamed bodies handed over, put to
                  \* sending; finalizer calls

netVars    == <<layered, kernel, layer, sent, eof>>
recvVars   == <<base, recv_used, parser>>
streamVars == <<stream_active, chunks>>
historyVars == <<handled, answered, offered, started, finalized>>
vars == <<state, at, netVars, recvVars, armed, send_left, client_wants_close, streamVars, posted,
          historyVars>>

NewParser == [state |-> "head", headers_end |-> 0, content_length |-> 0]   \* _init

Answer == {"none", "plain", "streamed", "cancelled"}

TypeOK ==
    /\ layered \in BOOLEAN
    /\ state \in {"receiving", "pending", "sending", "closed"}
    /\ at \in {"loop", "receive", "handler", "send", "finish"}
    /\ kernel \in 0..Total /\ layer \in 0..Total /\ sent \in 0..Total /\ eof \in BOOLEAN
    /\ base \in 0..Total /\ recv_used \in 0..RecvSize
    /\ parser \in [state : {"head", "body", "complete", "error"},
                    headers_end : 0..Total, content_length : 0..Total]
    /\ armed \in {"none", "read", "write"} /\ send_left \in 0..MaxResponse
    /\ client_wants_close \in BOOLEAN /\ stream_active \in BOOLEAN /\ chunks \in 0..MaxChunks
    /\ posted \in Answer
    /\ handled \in Seq(0..Total) /\ answered \in Nat
    /\ offered \in Nat /\ started \in Nat /\ finalized \in Nat

\* The handshake is done: slot_drive_handshake armed the slot for reading.
Init ==
    /\ layered \in Sockets
    /\ state = "receiving" /\ at = "loop" /\ armed = "read"
    /\ kernel = 0 /\ layer = 0 /\ sent = 0 /\ eof = FALSE
    /\ base = 0 /\ recv_used = 0 /\ parser = NewParser
    /\ send_left = 0 /\ client_wants_close = FALSE
    /\ stream_active = FALSE /\ chunks = 0 /\ posted = "none"
    /\ handled = <<>> /\ answered = 0 /\ offered = 0 /\ started = 0 /\ finalized = 0

-------------------------------------------------------------------------------
(* The client. *)

ClientSends(n) ==
    /\ ~eof /\ state # "closed" /\ sent + n <= Total
    /\ sent' = sent + n /\ kernel' = kernel + n
    /\ UNCHANGED <<state, at, layered, layer, eof, recvVars, armed, send_left, client_wants_close,
                   streamVars, posted, historyVars>>

ClientFinishes ==
    /\ ~eof /\ state # "closed" /\ eof' = TRUE
    /\ UNCHANGED <<state, at, layered, kernel, layer, sent, recvVars, armed, send_left,
                   client_wants_close, streamVars, posted, historyVars>>

-------------------------------------------------------------------------------
(* Closing, and the finalizer of a streamed body. *)

StreamFinalize ==
    /\ finalized' = IF stream_active THEN finalized + 1 ELSE finalized
    /\ stream_active' = FALSE

\* slot_close
Close ==
    /\ StreamFinalize
    /\ state' = "closed" /\ at' = "loop" /\ armed' = "none" /\ posted' = "none"
    /\ UNCHANGED <<recvVars, send_left, client_wants_close, chunks, handled, answered, offered,
                   started>>

-------------------------------------------------------------------------------
(* Sending. *)

\* serialize_and_send: a buffer full of response, or too much for it.
SerializeAndSend(streamed) ==
    /\ started' = IF streamed THEN started + 1 ELSE started
    /\ \/ /\ \E n \in 1..MaxResponse : send_left' = n
          /\ stream_active' = streamed
          /\ \E c \in 0..MaxChunks : chunks' = IF streamed THEN c ELSE 0
          /\ state' = "sending" /\ armed' = "write" /\ UNCHANGED finalized
       \/ /\ finalized' = IF streamed THEN finalized + 1 ELSE finalized   \* slot_close
          /\ stream_active' = FALSE
          /\ state' = "closed" /\ armed' = "none" /\ UNCHANGED <<send_left, chunks>>
    /\ at' = "loop" /\ posted' = "none"
    /\ UNCHANGED <<recvVars, handled, answered>>

\* socket_write_nb takes some of the bytes, or none for now; or the peer is gone.
WriteSome ==
    /\ at = "send" /\ send_left > 0
    /\ \E n \in 1..send_left : send_left' = send_left - n
    /\ UNCHANGED <<state, at, netVars, recvVars, armed, client_wants_close, streamVars, posted,
                   historyVars>>

WriteBlocked ==
    /\ at = "send" /\ send_left > 0
    /\ at' = "loop"
    /\ UNCHANGED <<state, netVars, recvVars, armed, send_left, client_wants_close, streamVars,
                   posted, historyVars>>

WriteFails ==
    /\ at = "send" /\ send_left > 0
    /\ Close
    /\ UNCHANGED netVars

\* Mutant: the response is taken for finished when the first buffer is written.
MutantDrainedForgetsStream ==
    /\ at = "send" /\ send_left = 0
    /\ at' = "finish"
    /\ answered' = answered + 1
    /\ UNCHANGED <<state, netVars, recvVars, armed, send_left, client_wants_close, streamVars,
                   posted, handled, offered, started, finalized>>

\* The send buffer is drained: the next chunk of a streamed body, or the end.
Drained ==
    /\ at = "send" /\ send_left = 0
    /\ IF stream_active /\ chunks > 0
       THEN /\ \E n \in 1..MaxResponse : send_left' = n
            /\ chunks' = chunks - 1
            /\ UNCHANGED <<at, stream_active, finalized, answered>>
       ELSE /\ StreamFinalize
            /\ answered' = answered + 1
            /\ at' = "finish" /\ UNCHANGED <<send_left, chunks>>
    /\ UNCHANGED <<state, netVars, recvVars, armed, client_wants_close, posted, handled, offered,
                   started>>

-------------------------------------------------------------------------------
(* Receiving. *)

\* http_request_parser_feed, on a buffer of n bytes from offset b on.  Where a
\* request starts its head and body are found; elsewhere there is none.
NumberAt(b) == {k \in DOMAIN Client : Start[k] = b}

FeedHead(p, b, n) ==
    IF p.headers_end # 0 THEN p
    ELSE IF NumberAt(b) = {} THEN [p EXCEPT !.state = "error"]
    ELSE LET r == Client[CHOOSE k \in NumberAt(b) : TRUE] IN
         IF r.head > n THEN p
         ELSE [state |-> "body", headers_end |-> r.head, content_length |-> r.body]

\* Mutant: the last byte of a body is waited for once more.
MutantFeedOneMore(p, b, n) ==
    LET q == FeedHead(p, b, n) IN
    IF p.state \notin {"complete", "error"} /\ q.state = "body"
       /\ n > q.headers_end + q.content_length
    THEN [q EXCEPT !.state = "complete"]
    ELSE IF p.state \in {"complete", "error"} THEN p ELSE q

\* The whole of http_request_parser_feed.
Feed(p, b, n) ==
    LET q == FeedHead(p, b, n) IN
    IF p.state \notin {"complete", "error"} /\ q.state = "body"
       /\ n >= q.headers_end + q.content_length
    THEN [q EXCEPT !.state = "complete"]
    ELSE IF p.state \in {"complete", "error"} THEN p ELSE q

\* http_request_parser_get_consumed, cut to what the buffer holds.
Consumed ==
    IF parser.state = "complete" THEN Min({parser.headers_end + parser.content_length, recv_used})
                                 ELSE 0

\* The parser was fed n bytes at b: now the handler, more bytes, or the close.
Fed(p, b, n, more) ==
    /\ base' = b /\ recv_used' = n /\ parser' = Feed(p, b, n)
    /\ CASE parser'.state = "complete" ->
              /\ at' = "handler" /\ state' = "receiving" /\ handled' = Append(handled, b)
              /\ \E close \in BOOLEAN : client_wants_close' = close
              /\ UNCHANGED armed
         [] parser'.state = "error" ->
              /\ at' = "loop" /\ state' = "closed" /\ armed' = "none"
              /\ UNCHANGED <<handled, client_wants_close>>
         [] OTHER ->
              /\ at' = more /\ state' = "receiving"
              /\ armed' = (IF more = "loop" THEN "read" ELSE armed)
              /\ UNCHANGED <<handled, client_wants_close>>
    /\ UNCHANGED <<send_left, streamVars, posted, answered, offered, started, finalized>>

\* socket_read_nb returns that many bytes.  A TLS layer takes in all the kernel
\* has and hands out what fits.
Reads(got) ==
    /\ IF layered
       THEN LET have == IF layer > 0 THEN layer ELSE kernel IN
            /\ got <= have
            /\ layer' = have - got
            /\ kernel' = IF layer > 0 THEN kernel ELSE 0
       ELSE got <= kernel /\ kernel' = kernel - got /\ UNCHANGED layer
    /\ UNCHANGED <<layered, sent, eof>>

Nothing == kernel = 0 /\ layer = 0

\* One turn of slot_drive_receive's loop.
Receive ==
    /\ at = "receive"
    /\ \/ /\ recv_used = RecvSize       \* 413
          /\ client_wants_close' = TRUE
          /\ SerializeAndSend(FALSE)
          /\ UNCHANGED <<netVars, offered>>
       \/ \E got \in 1..(RecvSize - recv_used) :
             /\ Reads(got)
             /\ Fed(parser, base, recv_used + got, "receive")
       \/ /\ recv_used < RecvSize /\ Nothing
          /\ IF eof THEN Close
             ELSE /\ at' = "loop" /\ armed' = "read"
                  /\ UNCHANGED <<state, recvVars, send_left, client_wants_close, streamVars,
                                 posted, historyVars>>
          /\ UNCHANGED netVars

\* Mutant: the parser is not initialised for the next request.
MutantFinishSendKeepsParser ==
    /\ at = "finish"
    /\ IF client_wants_close THEN Close
       ELSE IF recv_used > Consumed
       THEN Fed(parser, base + Consumed, recv_used - Consumed, "loop")
       ELSE /\ base' = base + Consumed /\ recv_used' = 0
            /\ state' = "receiving" /\ at' = "loop" /\ armed' = "read"
            /\ UNCHANGED <<parser, send_left, client_wants_close, streamVars, posted, historyVars>>
    /\ UNCHANGED netVars

\* Mutant: bytes of the next request already there are not parsed.
MutantFinishSendWaits ==
    /\ at = "finish"
    /\ IF client_wants_close THEN Close
       ELSE /\ base' = base + Consumed /\ recv_used' = recv_used - Consumed
            /\ parser' = NewParser
            /\ state' = "receiving" /\ at' = "loop" /\ armed' = "read"
            /\ UNCHANGED <<send_left, client_wants_close, streamVars, posted, historyVars>>
    /\ UNCHANGED netVars

\* slot_finish_send: what follows the request moves to the front of the buffer
\* and is parsed at once.
FinishSend ==
    /\ at = "finish"
    /\ IF client_wants_close THEN Close
       ELSE IF recv_used > Consumed
       THEN Fed(NewParser, base + Consumed, recv_used - Consumed, "loop")
       ELSE /\ base' = base + Consumed /\ recv_used' = 0 /\ parser' = NewParser
            /\ state' = "receiving" /\ at' = "loop" /\ armed' = "read"
            /\ UNCHANGED <<send_left, client_wants_close, streamVars, posted, historyVars>>
    /\ UNCHANGED netVars

-------------------------------------------------------------------------------
(* The handler, and deferred answers. *)

HandlerResponds(streamed) ==
    /\ at = "handler"
    /\ SerializeAndSend(streamed)
    /\ offered' = IF streamed THEN offered + 1 ELSE offered
    /\ UNCHANGED <<netVars, client_wants_close>>

HandlerCloses == at = "handler" /\ Close /\ UNCHANGED netVars

HandlerDefers ==
    /\ at = "handler"
    /\ state' = "pending" /\ at' = "loop" /\ armed' = "read" /\ posted' = "none"
    /\ UNCHANGED <<netVars, recvVars, send_left, client_wants_close, streamVars, historyVars>>

\* deferral_post, accepted.
Post(answer) ==
    /\ state = "pending" /\ posted = "none"
    /\ posted' = answer
    /\ offered' = IF answer = "streamed" THEN offered + 1 ELSE offered
    /\ UNCHANGED <<state, at, netVars, recvVars, armed, send_left, client_wants_close, streamVars,
                   handled, answered, started, finalized>>

\* flush_pending_responses and sweep_pending_deadlines
Flush ==
    /\ at = "loop" /\ state = "pending" /\ posted # "none"
    /\ client_wants_close' = (client_wants_close \/ posted = "cancelled")
    /\ SerializeAndSend(posted = "streamed")
    /\ UNCHANGED <<netVars, offered>>

Deadline ==
    /\ at = "loop" /\ state = "pending" /\ posted = "none"
    /\ client_wants_close' = TRUE
    /\ SerializeAndSend(FALSE)
    /\ UNCHANGED <<netVars, offered>>

-------------------------------------------------------------------------------
(* Events of the connection. *)

\* What the event loop sees of the socket.
Readable == kernel > 0 \/ eof

OnReadable ==
    /\ at = "loop" /\ state = "receiving" /\ armed = "read" /\ Readable
    /\ at' = "receive"
    /\ UNCHANGED <<state, netVars, recvVars, armed, send_left, client_wants_close, streamVars,
                   posted, historyVars>>

OnWritable ==
    /\ at = "loop" /\ state = "sending" /\ armed = "write"
    /\ at' = "send"
    /\ UNCHANGED <<state, netVars, recvVars, armed, send_left, client_wants_close, streamVars,
                   posted, historyVars>>

\* Mutant: bytes that come while the exchange is parked are parsed.
MutantProbePendingParses ==
    /\ at = "loop" /\ state = "pending" /\ armed = "read" /\ Readable
    /\ \E got \in 1..(RecvSize - recv_used) :
           Reads(got) /\ Fed(NewParser, base + Consumed, recv_used - Consumed + got, "loop")

\* slot_probe_pending: one read, of what there is room for.
ProbePending ==
    /\ at = "loop" /\ state = "pending" /\ armed = "read" /\ Readable /\ recv_used < RecvSize
    /\ \/ \E got \in 1..(RecvSize - recv_used) :
             /\ Reads(got)
             /\ recv_used' = recv_used + got
             /\ UNCHANGED <<state, at, base, parser, armed, send_left, client_wants_close,
                            streamVars, posted, historyVars>>
       \/ Nothing /\ Close /\ UNCHANGED netVars

\* An error event, the idle sweep, or the teardown of the server.
Lost ==
    /\ at = "loop" /\ state # "closed"
    /\ Close
    /\ UNCHANGED netVars

LoopThread ==
    Receive \/ Drained \/ FinishSend \/ OnReadable \/ OnWritable \/ ProbePending \/ Flush
    \/ Deadline \/ HandlerCloses \/ HandlerDefers
    \/ \E streamed \in BOOLEAN : HandlerResponds(streamed)

Next ==
    \/ LoopThread \/ WriteSome \/ WriteBlocked \/ WriteFails \/ Lost
    \/ \E n \in 1..Total : ClientSends(n)
    \/ ClientFinishes
    \/ \E answer \in Answer \ {"none"} : Post(answer)

Spec == Init /\ [][Next]_vars

\* The loop thread runs, and the client reads what it is sent.
FairSpec == Spec /\ WF_vars(LoopThread) /\ SF_vars(WriteSome)

-------------------------------------------------------------------------------
(* Properties. *)

\* Handlers are given the client's requests, each once and in order, in whatever
\* pieces they arrive: also if they arrive together, or while an earlier one is
\* parked or being answered.
RequestsInOrder ==
    /\ parser.state # "error"
    /\ \A i \in DOMAIN handled : i <= Len(Client) /\ handled[i] = Start[i]

\* No handler is given a request before the previous one's response is wholly
\* written: responses leave in order and do not mix.
AnswersKeepUp ==
    /\ at = "handler" => answered = Len(handled) - 1 /\ send_left = 0
    /\ state = "receiving" /\ at # "handler" => answered = Len(handled)

\* A streamed body put to sending is finalized once, and no later than the
\* connection closes or turns to its next request.
StreamsAreFinalized ==
    /\ finalized <= started
    /\ state \in {"receiving", "closed"} => finalized = started

\* 413 is for a request that does not fit the buffer, not for one that shares it
\* with what came before or after.
RejectsOnlyOversized ==
    at = "receive" /\ recv_used = RecvSize =>
        Len(handled) < Len(Client) /\ Size(Len(handled) + 1) > RecvSize

\* Over a plain socket a request that was sent whole is answered, or the
\* connection is closed, also if it was sent together with the one before and no
\* further byte follows.
Answered(k) == answered >= k \/ state = "closed"

SentIsAnswered ==
    \A k \in DOMAIN Client : ~layered /\ sent >= Start[k + 1] ~> Answered(k)

-------------------------------------------------------------------------------
(* What the documentation says, and the code does not do. *)

\* http_server.h: the idle time runs "while the server waits on the peer", and
\* http_server.c: bytes of a later request "are parsed once the deferred response has
\* been sent".  A connection that waits for a request is not left waiting when the
\* client has sent it whole: it is in hand, or the event loop has something to report.
WaitsOnThePeer ==
    at = "loop" /\ state = "receiving" /\ Len(handled) < Len(Client)
    /\ sent >= Start[Len(handled) + 2] => Readable

\* http_response.h: "When the response completes OR the connection is torn down
\* early, the server invokes body_finalizer exactly once".
OfferedIsFinalized == state = "closed" => finalized = offered

-------------------------------------------------------------------------------
(* The inductive invariant.                                                  *)

\* No byte is lost or made up between the client and the receive buffer.
InvStream == (base + recv_used) + (kernel + layer) = sent /\ sent <= Total

\* What the loop thread is doing goes with the state of the slot.  What is left to
\* send, and a streamed body, belong to the sending of a response.
InvPlace ==
    /\ at \in {"receive", "handler"} => state = "receiving"
    /\ at \in {"send", "finish"} => state = "sending"
    /\ state \in {"receiving", "pending"} \/ at = "finish" => send_left = 0 /\ ~stream_active
    /\ state = "closed" => ~stream_active

\* The request that was given to a handler is the one at the front of the buffer,
\* and is there as a whole.
InHand ==
    /\ Len(handled) \in 1..Len(Client) /\ base = Start[Len(handled)]
    /\ parser.headers_end = Client[Len(handled)].head
    /\ parser.content_length = Client[Len(handled)].body
    /\ Size(Len(handled)) <= recv_used
    /\ state = "receiving" => at = "handler"

\* The request that is waited for starts at the front of the buffer, and some of it
\* is missing; a 413 is the only response that is sent then.
Awaited ==
    /\ Len(handled) \in 0..Len(Client) /\ base = Start[Len(handled) + 1]
    /\ Len(handled) < Len(Client) => recv_used < Size(Len(handled) + 1)
    /\ \/ parser = NewParser
       \/ /\ Len(handled) < Len(Client)
          /\ parser = [state |-> "body", headers_end |-> Client[Len(handled) + 1].head,
                       content_length |-> Client[Len(handled) + 1].body]
    /\ \/ state = "receiving" /\ at # "handler"
       \/ state = "sending" /\ client_wants_close

InvRequest ==
    /\ parser.state # "error"
    /\ state # "closed" => IF parser.state = "complete" THEN InHand ELSE Awaited

InvHandled == \A i \in DOMAIN handled : i <= Len(Client) /\ handled[i] = Start[i]

\* Every request but the one in hand was answered; a 413 counts as an answer to the
\* one that is awaited.
InvAnswers ==
    state # "closed" =>
        answered = Len(handled) + (IF parser.state = "complete" THEN -1 ELSE 0)
                                + (IF at = "finish" THEN 1 ELSE 0)

InvFinalized == started = finalized + (IF stream_active THEN 1 ELSE 0)

IInv ==
    /\ TypeOK /\ InvStream /\ InvPlace /\ InvRequest /\ InvHandled /\ InvAnswers
    /\ InvFinalized

===============================================================================
