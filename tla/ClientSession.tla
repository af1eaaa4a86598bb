------------------------------ MODULE ClientSession ------------------------------
(***************************************************************************)
(* The blocking client (src/src/http_connection.c): one connection on which*)
(* requests are sent and their responses received one after the other, the *)
(* peer at the other end of it, and the clock.  An endpoint connects it and*)
(* it is closed after an error, as http_connection.h asks (Endpoint).      *)
(*                                                                         *)
(* A response is a sequence of tokens: "interim" and "head" are heads with *)
(* their blank line, "data" a piece of body, "end" the last chunk, whose   *)
(* blank line looks like that of a head.  Windows and framing lines are    *)
(* the business of ResponseReader; buffers are large enough here.          *)
(***************************************************************************)
EXTENDS Endpoint, Sequences, FiniteSetsExt

CONSTANTS
    Connection,    \* the one this is about
    Exchanges,     \* requests with the responses to them
    MaxRequests,   \* bound: requests on one connection
    IoTimeouts,    \* http_endpoint_config_t.io_timeout_ms, 0 for ever
    PollSlice      \* HTTP_IO_POLL_SLICE_MS, in the same unit

\* head: a HEAD request.  interim: 1xx responses that come first.  headers: whether
\* the response has header lines.  length: tokens of its body, if it has one.
ASSUME SessionAssumption ==
    /\ Connection \in Connections
    /\ MaxRequests \in Nat /\ IoTimeouts \subseteq Nat /\ PollSlice \in Nat \ {0}
    /\ Exchanges \subseteq
           [head : BOOLEAN, interim : Nat, headers : BOOLEAN, length : Nat,
            status : {"none", "other", "malformed"}, framing : {"length", "chunked", "close"}]

VARIABLES
    io_timeout,    \* connection->io_timeout_ms
    exchange,      \* the exchange of the last request
    requests,      \* how many were sent
    awaiting,      \* connection->awaiting_response_to_head
    unsent, wire,  \* what the peer has still to send; what was sent and not read
    open,          \* the peer has not closed
    call,          \* where a call of receive_response is; "none" if there is none
    window,        \* received by it and not consumed
    framing, remaining,   \* of the body being read
    got,           \* body tokens handed over
    silence,       \* time since the deadline was last computed
    blocked,       \* time the present recv has taken
    result,        \* of the last call
    lost           \* bytes that came with a head were dropped

peer_vars == <<unsent, wire, open>>
clock_vars == <<silence, blocked>>
body_vars == <<framing, remaining, got>>
session_vars == <<io_timeout, exchange, requests, awaiting, peer_vars, call, window,
                  body_vars, clock_vars, result, lost>>
vars == <<endpoint_vars, session_vars>>

Idle == [head |-> FALSE, interim |-> 0, headers |-> TRUE, length |-> 0,
         status |-> "none", framing |-> "length"]

Init ==
    /\ EndpointInit
    /\ io_timeout \in IoTimeouts
    /\ exchange = Idle /\ requests = 0 /\ awaiting = FALSE
    /\ unsent = <<>> /\ wire = <<>> /\ open = FALSE
    /\ call = "none" /\ window = <<>>
    /\ framing = "none" /\ remaining = 0 /\ got = 0
    /\ silence = 0 /\ blocked = 0
    /\ result = "none" /\ lost = FALSE

-------------------------------------------------------------------------------
(* The peer. *)

Tokens(n, what) == [i \in 1..n |-> what]

\* The tokens of the body that the peer sends, by RFC 9112 section 6.3.
BodyLength(x) == IF x.head \/ x.status = "none" THEN 0 ELSE x.length

Response(x) ==
    Tokens(x.interim, "interim") \o <<"head">> \o Tokens(BodyLength(x), "data")
    \o (IF x.framing = "chunked" /\ ~x.head /\ x.status # "none" THEN <<"end">> ELSE <<>>)

PeerSends ==
    /\ open /\ unsent # <<>>
    /\ \E n \in 1..Len(unsent) :
          /\ wire' = wire \o SubSeq(unsent, 1, n)
          /\ unsent' = SubSeq(unsent, n + 1, Len(unsent))
    /\ UNCHANGED <<endpoint_vars, io_timeout, exchange, requests, awaiting, open, call,
                   window, body_vars, clock_vars, result, lost>>

\* It may close at any time, and so ends a body that has no other end.
PeerCloses ==
    /\ open /\ open' = FALSE
    /\ UNCHANGED <<endpoint_vars, io_timeout, exchange, requests, awaiting, unsent, wire,
                   call, window, body_vars, clock_vars, result, lost>>

-------------------------------------------------------------------------------
(* Connecting, sending, closing. *)

Connect ==
    /\ ConnectSucceeds(Connection)
    /\ requests' = 0 /\ awaiting' = FALSE /\ exchange' = Idle /\ unsent' = <<>> /\ wire' = <<>>
    /\ open' = TRUE /\ result' = "none" /\ lost' = FALSE /\ got' = 0 /\ framing' = "none"
    /\ UNCHANGED <<io_timeout, call, window, remaining, clock_vars>>

\* An accepted connection has no context of its own.
Connected == Connection \in live /\ Connection \in context

\* http_connection_send_request.  The flag is set whether or not the request got out.
SendRequest ==
    /\ Connected /\ call = "none" /\ requests < MaxRequests /\ result \in {"none", "ok"}
    /\ \E x \in Exchanges :
          /\ exchange' = x /\ awaiting' = x.head /\ requests' = requests + 1
          /\ IF open THEN unsent' = Response(x) /\ result' = "sent"
                     ELSE UNCHANGED unsent /\ result' \in {"sent", "error"}
    /\ got' = 0 /\ lost' = FALSE
    /\ UNCHANGED <<endpoint_vars, io_timeout, wire, open, call, window, framing,
                   remaining, clock_vars>>

\* http_connection_close.
Close ==
    /\ Connected /\ call = "none" /\ Dispose(Connection)
    /\ open' = FALSE /\ unsent' = <<>> /\ wire' = <<>> /\ result' = "closed"
    /\ UNCHANGED <<io_timeout, exchange, requests, awaiting, call, window, body_vars,
                   clock_vars, lost>>

\* Everything else that may be done with endpoints and descriptors meanwhile.
Elsewhere ==
    /\ \/ EndpointNext
       \/ \E c \in Connections : c # Connection /\ (ConnectSucceeds(c) \/ Dispose(c))
       \/ ~Connected /\ Dispose(Connection)
    /\ UNCHANGED session_vars

-------------------------------------------------------------------------------
(* Waiting: io_deadline, await_progress, and the receive slice. *)

\* The body needs bytes that were not received.
NeedsMore == call = "body" /\ window = <<>> /\ (framing = "length" => remaining > 0)
Waiting == (call = "head" \/ NeedsMore) /\ wire = <<>> /\ open
Slice == Min({io_timeout, PollSlice})

\* A call that returns leaves nothing behind but its result.
Return(r) ==
    /\ call' = "none" /\ result' = r /\ window' = <<>>
    /\ blocked' = 0 /\ UNCHANGED silence

Tick ==
    /\ Waiting
    /\ io_timeout > 0 /\ blocked < Slice
    /\ silence' = silence + 1 /\ blocked' = blocked + 1
    /\ UNCHANGED <<endpoint_vars, io_timeout, exchange, requests, awaiting, peer_vars,
                   call, window, body_vars, result, lost>>

\* recv gave up: stream_read says try_again, and await_progress looks at the clock.
MutantGiveUpLate == silence > io_timeout
GiveUp == silence >= io_timeout

MutantAwaitProgressRefreshes ==
    /\ Waiting /\ io_timeout > 0 /\ blocked = Slice
    /\ IF GiveUp THEN Return("timeout") ELSE blocked' = 0 /\ silence' = 0
                     /\ UNCHANGED <<call, window, result>>
    /\ UNCHANGED <<endpoint_vars, io_timeout, exchange, requests, awaiting, peer_vars,
                   body_vars, lost>>
AwaitProgress ==
    /\ Waiting /\ io_timeout > 0 /\ blocked = Slice
    /\ IF GiveUp THEN Return("timeout")
                 ELSE blocked' = 0 /\ UNCHANGED <<silence, call, window, result>>
    /\ UNCHANGED <<endpoint_vars, io_timeout, exchange, requests, awaiting, peer_vars,
                   body_vars, lost>>

\* stream_read gives what is there, or part of it; the deadline is computed anew.
Read ==
    \E n \in 1..Len(wire) :
        /\ window' = window \o SubSeq(wire, 1, n) /\ wire' = SubSeq(wire, n + 1, Len(wire))
        /\ silence' = 0 /\ blocked' = 0

-------------------------------------------------------------------------------
(* receive_response. *)

Call ==
    /\ Connected /\ call = "none" /\ result \in {"sent", "interim"}
    /\ call' = "head" /\ result' = "none" /\ silence' = 0 /\ blocked' = 0
    /\ UNCHANGED <<endpoint_vars, io_timeout, exchange, requests, awaiting, peer_vars,
                   window, body_vars, lost>>

\* read_until_headers_complete finds a blank line somewhere in what it has read.
HeadComplete(w) == \E i \in 1..Len(w) : w[i] \in {"interim", "head", "end"}

ReadHead ==
    /\ call = "head"
    /\ \/ /\ Read
          /\ call' = (IF HeadComplete(window') THEN "parse" ELSE "head") /\ UNCHANGED result
       \/ wire = <<>> /\ ~open /\ Return("error") /\ UNCHANGED wire
    /\ UNCHANGED <<endpoint_vars, io_timeout, exchange, requests, awaiting, unsent, open,
                   body_vars, lost>>

\* determine_response_body_framing.
Framing ==
    IF exchange.status = "none" \/ awaiting THEN "none"
    ELSE IF exchange.framing = "length" /\ exchange.length = 0 THEN "none"
    ELSE exchange.framing

\* http_response_parse: what follows a head without header lines is not found again.
Prefetched ==
    IF window[1] = "head" /\ exchange.headers THEN Tail(window) ELSE <<>>

Drops(w) == lost' = (lost \/ w # <<>>)

MutantParseInterimAnswers ==
    /\ call = "parse" /\ window[1] = "interim"
    /\ Return("interim") /\ Drops(Tail(window)) /\ awaiting' = FALSE
    /\ UNCHANGED <<endpoint_vars, io_timeout, exchange, requests, peer_vars, body_vars>>

\* An interim response has no body, and does not answer a HEAD request.
ParseInterim ==
    /\ call = "parse" /\ window[1] = "interim"
    /\ Return("interim") /\ Drops(Tail(window))
    /\ UNCHANGED <<endpoint_vars, io_timeout, exchange, requests, awaiting, peer_vars,
                   body_vars>>

ParseFinal ==
    /\ call = "parse" /\ window[1] = "head" /\ exchange.status # "malformed"
    /\ awaiting' = FALSE
    /\ framing' = Framing /\ remaining' = exchange.length
    /\ IF Framing = "none"
       THEN Return("ok") /\ Drops(Tail(window))
       ELSE /\ call' = "body" /\ window' = Prefetched /\ lost' = (lost \/ Prefetched # Tail(window))
            /\ silence' = 0 /\ blocked' = 0 /\ UNCHANGED result
    /\ UNCHANGED <<endpoint_vars, io_timeout, exchange, requests, peer_vars, got>>

ParseFails ==
    /\ call = "parse"
    /\ \/ window[1] \notin {"interim", "head"}
       \/ window[1] = "head" /\ exchange.status = "malformed"
    /\ Return("error")
    /\ UNCHANGED <<endpoint_vars, io_timeout, exchange, requests, awaiting, peer_vars,
                   body_vars, lost>>

\* One piece of body, handed to the handler or stored.
Deliver ==
    /\ call = "body" /\ window # <<>> /\ window[1] = "data"
    /\ framing = "length" => remaining > 0
    /\ \/ /\ got' = got + 1 /\ window' = Tail(window)
          /\ remaining' = (IF framing = "length" THEN remaining - 1 ELSE remaining)
          /\ UNCHANGED <<call, result, clock_vars>>
       \/ Return("refused") /\ UNCHANGED <<got, remaining>>
    /\ UNCHANGED <<endpoint_vars, io_timeout, exchange, requests, awaiting, peer_vars,
                   framing, lost>>

\* The last piece was handed over.  What the window still holds is dropped.
BodyEnds ==
    /\ call = "body"
    /\ \/ framing = "length" /\ remaining = 0 /\ Return("ok") /\ Drops(window)
       \/ framing = "chunked" /\ window # <<>> /\ window[1] = "end"
             /\ Return("ok") /\ Drops(Tail(window))
       \/ framing = "close" /\ window = <<>> /\ wire = <<>> /\ ~open /\ Return("ok") /\ UNCHANGED lost
    /\ UNCHANGED <<endpoint_vars, io_timeout, exchange, requests, awaiting, peer_vars,
                   body_vars>>

MutantFillTakesTheEnd ==
    /\ NeedsMore
    /\ \/ Read /\ UNCHANGED <<call, result>>
       \/ framing # "close" /\ wire = <<>> /\ ~open /\ Return("ok") /\ UNCHANGED wire
    /\ UNCHANGED <<endpoint_vars, io_timeout, exchange, requests, awaiting, unsent, open,
                   body_vars, lost>>

\* response_body_reader_fill.
Fill ==
    /\ NeedsMore
    /\ \/ Read /\ UNCHANGED <<call, result>>
       \/ framing # "close" /\ wire = <<>> /\ ~open /\ Return("error") /\ UNCHANGED wire
    /\ UNCHANGED <<endpoint_vars, io_timeout, exchange, requests, awaiting, unsent, open,
                   body_vars, lost>>

Client == Call \/ AwaitProgress \/ ReadHead \/ ParseInterim \/ ParseFinal \/ ParseFails
          \/ Deliver \/ BodyEnds \/ Fill

Next == PeerSends \/ PeerCloses \/ Connect \/ SendRequest \/ Close \/ Elsewhere \/ Tick \/ Client

Spec == Init /\ [][Next]_vars

\* A call that can take a step takes it, and time passes.
FairSpec == Spec /\ WF_vars(Client) /\ WF_vars(Tick)

-------------------------------------------------------------------------------
(* Correctness. *)

\* A final response that is returned ok has its whole body, by its framing and by
\* whether HEAD was asked, and nothing of it is left to be taken for the next one.
\* (A body that ends with the connection may end early; what came with a head
\* may have been dropped.)
ResponseIsWhole ==
    result = "ok" /\ ~lost =>
        /\ wire = <<>> /\ (open => unsent = <<>>)
        /\ got <= BodyLength(exchange)
        /\ framing # "close" \/ unsent = <<>> => got = BodyLength(exchange)

\* The client does not wait for what will not come: while it waits, the peer has
\* something to send, or a body to end by closing.  (awaiting_response_to_head,
\* interim responses, bodies of length 0.)
WaitsForWhatIsOwed ==
    Waiting /\ ~lost => unsent # <<>> \/ framing = "close"

\* The time-out bounds silence: a call is not given up before io_timeout, nor does
\* it last longer than one more slice without a byte, and never when it is 0
\* (HTTP_DEFAULT_IO_TIMEOUT_MS, http_endpoint.h).
SilenceIsBounded ==
    /\ call # "none" /\ io_timeout > 0 => silence < io_timeout + Slice
    /\ result = "timeout" => io_timeout > 0 /\ silence >= io_timeout

\* With a time-out, every call returns, whatever the peer does.
CallReturns == (call # "none" /\ io_timeout > 0) ~> call = "none"

(* What the documentation says, and the code does not do. *)

\* http_connection.h: "otherwise everything up to the peer closing the connection".
BodyToTheCloseIsWhole ==
    result = "ok" /\ framing = "close" /\ unsent = <<>> => got = BodyLength(exchange)

-------------------------------------------------------------------------------
(* The inductive invariant. *)

Token == {"interim", "head", "data", "end"}

SessionTypeOK ==
    /\ io_timeout \in IoTimeouts /\ exchange \in Exchanges \cup {Idle}
    /\ requests \in 0..MaxRequests
    /\ awaiting \in BOOLEAN /\ open \in BOOLEAN /\ lost \in BOOLEAN
    /\ unsent \in Seq(Token) /\ wire \in Seq(Token) /\ window \in Seq(Token)
    /\ call \in {"none", "head", "parse", "body"}
    /\ framing \in {"none", "length", "chunked", "close"}
    /\ remaining \in Nat /\ got \in Nat /\ silence \in Nat /\ blocked \in Nat
    /\ result \in {"none", "sent", "error", "closed", "timeout", "interim", "ok", "refused"}

\* Since the deadline was computed, recv has waited at most once after it passed.
InvClock ==
    /\ blocked <= Slice
    /\ call # "none" /\ io_timeout > 0 => silence < io_timeout + blocked
    /\ result = "timeout" => io_timeout > 0 /\ silence >= io_timeout

\* A call is on a connection that stays connected, and keeps its window to itself.
InvCall ==
    /\ call # "none" => Connected /\ result = "none"
    /\ call = "none" => window = <<>>
    /\ call = "head" => ~HeadComplete(window)
    /\ call = "parse" => HeadComplete(window)

\* What is still to be consumed is the end of the response, and starts at its
\* token number Place + 1.
Rest == (window \o wire) \o unsent
IsEndOf(s, t) == Len(s) <= Len(t) /\ \A j \in 1..Len(s) : s[j] = t[(Len(t) - Len(s)) + j]
Place == Len(Response(exchange)) - Len(Rest)

\* The final head has not been read.
Expecting == call \in {"head", "parse"} \/ result \in {"sent", "interim"}

InvHead == Expecting => awaiting = exchange.head /\ got = 0

InvBody ==
    call = "body" =>
        /\ framing = exchange.framing /\ ~exchange.head /\ exchange.status = "other"
        /\ framing = "length" => got + remaining = exchange.length

\* Nothing is consumed but what came before it is, unless it was dropped.
InPlace ==
    /\ Expecting /\ ~lost => Place <= exchange.interim
    /\ call = "body" => /\ Place >= (exchange.interim + 1) + got
                        /\ ~lost => /\ Place = (exchange.interim + 1) + got
                                    /\ got <= BodyLength(exchange)

\* The peer was gone when the last request was sent, and nothing answers it.
Gone == ~open /\ wire = <<>> /\ window = <<>> /\ call \in {"none", "head"}

InvStream == Gone \/ (IsEndOf(Rest, Response(exchange)) /\ InPlace)

\* Before a request is sent nothing is left of the response to the last one.
InvBetween ==
    /\ call = "none" /\ result \in {"none", "ok"} => wire = <<>> /\ (open => unsent = <<>>)
    /\ result = "ok" /\ ~lost =>
           /\ got <= BodyLength(exchange)
           /\ framing # "close" \/ unsent = <<>> => got = BodyLength(exchange)

SessionInv ==
    /\ SessionTypeOK /\ InvClock /\ InvCall /\ InvHead /\ InvBody /\ InvStream /\ InvBetween
=================================================================================
