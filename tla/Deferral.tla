------------------------------- MODULE Deferral -------------------------------
(***************************************************************************)
(* Deferred responses of src/src/http_server.c.                            *)
(*                                                                         *)
(* One event-loop thread drives every connection slot.  A handler running  *)
(* on it may take a ticket for its exchange and return "defer": the slot   *)
(* is parked in state "pending" and any thread may later post an answer    *)
(* (complete) or give up (cancel) through the ticket.  The loop thread     *)
(* claims posted answers between two polls, answers 504 for exchanges      *)
(* whose deadline passed, and closes idle connections.                     *)
(*                                                                         *)
(* Granularity: one action per critical section of pending_mutex, and per  *)
(* stretch of loop-thread code between two of them.  A worker can observe  *)
(* or change a slot only inside deferral_post's critical section, so       *)
(* nothing finer is visible to it.                                         *)
(*                                                                         *)
(* A ticket is {slot, generation}: within one exchange every copy is equal,*)
(* so the ticket of an exchange is named by the exchange's request number. *)
(* conn, of, fate, claim and answeredBy are history: no guard reads them.  *)
(***************************************************************************)
EXTENDS Naturals

CONSTANTS
    SlotCount,       \* storage->slot_count
    Workers,         \* application threads that post answers
    GenModulus,      \* values of the slot's generation counter (2^32)
    MaxRequests,     \* bound: requests that reach run_handler_and_serialize
    MaxConnections   \* bound: connections the listener takes, broken ones included

ASSUME SlotCountAssumption   == SlotCount \in Nat \ {0}
ASSUME MaxRequestsAssumption == MaxRequests \in Nat
\* The u32 generation does not wrap within the connections considered.
ASSUME ReuseAssumption ==
    MaxConnections \in Nat /\ GenModulus \in Nat /\ MaxConnections < GenModulus

Slots    == 1..SlotCount
Requests == 1..MaxRequests

SlotState == {"idle", "handshaking", "receiving", "pending", "sending"}
Phase     == {"top", "poll", "handler", "flush", "serialize", "deadlines",
              "timeout", "idle_sweep", "teardown", "done"}
Fate      == {"unseen", "open", "handler", "app", "503", "504", "dropped"}

VARIABLES
    in_use, state, generation, client_wants_close,   \* the slot
    pending_ready, pending_cancelled,                \* guarded by pending_mutex
    pending_response,   \* the request whose ticket posted the answer held
    overdue,            \* now_ms() >= pending_deadline_ms
    request,            \* request the slot works on or last worked on, 0: none
    at, cursor,         \* loop thread: where it is, and in which slot
    cancelled,          \* flush_pending_responses' local of that name, FALSE elsewhere
    wake,               \* a wake-up of the event loop is outstanding
    stopping,           \* server->state left running
    posting,            \* worker is between unlock and event_loop_wake
    taken, ticket,      \* exchanges whose ticket was taken; its generation
    begun, accepted,    \* counters: requests begun, connections accepted
    conn,               \* history: connection the slot holds (a serial number)
    of,                 \* history: slot and connection of a request
    fate,               \* history: how a request ended
    claim,              \* history: ticket whose post was accepted for a request
    answeredBy          \* history: ticket that supplied a request's answer

slotVars    == <<in_use, state, generation, client_wants_close>>
pendingVars == <<pending_ready, pending_cancelled, pending_response, overdue>>
loopVars    == <<at, cursor, cancelled>>
workerVars  == <<posting, taken, ticket>>
historyVars == <<conn, of, fate, claim, answeredBy>>
vars == <<slotVars, pendingVars, request, loopVars, wake, stopping, workerVars,
          begun, accepted, historyVars>>

TypeOK ==
    /\ in_use \in [Slots -> BOOLEAN]
    /\ state \in [Slots -> SlotState]
    /\ generation \in [Slots -> 0..(GenModulus - 1)]
    /\ client_wants_close \in [Slots -> BOOLEAN]
    /\ pending_ready \in [Slots -> BOOLEAN]
    /\ pending_cancelled \in [Slots -> BOOLEAN]
    /\ pending_response \in [Slots -> 0..MaxRequests]
    /\ overdue \in [Slots -> BOOLEAN]
    /\ request \in [Slots -> 0..MaxRequests]
    /\ at \in Phase
    /\ cursor \in Slots
    /\ cancelled \in BOOLEAN
    /\ wake \in BOOLEAN
    /\ stopping \in BOOLEAN
    /\ posting \in [Workers -> BOOLEAN]
    /\ taken \in SUBSET Requests
    /\ ticket \in [Requests -> 0..(GenModulus - 1)]
    /\ begun \in 0..MaxRequests
    /\ accepted \in 0..MaxConnections
    /\ conn \in [Slots -> Nat]
    /\ of \in [Requests -> [slot : Slots, conn : Nat]]
    /\ fate \in [Requests -> Fate]
    /\ claim \in [Requests -> 0..MaxRequests]
    /\ answeredBy \in [Requests -> 0..MaxRequests]

\* http_server_init: every slot free, generation 0; the loop is about to start.
Init ==
    /\ in_use = [s \in Slots |-> FALSE]
    /\ state = [s \in Slots |-> "idle"]
    /\ generation = [s \in Slots |-> 0]
    /\ client_wants_close = [s \in Slots |-> FALSE]
    /\ pending_ready = [s \in Slots |-> FALSE]
    /\ pending_cancelled = [s \in Slots |-> FALSE]
    /\ pending_response = [s \in Slots |-> 0]
    /\ overdue = [s \in Slots |-> FALSE]
    /\ request = [s \in Slots |-> 0]
    /\ at = "top"
    /\ cursor = 1
    /\ cancelled = FALSE
    /\ wake = FALSE
    /\ stopping = FALSE
    /\ posting = [w \in Workers |-> FALSE]
    /\ taken = {}
    /\ ticket = [r \in Requests |-> 0]
    /\ begun = 0
    /\ accepted = 0
    /\ conn = [s \in Slots |-> 0]
    /\ of = [r \in Requests |-> [slot |-> 1, conn |-> 0]]
    /\ fate = [r \in Requests |-> "unseen"]
    /\ claim = [r \in Requests |-> 0]
    /\ answeredBy = [r \in Requests |-> 0]

-------------------------------------------------------------------------------
(* Slot lifecycle, loop thread only. *)

\* generation is a uint32_t: generation++ wraps.
Bump(g) == IF g = GenModulus - 1 THEN 0 ELSE g + 1

\* The exchange of slot s, if still open, ends in this way.
Ends(s, how) ==
    fate' = [r \in Requests |-> IF r = request[s] /\ fate[r] = "open" THEN how ELSE fate[r]]

\* Mutant: the generation is not advanced.
MutantReleaseSameGeneration(s) ==
    /\ in_use' = [in_use EXCEPT ![s] = FALSE]
    /\ state' = [state EXCEPT ![s] = "idle"]
    /\ pending_ready' = [pending_ready EXCEPT ![s] = FALSE]
    /\ pending_cancelled' = [pending_cancelled EXCEPT ![s] = FALSE]
    /\ UNCHANGED generation

\* release_slot's critical section.
Release(s) ==
    /\ in_use' = [in_use EXCEPT ![s] = FALSE]
    /\ state' = [state EXCEPT ![s] = "idle"]
    /\ pending_ready' = [pending_ready EXCEPT ![s] = FALSE]
    /\ pending_cancelled' = [pending_cancelled EXCEPT ![s] = FALSE]
    /\ generation' = [generation EXCEPT ![s] = Bump(@)]

\* slot_close: the connection is gone, and with it an answer not yet sent.
Close(s) ==
    /\ Release(s)
    /\ Ends(s, "dropped")
    /\ UNCHANGED <<client_wants_close, pending_response, overdue, request, conn, answeredBy>>

\* serialize_and_send: the response becomes the slot's send buffer, or overflows
\* it and the connection is closed without an answer.
SerializeAndSend(s, how, by, wants_close) ==
    \/ /\ state' = [state EXCEPT ![s] = "sending"]
       /\ client_wants_close' = [client_wants_close EXCEPT ![s] = @ \/ wants_close]
       /\ Ends(s, how)
       /\ answeredBy' = [r \in Requests |->
                          IF r = request[s] /\ fate[r] = "open" THEN by ELSE answeredBy[r]]
       /\ UNCHANGED <<in_use, generation, pendingVars, request, conn>>
    \/ Close(s)

\* on_listen_readable: the first free slot takes the connection, which goes as
\* far as its handshake does, or is refused or broken at once.
FirstFree(s) == ~in_use[s] /\ \A q \in Slots : q < s => in_use[q]

Accept(s) ==
    /\ at = "poll" /\ ~stopping /\ FirstFree(s)
    /\ accepted < MaxConnections
    /\ accepted' = accepted + 1
    /\ \/ /\ \E st \in {"handshaking", "receiving"} : state' = [state EXCEPT ![s] = st]
          /\ in_use' = [in_use EXCEPT ![s] = TRUE]
          /\ conn' = [conn EXCEPT ![s] = accepted + 1]
          /\ client_wants_close' = [client_wants_close EXCEPT ![s] = FALSE]
          /\ pending_ready' = [pending_ready EXCEPT ![s] = FALSE]
          /\ pending_cancelled' = [pending_cancelled EXCEPT ![s] = FALSE]
          /\ UNCHANGED generation
       \/ /\ Release(s)
          /\ UNCHANGED <<client_wants_close, conn>>
    /\ UNCHANGED <<pending_response, overdue, request, loopVars, wake, stopping, workerVars,
                   begun, of, fate, claim, answeredBy>>

HandshakeDone(s) ==
    /\ at = "poll" /\ state[s] = "handshaking"
    /\ state' = [state EXCEPT ![s] = "receiving"]
    /\ UNCHANGED <<in_use, generation, client_wants_close, pendingVars, request, loopVars,
                   wake, stopping, workerVars, begun, accepted, historyVars>>

\* Error event, peer gone (also while parked), failed handshake, read, write or
\* parse: the callback closes the connection.
ConnectionLost(s) ==
    /\ at = "poll" /\ in_use[s]
    /\ Close(s)
    /\ UNCHANGED <<loopVars, wake, stopping, workerVars, begun, accepted, of, claim>>

\* A complete request was parsed: it is given to run_handler_and_serialize.
BeginRequest(s) ==
    /\ begun < MaxRequests
    /\ begun' = begun + 1
    /\ at' = "handler" /\ cursor' = s
    /\ state' = [state EXCEPT ![s] = "receiving"]
    /\ request' = [request EXCEPT ![s] = begun + 1]
    /\ of' = [of EXCEPT ![begun + 1] = [slot |-> s, conn |-> conn[s]]]
    /\ fate' = [fate EXCEPT ![begun + 1] = "open"]
    /\ \E close \in BOOLEAN : client_wants_close' = [client_wants_close EXCEPT ![s] = close]

Receive(s) ==
    /\ at = "poll" /\ state[s] = "receiving"
    /\ BeginRequest(s)
    /\ UNCHANGED <<in_use, generation, pendingVars, cancelled, wake, stopping, workerVars,
                   accepted, conn, claim, answeredBy>>

\* The receive buffer is full of an unfinished request: 413, then close.  No
\* request was parsed, so no exchange is concerned.
RejectOversized(s) ==
    /\ at = "poll" /\ state[s] = "receiving"
    /\ SerializeAndSend(s, "handler", 0, TRUE)
    /\ UNCHANGED <<loopVars, wake, stopping, workerVars, begun, accepted, of, claim>>

\* slot_drive_send wrote the last byte; slot_finish_send.  Pipelined bytes may
\* hold the next request already, or nonsense.
FinishSend(s) ==
    /\ at = "poll" /\ state[s] = "sending"
    /\ \/ /\ Close(s)       \* client_wants_close, or the leftover does not parse
          /\ UNCHANGED <<at, cursor, begun, of>>
       \/ /\ ~client_wants_close[s]
          /\ state' = [state EXCEPT ![s] = "receiving"]
          /\ UNCHANGED <<in_use, generation, client_wants_close, pendingVars, request, at,
                         cursor, begun, conn, of, fate, answeredBy>>
       \/ /\ ~client_wants_close[s]
          /\ BeginRequest(s)
          /\ UNCHANGED <<in_use, generation, pendingVars, conn, answeredBy>>
    /\ UNCHANGED <<cancelled, wake, stopping, workerVars, accepted, claim>>

-------------------------------------------------------------------------------
(* The handler, on the loop thread. *)

\* http_exchange_defer.  The handler may hand the ticket to a worker at once.
TakeTicket ==
    /\ at = "handler"
    /\ taken' = taken \cup {request[cursor]}
    /\ ticket' = [ticket EXCEPT ![request[cursor]] = generation[cursor]]
    /\ UNCHANGED <<slotVars, pendingVars, request, loopVars, wake, stopping, posting, begun,
                   accepted, historyVars>>

BackToPoll == at' = "poll" /\ cursor' = 1

\* The handler answered, with or without a ticket taken; or no route matched.
HandlerResponds ==
    /\ at = "handler"
    /\ SerializeAndSend(cursor, "handler", 0, FALSE)
    /\ BackToPoll
    /\ UNCHANGED <<cancelled, wake, stopping, workerVars, begun, accepted, of, claim>>

HandlerCloses ==
    /\ at = "handler"
    /\ Close(cursor)
    /\ BackToPoll
    /\ UNCHANGED <<cancelled, wake, stopping, workerVars, begun, accepted, of, claim>>

\* Mutant: parking the slot starts a new generation, after the ticket was taken.
MutantHandlerDefersNewGeneration ==
    /\ at = "handler"
    /\ pending_ready' = [pending_ready EXCEPT ![cursor] = FALSE]
    /\ pending_cancelled' = [pending_cancelled EXCEPT ![cursor] = FALSE]
    /\ overdue' = [overdue EXCEPT ![cursor] = FALSE]
    /\ state' = [state EXCEPT ![cursor] = "pending"]
    /\ generation' = [generation EXCEPT ![cursor] = Bump(@)]
    /\ BackToPoll
    /\ UNCHANGED <<in_use, client_wants_close, pending_response, request, cancelled,
                   wake, stopping, workerVars, begun, accepted, historyVars>>

\* The handler returned http_handler_defer: the slot is parked, under the lock,
\* only now.
HandlerDefers ==
    /\ at = "handler"
    /\ pending_ready' = [pending_ready EXCEPT ![cursor] = FALSE]
    /\ pending_cancelled' = [pending_cancelled EXCEPT ![cursor] = FALSE]
    /\ overdue' = [overdue EXCEPT ![cursor] = FALSE]
    /\ state' = [state EXCEPT ![cursor] = "pending"]
    /\ BackToPoll
    /\ UNCHANGED <<in_use, generation, client_wants_close, pending_response, request, cancelled,
                   wake, stopping, workerVars, begun, accepted, historyVars>>

-------------------------------------------------------------------------------
(* http_deferral_complete and http_deferral_cancel, on any thread. *)

\* Mutant: a second post is not told from the first.
MutantPostResultTwice(r) ==
    LET s == of[r].slot IN
    IF ~in_use[s] \/ state[s] # "pending" \/ generation[s] # ticket[r] THEN "not_found"
    ELSE "ok"

\* What deferral_post answers for the ticket of request r.
PostResult(r) ==
    LET s == of[r].slot IN
    IF ~in_use[s] \/ state[s] # "pending" \/ generation[s] # ticket[r] THEN "not_found"
    ELSE IF pending_ready[s] \/ pending_cancelled[s] THEN "error"
    ELSE "ok"

\* deferral_post's critical section.  A refused post changes nothing.
Post(w, r, cancel) ==
    LET s == of[r].slot IN
    /\ ~posting[w] /\ r \in taken
    /\ PostResult(r) = "ok"
    /\ IF cancel
       THEN /\ pending_cancelled' = [pending_cancelled EXCEPT ![s] = TRUE]
            /\ UNCHANGED pending_ready
       ELSE /\ pending_ready' = [pending_ready EXCEPT ![s] = TRUE]
            /\ UNCHANGED pending_cancelled
    /\ pending_response' = [pending_response EXCEPT ![s] = r]
    /\ claim' = [claim EXCEPT ![request[s]] = r]
    /\ posting' = [posting EXCEPT ![w] = TRUE]
    /\ UNCHANGED <<slotVars, overdue, request, loopVars, wake, stopping, taken, ticket, begun,
                   accepted, conn, of, fate, answeredBy>>

\* Mutant: the loop is not woken.
MutantWakeForgotten(w) ==
    /\ posting[w]
    /\ posting' = [posting EXCEPT ![w] = FALSE]
    /\ UNCHANGED <<slotVars, pendingVars, request, loopVars, wake, stopping, taken, ticket, begun,
                   accepted, historyVars>>

\* ... and, after the unlock, event_loop_wake.
Wake(w) ==
    /\ posting[w]
    /\ posting' = [posting EXCEPT ![w] = FALSE]
    /\ wake' = TRUE
    /\ UNCHANGED <<slotVars, pendingVars, request, loopVars, stopping, taken, ticket, begun,
                   accepted, historyVars>>

-------------------------------------------------------------------------------
(* Between two polls, on the loop thread. *)

\* The scan of the slots goes on in phase loop, or has ended and next follows.
NextSlot(loop, next) ==
    IF cursor < SlotCount THEN at' = loop /\ cursor' = cursor + 1
                          ELSE at' = next /\ cursor' = 1

Enter ==
    /\ at = "top"
    /\ at' = IF stopping THEN "teardown" ELSE "poll"
    /\ UNCHANGED <<slotVars, pendingVars, request, cursor, cancelled, wake, stopping, workerVars,
                   begun, accepted, historyVars>>

\* event_loop_run_once returns: something woke it, or next_tick_ms gave it a
\* bound because some connection has a deadline.  Failure ends the server.
Poll ==
    /\ at = "poll"
    /\ \/ wake /\ at' = "flush"
       \/ stopping /\ at' = "flush"
       \/ (\E s \in Slots : in_use[s]) /\ at' = "flush"
       \/ at' = "teardown"
    /\ wake' = FALSE
    /\ UNCHANGED <<slotVars, pendingVars, request, cursor, cancelled, stopping, workerVars, begun,
                   accepted, historyVars>>

\* Mutant: the answer is taken under the lock, but the slot is not claimed.
MutantFlushNoClaim ==
    /\ at = "flush"
    /\ IF in_use[cursor] /\ state[cursor] = "pending"
          /\ (pending_ready[cursor] \/ pending_cancelled[cursor])
       THEN /\ cancelled' = pending_cancelled[cursor]
            /\ pending_ready' = [pending_ready EXCEPT ![cursor] = FALSE]
            /\ pending_cancelled' = [pending_cancelled EXCEPT ![cursor] = FALSE]
            /\ at' = "serialize" /\ UNCHANGED cursor
       ELSE /\ NextSlot("flush", "deadlines")
            /\ UNCHANGED <<cancelled, pending_ready, pending_cancelled>>
    /\ UNCHANGED <<state, in_use, generation, client_wants_close, pending_response, overdue,
                   request, wake, stopping, workerVars, begun, accepted, historyVars>>

\* flush_pending_responses: claim a posted answer under the lock ...
Flush ==
    /\ at = "flush"
    /\ IF in_use[cursor] /\ state[cursor] = "pending"
          /\ (pending_ready[cursor] \/ pending_cancelled[cursor])
       THEN /\ cancelled' = pending_cancelled[cursor]
            /\ pending_ready' = [pending_ready EXCEPT ![cursor] = FALSE]
            /\ pending_cancelled' = [pending_cancelled EXCEPT ![cursor] = FALSE]
            /\ state' = [state EXCEPT ![cursor] = "sending"]
            /\ at' = "serialize" /\ UNCHANGED cursor
       ELSE /\ NextSlot("flush", "deadlines")
            /\ UNCHANGED <<cancelled, pending_ready, pending_cancelled, state>>
    /\ UNCHANGED <<in_use, generation, client_wants_close, pending_response, overdue, request,
                   wake, stopping, workerVars, begun, accepted, historyVars>>

\* Mutant: a cancelled exchange is claimed and then not answered.
MutantSerializeIgnoresCancel ==
    /\ at = "serialize"
    /\ \/ ~cancelled /\ SerializeAndSend(cursor, "app", pending_response[cursor], FALSE)
       \/ cancelled /\ UNCHANGED <<slotVars, pendingVars, request, conn, fate, answeredBy>>
    /\ cancelled' = FALSE
    /\ NextSlot("flush", "deadlines")
    /\ UNCHANGED <<wake, stopping, workerVars, begun, accepted, of, claim>>

\* ... and serialise it, or a 503 for a cancellation, outside the lock.
Serialize ==
    /\ at = "serialize"
    /\ SerializeAndSend(cursor, IF cancelled THEN "503" ELSE "app", pending_response[cursor],
                        cancelled)
    /\ cancelled' = FALSE
    /\ NextSlot("flush", "deadlines")
    /\ UNCHANGED <<wake, stopping, workerVars, begun, accepted, of, claim>>

\* Mutant: an answer posted but not yet flushed does not stop the deadline.
MutantSweepDeadlineOvertakes ==
    /\ at = "deadlines"
    /\ IF in_use[cursor] /\ state[cursor] = "pending" /\ overdue[cursor]
       THEN /\ state' = [state EXCEPT ![cursor] = "sending"]
            /\ at' = "timeout" /\ UNCHANGED cursor
       ELSE /\ NextSlot("deadlines", "idle_sweep")
            /\ UNCHANGED state
    /\ UNCHANGED <<in_use, generation, client_wants_close, pendingVars, request, cancelled, wake,
                   stopping, workerVars, begun, accepted, historyVars>>

\* Mutant: deadlines are not enforced.
MutantSweepDeadlineNever ==
    /\ at = "deadlines"
    /\ NextSlot("deadlines", "idle_sweep")
    /\ UNCHANGED <<slotVars, pendingVars, request, cancelled, wake,
                   stopping, workerVars, begun, accepted, historyVars>>

\* sweep_pending_deadlines: an answer already posted wins over the deadline.
SweepDeadline ==
    /\ at = "deadlines"
    /\ IF in_use[cursor] /\ state[cursor] = "pending" /\ overdue[cursor]
          /\ ~pending_ready[cursor] /\ ~pending_cancelled[cursor]
       THEN /\ state' = [state EXCEPT ![cursor] = "sending"]
            /\ at' = "timeout" /\ UNCHANGED cursor
       ELSE /\ NextSlot("deadlines", "idle_sweep")
            /\ UNCHANGED state
    /\ UNCHANGED <<in_use, generation, client_wants_close, pendingVars, request, cancelled, wake,
                   stopping, workerVars, begun, accepted, historyVars>>

RespondTimeout ==
    /\ at = "timeout"
    /\ SerializeAndSend(cursor, "504", 0, TRUE)
    /\ NextSlot("deadlines", "idle_sweep")
    /\ UNCHANGED <<cancelled, wake, stopping, workerVars, begun, accepted, of, claim>>

\* sweep_idle_connections: a connection that waits on its peer may have been
\* idle for too long, or be closed to make room.  A parked one never is.
SweepIdle ==
    /\ at = "idle_sweep"
    /\ \/ /\ in_use[cursor] /\ state[cursor] \in {"handshaking", "receiving", "sending"}
          /\ Close(cursor)
       \/ UNCHANGED <<slotVars, pendingVars, request, conn, fate, answeredBy>>
    /\ NextSlot("idle_sweep", "top")
    /\ UNCHANGED <<cancelled, wake, stopping, workerVars, begun, accepted, of, claim>>

\* http_server_run's teardown.  The slot's state is left as it was.
Teardown ==
    /\ at = "teardown"
    /\ IF in_use[cursor]
       THEN /\ in_use' = [in_use EXCEPT ![cursor] = FALSE]
            /\ pending_ready' = [pending_ready EXCEPT ![cursor] = FALSE]
            /\ pending_cancelled' = [pending_cancelled EXCEPT ![cursor] = FALSE]
            /\ generation' = [generation EXCEPT ![cursor] = Bump(@)]
            /\ Ends(cursor, "dropped")
       ELSE UNCHANGED <<in_use, pending_ready, pending_cancelled, generation, fate>>
    /\ NextSlot("teardown", "done")
    /\ UNCHANGED <<state, client_wants_close, pending_response, overdue, request, cancelled, wake,
                   stopping, workerVars, begun, accepted, conn, of, claim, answeredBy>>

-------------------------------------------------------------------------------
(* The environment: the clock, and http_server_stop. *)

DeadlinePasses(s) ==
    /\ state[s] = "pending" /\ in_use[s] /\ ~overdue[s]
    /\ overdue' = [overdue EXCEPT ![s] = TRUE]
    /\ UNCHANGED <<slotVars, pending_ready, pending_cancelled, pending_response, request,
                   loopVars, wake, stopping, workerVars, begun, accepted, historyVars>>

Stop ==
    /\ ~stopping
    /\ stopping' = TRUE
    /\ UNCHANGED <<slotVars, pendingVars, request, loopVars, wake, workerVars, begun, accepted,
                   historyVars>>

Callback(s) ==
    Accept(s) \/ HandshakeDone(s) \/ ConnectionLost(s) \/ Receive(s) \/ RejectOversized(s)
    \/ FinishSend(s)

Handler == TakeTicket \/ HandlerResponds \/ HandlerCloses \/ HandlerDefers

BetweenPolls ==
    Enter \/ Poll \/ Flush \/ Serialize \/ SweepDeadline \/ RespondTimeout \/ SweepIdle
    \/ Teardown

Worker(w) == Wake(w) \/ \E r \in Requests, cancel \in BOOLEAN : Post(w, r, cancel)

Next ==
    \/ \E s \in Slots : Callback(s) \/ DeadlinePasses(s)
    \/ Handler
    \/ BetweenPolls
    \/ \E w \in Workers : Worker(w)
    \/ Stop

\* The loop thread keeps running: handlers return, run_once and the sweeps end.
\* The clock advances, so a deadline passes.  Nothing is assumed of peers, of
\* workers or of the handler's choice, and a stop need not come.
Fairness ==
    /\ WF_vars(HandlerResponds \/ HandlerCloses \/ HandlerDefers)
    /\ WF_vars(BetweenPolls)
    /\ \A s \in Slots : WF_vars(DeadlinePasses(s))

Spec     == Init /\ [][Next]_vars
FairSpec == Spec /\ Fairness

-------------------------------------------------------------------------------
(* Properties. *)

\* The exchange of request r is the one slot s works on.
WorksOn(s, r) == in_use[s] /\ request[s] = r /\ fate[r] = "open"

Parked(s) == in_use[s] /\ state[s] = "pending"

\* An answer posted through a ticket reaches only the connection the ticket was
\* taken on, however often its slot was recycled since: the generation check of
\* deferral_post against the bump in release_slot and in the teardown.
TicketStaysOnConnection ==
    \A r \in Requests :
        /\ claim[r] # 0 => of[claim[r]] = of[r]
        /\ answeredBy[r] # 0 => of[answeredBy[r]] = of[r]

\* A post that was answered "ok" decides the exchange: the request gets that
\* answer (or the 503 of that cancellation), unless its connection is lost.  The
\* deadline sweep never overtakes an accepted post, nor does a second one.
AcceptedPostDecides ==
    \A r \in Requests :
        /\ claim[r] # 0 => \/ fate[r] \in {"open", "dropped"}
                           \/ fate[r] \in {"app", "503"} /\ answeredBy[r] = claim[r]
        /\ fate[r] \in {"app", "503"} => claim[r] # 0

\* A posted answer never waits for a timer: while the loop sleeps in run_once
\* there is a wake-up outstanding or a poster about to issue one.
NoLostWakeup ==
    at = "poll" =>
        \A s \in Slots : Parked(s) /\ (pending_ready[s] \/ pending_cancelled[s]) =>
            wake \/ \E w \in Workers : posting[w]

\* While its exchange is parked and unanswered a ticket is good: releases, sweeps
\* and other exchanges never invalidate it by mistake.
ParkedTicketIsGood ==
    \A s \in Slots, r \in taken :
        WorksOn(s, r) /\ Parked(s) /\ claim[r] = 0 => PostResult(r) = "ok"

\* No exchange is forgotten: one that is open is in the hands of its handler, is
\* parked, or is being answered, in a slot still in use; and that slot alone.
NoOrphanExchange ==
    \A r \in Requests : fate[r] = "open" =>
        \E s \in Slots :
            /\ WorksOn(s, r) /\ \A q \in Slots : WorksOn(q, r) => q = s
            /\ \/ Parked(s)
               \/ cursor = s /\ at = "handler" /\ state[s] = "receiving"
               \/ cursor = s /\ at \in {"serialize", "timeout"} /\ state[s] = "sending"

\* Every request handed to a handler is eventually answered or its connection is
\* gone, whatever workers do with the ticket: the deadline sweep sees to it.
EveryExchangeEnds ==
    \A r \in Requests : fate[r] = "open" ~> fate[r] # "open"

\* The server implements the promise of ExchangePromise.
PhaseOf(r) ==
    IF fate[r] = "unseen" THEN "unseen"
    ELSE IF fate[r] = "dropped" THEN "dropped"
    ELSE IF fate[r] # "open" THEN "answered"
    ELSE IF at = "handler" /\ request[cursor] = r THEN "handling"
    ELSE IF claim[r] # 0 THEN "claimed"
    ELSE "parked"

Promise == INSTANCE ExchangePromise WITH
    phase     <- [r \in Requests |-> PhaseOf(r)],
    home      <- of,
    claimedBy <- claim,
    answer    <- answeredBy

KeepsPromise == Promise!PromiseSpec

-------------------------------------------------------------------------------
(* What the documentation says of tickets, and the code does not do. *)

\* A ticket whose exchange has been answered is refused from then on:
\* http_server.c says of a ticket taken by a handler that then responded that
\* the worker's post "will be rejected as stale", and http_server.h that a
\* completion of what "was already completed" is an error.
FinishedTicketRefused ==
    \A r \in taken : fate[r] \in {"handler", "app"} => PostResult(r) # "ok"
===============================================================================
