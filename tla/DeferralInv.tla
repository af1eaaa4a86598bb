------------------------------ MODULE DeferralInv ------------------------------
(***************************************************************************)
(* The inductive invariant behind the safety properties of Deferral.  Each *)
(* part says what one component of the state knows of another one.         *)
(***************************************************************************)
EXTENDS Deferral

\* Request numbers are given out in order; nothing is known of a later one.
InvNumbers ==
    /\ \A s \in Slots : request[s] <= begun
    /\ \A r \in Requests : fate[r] = "unseen" <=> r > begun
    /\ \A r \in Requests : claim[r] <= begun /\ (claim[r] # 0 => r <= begun)
    /\ \A r \in taken : r <= begun

\* No generation wraps: a slot was released at most once per connection, and a
\* slot in use has its present one still to release.
InvGenerations ==
    \A s \in Slots : generation[s] <= accepted /\ (in_use[s] => generation[s] < accepted)

\* A ticket is older than the generation of its slot, or of the connection the
\* slot holds now.
InvTickets ==
    \A r \in taken :
        LET s == of[r].slot IN
        \/ ticket[r] < generation[s]
        \/ ticket[r] = generation[s] /\ in_use[s] /\ of[r].conn = conn[s]

\* The open request of a slot came in on the connection the slot holds, and its
\* ticket, if taken, is of the slot's generation.
InvOpen ==
    \A s \in Slots, r \in Requests :
        request[s] = r /\ fate[r] = "open" =>
            /\ in_use[s]
            /\ of[r] = [slot |-> s, conn |-> conn[s]]
            /\ r \in taken => ticket[r] = generation[s]

\* Which slots work on an open request, and whether an answer was accepted for it.
InvParked ==
    \A s \in Slots : Parked(s) =>
        /\ request[s] # 0 /\ fate[request[s]] = "open"
        /\ IF pending_ready[s] \/ pending_cancelled[s]
           THEN pending_response[s] # 0 /\ claim[request[s]] = pending_response[s]
           ELSE claim[request[s]] = 0

InvHandler ==
    at = "handler" =>
        /\ in_use[cursor] /\ state[cursor] = "receiving"
        /\ request[cursor] # 0 /\ fate[request[cursor]] = "open"
        /\ claim[request[cursor]] = 0

InvSerialize ==
    at = "serialize" =>
        /\ in_use[cursor] /\ state[cursor] = "sending"
        /\ request[cursor] # 0 /\ fate[request[cursor]] = "open"
        /\ pending_response[cursor] # 0 /\ claim[request[cursor]] = pending_response[cursor]

InvTimeout ==
    at = "timeout" =>
        /\ in_use[cursor] /\ state[cursor] = "sending"
        /\ request[cursor] # 0 /\ fate[request[cursor]] = "open"
        /\ claim[request[cursor]] = 0

\* An answer is that of the accepted post, which a ticket of the same connection
\* made.
InvClaims ==
    \A r \in Requests :
        /\ answeredBy[r] # 0 => answeredBy[r] = claim[r]
        /\ claim[r] # 0 => of[claim[r]] = of[r]

\* A free slot is idle while the loop runs; connections are numbered in order.
InvCursor == at \in {"top", "poll"} => cursor = 1

InvFree == \A s \in Slots : ~in_use[s] => at \in {"teardown", "done"} \/ state[s] = "idle"

\* A posted answer is announced, or the flush has still to come to its slot.
InvWake ==
    \A s \in Slots : Parked(s) /\ (pending_ready[s] \/ pending_cancelled[s]) =>
        \/ wake
        \/ \E w \in Workers : posting[w]
        \/ at = "flush" /\ cursor <= s
        \/ at = "serialize" /\ cursor < s
        \/ at \in {"teardown", "done"}

IInv ==
    /\ TypeOK
    /\ InvNumbers /\ InvGenerations /\ InvTickets /\ InvOpen /\ InvParked
    /\ InvHandler /\ InvSerialize /\ InvTimeout /\ InvClaims /\ InvCursor /\ InvFree /\ InvWake
    /\ AcceptedPostDecides /\ NoOrphanExchange
================================================================================
