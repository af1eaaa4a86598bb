---------------------------- MODULE ExchangePromise ----------------------------
(***************************************************************************)
(* What the server promises about an exchange, whatever slots, locks and   *)
(* sweeps it is made of:                                                   *)
(*   - a connection works on one request at a time, in the order received; *)
(*   - a request gets at most one answer: its handler's, the server's own  *)
(*     or the one posted through a ticket taken on the SAME connection;    *)
(*   - at most one post is accepted for a request, only while it is parked,*)
(*     and from then on it is that post or nothing: no timeout overtakes   *)
(*     it, a lost connection may still drop it.                            *)
(***************************************************************************)
EXTENDS Naturals

CONSTANT MaxRequests

Requests == 1..MaxRequests

VARIABLES
    phase,     \* where a request stands
    home,      \* the connection it came from
    claimedBy, \* request whose ticket's post was accepted for it, 0: none
    answer     \* request whose ticket supplied its answer, 0: none

promiseVars == <<phase, home, claimedBy, answer>>

Ended(r) == phase[r] \in {"answered", "dropped"}

PromiseInit ==
    /\ phase = [r \in Requests |-> "unseen"]
    /\ claimedBy = [r \in Requests |-> 0]
    /\ answer = [r \in Requests |-> 0]

\* One request at a time on a connection.
Begin(r) ==
    /\ phase[r] = "unseen"
    /\ \A q \in Requests \ {r} : IF q < r THEN phase[q] # "unseen" ELSE phase[q] = "unseen"
    /\ phase' = [phase EXCEPT ![r] = "handling"]
    /\ \A q \in Requests \ {r} : home'[q] = home[q]
    /\ \A q \in Requests \ {r} : home'[q] = home'[r] /\ phase[q] # "unseen" => Ended(q)
    /\ UNCHANGED <<claimedBy, answer>>

Reply(r) ==
    /\ phase[r] = "handling"
    /\ phase' = [phase EXCEPT ![r] = "answered"]
    /\ UNCHANGED <<home, claimedBy, answer>>

Park(r) ==
    /\ phase[r] = "handling"
    /\ phase' = [phase EXCEPT ![r] = "parked"]
    /\ UNCHANGED <<home, claimedBy, answer>>

\* The post made through the ticket of t is accepted for r.
Claim(r, t) ==
    /\ phase[r] = "parked"
    /\ phase[t] # "unseen" /\ home[t] = home[r]
    /\ phase' = [phase EXCEPT ![r] = "claimed"]
    /\ claimedBy' = [claimedBy EXCEPT ![r] = t]
    /\ UNCHANGED <<home, answer>>

Deliver(r) ==
    /\ phase[r] = "claimed"
    /\ phase' = [phase EXCEPT ![r] = "answered"]
    /\ answer' = [answer EXCEPT ![r] = claimedBy[r]]
    /\ UNCHANGED <<home, claimedBy>>

TimeOut(r) ==
    /\ phase[r] = "parked"
    /\ phase' = [phase EXCEPT ![r] = "answered"]
    /\ UNCHANGED <<home, claimedBy, answer>>

DropExchange(r) ==
    /\ phase[r] \in {"handling", "parked", "claimed"}
    /\ phase' = [phase EXCEPT ![r] = "dropped"]
    /\ UNCHANGED <<home, claimedBy, answer>>

PromiseNext ==
    \E r \in Requests :
        \/ Begin(r) \/ Reply(r) \/ Park(r) \/ Deliver(r) \/ TimeOut(r) \/ DropExchange(r)
        \/ \E t \in Requests : Claim(r, t)

PromiseSpec == PromiseInit /\ [][PromiseNext]_promiseVars
================================================================================
