----------------------------- MODULE Server_proofs -----------------------------
(***************************************************************************)
(* Proofs about the server: first Deferral, its inductive invariant and    *)
(* the safety properties that follow from it, for any number of slots,     *)
(* workers, requests and connections; then ServerLifecycle, what the       *)
(* application may rely on when it is told "running" or "stopped", for any *)
(* number of threads that call http_server_stop, any number of times.      *)
(*                                                                         *)
(* Most steps of the loop thread of Deferral end the work on one slot      *)
(* either by closing its connection (CloseStep) or by handing it a         *)
(* response (SendStep), or begin work on a request (BeginStep).  Those     *)
(* three are proved once and used by every action built from them.         *)
(***************************************************************************)
EXTENDS DeferralInv, ServerLifecycle, TLAPS

-------------------------------------------------------------------------------
(* Types. *)

\* A generation that is counted up is a generation.
LEMMA BumpType ==
    ASSUME NEW g \in 0..(GenModulus - 1)
    PROVE  Bump(g) \in 0..(GenModulus - 1)
  BY ReuseAssumption DEF Bump

\* Below the bound on connections the generation counter counts; it does not wrap.
LEMMA BumpCounts ==
    ASSUME NEW g \in Nat, g < MaxConnections
    PROVE  Bump(g) = g + 1
  BY ReuseAssumption DEF Bump

\* A slot that is released is of its type.
LEMMA ReleaseType ==
    ASSUME TypeOK, NEW s \in Slots, Release(s)
    PROVE  /\ in_use' \in [Slots -> BOOLEAN]
           /\ state' \in [Slots -> SlotState]
           /\ generation' \in [Slots -> 0..(GenModulus - 1)]
           /\ pending_ready' \in [Slots -> BOOLEAN]
           /\ pending_cancelled' \in [Slots -> BOOLEAN]
  <1>1. generation[s] \in 0..(GenModulus - 1)
    BY DEF TypeOK
  <1>2. Bump(generation[s]) \in 0..(GenModulus - 1)
    BY <1>1, BumpType
  <1> QED
    BY <1>2 DEF TypeOK, Release, SlotState

\* A request that ends has a fate.
LEMMA EndsType ==
    ASSUME TypeOK, NEW s, NEW how \in Fate, Ends(s, how)
    PROVE  fate' \in [Requests -> Fate]
  BY DEF TypeOK, Ends

-------------------------------------------------------------------------------
\* Two slots never work on the same request.
LEMMA OneSlotPerRequest ==
    ASSUME InvOpen, NEW s \in Slots, NEW q \in Slots, request[s] = request[q],
           request[s] \in Requests, fate[request[s]] = "open"
    PROVE  s = q
  <1>1. of[request[s]] = [slot |-> s, conn |-> conn[s]]
    BY DEF InvOpen
  <1>2. of[request[s]] = [slot |-> q, conn |-> conn[q]]
    BY DEF InvOpen
  <1> QED
    BY <1>1, <1>2

\* A parked slot works on an open request.
LEMMA ParkedHasRequest ==
    ASSUME TypeOK, InvParked, NEW s \in Slots, Parked(s)
    PROVE  request[s] \in Requests /\ fate[request[s]] = "open"
  <1>1. request[s] # 0 /\ fate[request[s]] = "open"
    BY DEF InvParked
  <1>2. request[s] \in 0..MaxRequests
    BY DEF TypeOK
  <1> QED
    BY <1>1, <1>2, MaxRequestsAssumption DEF Requests

\* So does the slot the loop thread is busy with.
LEMMA HeldRequest ==
    ASSUME TypeOK, InvHandler, InvSerialize, InvTimeout,
           at \in {"handler", "serialize", "timeout"}
    PROVE  request[cursor] \in Requests /\ fate[request[cursor]] = "open"
  <1>1. request[cursor] # 0 /\ fate[request[cursor]] = "open"
    BY DEF InvHandler, InvSerialize, InvTimeout
  <1>2. request[cursor] \in 0..MaxRequests
    BY DEF TypeOK
  <1> QED
    BY <1>1, <1>2, MaxRequestsAssumption DEF Requests

-------------------------------------------------------------------------------
(* The loop thread ends its work on slot s. *)

\* Variables that neither closing a connection nor sending a response touches.
Outside == <<wake, posting, taken, ticket, begun, accepted, of, claim>>

\* Where the loop thread goes next when it is done with slot s.
LoopMoves(s) ==
    /\ at' \in Phase /\ cursor' \in Slots
    /\ at \notin {"flush", "teardown", "done"}
    /\ at' \notin {"handler", "serialize", "timeout"}
    /\ at \in {"handler", "serialize", "timeout"} => s = cursor
    /\ at' \in {"top", "poll"} => cursor' = 1
    /\ at = "serialize" => \/ at' = "flush" /\ cursor' = cursor + 1
                           \/ cursor = SlotCount

\* Closing a connection, wherever the loop is, keeps the invariant.
LEMMA CloseStep ==
    ASSUME IInv, NEW s \in Slots, in_use[s], Close(s), LoopMoves(s), cancelled' \in BOOLEAN,
           stopping' \in BOOLEAN, UNCHANGED Outside
    PROVE  IInv'
  <1> USE DEF IInv, Close, LoopMoves, Outside
  <1>1. TypeOK'
    <2>1. fate' \in [Requests -> Fate]
      BY EndsType DEF Fate
    <2> QED
      BY <2>1, ReleaseType DEF TypeOK
  <1>2. generation' = [generation EXCEPT ![s] = @ + 1]
    <2>1. generation[s] \in Nat /\ generation[s] < MaxConnections
      BY ReuseAssumption DEF InvGenerations, TypeOK
    <2> QED
      BY <2>1, BumpCounts DEF Release
  <1>3. /\ state' = [state EXCEPT ![s] = "idle"]
        /\ in_use' = [in_use EXCEPT ![s] = FALSE]
        /\ pending_ready' = [pending_ready EXCEPT ![s] = FALSE]
        /\ pending_cancelled' = [pending_cancelled EXCEPT ![s] = FALSE]
    BY DEF Release
  <1>4. fate' = [r \in Requests |-> IF r = request[s] /\ fate[r] = "open" THEN "dropped" ELSE fate[r]]
    BY DEF Ends
  <1> USE <1>1, <1>2, <1>3, <1>4
  <1>5. InvNumbers'
    BY DEF InvNumbers, TypeOK
  <1>6. InvGenerations'
    BY ReuseAssumption DEF InvGenerations, TypeOK
  <1>7. InvTickets'
    BY DEF InvTickets, TypeOK
  <1>8. InvOpen'
    BY DEF InvOpen, TypeOK
  <1>9. InvParked'
    <2> SUFFICES ASSUME NEW q \in Slots, Parked(q)'
                 PROVE  InvParked!(q)!2'
      BY DEF InvParked
    <2>1. q # s /\ Parked(q)
      BY DEF Parked, TypeOK
    <2>2. request[q] \in Requests /\ fate[request[q]] = "open"
      BY <2>1, ParkedHasRequest
    <2>3. request[q] # request[s]
      BY <2>1, <2>2, OneSlotPerRequest
    <2> QED
      BY <2>1, <2>2, <2>3 DEF InvParked, TypeOK
  <1>10. InvHandler' /\ InvSerialize' /\ InvTimeout' /\ InvCursor'
    BY DEF InvHandler, InvSerialize, InvTimeout, InvCursor, TypeOK
  <1>11. InvClaims'
    BY DEF InvClaims, TypeOK
  <1>12. InvFree'
    BY DEF InvFree, TypeOK
  <1>13. InvWake'
    BY DEF InvWake, Parked, TypeOK, Slots
  <1>14. AcceptedPostDecides'
    BY DEF AcceptedPostDecides, TypeOK
  <1>15. NoOrphanExchange'
    BY DEF NoOrphanExchange, WorksOn, Parked, InvOpen, TypeOK
  <1> QED
    BY <1>5, <1>6, <1>7, <1>8, <1>9, <1>10, <1>11, <1>12, <1>13, <1>14, <1>15

\* A response ends the open request of slot s as its state of claims demands.
Justified(s, how, by) ==
    \A r \in Requests : r = request[s] /\ fate[r] = "open" =>
        by = claim[r] /\ (how \in {"app", "503"} <=> claim[r] # 0)

\* Serializing a response and sending it, wherever the loop is, keeps the invariant.
LEMMA SendStep ==
    ASSUME IInv, NEW s \in Slots, in_use[s], state[s] # "pending",
           NEW how \in {"handler", "app", "503", "504"}, NEW by \in 0..MaxRequests,
           NEW close \in BOOLEAN, SerializeAndSend(s, how, by, close), Justified(s, how, by),
           LoopMoves(s), cancelled' \in BOOLEAN, stopping' \in BOOLEAN, UNCHANGED Outside
    PROVE  IInv'
  <1>1. CASE Close(s)
    BY <1>1, CloseStep
  <1>2. CASE ~Close(s)
    <2> USE DEF IInv, LoopMoves, Outside, pendingVars
    <2>1. /\ state' = [state EXCEPT ![s] = "sending"]
          /\ client_wants_close' = [client_wants_close EXCEPT ![s] = @ \/ close]
          /\ answeredBy' = [r \in Requests |->
                               IF r = request[s] /\ fate[r] = "open" THEN by ELSE answeredBy[r]]
          /\ UNCHANGED <<in_use, generation, pendingVars, request, conn>>
      BY <1>2 DEF SerializeAndSend
    <2>2. fate' = [r \in Requests |-> IF r = request[s] /\ fate[r] = "open" THEN how ELSE fate[r]]
      BY <1>2 DEF SerializeAndSend, Ends
    <2>3. TypeOK'
      BY <2>1, <2>2 DEF TypeOK, SlotState, Fate
    <2>4. InvNumbers'
      BY <2>1, <2>2 DEF InvNumbers, TypeOK
    <2>5. InvGenerations'
      BY <2>1 DEF InvGenerations
    <2>6. InvTickets'
      BY <2>1 DEF InvTickets
    <2>7. InvOpen'
      BY <2>1, <2>2 DEF InvOpen, TypeOK
    <2>8. InvParked'
      <3> SUFFICES ASSUME NEW q \in Slots, Parked(q)'
                   PROVE  InvParked!(q)!2'
        BY DEF InvParked
      <3>1. q # s /\ Parked(q)
        BY <2>1 DEF Parked, TypeOK
      <3>2. request[q] \in Requests /\ fate[request[q]] = "open"
        BY <3>1, ParkedHasRequest
      <3>3. request[q] # request[s]
        BY <3>1, <3>2, OneSlotPerRequest
      <3> QED
        BY <2>1, <2>2, <3>1, <3>2, <3>3 DEF InvParked, TypeOK
    <2>9. InvHandler' /\ InvSerialize' /\ InvTimeout' /\ InvCursor'
      BY DEF InvHandler, InvSerialize, InvTimeout, InvCursor
    <2>10. InvClaims'
      BY <2>1 DEF InvClaims, Justified, TypeOK
    <2>11. InvFree'
      BY <2>1 DEF InvFree, TypeOK
    <2>12. InvWake'
      BY <2>1 DEF InvWake, Parked, TypeOK, Slots
    <2>13. AcceptedPostDecides'
      BY <2>1, <2>2 DEF AcceptedPostDecides, Justified, TypeOK
    <2>14. NoOrphanExchange'
      BY <2>1, <2>2 DEF NoOrphanExchange, WorksOn, Parked, TypeOK
    <2> QED
      BY <2>3, <2>4, <2>5, <2>6, <2>7, <2>8, <2>9, <2>10, <2>11, <2>12, <2>13, <2>14
  <1> QED
    BY <1>1, <1>2

-------------------------------------------------------------------------------
(* Work on a request begins. *)

\* During the poll a slot that is not parked has no open request.
LEMMA SettledSlot ==
    ASSUME NoOrphanExchange, NEW s \in Slots, in_use[s], state[s] # "pending", at = "poll",
           request[s] \in Requests
    PROVE  fate[request[s]] # "open"
  BY DEF NoOrphanExchange, WorksOn, Parked

\* The next request of a connection keeps the invariant.
LEMMA BeginStep ==
    ASSUME IInv, NEW s \in Slots, in_use[s], state[s] \in {"receiving", "sending"}, at = "poll",
           BeginRequest(s),
           UNCHANGED <<in_use, generation, pendingVars, cancelled, wake, stopping, workerVars,
                       accepted, conn, claim, answeredBy>>
    PROVE  IInv'
  <1> DEFINE r0 == begun + 1
  <1> USE DEF IInv, BeginRequest, pendingVars, workerVars
  <1>1. r0 \in Requests /\ begun' \in 0..MaxRequests /\ begun \in Nat
    BY MaxRequestsAssumption DEF TypeOK, Requests
  <1>2. fate[r0] = "unseen" /\ claim[r0] = 0 /\ r0 \notin taken
    BY <1>1, MaxRequestsAssumption DEF InvNumbers, TypeOK, Requests
  <1>3. TypeOK'
    <2>1. request' \in [Slots -> 0..MaxRequests] /\ of' \in [Requests -> [slot : Slots, conn : Nat]]
      BY <1>1 DEF TypeOK, Requests
    <2>2. /\ fate' \in [Requests -> Fate] /\ client_wants_close' \in [Slots -> BOOLEAN]
          /\ state' \in [Slots -> SlotState]
      BY <1>1 DEF TypeOK, Fate, SlotState
    <2> QED
      BY <1>1, <2>1, <2>2 DEF TypeOK, Phase
  <1>4. InvNumbers'
    <2>1. \A q \in Slots : request'[q] <= begun'
      BY <1>1, MaxRequestsAssumption DEF InvNumbers, TypeOK
    <2>2. \A r \in Requests : fate'[r] = "unseen" <=> r > begun'
      BY <1>1 DEF InvNumbers, TypeOK, Requests
    <2>3. \A r \in Requests : claim[r] \in Nat
      BY MaxRequestsAssumption DEF TypeOK
    <2>4. /\ \A r \in Requests : claim'[r] <= begun' /\ (claim'[r] # 0 => r <= begun')
          /\ \A r \in taken' : r <= begun'
      BY <1>1, <2>3 DEF InvNumbers, TypeOK, Requests
    <2> QED
      BY <2>1, <2>2, <2>4 DEF InvNumbers
  <1>5. InvGenerations' /\ InvCursor'
    BY DEF InvGenerations, InvCursor
  <1>6. InvTickets'
    BY <1>2 DEF InvTickets, TypeOK
  <1>7. InvOpen'
    BY <1>1, <1>2 DEF InvOpen, TypeOK, InvNumbers
  <1>8. InvParked'
    <2> SUFFICES ASSUME NEW q \in Slots, Parked(q)'
                 PROVE  InvParked!(q)!2'
      BY DEF InvParked
    <2>1. q # s /\ Parked(q)
      BY DEF Parked, TypeOK
    <2>2. request[q] \in Requests /\ fate[request[q]] = "open"
      BY <2>1, ParkedHasRequest
    <2>3. request[q] # r0
      BY <1>2, <2>2
    <2> QED
      BY <1>1, <2>1, <2>2, <2>3 DEF InvParked, TypeOK
  <1>9. InvHandler' /\ InvSerialize' /\ InvTimeout'
    BY <1>1, <1>2 DEF InvHandler, InvSerialize, InvTimeout, TypeOK, Requests
  <1>10. InvClaims'
    <2>1. ASSUME NEW r \in Requests, claim[r] # 0
          PROVE  claim[r] \in Requests /\ claim[r] # r0 /\ r # r0
      <3>1. claim[r] \in 0..MaxRequests
        BY DEF TypeOK
      <3>2. claim[r] <= begun /\ r <= begun
        BY <2>1 DEF InvNumbers
      <3> QED
        BY <1>1, <2>1, <3>1, <3>2, MaxRequestsAssumption DEF Requests
    <2>2. \A r \in Requests : r # r0 => of'[r] = of[r]
      BY DEF TypeOK
    <2> QED
      BY <2>1, <2>2 DEF InvClaims
  <1>11. InvFree'
    BY DEF InvFree, TypeOK
  <1>12. InvWake'
    BY DEF InvWake, Parked, TypeOK
  <1>13. AcceptedPostDecides'
    BY <1>1, <1>2 DEF AcceptedPostDecides, TypeOK
  <1>14. NoOrphanExchange'
    BY <1>1, <1>2, SettledSlot, SMTT(40) DEF NoOrphanExchange, WorksOn, Parked, TypeOK, InvNumbers
  <1> QED
    BY <1>3, <1>4, <1>5, <1>6, <1>7, <1>8, <1>9, <1>10, <1>11, <1>12, <1>13, <1>14

-------------------------------------------------------------------------------
(* The other steps, one lemma per action. *)

\* Accepting a connection keeps the invariant.
LEMMA AcceptStep ==
    ASSUME IInv, NEW s \in Slots, Accept(s)
    PROVE  IInv'
  <1> USE DEF IInv, loopVars, workerVars
  <1>1. /\ at = "poll" /\ ~in_use[s] /\ accepted < MaxConnections /\ accepted' = accepted + 1
        /\ UNCHANGED <<pending_response, overdue, request, at, cursor, cancelled, wake, stopping,
                       posting, taken, ticket, begun, of, fate, claim, answeredBy>>
    BY DEF Accept, FirstFree
  <1>0. generation[s] \in Nat /\ generation[s] < MaxConnections
    BY <1>1, ReuseAssumption DEF InvGenerations, TypeOK
  <1>2. generation' \in [Slots -> 0..(GenModulus - 1)]
        /\ (generation' = generation \/ generation' = [generation EXCEPT ![s] = @ + 1])
    BY <1>0, BumpCounts, ReleaseType DEF Accept, Release, TypeOK
  <1>3. /\ \E st \in {"idle", "handshaking", "receiving"} : state' = [state EXCEPT ![s] = st]
        /\ \E b \in BOOLEAN : in_use' = [in_use EXCEPT ![s] = b]
        /\ pending_ready' = [pending_ready EXCEPT ![s] = FALSE]
        /\ pending_cancelled' = [pending_cancelled EXCEPT ![s] = FALSE]
        /\ ~in_use'[s] => state'[s] = "idle" /\ generation' = [generation EXCEPT ![s] = @ + 1]
        /\ in_use'[s] => generation' = generation
    <2>1. CASE Release(s)
      <3>1. Bump(generation[s]) = generation[s] + 1
        BY <1>0, BumpCounts
      <3> QED
        BY <2>1, <3>1 DEF Release, TypeOK
    <2>2. CASE ~Release(s)
      BY <2>2 DEF Accept, TypeOK
    <2> QED
      BY <2>1, <2>2
  <1>4. TypeOK'
    <2>1. state' \in [Slots -> SlotState] /\ in_use' \in [Slots -> BOOLEAN]
          /\ pending_ready' \in [Slots -> BOOLEAN] /\ pending_cancelled' \in [Slots -> BOOLEAN]
      BY <1>3 DEF TypeOK, SlotState
    <2>2. \/ client_wants_close' = client_wants_close /\ conn' = conn
          \/ /\ conn' = [conn EXCEPT ![s] = accepted + 1]
             /\ client_wants_close' = [client_wants_close EXCEPT ![s] = FALSE]
      BY DEF Accept
    <2>3. accepted' \in 0..MaxConnections /\ conn' \in [Slots -> Nat]
      BY <1>1, <2>2, ReuseAssumption DEF TypeOK
    <2>4. client_wants_close' \in [Slots -> BOOLEAN]
      BY <2>2 DEF TypeOK
    <2> QED
      BY <1>1, <1>2, <2>1, <2>3, <2>4 DEF TypeOK
  <1>5. \A q \in Slots : q # s => /\ state'[q] = state[q] /\ in_use'[q] = in_use[q]
                                  /\ conn'[q] = conn[q] /\ generation'[q] = generation[q]
    BY <1>2, <1>3 DEF Accept, TypeOK
  <1>6. ~Parked(s)' /\ \A r \in Requests : ~(request[s] = r /\ fate[r] = "open")
    BY <1>1, <1>3, <1>4 DEF Parked, InvOpen, TypeOK
  <1>7. InvNumbers' /\ InvClaims' /\ InvCursor' /\ AcceptedPostDecides'
    BY <1>1 DEF InvNumbers, InvClaims, InvCursor, AcceptedPostDecides
  <1>8. InvGenerations'
    BY <1>1, <1>2, <1>3, <1>4, ReuseAssumption DEF InvGenerations, TypeOK
  <1>9. InvTickets'
    BY <1>1, <1>2, <1>3, <1>5, ReuseAssumption DEF InvTickets, TypeOK
  <1>10. InvOpen'
    BY <1>1, <1>5, <1>6 DEF InvOpen
  <1>11. InvParked'
    BY <1>1, <1>3, <1>5, <1>6 DEF InvParked, Parked, TypeOK
  <1>12. InvHandler' /\ InvSerialize' /\ InvTimeout'
    BY <1>1 DEF InvHandler, InvSerialize, InvTimeout
  <1>13. InvFree'
    BY <1>1, <1>3, <1>5 DEF InvFree
  <1>14. InvWake'
    BY <1>1, <1>3, <1>5, <1>6 DEF InvWake, Parked, TypeOK
  <1>15. NoOrphanExchange'
    BY <1>1, <1>5, <1>6 DEF NoOrphanExchange, WorksOn, Parked
  <1> QED
    BY <1>4, <1>7, <1>8, <1>9, <1>10, <1>11, <1>12, <1>13, <1>14, <1>15

\* A connection starts, or resumes, waiting for a request.
LEMMA ToReceivingStep ==
    ASSUME IInv, NEW s \in Slots, at = "poll", state[s] \in {"handshaking", "sending"},
           state' = [state EXCEPT ![s] = "receiving"],
           UNCHANGED <<in_use, generation, client_wants_close, pendingVars, request, loopVars,
                       wake, stopping, workerVars, begun, accepted, historyVars>>
    PROVE  IInv'
  <1> USE DEF IInv, slotVars, pendingVars, loopVars, workerVars, historyVars
  <1>1. TypeOK'
    BY DEF TypeOK, SlotState
  <1>2. \A q \in Slots : Parked(q)' = Parked(q) /\ ~Parked(s)
    BY DEF Parked, TypeOK
  <1>3. InvNumbers' /\ InvGenerations' /\ InvTickets' /\ InvOpen' /\ InvClaims' /\ InvCursor'
        /\ AcceptedPostDecides'
    BY DEF InvNumbers, InvGenerations, InvTickets, InvOpen, InvClaims, InvCursor,
           AcceptedPostDecides
  <1>4. InvHandler' /\ InvSerialize' /\ InvTimeout'
    BY DEF InvHandler, InvSerialize, InvTimeout
  <1>5. in_use[s]
    BY DEF InvFree
  <1>6. InvFree'
    BY <1>5 DEF InvFree, TypeOK
  <1>7. InvParked' /\ InvWake'
    BY <1>2 DEF InvParked, InvWake
  <1>8. NoOrphanExchange'
    BY <1>2 DEF NoOrphanExchange, WorksOn
  <1> QED
    BY <1>1, <1>3, <1>4, <1>6, <1>7, <1>8

\* The loop thread goes from one phase or slot to another and does nothing else.
LEMMA MoveOnStep ==
    ASSUME IInv,
           at \notin {"handler", "serialize", "timeout"},
           at' \in Phase \ {"handler", "serialize", "timeout"},
           at \in {"teardown", "done"} => at' \in {"teardown", "done"},
           cursor' \in Slots, wake' \in BOOLEAN, InvCursor', InvWake',
           UNCHANGED <<slotVars, pendingVars, request, cancelled, stopping, workerVars, begun,
                       accepted, historyVars>>
    PROVE  IInv'
  <1> USE DEF IInv, slotVars, pendingVars, workerVars, historyVars
  <1>1. TypeOK'
    BY DEF TypeOK
  <1>2. InvNumbers' /\ InvGenerations' /\ InvTickets' /\ InvOpen' /\ InvClaims'
        /\ AcceptedPostDecides'
    BY DEF InvNumbers, InvGenerations, InvTickets, InvOpen, InvClaims, AcceptedPostDecides
  <1>3. InvParked' /\ InvHandler' /\ InvSerialize' /\ InvTimeout' /\ InvFree'
    BY DEF InvParked, Parked, InvHandler, InvSerialize, InvTimeout, InvFree
  <1>4. NoOrphanExchange'
    BY DEF NoOrphanExchange, WorksOn, Parked
  <1> QED
    BY <1>1, <1>2, <1>3, <1>4

\* The environment and a stuttering step: nothing the invariant speaks of moves.
LEMMA QuietStep ==
    ASSUME IInv, overdue' \in [Slots -> BOOLEAN], stopping' \in BOOLEAN,
           UNCHANGED <<slotVars, pending_ready, pending_cancelled, pending_response, request,
                       loopVars, wake, workerVars, begun, accepted, historyVars>>
    PROVE  IInv'
  <1> USE DEF IInv, slotVars, loopVars, workerVars, historyVars
  <1>1. TypeOK'
    BY DEF TypeOK
  <1>2. InvNumbers' /\ InvGenerations' /\ InvTickets' /\ InvOpen' /\ InvClaims'
        /\ AcceptedPostDecides' /\ InvCursor'
    BY DEF InvNumbers, InvGenerations, InvTickets, InvOpen, InvClaims, AcceptedPostDecides,
           InvCursor
  <1>3. InvParked' /\ InvHandler' /\ InvSerialize' /\ InvTimeout' /\ InvFree' /\ InvWake'
    BY DEF InvParked, Parked, InvHandler, InvSerialize, InvTimeout, InvFree, InvWake
  <1>4. NoOrphanExchange'
    BY DEF NoOrphanExchange, WorksOn, Parked
  <1> QED
    BY <1>1, <1>2, <1>3, <1>4

\* http_exchange_defer, which gives the handler its ticket, keeps the invariant.
LEMMA TakeTicketStep ==
    ASSUME IInv, TakeTicket
    PROVE  IInv'
  <1> USE DEF IInv, TakeTicket, slotVars, pendingVars, loopVars, historyVars
  <1>1. request[cursor] \in Requests /\ cursor \in Slots
    BY MaxRequestsAssumption DEF InvHandler, TypeOK, Requests
  <1>2. of[request[cursor]] = [slot |-> cursor, conn |-> conn[cursor]]
    BY <1>1 DEF InvHandler, InvOpen
  <1>3. TypeOK'
    BY <1>1 DEF TypeOK
  <1>4. InvNumbers'
    BY <1>1 DEF InvNumbers, TypeOK
  <1>5. InvTickets'
    BY <1>1, <1>2 DEF InvTickets, InvHandler, TypeOK
  <1>6. InvOpen'
    BY <1>1, <1>2 DEF InvOpen, TypeOK
  <1>7. InvGenerations' /\ InvClaims' /\ AcceptedPostDecides' /\ InvCursor'
    BY DEF InvGenerations, InvClaims, AcceptedPostDecides, InvCursor
  <1>8. InvParked' /\ InvHandler' /\ InvSerialize' /\ InvTimeout' /\ InvFree' /\ InvWake'
    BY DEF InvParked, Parked, InvHandler, InvSerialize, InvTimeout, InvFree, InvWake
  <1>9. NoOrphanExchange'
    BY DEF NoOrphanExchange, WorksOn, Parked
  <1> QED
    BY <1>3, <1>4, <1>5, <1>6, <1>7, <1>8, <1>9

\* A handler that returns deferred parks its exchange and keeps the invariant.
LEMMA DefersStep ==
    ASSUME IInv, HandlerDefers
    PROVE  IInv'
  <1> USE DEF IInv, HandlerDefers, BackToPoll, workerVars, historyVars
  <1>1. request[cursor] \in Requests /\ cursor \in Slots
    BY MaxRequestsAssumption DEF InvHandler, TypeOK, Requests
  <1>2. TypeOK'
    <2>1. state' \in [Slots -> SlotState] /\ overdue' \in [Slots -> BOOLEAN]
          /\ pending_ready' \in [Slots -> BOOLEAN] /\ pending_cancelled' \in [Slots -> BOOLEAN]
      BY DEF TypeOK, SlotState
    <2>2. cursor' \in Slots
      BY SlotCountAssumption DEF Slots
    <2> QED
      BY <2>1, <2>2 DEF TypeOK, Phase
  <1>3. InvNumbers' /\ InvGenerations' /\ InvTickets' /\ InvOpen' /\ InvClaims'
        /\ AcceptedPostDecides' /\ InvCursor'
    BY DEF InvNumbers, InvGenerations, InvTickets, InvOpen, InvClaims, AcceptedPostDecides,
           InvCursor
  <1>4. InvParked'
    BY <1>1 DEF InvParked, Parked, InvHandler, TypeOK
  <1>5. InvHandler' /\ InvSerialize' /\ InvTimeout'
    BY DEF InvHandler, InvSerialize, InvTimeout
  <1>6. InvFree'
    BY <1>1 DEF InvFree, InvHandler, TypeOK
  <1>7. InvWake'
    BY <1>1 DEF InvWake, Parked, TypeOK
  <1>8. NoOrphanExchange'
    BY <1>1 DEF NoOrphanExchange, WorksOn, Parked, InvHandler, TypeOK
  <1> QED
    BY <1>2, <1>3, <1>4, <1>5, <1>6, <1>7, <1>8

\* The answer or cancellation of a worker keeps the invariant.
LEMMA PostStep ==
    ASSUME IInv, NEW w \in Workers, NEW r \in Requests, NEW cancel \in BOOLEAN, Post(w, r, cancel)
    PROVE  IInv'
  <1> DEFINE s == of[r].slot
  <1> USE DEF IInv, slotVars, loopVars
  <1>1. /\ r \in taken /\ in_use[s] /\ state[s] = "pending" /\ generation[s] = ticket[r]
        /\ ~pending_ready[s] /\ ~pending_cancelled[s]
    BY DEF Post, PostResult
  <1>2. s \in Slots /\ of[r] = [slot |-> s, conn |-> of[r].conn]
    BY DEF TypeOK
  <1>3. /\ UNCHANGED <<slotVars, overdue, request, loopVars, wake, stopping, taken, ticket, begun,
                       accepted, conn, of, fate, answeredBy>>
        /\ pending_response' = [pending_response EXCEPT ![s] = r]
        /\ claim' = [claim EXCEPT ![request[s]] = r]
        /\ posting' = [posting EXCEPT ![w] = TRUE]
    BY DEF Post
  <1>4. \/ /\ pending_cancelled' = [pending_cancelled EXCEPT ![s] = TRUE]
           /\ pending_ready' = pending_ready
        \/ /\ pending_ready' = [pending_ready EXCEPT ![s] = TRUE]
           /\ pending_cancelled' = pending_cancelled
    BY DEF Post
  <1>5. request[s] \in Requests /\ fate[request[s]] = "open" /\ claim[request[s]] = 0
    <2>1. Parked(s)
      BY <1>1 DEF Parked
    <2>2. claim[request[s]] = 0
      BY <1>1, <1>2, <2>1 DEF InvParked
    <2> QED
      BY <1>2, <2>1, <2>2, ParkedHasRequest
  <1>6. of[r] = of[request[s]]
    <2>1. of[request[s]] = [slot |-> s, conn |-> conn[s]]
      BY <1>2, <1>5 DEF InvOpen
    <2>2. of[r].conn = conn[s]
      <3>1. ticket[r] \in Nat
        BY ReuseAssumption DEF TypeOK
      <3> QED
        BY <1>1, <3>1 DEF InvTickets
    <2> QED
      BY <1>2, <2>1, <2>2
  <1>7. TypeOK'
    <2>1. posting' \in [Workers -> BOOLEAN] /\ pending_ready' \in [Slots -> BOOLEAN]
          /\ pending_cancelled' \in [Slots -> BOOLEAN]
      BY <1>3, <1>4 DEF TypeOK
    <2>2. r \in 0..MaxRequests
      BY MaxRequestsAssumption DEF Requests
    <2>3. pending_response' \in [Slots -> 0..MaxRequests]
      BY <1>3, <2>2 DEF TypeOK
    <2>4. claim' \in [Requests -> 0..MaxRequests]
      BY <1>3, <2>2 DEF TypeOK
    <2> QED
      BY <1>3, <2>1, <2>3, <2>4 DEF TypeOK
  <1>8. InvNumbers'
    BY <1>1, <1>3, <1>5 DEF InvNumbers, TypeOK
  <1>9. InvGenerations' /\ InvTickets' /\ InvOpen' /\ InvCursor' /\ InvFree'
    BY <1>3 DEF InvGenerations, InvTickets, InvOpen, InvCursor, InvFree
  <1>10. InvParked'
    <2> SUFFICES ASSUME NEW q \in Slots, Parked(q)
                 PROVE  InvParked!(q)!2'
      BY <1>3 DEF InvParked, Parked
    <2>1. request[q] \in Requests /\ fate[request[q]] = "open"
      BY ParkedHasRequest
    <2>2. CASE q = s
      <3>1. pending_response'[s] = r /\ claim'[request[s]] = r /\ r # 0
        BY <1>2, <1>3, <1>5 DEF TypeOK, Requests
      <3>2. pending_ready'[s] \/ pending_cancelled'[s]
        BY <1>2, <1>4 DEF TypeOK
      <3>3. request'[s] = request[s] /\ fate' = fate /\ request[s] # 0
        BY <1>3, <1>5 DEF Requests
      <3> QED
        BY <1>5, <2>2, <3>1, <3>2, <3>3
    <2>3. CASE q # s
      <3>1. request[q] # request[s]
        BY <1>2, <2>1, <2>3, OneSlotPerRequest
      <3>2. pending_response'[q] = pending_response[q] /\ claim'[request[q]] = claim[request[q]]
        BY <1>2, <1>3, <2>1, <2>3, <3>1 DEF TypeOK
      <3>3. pending_ready'[q] = pending_ready[q] /\ pending_cancelled'[q] = pending_cancelled[q]
        BY <1>2, <1>4, <2>3 DEF TypeOK
      <3> QED
        BY <1>3, <3>2, <3>3 DEF InvParked
    <2> QED
      BY <2>2, <2>3
  <1>11. InvHandler' /\ InvSerialize' /\ InvTimeout'
    <2>1. at \in {"handler", "serialize", "timeout"} => cursor # s
      BY <1>1 DEF InvHandler, InvSerialize, InvTimeout
    <2>2. at \in {"handler", "serialize", "timeout"} =>
            request[cursor] \in Requests /\ fate[request[cursor]] = "open"
      BY HeldRequest
    <2>3. at \in {"handler", "serialize", "timeout"} => request[cursor] # request[s]
      <3>1. cursor \in Slots
        BY DEF TypeOK
      <3> QED
        BY <1>2, <2>1, <2>2, <3>1, OneSlotPerRequest
    <2>4. at \in {"handler", "serialize", "timeout"} =>
            /\ claim'[request[cursor]] = claim[request[cursor]]
            /\ pending_response'[cursor] = pending_response[cursor]
      BY <1>2, <1>3, <2>1, <2>2, <2>3 DEF TypeOK
    <2> QED
      BY <1>3, <2>4 DEF InvHandler, InvSerialize, InvTimeout
  <1>12. InvClaims'
    <2>1. \A q \in Requests : q # request[s] => claim'[q] = claim[q]
      BY <1>3 DEF TypeOK
    <2>2. claim'[request[s]] = r /\ answeredBy[request[s]] = 0
      BY <1>3, <1>5 DEF TypeOK, InvClaims
    <2> QED
      BY <1>3, <1>6, <2>1, <2>2 DEF InvClaims
  <1>13. InvWake'
    BY <1>3 DEF InvWake, TypeOK
  <1>14. AcceptedPostDecides'
    BY <1>3, <1>5 DEF AcceptedPostDecides, TypeOK
  <1>15. NoOrphanExchange'
    BY <1>3 DEF NoOrphanExchange, WorksOn, Parked
  <1> QED
    BY <1>7, <1>8, <1>9, <1>10, <1>11, <1>12, <1>13, <1>14, <1>15

\* The wake-up of the loop by a worker keeps the invariant.
LEMMA WakeStep ==
    ASSUME IInv, NEW w \in Workers, Wake(w)
    PROVE  IInv'
  <1> USE DEF IInv, Wake, slotVars, pendingVars, loopVars, historyVars
  <1>1. TypeOK'
    BY DEF TypeOK
  <1>2. InvNumbers' /\ InvGenerations' /\ InvTickets' /\ InvOpen' /\ InvClaims'
        /\ AcceptedPostDecides' /\ InvCursor'
    BY DEF InvNumbers, InvGenerations, InvTickets, InvOpen, InvClaims, AcceptedPostDecides,
           InvCursor
  <1>3. InvParked' /\ InvHandler' /\ InvSerialize' /\ InvTimeout' /\ InvFree' /\ InvWake'
    BY DEF InvParked, Parked, InvHandler, InvSerialize, InvTimeout, InvFree, InvWake
  <1>4. NoOrphanExchange'
    BY DEF NoOrphanExchange, WorksOn, Parked
  <1> QED
    BY <1>1, <1>2, <1>3, <1>4

\* Going on to the next slot, or to the next phase.
LEMMA NextSlotMoves ==
    ASSUME TypeOK, NEW here, NEW next, NextSlot(here, next)
    PROVE  /\ cursor' \in Slots /\ at' \in {here, next}
           /\ at' # here => at' = next /\ cursor' = 1 /\ cursor = SlotCount
           /\ \/ at' = here /\ cursor' = cursor + 1
              \/ at' = next /\ cursor' = 1 /\ cursor = SlotCount
  BY SlotCountAssumption, SMTT(40) DEF NextSlot, TypeOK, Slots

\* Finding at the top of the loop whether it is to stop keeps the invariant.
LEMMA EnterStep ==
    ASSUME IInv, Enter
    PROVE  IInv'
  <1> USE DEF IInv, Enter, slotVars, pendingVars, workerVars, historyVars
  <1>1. InvCursor' /\ cursor' \in Slots /\ wake' \in BOOLEAN
    BY DEF InvCursor, TypeOK
  <1>2. InvWake'
    BY DEF InvWake, Parked
  <1> QED
    BY <1>1, <1>2, MoveOnStep DEF Phase

\* The poll of the event loop keeps the invariant.
LEMMA PollStep ==
    ASSUME IInv, Poll
    PROVE  IInv'
  <1> USE DEF IInv, Poll, slotVars, pendingVars, workerVars, historyVars
  <1>1. cursor = 1 /\ cursor' = cursor /\ at' \in {"flush", "teardown"}
    BY DEF InvCursor
  <1>2. InvCursor' /\ cursor' \in Slots /\ wake' \in BOOLEAN
    BY <1>1 DEF InvCursor, TypeOK
  <1>3. InvWake'
    BY <1>1 DEF InvWake, Slots
  <1> QED
    BY <1>1, <1>2, <1>3, MoveOnStep DEF Phase

\* The flush of deferred responses keeps the invariant.
LEMMA FlushStep ==
    ASSUME IInv, Flush
    PROVE  IInv'
  <1> USE DEF IInv, workerVars, historyVars
  <1>1. CASE Parked(cursor) /\ (pending_ready[cursor] \/ pending_cancelled[cursor])
    <2>1. /\ cancelled' = pending_cancelled[cursor]
          /\ pending_ready' = [pending_ready EXCEPT ![cursor] = FALSE]
          /\ pending_cancelled' = [pending_cancelled EXCEPT ![cursor] = FALSE]
          /\ state' = [state EXCEPT ![cursor] = "sending"]
          /\ at = "flush" /\ at' = "serialize" /\ cursor' = cursor
          /\ UNCHANGED <<in_use, generation, client_wants_close, pending_response, overdue,
                         request, wake, stopping, workerVars, begun, accepted, historyVars>>
      BY <1>1 DEF Flush, Parked
    <2>2. cursor \in Slots
      BY DEF TypeOK
    <2>3. request[cursor] \in Requests /\ fate[request[cursor]] = "open"
      BY <1>1, <2>2, ParkedHasRequest
    <2>4. TypeOK'
      BY <2>1, <2>2 DEF TypeOK, SlotState, Phase
    <2>5. InvNumbers' /\ InvGenerations' /\ InvTickets' /\ InvOpen' /\ InvClaims'
          /\ AcceptedPostDecides' /\ InvCursor'
      BY <2>1 DEF InvNumbers, InvGenerations, InvTickets, InvOpen, InvClaims,
                  AcceptedPostDecides, InvCursor
    <2>6. InvParked'
      BY <2>1, <2>2 DEF InvParked, Parked, TypeOK
    <2>7. InvHandler' /\ InvTimeout'
      BY <2>1 DEF InvHandler, InvTimeout
    <2>8. InvSerialize'
      BY <1>1, <2>1, <2>2 DEF InvSerialize, InvParked, Parked, TypeOK
    <2>9. InvFree'
      BY <1>1, <2>1, <2>2 DEF InvFree, Parked, TypeOK
    <2>10. InvWake'
      BY <2>1, <2>2 DEF InvWake, Parked, TypeOK, Slots
    <2>11. NoOrphanExchange'
      <3> SUFFICES ASSUME NEW r \in Requests, fate[r] = "open"
                   PROVE  NoOrphanExchange!(r)!2'
        BY <2>1 DEF NoOrphanExchange
      <3>1. PICK s \in Slots : WorksOn(s, r) /\ Parked(s) /\ \A q \in Slots : WorksOn(q, r) => q = s
        BY <2>1 DEF NoOrphanExchange
      <3>2. /\ WorksOn(s, r)' /\ \A q \in Slots : WorksOn(q, r)' => q = s
        BY <2>1, <3>1 DEF WorksOn
      <3>3. Parked(s)' \/ (cursor' = s /\ at' = "serialize" /\ state'[s] = "sending")
        BY <2>1, <2>2, <3>1 DEF Parked, TypeOK
      <3> QED
        BY <3>2, <3>3
    <2> QED
      BY <2>4, <2>5, <2>6, <2>7, <2>8, <2>9, <2>10, <2>11
  <1>2. CASE ~(Parked(cursor) /\ (pending_ready[cursor] \/ pending_cancelled[cursor]))
    <2>1. /\ at = "flush" /\ NextSlot("flush", "deadlines")
          /\ UNCHANGED <<slotVars, pendingVars, request, cancelled, wake, stopping, workerVars,
                         begun, accepted, historyVars>>
      BY <1>2 DEF Flush, Parked, slotVars, pendingVars
    <2>2. /\ cursor \in Slots /\ cursor' \in Slots /\ at' \in {"flush", "deadlines"}
          /\ at' = "flush" => cursor' = cursor + 1
          /\ at' = "deadlines" => cursor = SlotCount
      BY <2>1, NextSlotMoves DEF TypeOK
    <2>3. InvWake'
      BY <1>2, <2>1, <2>2, SlotCountAssumption
      DEF InvWake, Parked, slotVars, pendingVars, Slots
    <2> QED
      BY <2>1, <2>2, <2>3, MoveOnStep DEF InvCursor, Phase, TypeOK
  <1> QED
    BY <1>1, <1>2

\* Sending the response that the flush found ready keeps the invariant.
LEMMA SerializeStep ==
    ASSUME IInv, Serialize
    PROVE  IInv'
  <1> DEFINE how == IF cancelled THEN "503" ELSE "app"
  <1>1. /\ at = "serialize" /\ NextSlot("flush", "deadlines")
        /\ SerializeAndSend(cursor, how, pending_response[cursor], cancelled)
        /\ UNCHANGED Outside /\ cancelled' = FALSE /\ stopping' = stopping
    BY DEF Serialize, Outside, workerVars
  <1>2. cursor \in Slots /\ pending_response[cursor] \in 0..MaxRequests
        /\ cancelled \in BOOLEAN /\ stopping \in BOOLEAN
    BY DEF IInv, TypeOK
  <1>3. in_use[cursor] /\ state[cursor] # "pending" /\ Justified(cursor, how, pending_response[cursor])
    BY <1>1 DEF IInv, InvSerialize, Justified
  <1>4. LoopMoves(cursor)
    BY <1>1, NextSlotMoves DEF IInv, LoopMoves, Phase
  <1> QED
    BY <1>1, <1>2, <1>3, <1>4, SendStep

\* The sweep of the deadlines keeps the invariant.
LEMMA SweepDeadlineStep ==
    ASSUME IInv, SweepDeadline
    PROVE  IInv'
  <1> USE DEF IInv, workerVars, historyVars, pendingVars
  <1>1. CASE Parked(cursor) /\ overdue[cursor] /\ ~pending_ready[cursor] /\ ~pending_cancelled[cursor]
    <2>1. /\ state' = [state EXCEPT ![cursor] = "sending"]
          /\ at = "deadlines" /\ at' = "timeout" /\ cursor' = cursor
          /\ UNCHANGED <<in_use, generation, client_wants_close, pendingVars, request, cancelled,
                         wake, stopping, workerVars, begun, accepted, historyVars>>
      BY <1>1 DEF SweepDeadline, Parked
    <2>2. cursor \in Slots
      BY DEF TypeOK
    <2>3. request[cursor] \in Requests /\ fate[request[cursor]] = "open"
      BY <1>1, <2>2, ParkedHasRequest
    <2>4. TypeOK'
      BY <2>1, <2>2 DEF TypeOK, SlotState, Phase
    <2>5. InvNumbers' /\ InvGenerations' /\ InvTickets' /\ InvOpen' /\ InvClaims'
          /\ AcceptedPostDecides' /\ InvCursor'
      BY <2>1 DEF InvNumbers, InvGenerations, InvTickets, InvOpen, InvClaims,
                  AcceptedPostDecides, InvCursor
    <2>6. InvParked'
      BY <2>1, <2>2 DEF InvParked, Parked, TypeOK
    <2>7. InvHandler' /\ InvSerialize'
      BY <2>1 DEF InvHandler, InvSerialize
    <2>8. InvTimeout'
      BY <1>1, <2>1, <2>2, <2>3 DEF InvTimeout, InvParked, Parked, TypeOK, Requests
    <2>9. InvFree'
      BY <1>1, <2>1, <2>2 DEF InvFree, Parked, TypeOK
    <2>10. InvWake'
      BY <2>1, <2>2 DEF InvWake, Parked, TypeOK
    <2>11. NoOrphanExchange'
      <3> SUFFICES ASSUME NEW r \in Requests, fate[r] = "open"
                   PROVE  NoOrphanExchange!(r)!2'
        BY <2>1 DEF NoOrphanExchange
      <3>1. PICK s \in Slots : WorksOn(s, r) /\ Parked(s) /\ \A q \in Slots : WorksOn(q, r) => q = s
        BY <2>1 DEF NoOrphanExchange
      <3>2. /\ WorksOn(s, r)' /\ \A q \in Slots : WorksOn(q, r)' => q = s
        BY <2>1, <3>1 DEF WorksOn
      <3>3. Parked(s)' \/ (cursor' = s /\ at' = "timeout" /\ state'[s] = "sending")
        BY <2>1, <2>2, <3>1 DEF Parked, TypeOK
      <3> QED
        BY <3>2, <3>3
    <2> QED
      BY <2>4, <2>5, <2>6, <2>7, <2>8, <2>9, <2>10, <2>11
  <1>2. CASE ~(Parked(cursor) /\ overdue[cursor] /\ ~pending_ready[cursor] /\ ~pending_cancelled[cursor])
    <2>1. /\ at = "deadlines" /\ NextSlot("deadlines", "idle_sweep")
          /\ UNCHANGED <<slotVars, pendingVars, request, cancelled, wake, stopping, workerVars,
                         begun, accepted, historyVars>>
      BY <1>2 DEF SweepDeadline, Parked, slotVars
    <2>2. cursor' \in Slots /\ at' \in {"deadlines", "idle_sweep"}
      BY <2>1, NextSlotMoves
    <2>3. InvWake'
      BY <2>1, <2>2 DEF InvWake, Parked, slotVars
    <2> QED
      BY <2>1, <2>2, <2>3, MoveOnStep DEF InvCursor, Phase, TypeOK
  <1> QED
    BY <1>1, <1>2

\* Answering an exchange past its deadline keeps the invariant.
LEMMA RespondTimeoutStep ==
    ASSUME IInv, RespondTimeout
    PROVE  IInv'
  <1>1. /\ at = "timeout" /\ NextSlot("deadlines", "idle_sweep")
        /\ SerializeAndSend(cursor, "504", 0, TRUE)
        /\ UNCHANGED Outside /\ cancelled' = cancelled /\ stopping' = stopping
    BY DEF RespondTimeout, Outside, workerVars
  <1>2. cursor \in Slots /\ stopping \in BOOLEAN /\ cancelled \in BOOLEAN /\ 0 \in 0..MaxRequests
    BY MaxRequestsAssumption DEF IInv, TypeOK
  <1>3. in_use[cursor] /\ state[cursor] # "pending" /\ Justified(cursor, "504", 0)
    BY <1>1 DEF IInv, InvTimeout, Justified
  <1>4. LoopMoves(cursor)
    BY <1>1, NextSlotMoves DEF IInv, LoopMoves, Phase
  <1> QED
    BY <1>1, <1>2, <1>3, <1>4, SendStep

\* The sweep of idle connections keeps the invariant.
LEMMA SweepIdleStep ==
    ASSUME IInv, SweepIdle
    PROVE  IInv'
  <1>1. /\ at = "idle_sweep" /\ NextSlot("idle_sweep", "top")
        /\ UNCHANGED <<cancelled, wake, stopping, workerVars, begun, accepted, of, claim>>
    BY DEF SweepIdle
  <1>2. /\ cursor' \in Slots /\ at' \in {"idle_sweep", "top"}
        /\ at' = "top" => cursor' = 1
    BY <1>1, NextSlotMoves DEF IInv
  <1>3. CASE in_use[cursor] /\ Close(cursor)
    <2>1. LoopMoves(cursor)
      BY <1>1, <1>2 DEF LoopMoves, Phase
    <2> QED
      BY <1>1, <1>3, <2>1, CloseStep DEF Outside, workerVars, IInv, TypeOK
  <1>4. CASE UNCHANGED <<slotVars, pendingVars, request, conn, fate, answeredBy>>
    <2>1. InvWake'
      BY <1>1, <1>2, <1>4 DEF IInv, InvWake, Parked, slotVars, pendingVars, workerVars
    <2>2. wake' \in BOOLEAN /\ InvCursor'
      BY <1>1, <1>2 DEF IInv, TypeOK, InvCursor
    <2> QED
      BY <1>1, <1>2, <1>4, <2>1, <2>2, MoveOnStep DEF Phase, historyVars
  <1> QED
    BY <1>3, <1>4 DEF SweepIdle

\* Closing every connection at the end of the run keeps the invariant.
LEMMA TeardownStep ==
    ASSUME IInv, Teardown
    PROVE  IInv'
  <1> USE DEF IInv, workerVars
  <1>1. /\ at = "teardown" /\ NextSlot("teardown", "done")
        /\ UNCHANGED <<state, client_wants_close, pending_response, overdue, request, cancelled,
                       wake, stopping, workerVars, begun, accepted, conn, of, claim, answeredBy>>
    BY DEF Teardown
  <1>2. cursor \in Slots /\ cursor' \in Slots /\ at' \in {"teardown", "done"}
    BY <1>1, NextSlotMoves DEF TypeOK
  <1>3. CASE in_use[cursor]
    <2>1. generation' = [generation EXCEPT ![cursor] = @ + 1]
      <3>1. generation[cursor] \in Nat /\ generation[cursor] < MaxConnections
        BY <1>2, <1>3, ReuseAssumption DEF InvGenerations, TypeOK
      <3> QED
        BY <1>3, <3>1, BumpCounts DEF Teardown
    <2>2. /\ in_use' = [in_use EXCEPT ![cursor] = FALSE]
          /\ pending_ready' = [pending_ready EXCEPT ![cursor] = FALSE]
          /\ pending_cancelled' = [pending_cancelled EXCEPT ![cursor] = FALSE]
          /\ fate' = [r \in Requests |->
                         IF r = request[cursor] /\ fate[r] = "open" THEN "dropped" ELSE fate[r]]
      BY <1>3 DEF Teardown, Ends
    <2>3. TypeOK'
      <3>1. generation' \in [Slots -> 0..(GenModulus - 1)]
        BY <1>2, <1>3, <2>1, ReuseAssumption DEF InvGenerations, TypeOK
      <3>2. in_use' \in [Slots -> BOOLEAN] /\ pending_ready' \in [Slots -> BOOLEAN]
            /\ pending_cancelled' \in [Slots -> BOOLEAN]
        BY <2>2 DEF TypeOK
      <3>3. fate' \in [Requests -> Fate]
        BY <2>2 DEF TypeOK, Fate
      <3> QED
        BY <1>1, <1>2, <3>1, <3>2, <3>3 DEF TypeOK, Phase
    <2>4. InvNumbers'
      BY <1>1, <2>2 DEF InvNumbers, TypeOK
    <2>5. InvGenerations'
      BY <1>1, <1>2, <2>1, <2>2, <1>3, ReuseAssumption DEF InvGenerations, TypeOK
    <2>6. InvTickets'
      BY <1>1, <1>2, <2>1, <2>2 DEF InvTickets, TypeOK
    <2>7. InvOpen'
      BY <1>1, <1>2, <2>1, <2>2 DEF InvOpen, TypeOK
    <2>8. InvParked'
      <3> SUFFICES ASSUME NEW q \in Slots, Parked(q)'
                   PROVE  InvParked!(q)!2'
        BY DEF InvParked
      <3>1. q # cursor /\ Parked(q)
        BY <1>1, <1>2, <2>2 DEF Parked, TypeOK
      <3>2. request[q] \in Requests /\ fate[request[q]] = "open"
        BY <3>1, ParkedHasRequest
      <3>3. request[q] # request[cursor]
        BY <1>2, <3>1, <3>2, OneSlotPerRequest
      <3> QED
        BY <1>1, <1>2, <2>2, <3>1, <3>2, <3>3 DEF InvParked, TypeOK
    <2>9. InvHandler' /\ InvSerialize' /\ InvTimeout' /\ InvCursor' /\ InvFree' /\ InvWake'
      BY <1>2 DEF InvHandler, InvSerialize, InvTimeout, InvCursor, InvFree, InvWake
    <2>10. InvClaims'
      BY <1>1 DEF InvClaims
    <2>11. AcceptedPostDecides'
      BY <1>1, <2>2 DEF AcceptedPostDecides, TypeOK
    <2>12. NoOrphanExchange'
      BY <1>1, <1>2, <2>2 DEF NoOrphanExchange, WorksOn, Parked, InvOpen, TypeOK
    <2> QED
      BY <2>3, <2>4, <2>5, <2>6, <2>7, <2>8, <2>9, <2>10, <2>11, <2>12
  <1>4. CASE ~in_use[cursor]
    <2>1. UNCHANGED <<slotVars, pendingVars, historyVars>>
      BY <1>1, <1>4 DEF Teardown, slotVars, pendingVars, historyVars
    <2>2. InvWake' /\ InvCursor'
      BY <1>2 DEF InvWake, InvCursor
    <2> QED
      BY <1>1, <1>2, <2>1, <2>2, MoveOnStep DEF Phase, TypeOK
  <1> QED
    BY <1>3, <1>4

\* The handler ends its exchange.
LEMMA HandlerEndsStep ==
    ASSUME IInv, HandlerResponds \/ HandlerCloses
    PROVE  IInv'
  <1>1. /\ at = "handler" /\ BackToPoll
        /\ UNCHANGED Outside /\ cancelled' = cancelled /\ stopping' = stopping
    BY DEF HandlerResponds, HandlerCloses, Outside, workerVars
  <1>2. cursor \in Slots /\ stopping \in BOOLEAN /\ cancelled \in BOOLEAN /\ 0 \in 0..MaxRequests
    BY MaxRequestsAssumption DEF IInv, TypeOK
  <1>3. in_use[cursor] /\ state[cursor] # "pending" /\ Justified(cursor, "handler", 0)
    BY <1>1 DEF IInv, InvHandler, Justified
  <1>4. LoopMoves(cursor)
    BY <1>1, SlotCountAssumption DEF LoopMoves, BackToPoll, Phase, Slots
  <1>5. CASE HandlerResponds
    BY <1>1, <1>2, <1>3, <1>4, <1>5, SendStep DEF HandlerResponds
  <1>6. CASE HandlerCloses
    BY <1>1, <1>2, <1>3, <1>4, <1>6, CloseStep DEF HandlerCloses
  <1> QED
    BY <1>5, <1>6

\* A callback that closes a connection, or answers without a handler.
LEMMA PollMoves ==
    ASSUME IInv, at = "poll", UNCHANGED loopVars, NEW s
    PROVE  LoopMoves(s)
  BY DEF LoopMoves, IInv, TypeOK, InvCursor, loopVars

\* The loss of a connection keeps the invariant.
LEMMA ConnectionLostStep ==
    ASSUME IInv, NEW s \in Slots, ConnectionLost(s)
    PROVE  IInv'
  BY PollMoves, CloseStep DEF ConnectionLost, Outside, workerVars, loopVars, IInv, TypeOK

\* Rejecting a request that is too large keeps the invariant.
LEMMA RejectOversizedStep ==
    ASSUME IInv, NEW s \in Slots, RejectOversized(s)
    PROVE  IInv'
  <1>1. /\ at = "poll" /\ state[s] = "receiving" /\ SerializeAndSend(s, "handler", 0, TRUE)
        /\ UNCHANGED loopVars /\ UNCHANGED Outside /\ cancelled' = cancelled
        /\ stopping' = stopping
    BY DEF RejectOversized, Outside, workerVars, loopVars
  <1>2. in_use[s] /\ stopping \in BOOLEAN /\ cancelled \in BOOLEAN /\ 0 \in 0..MaxRequests
    BY <1>1, MaxRequestsAssumption DEF IInv, InvFree, TypeOK
  <1>3. Justified(s, "handler", 0)
    BY <1>1, <1>2, SettledSlot DEF IInv, Justified
  <1> QED
    BY <1>1, <1>2, <1>3, PollMoves, SendStep

\* Receiving a request keeps the invariant.
LEMMA ReceiveStep ==
    ASSUME IInv, NEW s \in Slots, Receive(s)
    PROVE  IInv'
  <1>1. in_use[s]
    BY DEF Receive, IInv, InvFree
  <1> QED
    BY <1>1, BeginStep DEF Receive

\* The end of a response keeps the invariant.
LEMMA FinishSendStep ==
    ASSUME IInv, NEW s \in Slots, FinishSend(s)
    PROVE  IInv'
  <1>1. /\ at = "poll" /\ state[s] = "sending"
        /\ UNCHANGED <<cancelled, wake, stopping, workerVars, accepted, claim>>
    BY DEF FinishSend
  <1>2. in_use[s]
    BY <1>1 DEF IInv, InvFree
  <1>3. CASE Close(s) /\ UNCHANGED <<at, cursor, begun, of>>
    <2>1. LoopMoves(s)
      BY <1>1, <1>3, PollMoves DEF loopVars
    <2> QED
      BY <1>1, <1>2, <1>3, <2>1, CloseStep DEF Outside, workerVars, IInv, TypeOK
  <1>4. CASE /\ state' = [state EXCEPT ![s] = "receiving"]
             /\ UNCHANGED <<in_use, generation, client_wants_close, pendingVars, request, at,
                            cursor, begun, conn, of, fate, answeredBy>>
    BY <1>1, <1>4, ToReceivingStep DEF loopVars, historyVars
  <1>5. CASE BeginRequest(s) /\ UNCHANGED <<in_use, generation, pendingVars, conn, answeredBy>>
    BY <1>1, <1>2, <1>5, BeginStep
  <1> QED
    BY <1>3, <1>4, <1>5 DEF FinishSend

-------------------------------------------------------------------------------
(* The invariant and the theorems. *)

\* The invariant of deferred responses holds at first.
LEMMA InitIInv == Init => IInv
  <1> SUFFICES ASSUME Init PROVE IInv
    OBVIOUS
  <1> USE DEF Init
  <1>1. TypeOK
    <2>1. 0 \in 0..(GenModulus - 1) /\ 0 \in 0..MaxRequests /\ 0 \in 0..MaxConnections
      BY ReuseAssumption, MaxRequestsAssumption
    <2>2. 1 \in Slots
      BY SlotCountAssumption DEF Slots
    <2> QED
      BY <2>1, <2>2 DEF TypeOK, SlotState, Phase, Fate
  <1>2. InvNumbers /\ InvGenerations
    BY ReuseAssumption DEF InvNumbers, InvGenerations, Requests
  <1>3. /\ InvTickets /\ InvOpen /\ InvParked /\ InvHandler /\ InvSerialize /\ InvTimeout
        /\ InvClaims /\ InvCursor /\ InvFree /\ InvWake
    BY DEF InvTickets, InvOpen, InvParked, Parked, InvHandler, InvSerialize, InvTimeout,
           InvClaims, InvCursor, InvFree, InvWake
  <1>4. AcceptedPostDecides /\ NoOrphanExchange
    BY DEF AcceptedPostDecides, NoOrphanExchange
  <1> QED
    BY <1>1, <1>2, <1>3, <1>4 DEF IInv

\* Every step keeps the invariant of deferred responses.
LEMMA NextIInv == IInv /\ [Next]_vars => IInv'
  <1> SUFFICES ASSUME IInv, [Next]_vars PROVE IInv'
    OBVIOUS
  <1>1. ASSUME NEW s \in Slots, Callback(s) PROVE IInv'
    <2>1. CASE HandshakeDone(s)
      BY <2>1, ToReceivingStep DEF HandshakeDone
    <2> QED
      BY <1>1, <2>1, AcceptStep, ConnectionLostStep, ReceiveStep, RejectOversizedStep,
         FinishSendStep DEF Callback
  <1>2. ASSUME NEW s \in Slots, DeadlinePasses(s) PROVE IInv'
    <2>1. overdue' \in [Slots -> BOOLEAN] /\ stopping' \in BOOLEAN
      BY <1>2 DEF DeadlinePasses, IInv, TypeOK
    <2> QED
      BY <1>2, <2>1, QuietStep DEF DeadlinePasses
  <1>3. CASE Handler
    BY <1>3, TakeTicketStep, HandlerEndsStep, DefersStep DEF Handler
  <1>4. CASE BetweenPolls
    BY <1>4, EnterStep, PollStep, FlushStep, SerializeStep, SweepDeadlineStep,
       RespondTimeoutStep, SweepIdleStep, TeardownStep DEF BetweenPolls
  <1>5. ASSUME NEW w \in Workers, Worker(w) PROVE IInv'
    BY <1>5, WakeStep, PostStep DEF Worker
  <1>6. CASE Stop
    BY <1>6, QuietStep DEF Stop, IInv, TypeOK, pendingVars
  <1>7. CASE UNCHANGED vars
    BY <1>7, QuietStep DEF vars, IInv, TypeOK, pendingVars
  <1> QED
    BY <1>1, <1>2, <1>3, <1>4, <1>5, <1>6, <1>7 DEF Next

\* The invariant holds in every reachable state.
THEOREM Invariant == Spec => []IInv
  BY InitIInv, NextIInv, PTL DEF Spec

\* Every variable keeps its type; in particular no generation leaves uint32_t.
THEOREM TypeCorrect == Spec => []TypeOK
  BY Invariant, PTL DEF IInv

\* A posted answer reaches only the connection its ticket was taken on: the
\* generation check of deferral_post is enough.
THEOREM TicketSafety == Spec => []TicketStaysOnConnection
  <1>1. IInv => TicketStaysOnConnection
    BY DEF IInv, InvClaims, TicketStaysOnConnection
  <1> QED
    BY <1>1, Invariant, PTL

\* An accepted post decides its exchange: no timeout and no second post overtakes it.
THEOREM PostSafety == Spec => []AcceptedPostDecides
  BY Invariant, PTL DEF IInv

\* No open exchange is ever without a slot that works on it.
THEOREM ExchangeSafety == Spec => []NoOrphanExchange
  BY Invariant, PTL DEF IInv

\* The loop never sleeps on a posted answer without a wake-up to come.
THEOREM WakeupSafety == Spec => []NoLostWakeup
  <1>1. IInv => NoLostWakeup
    BY DEF IInv, InvWake, NoLostWakeup
  <1> QED
    BY <1>1, Invariant, PTL

\* While its exchange is parked and unanswered, a ticket is accepted.
THEOREM TicketUsable == Spec => []ParkedTicketIsGood
  <1>1. ASSUME IInv PROVE ParkedTicketIsGood
    <2> SUFFICES ASSUME NEW s \in Slots, NEW r \in taken, WorksOn(s, r), Parked(s), claim[r] = 0
                 PROVE  PostResult(r) = "ok"
      BY DEF ParkedTicketIsGood
    <2>1. r \in Requests
      BY <1>1 DEF IInv, TypeOK
    <2>2. of[r] = [slot |-> s, conn |-> conn[s]] /\ ticket[r] = generation[s]
      BY <1>1, <2>1 DEF IInv, InvOpen, WorksOn
    <2>3. ~pending_ready[s] /\ ~pending_cancelled[s]
      <3>1. request[s] = r
        BY DEF WorksOn
      <3> QED
        BY <1>1, <3>1 DEF IInv, InvParked
    <2> QED
      BY <2>2, <2>3 DEF PostResult, Parked
  <1> QED
    BY <1>1, Invariant, PTL

-------------------------------------------------------------------------------
(* The server keeps the promise of ExchangePromise: every step of Deferral *)
(* is a step of the promise, or leaves it alone.                           *)

phase == [r \in Requests |-> PhaseOf(r)]

\* Nothing the promise speaks of changed.
LEMMA PromiseIdle ==
    ASSUME UNCHANGED <<fate, claim, of, answeredBy>>,
           \/ at # "handler" /\ at' # "handler"
           \/ UNCHANGED <<at, cursor, request>>
    PROVE  UNCHANGED <<phase, of, claim, answeredBy>>
  BY DEF phase, PhaseOf

\* How the end of an exchange shows in the promise.
EndPhase(how) == IF how = "dropped" THEN "dropped" ELSE "answered"

\* The exchange of slot s, if open, ended; nobody else's changed.
LEMMA PromiseEnds ==
    ASSUME IInv, NEW s \in Slots, NEW how \in Fate \ {"unseen", "open"}, Ends(s, how),
           UNCHANGED <<of, claim>>, at' # "handler", at = "handler" => s = cursor
    PROVE  phase' = [r \in Requests |-> IF r = request[s] /\ fate[r] = "open" THEN EndPhase(how)
                                                                          ELSE phase[r]]
  <1> SUFFICES ASSUME NEW r \in Requests
               PROVE  PhaseOf(r)' = IF r = request[s] /\ fate[r] = "open" THEN EndPhase(how)
                                                                         ELSE PhaseOf(r)
    BY DEF phase
  <1>1. CASE r = request[s] /\ fate[r] = "open"
    <2>1. fate'[r] = how
      BY <1>1 DEF Ends
    <2> QED
      BY <1>1, <2>1 DEF PhaseOf, EndPhase, Fate
  <1>2. CASE ~(r = request[s] /\ fate[r] = "open")
    <2>1. fate'[r] = fate[r] /\ claim'[r] = claim[r]
      BY <1>2 DEF Ends
    <2>2. fate[r] = "open" => ~(at = "handler" /\ request[cursor] = r)
      BY <1>2
    <2> QED
      BY <1>2, <2>1, <2>2 DEF PhaseOf
  <1> QED
    BY <1>1, <1>2

\* Closing a connection drops its open exchange, or changes nothing.
LEMMA PromiseClose ==
    ASSUME IInv, NEW s \in Slots, Ends(s, "dropped"), UNCHANGED <<of, claim, answeredBy>>,
           at' # "handler", at = "handler" => s = cursor
    PROVE  [Promise!PromiseNext]_(Promise!promiseVars)
  <1>1. CASE \E r \in Requests : r = request[s] /\ fate[r] = "open"
    <2>1. PICK r \in Requests : r = request[s] /\ fate[r] = "open"
      BY <1>1
    <2>2. phase' = [phase EXCEPT ![r] = "dropped"]
      <3>1. phase' = [q \in Requests |-> IF q = request[s] /\ fate[q] = "open"
                                         THEN EndPhase("dropped") ELSE phase[q]]
        BY PromiseEnds DEF Fate
      <3> QED
        BY <2>1, <3>1 DEF phase, EndPhase
    <2>3. phase[r] \in {"handling", "parked", "claimed"}
      BY <2>1 DEF phase, PhaseOf
    <2>4. Promise!DropExchange(r)
      BY <2>2, <2>3 DEF Promise!DropExchange, phase
    <2> QED
      BY <2>4 DEF Promise!PromiseNext, Promise!Requests, Requests
  <1>2. CASE ~\E r \in Requests : r = request[s] /\ fate[r] = "open"
    <2>1. phase' = phase
      BY <1>2, PromiseEnds DEF phase, Fate
    <2> QED
      BY <2>1 DEF Promise!promiseVars, phase
  <1> QED
    BY <1>1, <1>2

\* A response ends the open exchange as a reply, a delivery or a timeout.
LEMMA PromiseSend ==
    ASSUME IInv, NEW s \in Slots, NEW how \in {"handler", "app", "503", "504"},
           NEW by \in 0..MaxRequests, NEW close \in BOOLEAN, SerializeAndSend(s, how, by, close),
           UNCHANGED <<of, claim>>, Justified(s, how, by), at' # "handler",
           at = "handler" => s = cursor
    PROVE  [Promise!PromiseNext]_(Promise!promiseVars)
  <1>1. CASE Close(s)
    BY <1>1, PromiseClose DEF Close
  <1>2. CASE ~Close(s)
    <2>1. /\ Ends(s, how)
          /\ answeredBy' = [r \in Requests |->
                               IF r = request[s] /\ fate[r] = "open" THEN by ELSE answeredBy[r]]
      BY <1>2 DEF SerializeAndSend
    <2>2. phase' = [r \in Requests |-> IF r = request[s] /\ fate[r] = "open" THEN "answered"
                                                                          ELSE phase[r]]
      <3>1. EndPhase(how) = "answered"
        BY DEF EndPhase
      <3> QED
        BY <2>1, <3>1, PromiseEnds DEF Fate
    <2>3. CASE \E r \in Requests : r = request[s] /\ fate[r] = "open"
      <3>1. PICK r \in Requests : r = request[s] /\ fate[r] = "open"
        BY <2>3
      <3>2. phase' = [phase EXCEPT ![r] = "answered"] /\ answeredBy' = [answeredBy EXCEPT ![r] = by]
        BY <2>1, <2>2, <3>1, ZenonT(60) DEF phase, IInv, TypeOK
      <3>3. by = claim[r]
        BY <3>1 DEF Justified
      <3>4. CASE claim[r] # 0 /\ phase[r] = "claimed"
        BY <3>2, <3>3, <3>4
        DEF Promise!PromiseNext, Promise!Deliver, Promise!Requests, Requests, phase
      <3>5. CASE claim[r] = 0
        <4>1. answeredBy' = answeredBy
          BY <3>2, <3>3, <3>5 DEF IInv, InvClaims, TypeOK
        <4>2. phase[r] \in {"handling", "parked"}
          BY <3>1, <3>5 DEF phase, PhaseOf
        <4>3. Promise!Reply(r) \/ Promise!TimeOut(r)
          BY <3>2, <4>1, <4>2 DEF Promise!Reply, Promise!TimeOut, phase
        <4> QED
          BY <4>3 DEF Promise!PromiseNext, Promise!Requests, Requests
      <3>6. phase[r] = "claimed" \/ claim[r] = 0
        BY <3>1 DEF phase, PhaseOf, IInv, InvHandler
      <3>7. QED
        BY <3>4, <3>5, <3>6
    <2>4. CASE ~\E r \in Requests : r = request[s] /\ fate[r] = "open"
      <3>1. phase' = phase /\ answeredBy' = answeredBy
        BY <2>1, <2>2, <2>4 DEF phase, IInv, TypeOK
      <3> QED
        BY <3>1 DEF Promise!promiseVars, phase
    <2> QED
      BY <2>3, <2>4
  <1> QED
    BY <1>1, <1>2

\* A request begins when its connection has finished the one before.
LEMMA PromiseBegin ==
    ASSUME IInv, NEW s \in Slots, in_use[s], state[s] \in {"receiving", "sending"}, at = "poll",
           BeginRequest(s), UNCHANGED <<claim, answeredBy>>
    PROVE  [Promise!PromiseNext]_(Promise!promiseVars)
  <1> DEFINE r0 == begun + 1
  <1> USE DEF BeginRequest, IInv
  <1>1. r0 \in Requests /\ begun \in Nat
    BY MaxRequestsAssumption DEF TypeOK, Requests
  <1>2. fate[r0] = "unseen"
    BY <1>1 DEF InvNumbers
  <1>3. \A q \in Requests : q # r0 => phase'[q] = phase[q]
    <2> SUFFICES ASSUME NEW q \in Requests, q # r0
                 PROVE  PhaseOf(q)' = PhaseOf(q)
      BY DEF phase
    <2>1. fate'[q] = fate[q]
      BY DEF TypeOK
    <2>2. request'[cursor'] = r0
      BY DEF TypeOK
    <2> QED
      BY <2>1, <2>2 DEF PhaseOf
  <1>4. phase'[r0] = "handling"
    <2>1. fate'[r0] = "open" /\ at' = "handler" /\ request'[cursor'] = r0
      BY <1>1 DEF TypeOK
    <2> QED
      BY <1>1, <2>1 DEF phase, PhaseOf
  <1>5. phase' = [phase EXCEPT ![r0] = "handling"]
    BY <1>3, <1>4 DEF phase
  <1>6. \A q \in Requests \ {r0} : IF q < r0 THEN phase[q] # "unseen" ELSE phase[q] = "unseen"
    <2> SUFFICES ASSUME NEW q \in Requests, q # r0
                 PROVE  phase[q] = "unseen" <=> q > begun
      BY <1>1 DEF Requests
    <2>1. phase[q] = "unseen" <=> fate[q] = "unseen"
      BY DEF phase, PhaseOf
    <2> QED
      BY <2>1 DEF InvNumbers
  <1>7. \A q \in Requests \ {r0} : of'[q] = of[q]
    BY DEF TypeOK
  <1>8. ASSUME NEW q \in Requests \ {r0}, of'[q] = of'[r0], phase[q] # "unseen"
        PROVE  phase[q] \in {"answered", "dropped"}
    <2>1. fate[q] # "open"
      <3> SUFFICES ASSUME fate[q] = "open" PROVE FALSE
        OBVIOUS
      <3>1. PICK t \in Slots : WorksOn(t, q) /\ Parked(t)
        BY DEF NoOrphanExchange
      <3>2. of[q] = [slot |-> t, conn |-> conn[t]]
        BY <3>1 DEF WorksOn, InvOpen
      <3>3. of[q] = [slot |-> s, conn |-> conn[s]]
        BY <1>1, <1>7, <1>8 DEF TypeOK
      <3>4. t = s
        BY <3>2, <3>3
      <3> QED
        BY <3>1, <3>4 DEF Parked
    <2> QED
      BY <1>8, <2>1 DEF phase, PhaseOf
  <1>9. Promise!Begin(r0)
    <2>1. phase[r0] = "unseen"
      BY <1>1, <1>2 DEF phase, PhaseOf
    <2> QED
      BY <1>1, <1>5, <1>6, <1>7, <1>8, <2>1
      DEF Promise!Begin, Promise!Ended, Promise!Requests, Requests, phase
  <1> QED
    BY <1>1, <1>9 DEF Promise!PromiseNext, Promise!Requests, Requests

\* Parking an exchange is a step of the promise, or changes nothing of it.
LEMMA PromisePark ==
    ASSUME IInv, HandlerDefers
    PROVE  [Promise!PromiseNext]_(Promise!promiseVars)
  <1> DEFINE r0 == request[cursor]
  <1>1. /\ at = "handler" /\ at' = "poll"
        /\ UNCHANGED <<request, fate, claim, of, answeredBy>>
    BY DEF HandlerDefers, BackToPoll, historyVars
  <1>2. r0 \in Requests /\ fate[r0] = "open" /\ claim[r0] = 0
    BY <1>1, HeldRequest DEF IInv, InvHandler
  <1>3. phase[r0] = "handling"
    BY <1>1, <1>2 DEF phase, PhaseOf
  <1>4. phase' = [phase EXCEPT ![r0] = "parked"]
    <2> SUFFICES ASSUME NEW r \in Requests
                 PROVE  PhaseOf(r)' = IF r = r0 THEN "parked" ELSE PhaseOf(r)
      BY DEF phase
    <2>1. fate'[r] = fate[r] /\ claim'[r] = claim[r]
      BY <1>1
    <2>2. CASE r = r0
      BY <1>1, <1>2, <2>1, <2>2 DEF PhaseOf
    <2>3. CASE r # r0
      BY <1>1, <2>1, <2>3 DEF PhaseOf
    <2> QED
      BY <2>2, <2>3
  <1>5. Promise!Park(r0)
    BY <1>1, <1>3, <1>4 DEF Promise!Park, phase
  <1> QED
    BY <1>2, <1>5 DEF Promise!PromiseNext, Promise!Requests, Requests

\* So is the answer of a worker.
LEMMA PromiseClaim ==
    ASSUME IInv, NEW w \in Workers, NEW t \in Requests, NEW cancel \in BOOLEAN,
           Post(w, t, cancel)
    PROVE  [Promise!PromiseNext]_(Promise!promiseVars)
  <1> DEFINE s  == of[t].slot
             r0 == request[s]
  <1> USE DEF IInv
  <1>1. /\ t \in taken /\ in_use[s] /\ state[s] = "pending" /\ generation[s] = ticket[t]
        /\ ~pending_ready[s] /\ ~pending_cancelled[s]
    BY DEF Post, PostResult
  <1>2. /\ UNCHANGED <<at, cursor, request, fate, of, answeredBy>>
        /\ claim' = [claim EXCEPT ![r0] = t]
    BY DEF Post, loopVars
  <1>3. s \in Slots /\ Parked(s)
    BY <1>1 DEF TypeOK, Parked
  <1>4. r0 \in Requests /\ fate[r0] = "open" /\ claim[r0] = 0
    BY <1>1, <1>3, ParkedHasRequest DEF InvParked
  <1>5. of[t] = of[r0]
    <2>1. of[r0] = [slot |-> s, conn |-> conn[s]]
      BY <1>3, <1>4 DEF InvOpen
    <2>2. generation[s] \in Nat /\ ticket[t] \in Nat
      BY <1>3, ReuseAssumption DEF TypeOK
    <2>3. of[t].conn = conn[s]
      BY <1>1, <2>2 DEF InvTickets
    <2>4. of[t] = [slot |-> s, conn |-> of[t].conn]
      BY DEF TypeOK
    <2> QED
      BY <2>1, <2>3, <2>4
  <1>6. ~(at = "handler" /\ request[cursor] = r0)
    <2> SUFFICES ASSUME at = "handler", request[cursor] = r0 PROVE FALSE
      OBVIOUS
    <2>1. cursor \in Slots /\ state[cursor] = "receiving"
      BY DEF InvHandler, TypeOK
    <2>2. cursor = s
      BY <1>3, <1>4, <2>1, OneSlotPerRequest
    <2> QED
      BY <1>1, <2>1, <2>2
  <1>7. phase[r0] = "parked"
    BY <1>4, <1>6 DEF phase, PhaseOf
  <1>8. phase' = [phase EXCEPT ![r0] = "claimed"]
    <2> SUFFICES ASSUME NEW r \in Requests
                 PROVE  PhaseOf(r)' = IF r = r0 THEN "claimed" ELSE PhaseOf(r)
      BY DEF phase
    <2>1. CASE r = r0
      <3>1. claim'[r] # 0
        BY <1>2, <1>4, <2>1 DEF TypeOK, Requests
      <3>2. fate'[r] = "open" /\ ~(at' = "handler" /\ request'[cursor'] = r)
        BY <1>2, <1>4, <1>6, <2>1
      <3> QED
        BY <2>1, <3>1, <3>2 DEF PhaseOf
    <2>2. CASE r # r0
      <3>1. claim'[r] = claim[r]
        BY <1>2, <2>2 DEF TypeOK
      <3> QED
        BY <1>2, <2>2, <3>1 DEF PhaseOf
    <2> QED
      BY <2>1, <2>2
  <1>9. phase[t] # "unseen"
    <2>1. t <= begun /\ t \in Nat /\ begun \in Nat
      BY <1>1, MaxRequestsAssumption DEF InvNumbers, TypeOK, Requests
    <2>2. fate[t] # "unseen"
      BY <2>1 DEF InvNumbers
    <2> QED
      BY <2>2 DEF phase, PhaseOf
  <1>10. Promise!Claim(r0, t)
    BY <1>2, <1>5, <1>7, <1>8, <1>9 DEF Promise!Claim, phase
  <1> QED
    BY <1>4, <1>10 DEF Promise!PromiseNext, Promise!Requests, Requests

\* So is what happens on a connection.
LEMMA PromiseCallback ==
    ASSUME IInv, NEW s \in Slots, Callback(s)
    PROVE  [Promise!PromiseNext]_(Promise!promiseVars)
  <1>1. CASE Accept(s) \/ HandshakeDone(s)
    <2>1. UNCHANGED <<fate, claim, of, answeredBy, at, cursor, request>>
      BY <1>1 DEF Accept, HandshakeDone, historyVars, loopVars
    <2> QED
      BY <2>1, PromiseIdle DEF Promise!promiseVars, phase
  <1>2. CASE ConnectionLost(s)
    BY <1>2, PromiseClose DEF ConnectionLost, Close, loopVars
  <1>3. CASE Receive(s)
    <2>1. in_use[s]
      BY <1>3 DEF Receive, IInv, InvFree
    <2> QED
      BY <1>3, <2>1, PromiseBegin DEF Receive
  <1>4. CASE RejectOversized(s)
    <2>1. /\ at = "poll" /\ at' = at /\ state[s] = "receiving"
          /\ SerializeAndSend(s, "handler", 0, TRUE) /\ UNCHANGED <<of, claim>>
      BY <1>4 DEF RejectOversized, loopVars
    <2>2. in_use[s] /\ 0 \in 0..MaxRequests
      BY <2>1, MaxRequestsAssumption DEF IInv, InvFree, TypeOK
    <2>3. Justified(s, "handler", 0)
      BY <2>1, <2>2, SettledSlot DEF IInv, Justified
    <2> QED
      BY <2>1, <2>2, <2>3, PromiseSend
  <1>5. CASE FinishSend(s)
    <2>1. at = "poll" /\ state[s] = "sending" /\ claim' = claim /\ in_use[s]
      BY <1>5 DEF FinishSend, IInv, InvFree
    <2>2. CASE Close(s) /\ UNCHANGED <<at, cursor, begun, of>>
      BY <2>1, <2>2, PromiseClose DEF Close
    <2>3. CASE UNCHANGED <<request, at, cursor, of, fate, answeredBy>>
      BY <2>1, <2>3, PromiseIdle DEF Promise!promiseVars, phase
    <2>4. CASE BeginRequest(s) /\ answeredBy' = answeredBy
      BY <2>1, <2>4, PromiseBegin
    <2> QED
      BY <1>5, <2>2, <2>3, <2>4 DEF FinishSend
  <1> QED
    BY <1>1, <1>2, <1>3, <1>4, <1>5 DEF Callback

\* So is what a handler does.
LEMMA PromiseHandler ==
    ASSUME IInv, Handler
    PROVE  [Promise!PromiseNext]_(Promise!promiseVars)
  <1>1. CASE TakeTicket
    <2>1. UNCHANGED <<fate, claim, of, answeredBy, at, cursor, request>>
      BY <1>1 DEF TakeTicket, historyVars, loopVars
    <2> QED
      BY <2>1, PromiseIdle DEF Promise!promiseVars, phase
  <1>2. CASE HandlerResponds
    <2>1. /\ at = "handler" /\ at' = "poll" /\ UNCHANGED <<of, claim>>
          /\ SerializeAndSend(cursor, "handler", 0, FALSE)
      BY <1>2 DEF HandlerResponds, BackToPoll
    <2>2. cursor \in Slots /\ 0 \in 0..MaxRequests
      BY MaxRequestsAssumption DEF IInv, TypeOK
    <2>3. Justified(cursor, "handler", 0)
      BY <2>1 DEF IInv, InvHandler, Justified
    <2> QED
      BY <2>1, <2>2, <2>3, PromiseSend
  <1>3. CASE HandlerCloses
    <2>1. /\ at' = "poll" /\ UNCHANGED <<of, claim, answeredBy>> /\ Ends(cursor, "dropped")
      BY <1>3 DEF HandlerCloses, BackToPoll, Close
    <2>2. cursor \in Slots
      BY DEF IInv, TypeOK
    <2> QED
      BY <2>1, <2>2, PromiseClose
  <1>4. CASE HandlerDefers
    BY <1>4, PromisePark
  <1> QED
    BY <1>1, <1>2, <1>3, <1>4 DEF Handler

\* So is what the loop does between two polls.
LEMMA PromiseBetweenPolls ==
    ASSUME IInv, BetweenPolls
    PROVE  [Promise!PromiseNext]_(Promise!promiseVars)
  <1>1. CASE Enter \/ Poll \/ Flush \/ SweepDeadline
    <2>1. /\ UNCHANGED <<fate, claim, of, answeredBy>>
          /\ at # "handler" /\ at' # "handler"
      BY <1>1 DEF Enter, Poll, Flush, SweepDeadline, NextSlot, historyVars
    <2> QED
      BY <2>1, PromiseIdle DEF Promise!promiseVars, phase
  <1>2. CASE Serialize
    <2> DEFINE how == IF cancelled THEN "503" ELSE "app"
    <2>1. /\ at = "serialize" /\ at' # "handler" /\ UNCHANGED <<of, claim>>
          /\ SerializeAndSend(cursor, how, pending_response[cursor], cancelled)
      BY <1>2 DEF Serialize, NextSlot
    <2>2. cursor \in Slots /\ pending_response[cursor] \in 0..MaxRequests /\ cancelled \in BOOLEAN
      BY DEF IInv, TypeOK
    <2>3. Justified(cursor, how, pending_response[cursor])
      BY <2>1 DEF IInv, InvSerialize, Justified
    <2> QED
      BY <2>1, <2>2, <2>3, PromiseSend
  <1>3. CASE RespondTimeout
    <2>1. /\ at = "timeout" /\ at' # "handler" /\ UNCHANGED <<of, claim>>
          /\ SerializeAndSend(cursor, "504", 0, TRUE)
      BY <1>3 DEF RespondTimeout, NextSlot
    <2>2. cursor \in Slots /\ 0 \in 0..MaxRequests
      BY MaxRequestsAssumption DEF IInv, TypeOK
    <2>3. Justified(cursor, "504", 0)
      BY <2>1 DEF IInv, InvTimeout, Justified
    <2> QED
      BY <2>1, <2>2, <2>3, PromiseSend
  <1>4. CASE SweepIdle \/ Teardown
    <2>1. /\ at \in {"idle_sweep", "teardown"} /\ at' # "handler"
          /\ UNCHANGED <<of, claim, answeredBy>>
          /\ Ends(cursor, "dropped") \/ fate' = fate
      BY <1>4 DEF SweepIdle, Teardown, NextSlot, Close
    <2>2. cursor \in Slots
      BY DEF IInv, TypeOK
    <2>3. CASE Ends(cursor, "dropped")
      BY <2>1, <2>2, <2>3, PromiseClose
    <2>4. CASE fate' = fate
      BY <2>1, <2>4, PromiseIdle DEF Promise!promiseVars, phase
    <2> QED
      BY <2>1, <2>3, <2>4
  <1> QED
    BY <1>1, <1>2, <1>3, <1>4 DEF BetweenPolls

\* Every step of the server is a step of the promise, or changes nothing of it.
LEMMA NextKeepsPromise == IInv /\ [Next]_vars => [Promise!PromiseNext]_(Promise!promiseVars)
  <1> SUFFICES ASSUME IInv, [Next]_vars PROVE [Promise!PromiseNext]_(Promise!promiseVars)
    OBVIOUS
  <1>1. ASSUME NEW w \in Workers, Worker(w)
        PROVE  [Promise!PromiseNext]_(Promise!promiseVars)
    <2>1. CASE Wake(w)
      <3>1. UNCHANGED <<fate, claim, of, answeredBy, at, cursor, request>>
        BY <2>1 DEF Wake, historyVars, loopVars
      <3> QED
        BY <3>1, PromiseIdle DEF Promise!promiseVars, phase
    <2> QED
      BY <1>1, <2>1, PromiseClaim DEF Worker
  <1>2. ASSUME Stop \/ (\E s \in Slots : DeadlinePasses(s)) \/ UNCHANGED vars
        PROVE  [Promise!PromiseNext]_(Promise!promiseVars)
    <2>1. UNCHANGED <<fate, claim, of, answeredBy, at, cursor, request>>
      BY <1>2 DEF Stop, DeadlinePasses, vars, historyVars, loopVars
    <2> QED
      BY <2>1, PromiseIdle DEF Promise!promiseVars, phase
  <1> QED
    BY <1>1, <1>2, PromiseCallback, PromiseHandler, PromiseBetweenPolls DEF Next

\* The server keeps the promise of ExchangePromise to every request, with any
\* number of slots, workers and requests: handler, posts, deadline sweep, lost
\* connections and teardown together answer each exchange as it says.
THEOREM PromiseKept == Spec => KeepsPromise
  <1>1. Init => Promise!PromiseInit
    BY DEF Init, Promise!PromiseInit, PhaseOf, Promise!Requests, Requests
  <1> QED
    BY <1>1, Invariant, NextKeepsPromise, PTL DEF Spec, KeepsPromise, Promise!PromiseSpec

-------------------------------------------------------------------------------
(* Starting and stopping (ServerLifecycle). *)

\* The thread that runs the server is no stopper.
LEMMA RunnerApart == ASSUME NEW t \in Stoppers PROVE t # Runner
  BY StoppersAssumption DEF Runner

\* A stopper touches neither what belongs to the runner nor its callback, and
\* the only state it ever sets is "stopping".
LEMMA StopperStep ==
    ASSUME LifecycleIInv, NEW t \in Stoppers, StopCalled(t) \/ StopCall(t)
    PROVE  /\ UNCHANGED <<listening, loop, busy, run, publish, runs>>
           /\ told'[Runner] = told[Runner]
           /\ server_state' \in {server_state, "stopping"}
           /\ LifecycleTypeOK'
  <1> USE DEF LifecycleIInv, LifecycleTypeOK, StopStep, ServerState, StopAt, serverVars
  <1>0. t \in Threads /\ t # Runner /\ Runner \in Threads
    BY RunnerApart DEF Threads
  <1>1. CASE StopCalled(t)
    <2>1. stops[t] + 1 \in 0..MaxStops
      BY <1>1, MaxStopsAssumption DEF StopCalled
    <2> QED
      BY <1>1, <2>1 DEF StopCalled
  <1>2. CASE StopWaited(t)
    BY <1>2 DEF StopWaited
  <1>3. CASE StopTimesOut(t)
    BY <1>3 DEF StopTimesOut
  <1>4. CASE StopMarks(t)
    BY <1>0, <1>4 DEF StopMarks, SetState
  <1>5. CASE StopTold(t)
    BY <1>0, <1>5 DEF StopTold, CallbackReturns
  <1>6. CASE StopLoop(t)
    BY <1>6 DEF StopLoop
  <1> QED
    BY <1>1, <1>2, <1>3, <1>4, <1>5, <1>6 DEF StopCall

\* The invariant of the life cycle holds at first.
LEMMA LifecycleInitial == LifecycleInit => LifecycleIInv
  <1> SUFFICES ASSUME LifecycleInit PROVE LifecycleIInv
    OBVIOUS
  <1>1. LifecycleTypeOK
    <2>1. runs \in 0..MaxRuns
      BY MaxRunsAssumption DEF LifecycleInit
    <2>2. stops \in [Stoppers -> 0..MaxStops]
      BY MaxStopsAssumption DEF LifecycleInit
    <2>3. told \in [Threads -> ServerState \cup {"nothing"}]
      BY DEF LifecycleInit
    <2>4. stop \in [Stoppers -> StopAt]
      BY DEF LifecycleInit, StopAt
    <2> QED
      BY <2>1, <2>2, <2>3, <2>4 DEF LifecycleInit, LifecycleTypeOK, ServerState, RunAt
  <1>2. told[Runner] = "nothing"
    BY DEF LifecycleInit, Threads
  <1> QED
    BY <1>1, <1>2 DEF LifecycleInit, LifecycleIInv, LoopAt

\* One step per action of the runner; those of the stoppers by StopperStep.
LEMMA LifecycleStep == LifecycleIInv /\ [LifecycleNext]_lifecycle_vars => LifecycleIInv'
  <1> SUFFICES ASSUME LifecycleIInv, [LifecycleNext]_lifecycle_vars PROVE LifecycleIInv'
    OBVIOUS
  <1> USE DEF LifecycleIInv, LifecycleTypeOK, ServerState, RunAt, LoopAt, RunStep, serverVars
  <1>0. Runner \in Threads
    BY DEF Threads
  <1>1. CASE RunCalled
    <2>1. runs + 1 \in 0..MaxRuns
      BY <1>1, MaxRunsAssumption DEF RunCalled
    <2> QED
      BY <1>1, <2>1 DEF RunCalled
  <1>2. CASE SetUp
    <2>1. LifecycleTypeOK'
      BY <1>2 DEF SetUp
    <2>2. CASE run' = "registering"
      BY <1>2, <2>1, <2>2 DEF SetUp
    <2>3. CASE run' = "idle"
      BY <1>2, <2>1, <2>3 DEF SetUp
    <2> QED
      BY <1>2, <2>2, <2>3 DEF SetUp
  <1>3. CASE Register
    <2>1. LifecycleTypeOK'
      BY <1>3 DEF Register
    <2>2. CASE run' = "bound"
      BY <1>3, <2>1, <2>2 DEF Register
    <2>3. CASE run' = "idle"
      BY <1>3, <2>1, <2>3 DEF Register
    <2> QED
      BY <1>3, <2>2, <2>3 DEF Register
  <1>4. CASE ReadState
    BY <1>4 DEF ReadState
  <1>5. CASE PublishRunning
    BY <1>0, <1>5 DEF PublishRunning, SetState
  <1>6. CASE RunningTold
    BY <1>0, <1>6 DEF RunningTold, CallbackReturns
  <1>7. CASE TestState
    BY <1>7 DEF TestState
  <1>8. CASE Dispatch
    BY <1>8 DEF Dispatch
  <1>9. CASE RunOnceReturns
    BY <1>9 DEF RunOnceReturns
  <1>10. CASE Sweep
    BY <1>10 DEF Sweep
  <1>11. CASE TearDown
    BY <1>11 DEF TearDown
  <1>12. CASE SetStopped
    BY <1>0, <1>12 DEF SetStopped, SetState
  <1>13. CASE StoppedTold
    BY <1>0, <1>13 DEF StoppedTold, CallbackReturns
  <1>14. ASSUME NEW t \in Stoppers, StopCalled(t) \/ StopCall(t)
         PROVE  LifecycleIInv'
    BY <1>14, StopperStep
  <1>15. CASE UNCHANGED lifecycle_vars
    BY <1>15 DEF lifecycle_vars
  <1> QED
    BY <1>1, <1>2, <1>3, <1>4, <1>5, <1>6, <1>7, <1>8, <1>9, <1>10, <1>11, <1>12, <1>13,
       <1>14, <1>15 DEF LifecycleNext, Run

\* From http_server_run to its return, with any threads calling http_server_stop: the
\* inductive invariant of the life cycle.
THEOREM LifecycleInvariant == LifecycleSpec => []LifecycleIInv
  BY LifecycleInitial, LifecycleStep, PTL DEF LifecycleSpec

-------------------------------------------------------------------------------
\* Every variable keeps its type, whatever the threads do.
THEOREM LifecycleTypeCorrect == LifecycleSpec => []LifecycleTypeOK
  <1>1. LifecycleIInv => LifecycleTypeOK
    BY DEF LifecycleIInv
  <1> QED
    BY <1>1, LifecycleInvariant, PTL

\* When the callback is told "running", clients may connect.
THEOREM RunningMeansOpen == LifecycleSpec => []AnnouncedRunningIsOpen
  <1>1. LifecycleIInv => AnnouncedRunningIsOpen
    BY DEF LifecycleIInv, AnnouncedRunningIsOpen
  <1> QED
    BY <1>1, LifecycleInvariant, PTL

\* When it is told "stopped", everything the run loop owned has been given up.
THEOREM StoppedMeansClosed == LifecycleSpec => []AnnouncedStoppedIsClosed
  <1>1. LifecycleIInv => AnnouncedStoppedIsClosed
    BY DEF LifecycleIInv, AnnouncedStoppedIsClosed
  <1> QED
    BY <1>1, LifecycleInvariant, PTL

\* A stop stays marked, but for the runner that is about to publish: no other step
\* sets "running", and none gets about to publish unless it reads "initialized".
LEMMA StopStays ==
    ASSUME LifecycleIInv, [LifecycleNext]_lifecycle_vars,
           server_state \in {"stopping", "stopped"}, ~AboutToPublish
    PROVE  server_state' \in {"stopping", "stopped"} /\ ~AboutToPublish'
  <1>1. CASE Run
    BY <1>1 DEF LifecycleIInv, AboutToPublish, Run, RunCalled, SetUp, Register, ReadState,
       PublishRunning, RunningTold, TestState, Dispatch, RunOnceReturns, Sweep, TearDown,
       SetStopped, StoppedTold, RunStep, SetState, CallbackReturns, serverVars
  <1>2. ASSUME NEW t \in Stoppers, StopCalled(t) \/ StopCall(t)
        PROVE  server_state' \in {"stopping", "stopped"} /\ ~AboutToPublish'
    BY <1>2 DEF AboutToPublish, StopCalled, StopCall, StopWaited, StopTimesOut, StopMarks,
       StopTold, StopLoop, StopStep, SetState, CallbackReturns, serverVars
  <1>3. CASE UNCHANGED lifecycle_vars
    BY <1>3 DEF lifecycle_vars, AboutToPublish
  <1> QED
    BY <1>1, <1>2, <1>3 DEF LifecycleNext

\* A stop is final unless it falls between the reading of the state and its publishing.
THEOREM StopsAreFinal == LifecycleSpec => StopIsFinal
  <1> DEFINE Down == server_state \in {"stopping", "stopped"} /\ ~AboutToPublish
  <1>1. LifecycleIInv /\ [LifecycleNext]_lifecycle_vars /\ Down => Down'
    BY StopStays
  <1>2. Down => server_state # "running"
    OBVIOUS
  <1>3. LifecycleSpec => [](Down => [](server_state # "running"))
    <2> HIDE DEF Down
    <2> QED
      BY <1>1, <1>2, LifecycleInvariant, PTL DEF LifecycleSpec
  <1> QED
    BY <1>3 DEF StopIsFinal
===============================================================================
