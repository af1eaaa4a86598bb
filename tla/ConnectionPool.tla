----------------------------- MODULE ConnectionPool -----------------------------
(***************************************************************************)
(* The connection slots of src/src/http_server.c over time: admission of   *)
(* new clients, the listener that is parked while every slot is busy, idle *)
(* and deferral timeouts, and how long the loop may sleep.                 *)
(*                                                                         *)
(* One thread does all of it: the loop sleeps in event_loop_run_once, then *)
(* dispatches a batch of events, then flushes, sweeps and computes the     *)
(* next sleep.  Time is counted in ticks, and time stamps are kept as ages:*)
(* age is now_ms() - last_activity_ms, counted no further than any limit.  *)
(* Deferral models how posted answers are claimed; here an answer is just  *)
(* ready.  Byte counts are abstracted to recv_used = 0 (empty) or not.     *)
(***************************************************************************)
EXTENDS Integers, FiniteSets, FiniteSetsExt

CONSTANTS
    SlotCount,        \* storage->slot_count
    IdleTimeout,      \* idle_timeout_ms
    ReclaimMinIdle,   \* HTTP_SERVER_RECLAIM_MIN_IDLE_MS
    DeferTimeout,     \* pending_timeout_ms
    SleepCap,         \* the 1000 ms of next_tick_ms
    Registrations,    \* whether event_loop_register of the listener can fail: the cases
    MaxClients,       \* bound: clients that connect
    MaxTraffic        \* bound: events that connections have

ASSUME PoolAssumption ==
    /\ SlotCount \in Nat \ {0} /\ IdleTimeout \in Nat \ {0} /\ ReclaimMinIdle \in Nat \ {0}
    /\ DeferTimeout \in Nat \ {0} /\ SleepCap \in Nat \ {0}
    /\ Registrations \subseteq BOOLEAN /\ MaxClients \in Nat /\ MaxTraffic \in Nat

Slots  == 1..SlotCount
MaxAge == Max({IdleTimeout, ReclaimMinIdle})
Forever == SleepCap + 1    \* the sleep -1

VARIABLES
    registerFails, \* event_loop_register of the listener can fail
    state,      \* slot state, "free" when not in_use
    empty,      \* recv_used = 0
    age,        \* ticks since last_activity_ms
    parked,     \* ticks since the exchange was deferred
    ready,      \* an answer or a cancellation was posted
    listening,  \* listen_registered
    backlog,    \* clients the kernel holds for accept
    at,         \* where the loop thread is
    timer,      \* what is left of the sleep asked of event_loop_run_once
    batch,      \* events event_loop_run_once has collected and not dispatched
    wake,       \* event_loop_wake was called
    clients, traffic, \* counters: clients so far, connection events so far
    conn,       \* history: which client's connection the slot holds
    waited      \* history: ticks the peer has been waited for since it did anything

slotVars == <<registerFails, state, empty, age, parked, ready, conn, waited>>
vars == <<slotVars, listening, backlog, at, timer, batch, wake, clients, traffic>>

SlotState == {"free", "handshaking", "receiving", "pending", "sending"}
WaitsOnPeer == {"handshaking", "receiving", "sending"}   \* slot_waits_on_peer

InUse(s) == state[s] # "free"
IdleBetweenRequests(s) == state[s] = "receiving" /\ empty[s]   \* slot_is_idle_between_requests

ConnectionEvent == [slot : Slots, conn : 1..MaxClients]
Listen == [slot |-> 0, conn |-> 0]     \* the event of the listening socket

TypeOK ==
    /\ registerFails \in BOOLEAN
    /\ state \in [Slots -> SlotState] /\ empty \in [Slots -> BOOLEAN]
    /\ age \in [Slots -> 0..MaxAge] /\ parked \in [Slots -> 0..DeferTimeout]
    /\ ready \in [Slots -> BOOLEAN]
    /\ listening \in BOOLEAN /\ backlog \in 0..MaxClients
    /\ at \in {"top", "poll", "dispatch", "flush", "deadlines", "idle"}
    /\ timer \in 0..Forever /\ batch \in SUBSET (ConnectionEvent \cup {Listen})
    /\ wake \in BOOLEAN /\ clients \in 0..MaxClients /\ traffic \in 0..MaxTraffic
    /\ conn \in [Slots -> 0..MaxClients] /\ waited \in [Slots -> 0..MaxAge]

Init ==
    /\ registerFails \in Registrations
    /\ state = [s \in Slots |-> "free"] /\ empty = [s \in Slots |-> TRUE]
    /\ age = [s \in Slots |-> 0] /\ parked = [s \in Slots |-> 0]
    /\ ready = [s \in Slots |-> FALSE]
    /\ listening = TRUE /\ backlog = 0
    /\ at = "top" /\ timer = Forever /\ batch = {} /\ wake = FALSE
    /\ clients = 0 /\ traffic = 0
    /\ conn = [s \in Slots |-> 0] /\ waited = [s \in Slots |-> 0]

-------------------------------------------------------------------------------
(* The slots.  An operation on slots gives their new states as one function, *)
(* so that a sweep can change many of them in a step.                        *)

\* Slot values after s has left, or taken up, a state.
Free      == [state |-> "free", empty |-> TRUE, age |-> 0, parked |-> 0]
Slot(st, e, a) == [state |-> st, empty |-> e, age |-> a, parked |-> 0]
Current(s) == [state |-> state[s], empty |-> empty[s], age |-> age[s], parked |-> parked[s]]

\* Mutant: the idle clock is not restarted for an answer that was deferred.
MutantBecomeKeepsClock(new, active) ==
    /\ UNCHANGED registerFails
    /\ state'  = [s \in Slots |-> new[s].state]
    /\ empty'  = [s \in Slots |-> new[s].empty]
    /\ age'    = [s \in Slots |-> IF state[s] = "pending" THEN age[s] ELSE new[s].age]
    /\ parked' = [s \in Slots |-> new[s].parked]
    /\ ready'  = [s \in Slots |-> ready[s] /\ new[s].state = "pending" /\ state[s] = "pending"]
    /\ waited' = [s \in Slots |-> IF s \in active \/ new[s].state \notin WaitsOnPeer THEN 0
                                                                              ELSE waited[s]]

\* The fields of the slots become as new says; the history follows: a peer is waited
\* for from the moment the server turns to it, or it last did something.
Become(new, active) ==
    /\ UNCHANGED registerFails
    /\ state'  = [s \in Slots |-> new[s].state]
    /\ empty'  = [s \in Slots |-> new[s].empty]
    /\ age'    = [s \in Slots |-> new[s].age]
    /\ parked' = [s \in Slots |-> new[s].parked]
    /\ ready'  = [s \in Slots |-> ready[s] /\ new[s].state = "pending" /\ state[s] = "pending"]
    /\ waited' = [s \in Slots |-> IF s \in active \/ new[s].state \notin WaitsOnPeer THEN 0
                                                                              ELSE waited[s]]

\* listener_rearm, called as each of these slots is released.
Rearm(freed) ==
    IF freed # {} /\ ~listening
    THEN listening' = TRUE \/ (registerFails /\ UNCHANGED listening)
    ELSE UNCHANGED listening

\* What a response may become: sent, or too big for the buffer, which closes the
\* connection.  serialize_and_send restarts the idle clock.
Serialized == {Slot("sending", FALSE, 0), Free}

\* run_handler_and_serialize: answered, parked or closed.
Handled == Serialized \cup {Slot("pending", FALSE, 0)}

-------------------------------------------------------------------------------
(* Sleeping: next_tick_ms and event_loop_run_once. *)

Until(limit, elapsed) == IF elapsed >= limit THEN 0 ELSE limit - elapsed

\* Mutant: a parked listener is not considered.
MutantDeadlines ==
    {Until(DeferTimeout, parked[s]) : s \in {q \in Slots : state[q] = "pending"}}
    \cup {Until(IdleTimeout, age[s]) : s \in {q \in Slots : state[q] \in WaitsOnPeer}}

\* How long until the next deferral deadline, idle timeout or, while the listener
\* is parked, chance to reclaim a connection.
Deadlines ==
    {Until(DeferTimeout, parked[s]) : s \in {q \in Slots : state[q] = "pending"}}
    \cup {Until(IdleTimeout, age[s]) : s \in {q \in Slots : state[q] \in WaitsOnPeer}}
    \cup {Until(ReclaimMinIdle, age[s]) :
              s \in {q \in Slots : ~listening /\ IdleBetweenRequests(q)}}

NextTick == IF Deadlines = {} THEN Forever ELSE Min(Deadlines \cup {SleepCap})

Sleep ==
    /\ at = "top"
    /\ at' = "poll" /\ timer' = NextTick
    /\ UNCHANGED <<slotVars, listening, backlog, batch, wake, clients, traffic>>

\* The clock ticks, while the loop sleeps or is busy.  A sweep takes no time: it
\* reads the clock once.
Older(a, limit) == IF a < limit THEN a + 1 ELSE limit

Tick ==
    /\ ~(at = "poll" /\ timer = 0)
    /\ timer' = IF at = "poll" /\ timer # Forever THEN timer - 1 ELSE timer
    /\ age' = [s \in Slots |-> IF InUse(s) THEN Older(age[s], MaxAge) ELSE 0]
    /\ parked' = [s \in Slots |-> IF state[s] = "pending" THEN Older(parked[s], DeferTimeout) ELSE 0]
    /\ waited' = [s \in Slots |-> IF state[s] \in WaitsOnPeer THEN Older(waited[s], MaxAge) ELSE 0]
    /\ UNCHANGED <<registerFails, state, empty, ready, conn, listening, backlog, at, batch, wake, clients, traffic>>

\* The kernel has events: of the listener while it is registered and clients
\* wait, and of any connection.
Connections == {[slot |-> s, conn |-> conn[s]] : s \in {q \in Slots : InUse(q)}}
Pending == IF listening /\ backlog > 0 THEN {Listen} ELSE {}

\* event_loop_run_once returns at once with what there is, or for a wake-up, or
\* when its time is up.
Collect ==
    /\ at = "poll"
    /\ \E events \in SUBSET Connections :
           /\ traffic + Cardinality(events) <= MaxTraffic
           /\ traffic' = traffic + Cardinality(events)
           /\ batch' = events \cup Pending
    /\ batch' # {} \/ wake \/ timer = 0
    /\ at' = "dispatch" /\ wake' = FALSE /\ timer' = 0
    /\ UNCHANGED <<slotVars, listening, backlog, clients>>

-------------------------------------------------------------------------------
(* Dispatching a batch. *)

\* A connection's event: slot s ends up in one of the outcomes.
OnConnection(s, outcomes, active) ==
    \E new \in outcomes :
        /\ Become([q \in Slots |-> IF q = s THEN new ELSE Current(q)], active)
        /\ Rearm(IF new = Free THEN {s} ELSE {})
        /\ UNCHANGED <<backlog, conn>>

\* slot_drive_handshake, slot_drive_receive, slot_probe_pending, slot_drive_send:
\* the outcomes that are the peer's doing, or the handler's.
Progress(s) ==
    CASE state[s] = "handshaking" -> {Slot("receiving", TRUE, 0), Free}
      [] state[s] = "receiving"   -> {Slot("receiving", FALSE, 0)} \cup Handled
      [] state[s] = "pending"     -> {Free}
      [] state[s] = "sending"     -> {Slot("sending", FALSE, 0), Slot("receiving", TRUE, 0),
                                      Slot("receiving", FALSE, 0)} \cup Handled

OnConnectionIo(e) ==
    /\ at = "dispatch" /\ e \in batch \ {Listen}
    /\ batch' = batch \ {e}
    /\ \/ OnConnection(e.slot, Progress(e.slot), {e.slot})
       \/ OnConnection(e.slot, {Current(e.slot)}, {})   \* nothing yet: try again
    /\ UNCHANGED <<at, timer, wake, clients, traffic>>

FreeSlots == {s \in Slots : ~InUse(s)}

\* Mutant: the longest-idle connection makes room at once, during dispatch.
MutantOnListenReadableReclaims ==
    /\ at = "dispatch" /\ Listen \in batch
    /\ batch' = batch \ {Listen}
    /\ LET idle == {q \in Slots : IdleBetweenRequests(q) /\ age[q] >= ReclaimMinIdle} IN
       IF FreeSlots = {} /\ idle = {}
       THEN /\ listening' = FALSE
            /\ UNCHANGED <<slotVars, backlog>>
       ELSE LET s == Min(IF FreeSlots = {} THEN idle ELSE FreeSlots) IN
            /\ conn' = [conn EXCEPT ![s] = clients - backlog + 1]
            /\ backlog' = backlog - 1
            /\ Become([q \in Slots |-> IF q = s THEN Slot("handshaking", TRUE, 0) ELSE Current(q)], {s})
            /\ UNCHANGED listening
    /\ UNCHANGED <<at, timer, wake, clients, traffic>>

\* on_listen_readable: the first free slot takes the first client, unless it is
\* gone already; its handshake is driven at once.  With no slot free the listener
\* is parked.  One client is accepted per event.
OnListenReadable ==
    /\ at = "dispatch" /\ Listen \in batch
    /\ batch' = batch \ {Listen}
    /\ IF FreeSlots = {}
       THEN /\ listening' = FALSE
            /\ UNCHANGED <<slotVars, backlog>>
       ELSE LET s == Min(FreeSlots) IN
            /\ conn' = [conn EXCEPT ![s] = clients - backlog + 1]
            /\ backlog' = backlog - 1
            /\ \E new \in {Slot("handshaking", TRUE, 0), Slot("receiving", TRUE, 0), Free} :
                   Become([q \in Slots |-> IF q = s THEN new ELSE Current(q)], {s})
            /\ UNCHANGED listening
    /\ UNCHANGED <<at, timer, wake, clients, traffic>>

Dispatched ==
    /\ at = "dispatch" /\ batch = {}
    /\ at' = "flush"
    /\ UNCHANGED <<slotVars, listening, backlog, timer, batch, wake, clients, traffic>>

-------------------------------------------------------------------------------
(* Between dispatch and sleep. *)

\* All slots of affected are answered; some of the responses do not fit.
AnswerAll(affected) ==
    \E new \in [affected -> Serialized] :
        /\ Become([s \in Slots |-> IF s \in affected THEN new[s] ELSE Current(s)], affected)
        /\ Rearm({s \in affected : new[s] = Free})

\* flush_pending_responses
Flush ==
    /\ at = "flush"
    /\ AnswerAll({s \in Slots : state[s] = "pending" /\ ready[s]})
    /\ at' = "deadlines"
    /\ UNCHANGED <<backlog, conn, timer, batch, wake, clients, traffic>>

\* Mutant: expired deferrals stay parked.
MutantSweepDeadlinesNever ==
    /\ at = "deadlines"
    /\ at' = "idle"
    /\ UNCHANGED <<slotVars, listening, backlog, timer, batch, wake, clients, traffic>>

\* sweep_pending_deadlines
SweepDeadlines ==
    /\ at = "deadlines"
    /\ AnswerAll({s \in Slots : state[s] = "pending" /\ ~ready[s] /\ parked[s] >= DeferTimeout})
    /\ at' = "idle"
    /\ UNCHANGED <<backlog, conn, timer, batch, wake, clients, traffic>>

\* The slots sweep_idle_connections closes for having been idle too long ...
Expired == {s \in Slots : state[s] \in WaitsOnPeer /\ age[s] >= IdleTimeout}

\* ... and, should the listener still be parked then, find_reclaimable_slot: one
\* that has been idle the longest.
Reclaimable == {s \in Slots \ Expired : IdleBetweenRequests(s) /\ age[s] >= ReclaimMinIdle}
LongestIdle == {s \in Reclaimable : \A q \in Reclaimable : age[q] <= age[s]}

CloseAll(closed) ==
    Become([s \in Slots |-> IF s \in closed THEN Free ELSE Current(s)], {})

\* sweep_idle_connections.  Closing an expired connection re-arms the listener,
\* so none is reclaimed then, unless the registration failed.
SweepIdle ==
    /\ at = "idle"
    /\ \/ CloseAll(Expired) /\ Rearm(Expired)
          /\ (listening' \/ LongestIdle = {})
       \/ \E s \in LongestIdle :
             /\ ~listening /\ (Expired = {} \/ registerFails)
             /\ CloseAll(Expired \cup {s})
             /\ Rearm({s})
    /\ at' = "top"
    /\ UNCHANGED <<backlog, conn, timer, batch, wake, clients, traffic>>

-------------------------------------------------------------------------------
(* Clients, and the workers' answers. *)

Connect ==
    /\ clients < MaxClients
    /\ clients' = clients + 1 /\ backlog' = backlog + 1
    /\ UNCHANGED <<slotVars, listening, at, timer, batch, wake, traffic>>

Answer(s) ==
    /\ state[s] = "pending" /\ ~ready[s]
    /\ ready' = [ready EXCEPT ![s] = TRUE]
    /\ wake' = TRUE
    /\ UNCHANGED <<registerFails, state, empty, age, parked, conn, waited, listening, backlog, at, timer, batch,
                   clients, traffic>>

Loop ==
    Sleep \/ Collect \/ OnListenReadable \/ (\E e \in batch \ {Listen} : OnConnectionIo(e))
    \/ Dispatched \/ Flush \/ SweepDeadlines \/ SweepIdle

Next == Loop \/ Tick \/ Connect \/ \E s \in Slots : Answer(s)

Spec == Init /\ [][Next]_vars

\* The loop thread runs and time passes; no peer and no worker has to do anything.
FairSpec == Spec /\ WF_vars(Loop) /\ WF_vars(Tick)

-------------------------------------------------------------------------------
(* Properties. *)

\* An event collected for a connection is dispatched to that connection: its
\* slot has not been given to another client in the meantime.  This is why
\* on_listen_readable closes nothing and leaves the reclaiming to the sweep.
EventsReachTheirConnection ==
    \A e \in batch \ {Listen} : InUse(e.slot) /\ conn[e.slot] = e.conn

\* The loop never oversleeps: while it sleeps on, no connection is beyond its
\* idle timeout or its deferral's deadline, and with the listener parked none is
\* there that could be closed for a waiting client.
NeverOversleeps ==
    at = "poll" /\ timer # 0 =>
        \A s \in Slots :
            /\ state[s] \in WaitsOnPeer => age[s] < IdleTimeout
            /\ state[s] = "pending" => parked[s] < DeferTimeout
            /\ ~listening /\ IdleBetweenRequests(s) => age[s] < ReclaimMinIdle

\* If it can always be registered again, the listener is parked only while every
\* slot is busy ("Stop listening until a slot frees"): whenever the loop goes to
\* sleep a free slot means that clients are being listened for.
ParkedOnlyWhenFull ==
    ~registerFails /\ at \in {"top", "poll"} /\ ~listening => \A s \in Slots : InUse(s)

\* A peer is given its time: the sweep closes a connection only if the peer was
\* waited for all of the idle timeout, time parked on a deferral or spent in a
\* handler not counted, or, if it has no request under way and another client
\* may be waiting, all of the minimum for reclaiming.
PeersGetTheirTime ==
    [][at = "idle" =>
          \A s \in Slots : InUse(s) /\ state'[s] = "free" =>
              \/ state[s] \in WaitsOnPeer /\ waited[s] >= IdleTimeout
              \/ ~listening /\ IdleBetweenRequests(s) /\ waited[s] >= ReclaimMinIdle]_vars

\* A client that connects is eventually accepted, even if every slot is taken by
\* a peer that never says a word again or a deferral nobody answers; again if the
\* listener can always be registered.
ClientsAreAdmitted == ~registerFails /\ backlog > 0 ~> backlog = 0
-------------------------------------------------------------------------------
(* The inductive invariant.                                                  *)

\* The clients in the backlog have connected, and an event of the listener in
\* the batch is about one of them.
InvBacklog ==
    /\ backlog <= clients
    /\ Listen \in batch => backlog > 0

\* Events are dispatched before anything but their own handlers runs, and a slot
\* in use holds the connection of some client.
InvBatch ==
    /\ at # "dispatch" => batch = {}
    /\ \A s \in Slots : InUse(s) => conn[s] # 0

\* The listener stays parked only while every slot is busy, wherever the loop is.
InvListener == ~registerFails /\ ~listening => \A s \in Slots : InUse(s)

\* The idle clock never runs ahead of the time the peer was really waited for.
InvWaited == \A s \in Slots : state[s] \in WaitsOnPeer => age[s] <= waited[s]

\* A sleep is no longer than what was left, when it began, of any limit it has to
\* watch, and time takes from both alike.
WakesWithin(d) == timer # Forever /\ timer <= d

InvSleep ==
    at = "poll" =>
        \A s \in Slots :
            /\ state[s] \in WaitsOnPeer => WakesWithin(Until(IdleTimeout, age[s]))
            /\ state[s] = "pending" => WakesWithin(Until(DeferTimeout, parked[s]))
            /\ ~listening /\ IdleBetweenRequests(s) => WakesWithin(Until(ReclaimMinIdle, age[s]))

IInv ==
    /\ TypeOK /\ InvBacklog /\ InvBatch /\ EventsReachTheirConnection
    /\ InvListener /\ InvWaited /\ InvSleep

===============================================================================
