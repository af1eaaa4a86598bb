------------------------- MODULE ConnectionPool_proofs -------------------------
(***************************************************************************)
(* Proofs about ConnectionPool, for any number of slots and clients and    *)
(* any time-outs: events reach the connection they were collected for, the *)
(* loop does not sleep past a deadline, the listener is parked only while  *)
(* every slot is busy, and the sweep closes nobody before their time.      *)
(***************************************************************************)
EXTENDS ConnectionPool, FiniteSetTheorems, TLAPS

-------------------------------------------------------------------------------
(* Minima and maxima. *)

\* Every non-empty set of natural numbers has a least element: among the intervals
\* 0..m for its elements m one is minimal under inclusion.
LEMMA LeastNumber ==
    ASSUME NEW S, S \subseteq Nat, S # {}
    PROVE  \E x \in S : \A y \in S : x <= y
  <1>1. PICK n \in S : TRUE
    OBVIOUS
  <1> DEFINE U == 0..n
             T == {0..m : m \in {k \in S : k <= n}}
             R == StrictSubsetOrdering(U)
  <1>2. IsWellFoundedOn(R, FiniteSubsetsOf(U))
    BY FS_StrictSubsetOrderingWellFounded
  <1>3. T \subseteq FiniteSubsetsOf(U)
    <2> SUFFICES ASSUME NEW m \in S, m <= n PROVE 0..m \in FiniteSubsetsOf(U)
      OBVIOUS
    <2>1. IsFiniteSet(0..m)
      BY FS_Interval
    <2> QED
      BY <2>1 DEF FiniteSubsetsOf
  <1>4. T # {}
    OBVIOUS
  <1>5. \E x \in T : \A y \in T : <<y, x>> \notin R
    <2> HIDE DEF U, T, R
    <2> QED
      BY <1>2, <1>3, <1>4, WFMin
  <1>6. PICK m \in S : m <= n /\ \A y \in T : <<y, 0..m>> \notin R
    BY <1>5
  <1>7. ASSUME NEW y \in S, y < m PROVE FALSE
    <2>1. 0..y \in T
      BY <1>6, <1>7
    <2>2. 0..y \in SUBSET U /\ 0..m \in SUBSET U /\ 0..y \subseteq 0..m /\ 0..y # 0..m
      BY <1>6, <1>7
    <2> QED
      BY <1>6, <2>1, <2>2 DEF StrictSubsetOrdering
  <1> QED
    BY <1>7

\* The least of some numbers is one of them, and none is less.
LEMMA MinIsLeast ==
    ASSUME NEW S, S \subseteq Nat, S # {}
    PROVE  Min(S) \in S /\ \A y \in S : Min(S) <= y
  BY LeastNumber DEF Min

\* The bound of the ages is beyond every limit they are compared with.
LEMMA MaxAgeCovers ==
    MaxAge \in Nat \ {0} /\ IdleTimeout <= MaxAge /\ ReclaimMinIdle <= MaxAge
  <1>1. \E x \in {IdleTimeout, ReclaimMinIdle} : \A y \in {IdleTimeout, ReclaimMinIdle} : x >= y
    BY PoolAssumption
  <1> QED
    BY <1>1, PoolAssumption DEF MaxAge, Max

\* The time until a limit is no longer than the limit, and 0 once it has passed.
LEMMA UntilBounds ==
    ASSUME NEW limit \in Nat, NEW elapsed \in Nat
    PROVE  /\ Until(limit, elapsed) \in 0..limit
           /\ Until(limit, elapsed) > 0 => elapsed < limit
  BY DEF Until

-------------------------------------------------------------------------------
(* What an operation does to the slots. *)

SlotValue == [state : SlotState, empty : BOOLEAN, age : 0..MaxAge, parked : 0..DeferTimeout]

SlotsTyped ==
    /\ registerFails \in BOOLEAN
    /\ state \in [Slots -> SlotState] /\ empty \in [Slots -> BOOLEAN]
    /\ age \in [Slots -> 0..MaxAge] /\ parked \in [Slots -> 0..DeferTimeout]
    /\ ready \in [Slots -> BOOLEAN] /\ waited \in [Slots -> 0..MaxAge]

\* The values the model gives to slots are of their type.
LEMMA SlotValues ==
    /\ Free \in SlotValue /\ Free.age = 0 /\ Free.state = "free"
    /\ \A st \in SlotState, e \in BOOLEAN :
           /\ Slot(st, e, 0) \in SlotValue
           /\ Slot(st, e, 0).age = 0 /\ Slot(st, e, 0).state = st
  BY MaxAgeCovers, PoolAssumption DEF Free, Slot, SlotValue, SlotState

\* A slot has the state it is listed with, and one in use is not free.
LEMMA CurrentValue ==
    ASSUME TypeOK, NEW s \in Slots
    PROVE  /\ Current(s) \in SlotValue /\ Current(s).state = state[s]
           /\ InUse(s) => Current(s) # Free
  BY DEF TypeOK, Current, SlotValue, InUse, Free

\* Slots that keep their values or restart their idle clock keep their types, and
\* keep the clock behind the time waited.
LEMMA BecomeStep ==
    ASSUME TypeOK, InvWaited, NEW new \in [Slots -> SlotValue], NEW active,
           Become(new, active),
           \A s \in Slots : new[s].age = 0 \/ (new[s] = Current(s) /\ s \notin active)
    PROVE  /\ SlotsTyped' /\ InvWaited'
           /\ \A s \in Slots : state'[s] = new[s].state
  <1>1. \A s \in Slots : /\ new[s].state \in SlotState /\ new[s].empty \in BOOLEAN
                         /\ new[s].age \in 0..MaxAge /\ new[s].parked \in 0..DeferTimeout
    BY DEF SlotValue
  <1>2. SlotsTyped'
    <2>1. waited' \in [Slots -> 0..MaxAge]
      BY MaxAgeCovers DEF Become, TypeOK
    <2>2. ready' \in [Slots -> BOOLEAN]
      BY DEF Become, TypeOK
    <2> QED
      BY <1>1, <2>1, <2>2 DEF Become, TypeOK, SlotsTyped
  <1>3. InvWaited'
    <2> SUFFICES ASSUME NEW s \in Slots, state'[s] \in WaitsOnPeer PROVE age'[s] <= waited'[s]
      BY DEF InvWaited
    <2>1. age'[s] = new[s].age /\ state'[s] = new[s].state
      BY DEF Become
    <2>2. waited'[s] = IF s \in active THEN 0 ELSE waited[s]
      BY <2>1 DEF Become
    <2> QED
      BY <2>1, <2>2 DEF InvWaited, TypeOK, Current
  <1> QED
    BY <1>2, <1>3 DEF Become

\* Re-arming keeps the listener from being parked beside a free slot, if it is
\* tried whenever one is freed.
LEMMA RearmStep ==
    ASSUME TypeOK, InvListener, NEW freed, Rearm(freed), UNCHANGED registerFails,
           freed = {} => \A s \in Slots : InUse(s) => InUse(s)'
    PROVE  listening' \in BOOLEAN /\ InvListener'
  <1>1. listening' \in BOOLEAN /\ (listening => listening')
    BY DEF Rearm, TypeOK
  <1>2. CASE freed = {}
    BY <1>1, <1>2 DEF Rearm, InvListener
  <1>3. CASE freed # {}
    BY <1>1, <1>3 DEF Rearm, InvListener
  <1> QED
    BY <1>2, <1>3, <1>1

\* Outside the sleep, an operation on the slots that tries to register the listener
\* again when it frees one, and frees none an event is waiting for, is safe.
LEMMA SlotsStep ==
    ASSUME IInv, NEW new \in [Slots -> SlotValue], NEW active, NEW freed,
           Become(new, active), Rearm(freed),
           \A s \in Slots : new[s].age = 0 \/ (new[s] = Current(s) /\ s \notin active),
           \A s \in Slots : ~InUse(s) => new[s].state = "free",
           freed = {} => \A s \in Slots : InUse(s) => new[s].state # "free",
           \A e \in batch' \ {Listen} : new[e.slot].state # "free",
           batch' \subseteq batch,
           at' \in {"top", "dispatch", "flush", "deadlines", "idle"},
           at' # "dispatch" => batch' = {},
           UNCHANGED <<timer, backlog, conn, wake, clients, traffic>>
    PROVE  IInv'
  <1> USE DEF IInv
  <1>1. SlotsTyped' /\ InvWaited' /\ \A s \in Slots : state'[s] = new[s].state
    BY BecomeStep
  <1>2. \A s \in Slots : InUse(s)' <=> new[s].state # "free"
    BY <1>1 DEF InUse
  <1>3. UNCHANGED registerFails
    BY DEF Become
  <1>4. listening' \in BOOLEAN /\ InvListener'
    BY <1>2, <1>3, RearmStep
  <1>5. TypeOK'
    BY <1>1, <1>4 DEF TypeOK, SlotsTyped
  <1>6. InvBacklog'
    BY DEF InvBacklog
  <1>7. InvBatch'
    BY <1>2 DEF InvBatch
  <1>8. EventsReachTheirConnection'
    <2> SUFFICES ASSUME NEW e \in batch' \ {Listen}
                 PROVE  InUse(e.slot)' /\ conn'[e.slot] = e.conn
      BY DEF EventsReachTheirConnection
    <2>1. e \in batch \ {Listen} /\ e.slot \in Slots
      BY DEF TypeOK, ConnectionEvent
    <2> QED
      BY <1>2, <2>1 DEF EventsReachTheirConnection
  <1>9. InvSleep'
    BY DEF InvSleep
  <1> QED
    BY <1>1, <1>4, <1>5, <1>6, <1>7, <1>8, <1>9

-------------------------------------------------------------------------------
(* Dispatching. *)

\* Everything an event of a connection may turn its slot into restarts the clock.
LEMMA ProgressValues ==
    ASSUME TypeOK, NEW s \in Slots, InUse(s), NEW new \in Progress(s)
    PROVE  new \in SlotValue /\ new.age = 0 /\ (new.state = "free" => new = Free)
  <1>1. state[s] \in {"handshaking", "receiving", "pending", "sending"}
    BY DEF TypeOK, SlotState, InUse
  <1>2. new = Free \/ \E st \in SlotState \ {"free"}, e \in BOOLEAN : new = Slot(st, e, 0)
    BY <1>1 DEF Progress, Handled, Serialized, SlotState
  <1> QED
    BY <1>2, SlotValues

\* Two events in a batch are about two slots.
LEMMA OneEventPerSlot ==
    ASSUME TypeOK, EventsReachTheirConnection,
           NEW e \in batch \ {Listen}, NEW f \in batch \ {Listen}, e.slot = f.slot
    PROVE  e = f
  <1>1. e \in ConnectionEvent /\ f \in ConnectionEvent
    BY DEF TypeOK
  <1>2. e.conn = f.conn
    BY DEF EventsReachTheirConnection
  <1> QED
    BY <1>1, <1>2 DEF ConnectionEvent

\* on_connection_io keeps the invariant of the pool.
LEMMA OnConnectionIoStep ==
    ASSUME IInv, NEW e \in batch \ {Listen}, OnConnectionIo(e)
    PROVE  IInv'
  <1> DEFINE s == e.slot
             With(new) == [q \in Slots |-> IF q = s THEN new ELSE Current(q)]
  <1>1. TypeOK /\ s \in Slots /\ InUse(s)
    BY DEF IInv, TypeOK, ConnectionEvent, EventsReachTheirConnection
  <1>2. at = "dispatch" /\ batch' = batch \ {e} /\ UNCHANGED <<at, timer, wake, clients, traffic>>
    BY DEF OnConnectionIo
  <1>3. \A f \in batch' \ {Listen} : f.slot \in Slots \ {s} /\ state[f.slot] # "free"
    <2> SUFFICES ASSUME NEW f \in batch' \ {Listen}
                 PROVE  f.slot \in Slots \ {s} /\ state[f.slot] # "free"
      OBVIOUS
    <2>1. f \in batch \ {Listen} /\ f # e
      BY <1>2
    <2> QED
      BY <2>1, OneEventPerSlot DEF IInv, TypeOK, ConnectionEvent, EventsReachTheirConnection, InUse
  <1>4. PICK new, active, freed :
            /\ Become(With(new), active) /\ Rearm(freed) /\ UNCHANGED <<backlog, conn>>
            /\ freed = IF new = Free THEN {s} ELSE {}
            /\ \/ new \in Progress(s) /\ active = {s}
               \/ new = Current(s) /\ active = {}
    BY DEF OnConnectionIo, OnConnection
  <1>5. /\ new \in SlotValue /\ (new.state = "free" => new = Free)
        /\ new.age = 0 \/ (new = Current(s) /\ s \notin active)
    BY <1>1, <1>4, ProgressValues, CurrentValue DEF InUse
  <1>6. With(new) \in [Slots -> SlotValue]
    BY <1>1, <1>5, CurrentValue
  <1>7. \A q \in Slots : With(new)[q].age = 0 \/ (With(new)[q] = Current(q) /\ q \notin active)
    BY <1>4, <1>5
  <1>8. \A q \in Slots : ~InUse(q) => With(new)[q].state = "free"
    BY <1>1, CurrentValue DEF InUse
  <1>9. freed = {} => \A q \in Slots : InUse(q) => With(new)[q].state # "free"
    BY <1>1, <1>4, <1>5, CurrentValue DEF InUse
  <1>10. \A f \in batch' \ {Listen} : With(new)[f.slot].state # "free"
    BY <1>1, <1>3, CurrentValue
  <1> HIDE DEF With
  <1> QED
    BY <1>2, <1>4, <1>6, <1>7, <1>8, <1>9, <1>10, SlotsStep

\* A client is given a slot nobody uses, so that no event is misled; without one
\* the listener is parked, and every slot is busy.
LEMMA OnListenReadableStep ==
    ASSUME IInv, OnListenReadable
    PROVE  IInv'
  <1> USE DEF IInv
  <1>1. /\ batch' = batch \ {Listen} /\ at = "dispatch" /\ backlog \in 1..clients
        /\ clients \in 0..MaxClients /\ UNCHANGED <<at, timer, wake, clients, traffic>>
    BY DEF OnListenReadable, InvBacklog, TypeOK
  <1>2. CASE FreeSlots = {}
    <2>1. listening' = FALSE /\ UNCHANGED <<slotVars, backlog>>
      BY <1>2 DEF OnListenReadable
    <2>2. TypeOK'
      BY <1>1, <2>1 DEF TypeOK, slotVars
    <2>3. InvListener'
      BY <1>2, <2>1 DEF InvListener, FreeSlots, InUse, slotVars
    <2>4. EventsReachTheirConnection' /\ InvBatch' /\ InvWaited'
      BY <1>1, <2>1 DEF EventsReachTheirConnection, InvBatch, InvWaited, InUse, slotVars
    <2>5. InvBacklog' /\ InvSleep'
      BY <1>1, <2>1 DEF InvBacklog, InvSleep
    <2> QED
      BY <2>2, <2>3, <2>4, <2>5
  <1>3. CASE FreeSlots # {}
    <2> DEFINE s == Min(FreeSlots)
               With(new) == [q \in Slots |-> IF q = s THEN new ELSE Current(q)]
    <2>1. s \in Slots /\ ~InUse(s)
      <3>1. FreeSlots \subseteq Nat
        BY DEF FreeSlots, Slots
      <3> QED
        BY <1>3, <3>1, MinIsLeast DEF FreeSlots
    <2>2. /\ conn' = [conn EXCEPT ![s] = clients - backlog + 1]
          /\ backlog' = backlog - 1 /\ UNCHANGED listening
      BY <1>3 DEF OnListenReadable
    <2>3. PICK new \in {Slot("handshaking", TRUE, 0), Slot("receiving", TRUE, 0), Free} :
              Become(With(new), {s})
      BY <1>3 DEF OnListenReadable
    <2>4. new \in SlotValue /\ new.age = 0
      BY SlotValues DEF SlotState
    <2>5. SlotsTyped' /\ InvWaited' /\ \A q \in Slots : state'[q] = With(new)[q].state
      <3>1. With(new) \in [Slots -> SlotValue]
        BY <2>4, CurrentValue
      <3>2. \A q \in Slots : With(new)[q].age = 0 \/ (With(new)[q] = Current(q) /\ q \notin {s})
        BY <2>4
      <3> HIDE DEF With, s
      <3> QED
        BY <2>3, <3>1, <3>2, BecomeStep
    <2>6. \A q \in Slots : InUse(q) => InUse(q)' /\ q # s /\ conn'[q] = conn[q]
      BY <2>1, <2>2, <2>5, CurrentValue DEF InUse, TypeOK
    <2>7. clients - backlog + 1 \in 1..MaxClients /\ backlog - 1 \in 0..MaxClients
      BY <1>1, PoolAssumption
    <2>8. TypeOK'
      <3>1. conn' \in [Slots -> 0..MaxClients]
        <4> HIDE DEF s
        <4> QED
          BY <2>1, <2>2, <2>7 DEF TypeOK
      <3>2. backlog' \in 0..MaxClients /\ listening' \in BOOLEAN
        BY <2>2, <2>7 DEF TypeOK
      <3> QED
        BY <1>1, <2>5, <3>1, <3>2 DEF TypeOK, SlotsTyped
    <2>9. EventsReachTheirConnection'
      <3> SUFFICES ASSUME NEW e \in batch' \ {Listen}
                   PROVE  InUse(e.slot)' /\ conn'[e.slot] = e.conn
        BY DEF EventsReachTheirConnection
      <3>1. e \in batch \ {Listen} /\ e.slot \in Slots
        BY <1>1 DEF TypeOK, ConnectionEvent
      <3> QED
        BY <2>6, <3>1 DEF EventsReachTheirConnection
    <2>10. InvBatch'
      <3>1. \A q \in Slots : InUse(q)' => conn'[q] # 0
        <4> SUFFICES ASSUME NEW q \in Slots, InUse(q)' PROVE conn'[q] # 0
          OBVIOUS
        <4>1. CASE q = s
          BY <2>1, <2>2, <2>7, <4>1 DEF TypeOK
        <4>2. CASE q # s
          BY <2>2, <2>5, <4>2, CurrentValue DEF TypeOK, InvBatch, InUse
        <4> QED
          BY <4>1, <4>2
      <3> QED
        BY <1>1, <3>1 DEF InvBatch
    <2>11. InvListener'
      BY <2>1, <2>2, <2>3 DEF InvListener, Become
    <2>12. InvBacklog' /\ InvSleep'
      BY <1>1, <2>2 DEF InvBacklog, InvSleep
    <2> QED
      BY <2>5, <2>8, <2>9, <2>10, <2>11, <2>12
  <1> QED
    BY <1>2, <1>3

-------------------------------------------------------------------------------
(* Flushing and sweeping. *)

\* Answering pending slots, from the flush or past their deadlines, keeps the invariant.
LEMMA AnswerAllStep ==
    ASSUME IInv, NEW affected \in SUBSET {s \in Slots : state[s] = "pending"},
           AnswerAll(affected), at \in {"flush", "deadlines"}, at' \in {"deadlines", "idle"},
           UNCHANGED <<backlog, conn, timer, batch, wake, clients, traffic>>
    PROVE  IInv'
  <1>1. PICK chosen \in [affected -> Serialized] :
            /\ Become([s \in Slots |-> IF s \in affected THEN chosen[s] ELSE Current(s)], affected)
            /\ Rearm({s \in affected : chosen[s] = Free})
    BY DEF AnswerAll
  <1> DEFINE new == [s \in Slots |-> IF s \in affected THEN chosen[s] ELSE Current(s)]
             freed == {s \in affected : chosen[s] = Free}
  <1>2. \A v \in Serialized : v \in SlotValue /\ v.age = 0 /\ (v.state = "free" => v = Free)
    BY SlotValues DEF Serialized, SlotState
  <1>3. TypeOK /\ batch = {}
    BY DEF IInv, InvBatch
  <1>4. new \in [Slots -> SlotValue]
    BY <1>2, <1>3, CurrentValue
  <1>5. \A s \in Slots : new[s].age = 0 \/ (new[s] = Current(s) /\ s \notin affected)
    BY <1>2
  <1>6. \A s \in Slots : ~InUse(s) => new[s].state = "free"
    BY <1>3, CurrentValue DEF InUse
  <1>7. freed = {} => \A s \in Slots : InUse(s) => new[s].state # "free"
    BY <1>2, <1>3, CurrentValue DEF InUse
  <1> HIDE DEF new, freed
  <1>8. Become(new, affected) /\ Rearm(freed)
    BY <1>1 DEF new, freed
  <1> QED
    BY <1>3, <1>4, <1>5, <1>6, <1>7, <1>8, SlotsStep

\* Closing slots, and listening again where that frees one, keeps the invariant.
LEMMA CloseAllStep ==
    ASSUME IInv, NEW closed \in SUBSET Slots, NEW freed, CloseAll(closed), Rearm(freed),
           freed = {} => closed = {}, \A s \in closed : InUse(s),
           at = "idle", at' = "top",
           UNCHANGED <<backlog, conn, timer, batch, wake, clients, traffic>>
    PROVE  IInv'
  <1> DEFINE new == [s \in Slots |-> IF s \in closed THEN Free ELSE Current(s)]
  <1>1. TypeOK /\ batch = {}
    BY DEF IInv, InvBatch
  <1>2. new \in [Slots -> SlotValue]
    BY <1>1, CurrentValue, SlotValues
  <1>3. \A s \in Slots : new[s].age = 0 \/ (new[s] = Current(s) /\ s \notin {})
    BY SlotValues
  <1>4. \A s \in Slots : ~InUse(s) => new[s].state = "free"
    BY <1>1, CurrentValue, SlotValues DEF InUse
  <1>5. freed = {} => \A s \in Slots : InUse(s) => new[s].state # "free"
    BY <1>1, CurrentValue DEF InUse
  <1> HIDE DEF new
  <1>6. Become(new, {})
    BY DEF CloseAll, new
  <1> QED
    BY <1>1, <1>2, <1>3, <1>4, <1>5, <1>6, SlotsStep

\* The sweep of idle connections keeps the invariant of the pool.
LEMMA SweepIdleStep ==
    ASSUME IInv, SweepIdle
    PROVE  IInv'
  <1>1. Expired \subseteq Slots /\ LongestIdle \subseteq Slots
    BY DEF Expired, LongestIdle, Reclaimable
  <1>2. \A s \in Expired \cup LongestIdle : InUse(s)
    BY DEF Expired, LongestIdle, Reclaimable, IdleBetweenRequests, InUse, WaitsOnPeer
  <1>3. CASE CloseAll(Expired) /\ Rearm(Expired)
    BY <1>1, <1>2, <1>3, CloseAllStep DEF SweepIdle
  <1>4. ASSUME NEW s \in LongestIdle, CloseAll(Expired \cup {s}), Rearm({s}) PROVE IInv'
    BY <1>1, <1>2, <1>4, CloseAllStep DEF SweepIdle
  <1> QED
    BY <1>3, <1>4 DEF SweepIdle

-------------------------------------------------------------------------------
(* Sleeping. *)

\* What the loop computes its sleep from are numbers.
LEMMA DeadlinesAreNumbers ==
    ASSUME TypeOK
    PROVE  Deadlines \subseteq Nat
  <1> SUFFICES ASSUME NEW s \in Slots
               PROVE  /\ Until(DeferTimeout, parked[s]) \in Nat
                      /\ Until(IdleTimeout, age[s]) \in Nat
                      /\ Until(ReclaimMinIdle, age[s]) \in Nat
    BY DEF Deadlines
  <1>1. parked[s] \in Nat /\ age[s] \in Nat
    BY MaxAgeCovers, PoolAssumption DEF TypeOK
  <1> QED
    BY <1>1, PoolAssumption DEF Until

\* next_tick_ms finds the smallest of all that is left.
LEMMA NextTickIsSoon ==
    ASSUME TypeOK
    PROVE  /\ NextTick \in 0..Forever
           /\ \A d \in Deadlines : NextTick # Forever /\ NextTick <= d
  <1>1. CASE Deadlines = {}
    BY <1>1, PoolAssumption DEF NextTick, Forever
  <1>2. CASE Deadlines # {}
    <2> DEFINE D == Deadlines \cup {SleepCap}
    <2>1. D \subseteq Nat /\ D # {}
      BY DeadlinesAreNumbers, PoolAssumption
    <2>2. Min(D) \in Nat /\ \A d \in D : Min(D) <= d
      BY <2>1, MinIsLeast
    <2>3. NextTick = Min(D)
      BY <1>2 DEF NextTick
    <2> HIDE DEF D
    <2>4. SleepCap \in D /\ Deadlines \subseteq D
      BY DEF D
    <2> QED
      BY <2>2, <2>3, <2>4, <2>1, PoolAssumption DEF Forever
  <1> QED
    BY <1>1, <1>2

\* Computing the sleep of the loop keeps the invariant of the pool.
LEMMA SleepStep ==
    ASSUME IInv, Sleep
    PROVE  IInv'
  <1> USE DEF IInv
  <1>1. UNCHANGED <<slotVars, listening, backlog, batch, wake, clients, traffic>>
        /\ at = "top" /\ at' = "poll" /\ timer' = NextTick
    BY DEF Sleep
  <1>2. TypeOK'
    BY <1>1, NextTickIsSoon DEF TypeOK, slotVars
  <1>3. InvSleep'
    <2> SUFFICES ASSUME NEW s \in Slots
                 PROVE  /\ state[s] \in WaitsOnPeer => Until(IdleTimeout, age[s]) \in Deadlines
                        /\ state[s] = "pending" => Until(DeferTimeout, parked[s]) \in Deadlines
                        /\ ~listening /\ IdleBetweenRequests(s)
                               => Until(ReclaimMinIdle, age[s]) \in Deadlines
      <3>1. \A d \in Deadlines : timer' # Forever /\ timer' <= d
        BY <1>1, NextTickIsSoon
      <3> QED
        BY <1>1, <3>1 DEF InvSleep, WakesWithin, slotVars, IdleBetweenRequests
    <2> QED
      BY DEF Deadlines
  <1>4. InvBacklog' /\ InvBatch' /\ EventsReachTheirConnection'
    BY <1>1 DEF InvBacklog, InvBatch, EventsReachTheirConnection, InUse, slotVars
  <1>5. InvListener' /\ InvWaited'
    BY <1>1 DEF InvListener, InvWaited, InUse, slotVars
  <1> QED
    BY <1>2, <1>3, <1>4, <1>5

\* A tick takes one from the sleep and one from what is left of every limit.
LEMMA UntilOlder ==
    ASSUME NEW limit \in Nat, NEW cap \in Nat, limit <= cap, NEW a \in 0..cap,
           NEW t \in Nat \ {0}, t <= Until(limit, a)
    PROVE  t - 1 <= Until(limit, Older(a, cap))
  BY DEF Until, Older

\* Time passing while the loop sleeps keeps the invariant of the pool.
LEMMA TickStep ==
    ASSUME IInv, Tick
    PROVE  IInv'
  <1> USE DEF IInv
  <1>1. UNCHANGED <<registerFails, state, empty, ready, conn, listening, backlog, at, batch, wake,
                    clients, traffic>>
    BY DEF Tick
  <1>2. /\ age' \in [Slots -> 0..MaxAge] /\ waited' \in [Slots -> 0..MaxAge]
        /\ parked' \in [Slots -> 0..DeferTimeout]
    BY MaxAgeCovers, PoolAssumption DEF Tick, TypeOK, Older
  <1>3. TypeOK'
    <2>1. timer' \in 0..Forever
      BY PoolAssumption DEF Tick, TypeOK, Forever
    <2> QED
      BY <1>1, <1>2, <2>1 DEF TypeOK
  <1>4. InvWaited'
    <2> SUFFICES ASSUME NEW s \in Slots, state[s] \in WaitsOnPeer PROVE age'[s] <= waited'[s]
      BY <1>1 DEF InvWaited
    <2>1. age'[s] = Older(age[s], MaxAge) /\ waited'[s] = Older(waited[s], MaxAge)
      BY DEF Tick, TypeOK, InUse, WaitsOnPeer
    <2> QED
      BY <2>1, MaxAgeCovers DEF InvWaited, TypeOK, Older
  <1>5. InvSleep'
    <2> SUFFICES ASSUME at = "poll", NEW s \in Slots
                 PROVE  /\ state[s] \in WaitsOnPeer =>
                               WakesWithin(Until(IdleTimeout, age[s]))'
                        /\ state[s] = "pending" =>
                               WakesWithin(Until(DeferTimeout, parked[s]))'
                        /\ ~listening /\ IdleBetweenRequests(s) =>
                               WakesWithin(Until(ReclaimMinIdle, age[s]))'
      BY <1>1 DEF InvSleep, IdleBetweenRequests
    <2>1. /\ timer \in 0..Forever /\ timer # 0 /\ age[s] \in 0..MaxAge
          /\ parked[s] \in 0..DeferTimeout
      BY DEF Tick, TypeOK
    <2>2. timer # Forever => timer' = timer - 1 /\ timer' # Forever
      BY <2>1, PoolAssumption DEF Tick, Forever
    <2>3. /\ InUse(s) => age'[s] = Older(age[s], MaxAge)
          /\ state[s] = "pending" => parked'[s] = Older(parked[s], DeferTimeout)
      BY DEF Tick
    <2>4. ASSUME NEW limit \in {IdleTimeout, ReclaimMinIdle}, InUse(s),
                 WakesWithin(Until(limit, age[s]))
          PROVE  WakesWithin(Until(limit, age[s]))'
      BY <2>1, <2>2, <2>3, <2>4, MaxAgeCovers, UntilOlder, PoolAssumption DEF WakesWithin, Forever
    <2>5. ASSUME state[s] = "pending", WakesWithin(Until(DeferTimeout, parked[s]))
          PROVE  WakesWithin(Until(DeferTimeout, parked[s]))'
      BY <2>1, <2>2, <2>3, <2>5, UntilOlder, PoolAssumption DEF WakesWithin, Forever
    <2> QED
      BY <2>4, <2>5 DEF InvSleep, InUse, WaitsOnPeer, IdleBetweenRequests
  <1>6. InvBacklog' /\ InvBatch' /\ EventsReachTheirConnection' /\ InvListener'
    BY <1>1 DEF InvBacklog, InvBatch, EventsReachTheirConnection, InvListener, InUse
  <1> QED
    BY <1>3, <1>4, <1>5, <1>6

\* The events collected are those of the connections there are.
LEMMA CollectStep ==
    ASSUME IInv, Collect
    PROVE  IInv'
  <1> USE DEF IInv
  <1>1. /\ UNCHANGED <<slotVars, listening, backlog, clients>> /\ wake' = FALSE
        /\ at' = "dispatch" /\ timer' = 0
    BY DEF Collect
  <1>2. PICK events \in SUBSET Connections :
            /\ batch' = events \cup Pending
            /\ traffic' = traffic + Cardinality(events)
            /\ traffic' <= MaxTraffic
    BY DEF Collect
  <1>3. \A e \in events : /\ e \in ConnectionEvent /\ e # Listen
                          /\ InUse(e.slot) /\ conn[e.slot] = e.conn
    <2> SUFFICES ASSUME NEW s \in Slots, InUse(s)
                 PROVE  LET e == [slot |-> s, conn |-> conn[s]] IN
                        /\ e \in ConnectionEvent /\ e # Listen
                        /\ InUse(e.slot) /\ conn[e.slot] = e.conn
      BY <1>2 DEF Connections
    <2>1. conn[s] \in 1..MaxClients /\ s # 0
      BY DEF InvBatch, TypeOK, Slots
    <2> QED
      BY <2>1 DEF ConnectionEvent, Listen
  <1>4. Pending \subseteq {Listen} /\ (Listen \in Pending => backlog > 0)
    BY DEF Pending
  <1>5. traffic' \in 0..MaxTraffic
    <2>1. IsFiniteSet(events)
      <3>1. IsFiniteSet(Slots)
        BY FS_Interval, PoolAssumption DEF Slots
      <3>2. IsFiniteSet({q \in Slots : InUse(q)})
        BY <3>1, FS_Subset
      <3>3. [e \in Connections |-> e.slot] \in Injection(Connections, {q \in Slots : InUse(q)})
        BY DEF Connections, Injection, IsInjective
      <3>4. IsFiniteSet(Connections)
        BY <3>2, <3>3, FS_Injection
      <3> QED
        BY <1>2, <3>4, FS_Subset
    <2>2. Cardinality(events) \in Nat
      BY <2>1, FS_CardinalityType
    <2> QED
      BY <1>2, <2>2, PoolAssumption DEF TypeOK
  <1>6. TypeOK'
    <2>1. batch' \in SUBSET (ConnectionEvent \cup {Listen})
      BY <1>2, <1>3, <1>4
    <2>2. timer' \in 0..Forever
      BY <1>1, PoolAssumption DEF Forever
    <2> QED
      BY <1>1, <1>5, <2>1, <2>2 DEF TypeOK, slotVars
  <1>7. EventsReachTheirConnection'
    BY <1>1, <1>2, <1>3, <1>4 DEF EventsReachTheirConnection, InUse, slotVars
  <1>8. InvBacklog' /\ InvBatch' /\ InvSleep'
    BY <1>1, <1>2, <1>3, <1>4 DEF InvBacklog, InvBatch, InvSleep, InUse, slotVars
  <1>9. InvListener' /\ InvWaited'
    BY <1>1 DEF InvListener, InvWaited, InUse, slotVars
  <1> QED
    BY <1>6, <1>7, <1>8, <1>9

-------------------------------------------------------------------------------
(* The invariant. *)

\* The invariant of the pool holds at first.
LEMMA InitInvariant == Init => IInv
  <1> SUFFICES ASSUME Init PROVE IInv
    OBVIOUS
  <1>1. TypeOK
    <2>1. /\ 0 \in 0..MaxAge /\ 0 \in 0..DeferTimeout /\ 0 \in 0..MaxClients
          /\ 0 \in 0..MaxTraffic /\ Forever \in 0..Forever
      BY MaxAgeCovers, PoolAssumption DEF Forever
    <2>2. registerFails \in BOOLEAN
      BY PoolAssumption DEF Init
    <2> QED
      BY <2>1, <2>2 DEF Init, TypeOK, SlotState
  <1>2. InvBacklog /\ InvBatch /\ EventsReachTheirConnection
    BY PoolAssumption DEF Init, InvBacklog, InvBatch, EventsReachTheirConnection, InUse
  <1>3. InvListener /\ InvWaited /\ InvSleep
    BY DEF Init, InvListener, InvWaited, InvSleep, WaitsOnPeer
  <1> QED
    BY <1>1, <1>2, <1>3 DEF IInv

\* Every step keeps the invariant of the pool.
LEMMA NextInvariant == IInv /\ [Next]_vars => IInv'
  <1> SUFFICES ASSUME IInv, [Next]_vars PROVE IInv'
    OBVIOUS
  <1>1. CASE Sleep
    BY <1>1, SleepStep
  <1>2. CASE Collect
    BY <1>2, CollectStep
  <1>3. CASE OnListenReadable
    BY <1>3, OnListenReadableStep
  <1>4. ASSUME NEW e \in batch \ {Listen}, OnConnectionIo(e) PROVE IInv'
    BY <1>4, OnConnectionIoStep
  <1>5. CASE Dispatched
    <2>1. /\ UNCHANGED <<slotVars, listening, backlog, timer, batch, wake, clients, traffic>>
          /\ batch = {} /\ at' = "flush"
      BY <1>5 DEF Dispatched
    <2>2. TypeOK' /\ InvBacklog' /\ InvBatch' /\ EventsReachTheirConnection'
      BY <2>1 DEF IInv, TypeOK, InvBacklog, InvBatch, EventsReachTheirConnection, InUse, slotVars
    <2>3. InvListener' /\ InvWaited' /\ InvSleep'
      BY <2>1 DEF IInv, InvListener, InvWaited, InvSleep, InUse, slotVars
    <2> QED
      BY <2>2, <2>3 DEF IInv
  <1>6. CASE Flush
    <2> DEFINE answered == {s \in Slots : state[s] = "pending" /\ ready[s]}
    <2>1. AnswerAll(answered) /\ answered \in SUBSET {s \in Slots : state[s] = "pending"}
      BY <1>6 DEF Flush
    <2> HIDE DEF answered
    <2> QED
      BY <1>6, <2>1, AnswerAllStep DEF Flush
  <1>7. CASE SweepDeadlines
    <2> DEFINE late == {s \in Slots : state[s] = "pending" /\ ~ready[s] /\ parked[s] >= DeferTimeout}
    <2>1. AnswerAll(late) /\ late \in SUBSET {s \in Slots : state[s] = "pending"}
      BY <1>7 DEF SweepDeadlines
    <2> HIDE DEF late
    <2> QED
      BY <1>7, <2>1, AnswerAllStep DEF SweepDeadlines
  <1>8. CASE SweepIdle
    BY <1>8, SweepIdleStep
  <1>9. CASE Tick
    BY <1>9, TickStep
  <1>10. CASE Connect
    <2>1. /\ UNCHANGED <<slotVars, listening, at, timer, batch, wake, traffic>>
          /\ clients < MaxClients /\ clients' = clients + 1 /\ backlog' = backlog + 1
      BY <1>10 DEF Connect
    <2>2. clients' \in 0..MaxClients /\ backlog' \in 0..MaxClients /\ InvBacklog'
      BY <2>1, PoolAssumption DEF IInv, TypeOK, InvBacklog
    <2>3. TypeOK' /\ InvBatch' /\ EventsReachTheirConnection'
      BY <2>1, <2>2 DEF IInv, TypeOK, InvBatch, EventsReachTheirConnection, InUse, slotVars
    <2>4. InvListener' /\ InvWaited' /\ InvSleep'
      BY <2>1 DEF IInv, InvListener, InvWaited, InvSleep, WakesWithin, IdleBetweenRequests, InUse,
                  slotVars
    <2> QED
      BY <2>2, <2>3, <2>4 DEF IInv
  <1>11. ASSUME NEW s \in Slots, Answer(s) PROVE IInv'
    <2>1. /\ UNCHANGED <<registerFails, state, empty, age, parked, conn, waited, listening, backlog,
                         at, timer, batch, clients, traffic>>
          /\ ready' \in [Slots -> BOOLEAN] /\ wake' = TRUE
      BY <1>11 DEF Answer, IInv, TypeOK
    <2>2. TypeOK' /\ InvBacklog' /\ InvBatch' /\ EventsReachTheirConnection'
      BY <2>1 DEF IInv, TypeOK, InvBacklog, InvBatch, EventsReachTheirConnection, InUse
    <2>3. InvListener' /\ InvWaited' /\ InvSleep'
      BY <2>1 DEF IInv, InvListener, InvWaited, InvSleep, WakesWithin, IdleBetweenRequests, InUse
    <2> QED
      BY <2>2, <2>3 DEF IInv
  <1>12. CASE UNCHANGED vars
    <2>1. TypeOK' /\ InvBacklog' /\ InvBatch' /\ EventsReachTheirConnection'
      BY <1>12 DEF IInv, TypeOK, InvBacklog, InvBatch, EventsReachTheirConnection, InUse, vars,
                   slotVars
    <2>2. InvListener' /\ InvWaited' /\ InvSleep'
      BY <1>12 DEF IInv, InvListener, InvWaited, InvSleep, WakesWithin, IdleBetweenRequests, InUse,
                   vars, slotVars
    <2> QED
      BY <2>1, <2>2 DEF IInv
  <1> QED
    BY <1>1, <1>2, <1>3, <1>4, <1>5, <1>6, <1>7, <1>8, <1>9, <1>10, <1>11, <1>12 DEF Next, Loop

\* The invariant that the properties below are drawn from.
THEOREM Invariant == Spec => []IInv
  BY InitInvariant, NextInvariant, PTL DEF Spec

-------------------------------------------------------------------------------
\* Every variable keeps its type; no counter leaves its bound.
THEOREM TypeCorrect == Spec => []TypeOK
  <1>1. IInv => TypeOK
    BY DEF IInv
  <1> QED
    BY <1>1, Invariant, PTL

\* An event that on_connection_io handles is about the connection its slot holds:
\* no slot changes hands between the collection of a batch and its dispatch.
THEOREM EventSafety == Spec => []EventsReachTheirConnection
  <1>1. IInv => EventsReachTheirConnection
    BY DEF IInv
  <1> QED
    BY <1>1, Invariant, PTL

\* The sleep of next_tick_ms ends before any limit the sweeps enforce is passed.
THEOREM SleepSafety == Spec => []NeverOversleeps
  <1>1. IInv => NeverOversleeps
    <2> SUFFICES ASSUME IInv, at = "poll", timer # 0, NEW s \in Slots
                 PROVE  /\ state[s] \in WaitsOnPeer => age[s] < IdleTimeout
                        /\ state[s] = "pending" => parked[s] < DeferTimeout
                        /\ ~listening /\ IdleBetweenRequests(s) => age[s] < ReclaimMinIdle
      BY DEF NeverOversleeps
    <2>1. /\ timer \in Nat \ {0} /\ age[s] \in Nat /\ parked[s] \in Nat
      BY MaxAgeCovers, PoolAssumption DEF IInv, TypeOK, Forever
    <2>2. ASSUME NEW limit \in Nat, NEW elapsed \in Nat, WakesWithin(Until(limit, elapsed))
          PROVE  elapsed < limit
      BY <2>1, <2>2 DEF WakesWithin, Until
    <2> QED
      BY <2>1, <2>2, PoolAssumption DEF IInv, InvSleep
  <1> QED
    BY <1>1, Invariant, PTL

\* "Stop listening until a slot frees": whenever the loop goes to sleep beside a
\* free slot, it listens, if the registration has not failed.
THEOREM ListenerSafety == Spec => []ParkedOnlyWhenFull
  <1>1. IInv => ParkedOnlyWhenFull
    BY DEF IInv, InvListener, ParkedOnlyWhenFull
  <1> QED
    BY <1>1, Invariant, PTL

\* sweep_idle_connections closes a connection only if its peer was given its time.
THEOREM SweepSafety == Spec => PeersGetTheirTime
  <1> DEFINE GivenItsTime(s) ==
                 \/ state[s] \in WaitsOnPeer /\ waited[s] >= IdleTimeout
                 \/ ~listening /\ IdleBetweenRequests(s) /\ waited[s] >= ReclaimMinIdle
             FairSweep == at = "idle" =>
                 \A s \in Slots : InUse(s) /\ state'[s] = "free" => GivenItsTime(s)
  <1>1. IInv /\ Next => FairSweep
    <2> SUFFICES ASSUME IInv, Next, at = "idle", NEW s \in Slots, InUse(s), state'[s] = "free"
                 PROVE  GivenItsTime(s)
      OBVIOUS
    <2>1. batch = {} /\ TypeOK /\ InvWaited
      BY DEF IInv, InvBatch
    <2>2. SweepIdle
      <3>1. ~(Tick \/ Connect \/ \E q \in Slots : Answer(q))
        BY DEF Tick, Connect, Answer, slotVars, InUse
      <3>2. ~(Sleep \/ Collect \/ OnListenReadable \/ Dispatched \/ Flush \/ SweepDeadlines)
        BY DEF Sleep, Collect, OnListenReadable, Dispatched, Flush, SweepDeadlines
      <3> QED
        BY <2>1, <3>1, <3>2 DEF Next, Loop
    <2>3. ASSUME NEW closed, CloseAll(closed) PROVE s \in closed
      BY <2>1, <2>3, CurrentValue DEF CloseAll, Become, InUse
    <2>4. /\ age[s] \in Nat /\ waited[s] \in Nat
          /\ state[s] \in WaitsOnPeer => age[s] <= waited[s]
      BY <2>1, MaxAgeCovers DEF TypeOK, InvWaited
    <2>5. CASE s \in Expired
      BY <2>4, <2>5, PoolAssumption DEF Expired
    <2>6. CASE s \in LongestIdle /\ ~listening
      BY <2>4, <2>6, PoolAssumption DEF LongestIdle, Reclaimable, IdleBetweenRequests, WaitsOnPeer
    <2> QED
      BY <2>2, <2>3, <2>5, <2>6 DEF SweepIdle
  <1>2. IInv /\ UNCHANGED vars => FairSweep
    BY DEF vars, slotVars, InUse
  <1>3. IInv /\ [Next]_vars => [FairSweep]_vars
    BY <1>1, <1>2
  <1> QED
    BY <1>3, Invariant, PTL DEF Spec, PeersGetTheirTime

================================================================================
