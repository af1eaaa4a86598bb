---------------------------- MODULE ServerLifecycle ----------------------------
(***************************************************************************)
(* Starting and stopping a server: http_server_run on one thread,          *)
(* http_server_stop on any others, and the application's state callback    *)
(* (src/src/http_server.c).                                                *)
(*                                                                         *)
(* Every read or write of server->state is one critical section of         *)
(* state_mutex and so one action; the code between two of them, and the    *)
(* callback that server_set_state runs after the unlock, are actions of    *)
(* their own.  The listener, the event loop and the connections are kept   *)
(* only as far as starting and stopping tell them apart.                   *)
(***************************************************************************)
EXTENDS Naturals

CONSTANTS
    Stoppers,   \* threads that call http_server_stop
    MaxRuns,    \* bound: calls of http_server_run
    MaxStops    \* bound: calls of http_server_stop, per thread

ASSUME StoppersAssumption == "runner" \notin Stoppers
ASSUME MaxRunsAssumption == MaxRuns \in Nat
ASSUME MaxStopsAssumption == MaxStops \in Nat

VARIABLES
    server_state, \* server->state
    listening,    \* the listening socket is bound and registered with the loop
    loop,         \* server->loop is between event_loop_init and _deinit
    woken,        \* the loop has been told to return from its wait
    busy,         \* some connection slot is in use
    run,          \* where http_server_run is
    publish,      \* its local publish_running
    runs,         \* calls of it so far
    stop, stops,  \* where each http_server_stop is; calls of it so far
    told          \* the callback running on each thread: the state it reports

lifecycle_vars ==
    <<server_state, listening, loop, woken, busy, run, publish, runs, stop, stops, told>>
serverVars == <<listening, loop, woken, busy>>

ServerState == {"initialized", "running", "stopping", "stopped"}
RunAt  == {"idle", "binding", "registering", "bound", "publishing", "tellingRunning", "test",
           "waiting", "sweeping", "teardown", "tellingStopped"}
StopAt == {"idle", "waiting", "marking", "telling", "stopping"}
Runner == "runner"
Threads == Stoppers \cup {Runner}

LifecycleTypeOK ==
    /\ server_state \in ServerState
    /\ listening \in BOOLEAN /\ loop \in BOOLEAN /\ woken \in BOOLEAN /\ busy \in BOOLEAN
    /\ run \in RunAt /\ publish \in BOOLEAN /\ runs \in 0..MaxRuns
    /\ stop \in [Stoppers -> StopAt] /\ stops \in [Stoppers -> 0..MaxStops]
    /\ told \in [Threads -> ServerState \cup {"nothing"}]

\* http_server_init has returned ok.
LifecycleInit ==
    /\ server_state = "initialized"
    /\ listening = FALSE /\ loop = FALSE /\ woken = FALSE /\ busy = FALSE
    /\ run = "idle" /\ publish = FALSE /\ runs = 0
    /\ stop = [t \in Stoppers |-> "idle"] /\ stops = [t \in Stoppers |-> 0]
    /\ told = [t \in Threads |-> "nothing"]

-------------------------------------------------------------------------------
(* server_set_state: the state under the lock, then the callback without it. *)

SetState(thread, s) ==
    /\ server_state' = s
    /\ told' = [told EXCEPT ![thread] = s]

CallbackReturns(thread) ==
    /\ told' = [told EXCEPT ![thread] = "nothing"]
    /\ UNCHANGED server_state

-------------------------------------------------------------------------------
(* http_server_run. *)

RunStep(from, to) == run = from /\ run' = to /\ UNCHANGED <<stop, stops>>

\* A call while the server is running is refused and changes nothing.
RunCalled ==
    /\ runs < MaxRuns /\ server_state # "running"
    /\ RunStep("idle", "binding")
    /\ runs' = runs + 1
    /\ UNCHANGED <<server_state, told, serverVars, publish>>

\* Mutant: running is published before the listener is bound.
MutantSetUpPublishes ==
    \/ /\ RunStep("binding", "tellingRunning") /\ SetState(Runner, "running")
       /\ loop' = TRUE /\ woken' = FALSE
       /\ UNCHANGED <<listening, busy, publish, runs>>
    \/ /\ RunStep("binding", "idle")
       /\ UNCHANGED <<server_state, told, serverVars, publish, runs>>

\* http_endpoint_init, socket_set_nonblocking and event_loop_init; a failure
\* undoes what was done and returns.
SetUp ==
    \/ /\ RunStep("binding", "registering")
       /\ loop' = TRUE /\ woken' = FALSE
       /\ UNCHANGED <<server_state, told, listening, busy, publish, runs>>
    \/ /\ RunStep("binding", "idle")
       /\ UNCHANGED <<server_state, told, serverVars, publish, runs>>

\* event_loop_register of the listener; or event_loop_deinit and return.
Register ==
    \/ /\ RunStep("registering", "bound")
       /\ listening' = TRUE
       /\ UNCHANGED <<server_state, told, loop, woken, busy, publish, runs>>
    \/ /\ RunStep("registering", "idle")
       /\ loop' = FALSE
       /\ UNCHANGED <<server_state, told, listening, woken, busy, publish, runs>>

\* publish_running is computed in one critical section ...
ReadState ==
    /\ RunStep("bound", "publishing")
    /\ publish' = (server_state = "initialized")
    /\ UNCHANGED <<server_state, told, serverVars, runs>>

\* Mutant: running is set without looking at publish_running.
MutantPublishAlways ==
    /\ RunStep("publishing", "tellingRunning") /\ SetState(Runner, "running")
    /\ UNCHANGED <<serverVars, publish, runs>>

\* ... and acted upon in another.
PublishRunning ==
    /\ \/ publish /\ RunStep("publishing", "tellingRunning") /\ SetState(Runner, "running")
       \/ ~publish /\ RunStep("publishing", "test") /\ UNCHANGED <<server_state, told>>
    /\ UNCHANGED <<serverVars, publish, runs>>

RunningTold ==
    /\ RunStep("tellingRunning", "test")
    /\ CallbackReturns(Runner)
    /\ UNCHANGED <<serverVars, publish, runs>>

TestState ==
    /\ RunStep("test", IF server_state = "running" THEN "waiting" ELSE "teardown")
    /\ UNCHANGED <<server_state, told, serverVars, publish, runs>>

\* While event_loop_run_once dispatches, connections come and go.  A new one is
\* accepted only by a server that is running.
Dispatch ==
    /\ run = "waiting"
    /\ busy' \in BOOLEAN /\ (busy' => busy \/ server_state = "running")
    /\ UNCHANGED <<server_state, told, listening, loop, woken, run, publish, runs, stop, stops>>

\* event_loop_run_once returns: it was woken, or a connection had an event or a
\* deadline, or it fails.  With no connection next_tick_ms lets it sleep for ever.
RunOnceReturns ==
    /\ \/ (woken \/ busy) /\ RunStep("waiting", "sweeping") /\ woken' = FALSE
       \/ RunStep("waiting", "teardown") /\ UNCHANGED woken
    /\ UNCHANGED <<server_state, told, listening, loop, busy, publish, runs>>

\* The three sweeps, which may close connections.
Sweep ==
    /\ RunStep("sweeping", "test")
    /\ busy' \in BOOLEAN /\ (busy' => busy)
    /\ UNCHANGED <<server_state, told, listening, loop, woken, publish, runs>>

\* Mutant: the connections are not closed.
MutantTearDownKeepsConnections ==
    /\ RunStep("teardown", "tellingStopped")
    /\ listening' = FALSE /\ loop' = FALSE /\ woken' = FALSE
    /\ SetState(Runner, "stopped")
    /\ UNCHANGED <<busy, publish, runs>>

\* Connections closed, listener unregistered, loop and endpoint destroyed; then
\* the state, and the callback.
TearDown ==
    /\ run = "teardown" /\ loop
    /\ busy' = FALSE /\ listening' = FALSE /\ loop' = FALSE /\ woken' = FALSE
    /\ UNCHANGED <<server_state, told, run, publish, runs, stop, stops>>

SetStopped ==
    /\ ~loop /\ RunStep("teardown", "tellingStopped")
    /\ SetState(Runner, "stopped")
    /\ UNCHANGED <<serverVars, publish, runs>>

StoppedTold ==
    /\ RunStep("tellingStopped", "idle")
    /\ CallbackReturns(Runner)
    /\ UNCHANGED <<serverVars, publish, runs>>

-------------------------------------------------------------------------------
(* http_server_stop. *)

StopStep(t, from, to) ==
    /\ stop[t] = from /\ stop' = [stop EXCEPT ![t] = to]
    /\ UNCHANGED <<run, publish, runs>>

StopCalled(t) ==
    /\ stops[t] < MaxStops
    /\ StopStep(t, "idle", "waiting")
    /\ stops' = [stops EXCEPT ![t] = @ + 1]
    /\ UNCHANGED <<server_state, told, serverVars>>

\* The condition is met: nothing to do for a stopped server.
StopWaited(t) ==
    /\ \/ server_state = "running" /\ StopStep(t, "waiting", "marking")
       \/ server_state = "stopped" /\ StopStep(t, "waiting", "idle")
    /\ UNCHANGED <<server_state, told, serverVars, stops>>

\* Mutant: an untimed wait.
MutantStopNeverTimesOut(t) == FALSE /\ StopStep(t, "waiting", "marking")

\* pthread_cond_timedwait gave up after a second: proceed anyway.
StopTimesOut(t) ==
    /\ server_state \in {"initialized", "stopping"}
    /\ StopStep(t, "waiting", "marking")
    /\ UNCHANGED <<server_state, told, serverVars, stops>>

StopMarks(t) ==
    /\ StopStep(t, "marking", "telling")
    /\ SetState(t, "stopping")
    /\ UNCHANGED <<serverVars, stops>>

StopTold(t) ==
    /\ StopStep(t, "telling", "stopping")
    /\ CallbackReturns(t)
    /\ UNCHANGED <<serverVars, stops>>

\* Mutant: the loop is not woken.
MutantStopLoopForgotten(t) ==
    /\ StopStep(t, "stopping", "idle")
    /\ UNCHANGED <<server_state, told, serverVars, stops>>

\* event_loop_stop.  Of a loop that does not exist it has no effect that lasts.
StopLoop(t) ==
    /\ StopStep(t, "stopping", "idle")
    /\ woken' = (woken \/ loop)
    /\ UNCHANGED <<server_state, told, listening, loop, busy, stops>>

-------------------------------------------------------------------------------
Run ==
    RunCalled \/ SetUp \/ Register \/ ReadState \/ PublishRunning \/ RunningTold \/ TestState
    \/ Dispatch \/ RunOnceReturns \/ Sweep \/ TearDown \/ SetStopped \/ StoppedTold

StopCall(t) ==
    StopWaited(t) \/ StopTimesOut(t) \/ StopMarks(t) \/ StopTold(t) \/ StopLoop(t)

LifecycleNext == Run \/ \E t \in Stoppers : StopCalled(t) \/ StopCall(t)

\* Threads run, callbacks return, the second passes, and run_once returns once
\* it has been woken; nobody has to call anything, and no connection has to come.
LifecycleFairness ==
    /\ WF_lifecycle_vars(SetUp \/ Register \/ ReadState)
    /\ WF_lifecycle_vars(PublishRunning \/ RunningTold \/ TestState)
    /\ WF_lifecycle_vars(woken /\ RunOnceReturns)
    /\ WF_lifecycle_vars(Sweep \/ TearDown \/ SetStopped \/ StoppedTold)
    /\ \A t \in Stoppers : WF_lifecycle_vars(StopCall(t))

LifecycleSpec == LifecycleInit /\ [][LifecycleNext]_lifecycle_vars
LifecycleFairSpec == LifecycleSpec /\ LifecycleFairness

-------------------------------------------------------------------------------
(* Properties. *)

LoopAt == {"test", "waiting", "sweeping"}
InLoop == run \in LoopAt

\* When the application is told "running", clients may connect: the listener is
\* bound and registered with a live loop for as long as the callback runs.
AnnouncedRunningIsOpen == told[Runner] = "running" => loop /\ listening

\* When it is told "stopped", every connection is closed and the loop is gone:
\* whatever a stopper does meanwhile, the teardown is complete by then.
AnnouncedStoppedIsClosed == told[Runner] = "stopped" => ~busy /\ ~listening /\ ~loop

\* http_server_run has read "initialized" and is about to publish "running".
AboutToPublish == run = "publishing" /\ publish

\* A stop is final, whichever side gets to server->state first: one that is marked
\* before http_server_run has read the state (its second having run out), or after it
\* has published "running", or by a run that ended, keeps the server down for good,
\* also when http_server_run is called again.  The critical sections of the two
\* sides may fall in any order but one, which StopIsNotUndone is about.
StopIsFinal ==
    [](server_state \in {"stopping", "stopped"} /\ ~AboutToPublish => [](server_state # "running"))

\* A stop that comes while the run loop runs ends it, even if no connection ever
\* wakes the loop: the state is set before event_loop_stop is called, and the
\* loop looks at the state after it was woken.
StopEndsTheLoop == \A t \in Stoppers : (stop[t] = "marking" /\ InLoop) ~> run = "idle"

\* http_server_stop returns, whether or not the server was ever run.
StopReturns == \A t \in Stoppers : stop[t] = "waiting" ~> stop[t] = "idle"

\* The inductive invariant: what exists at each place of http_server_run.  The
\* listener, the loop and the connections belong to the runner alone, the state
\* does not: a stopper may set it between any two steps.
LifecycleIInv ==
    /\ LifecycleTypeOK
    /\ run \in {"idle", "binding", "tellingStopped"} => ~loop
    /\ run \in {"registering", "bound", "publishing", "tellingRunning"} \cup LoopAt => loop
    /\ ~loop \/ run = "registering" => ~listening
    /\ run \in {"bound", "publishing", "tellingRunning"} \cup LoopAt => listening
    /\ busy => loop /\ run \in LoopAt \cup {"teardown"}
    /\ told[Runner] = "running" => run = "tellingRunning"
    /\ told[Runner] = "stopped" => run = "tellingStopped"
    /\ run = "publishing" /\ publish => server_state # "stopped"

-------------------------------------------------------------------------------
(* What the documentation says, and the code does not do. *)

\* http_server.c, of promoting to running: "any other state means stop() was already
\* called and we must not regress it".  A stop whose second ran out and that marks the
\* state between the two critical sections is regressed.
StopIsNotUndone == [][server_state = "stopping" => server_state' # "running"]_lifecycle_vars

\* http_server.h: http_server_stop is "safe to call from any thread": the loop it
\* is about to stop is not destroyed under it.
LoopOutlivesStop ==
    [][loop /\ ~loop' => \A t \in Stoppers : stop[t] \notin {"telling", "stopping"}]_lifecycle_vars
===============================================================================
