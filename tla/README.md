# http-c: verification

TLA+ specifications of http-c, an HTTP/1.1 client and server library in C: its server,
its blocking client, the readers of bodies, and the helpers for headers, forms and
proxies. TLC checks them on small instances, and the TLA+ proof system proves the safety
properties of the eight state machines for every value of the constants. A C file named
without a directory is one of the library's sources (`http_server.c`), a header one of its public
headers (`http_server.h`).

Contents: [the system](#the-system), [what is modelled](#what-is-modelled),
[modules](#modules-and-the-code), [runs](#runs), [bounds](#bounds),
[fairness](#fairness), [proofs](#proofs), [findings](#findings),
[not modelled](#not-modelled), [plan](#plan).

## The system

### Components

| component | file | state | operations |
|---|---|---|---|
| server life cycle | http_server.c: 61-85, 1108-1197, 1225-1265, 1313-1440 | `server->state`, listening socket, event loop | `http_server_init`, `_run`, `_run_async`, `_stop`, `_deinit`, the state callback |
| connection slots | http_server.c: 90-215, 896-985, 1271-1311 | per slot `in_use`, `state`, `last_activity_ms`, `pending_deadline_ms`; `listen_registered` | accept, sweep of idle connections, reclaiming, re-arming the listener, length of the next sleep |
| connection state machine | http_server.c: 219-459, 575-808 | receive buffer, parser, send buffer, armed events, body provider | handshake, receive, dispatch, send, probe while parked, close |
| deferred responses | http_server.c: 461-575, 811-894, 988-1106 | per slot `generation`, `pending_ready`, `pending_cancelled`, `pending_response` | `http_exchange_defer`, `http_deferral_complete`, `http_deferral_cancel`, flush, deadline sweep |
| routing | http_server.c: 461-530, 1199-1223 | table of routes | `http_server_add_route`, match |
| request parser | http_request_parser.c | `state`, `headers_end`, `content_length` | init, feed, get_request, get_consumed |
| response body reader | http_connection.c: 409-801 | a window `start`, `end`, `stored_length` over the caller's buffer | fill, deliver, by length, chunked, until close |
| request reader | http_connection.c: 60-192, 230-407, 803-846 | a buffer, and read and write positions in it | receive_request: head, body by length, chunked body decoded in place |
| client connection | http_connection.c: 17-58, 194-228, 653-801, 848-917 | stream, time-out, whether HEAD was asked | send requests, receive responses, wait, close |
| endpoint | http_endpoint.c: 1-202 | descriptors and TLS contexts | init, wait for a connection, connect, deinit |
| proxy configuration | http_endpoint.c: 204-666 | storage of the caller | parse a URL, decide whether to bypass, take both from the environment |
| messages | http_request.c, http_response.c, http_headers.c | a buffer of header lines, an iterator | parse, serialise, add, find, iterate |
| forms | http_query.c, multipart.c | iterators over a text | next pair, next part, find a name, decode |
| storage providers | http_server_storage_*.c | arrays of slots and buffers | get |
| common-lib-c | not in this repository | event loop, sockets, streams, tasks, mutexes | used by all of the above |

### How they interact

One thread runs `http_server_run`. It registers the listening socket with an event
loop and then repeats: compute how long it may sleep (`next_tick_ms`), call
`event_loop_run_once`, which dispatches a batch of I/O callbacks, and then
`flush_pending_responses`, `sweep_pending_deadlines`, `sweep_idle_connections`.
Everything about a connection happens on that thread, in one of those four places.

A route handler runs on the loop thread. It answers, closes, or takes a *ticket*
(slot index and generation) and defers; the slot is then *parked*. Any application
thread may later `http_deferral_complete` or `http_deferral_cancel` with the ticket:
under `pending_mutex` the ticket is validated and the answer stored in the slot; after
the unlock `event_loop_wake` makes the loop come by and send it. `http_server_stop`
may be called from any thread: it waits up to a second for the server to be running,
sets `server->state` under `state_mutex`, and calls `event_loop_stop`.

The client, and the other, blocking way to serve (`http_connection_receive_request`), have
no loop: an endpoint connects or accepts a connection, and each call reads from its
stream until it has what it wants, the peer closes, or nothing came for `io_timeout_ms`.
The socket gives a read back every 50 ms so that the time can be looked at. The caller
gives one buffer, in which head, body and what is still to be parsed share the room.

So there are two locks, three kinds of threads (loop, workers, stoppers), and for the
rest a single-threaded program whose difficulty is that callbacks, sweeps and the
handshake of buffers with the network come in any order.

### What is hard here

- A ticket outlives what it names: its connection closes, its slot is recycled, its
  exchange times out, another exchange starts on the same connection, or two threads
  post through copies of it.
- The deadline sweep, the flush, a lost connection and a post race for one parked
  exchange. The post's result is promised before its answer is sent.
- The wake-up comes after the unlock; the loop may go to sleep in between.
- Events of a batch are dispatched after earlier callbacks of the same batch closed
  connections and reused their slots.
- The listener is parked when all slots are busy and must come back.
- Idle time-outs must not count the time in which the server, not the peer, was slow.
- Pipelined requests share the receive buffer with the request being answered, and a
  TLS layer may hold bytes the event loop does not know of.
- `http_server_run` reads the state and sets it in two critical sections.
- The client's body reader keeps the stored body, unread bytes and free space in one
  buffer, moving them as it goes; the reader of chunked requests writes the body over the
  raw bytes it is decoded from.
- What a response's body is depends on the request and on earlier responses (HEAD, 1xx).
- A closed descriptor's number is given to somebody else; 0 is a number like any other.
- Time is looked at only between slices, and refreshed by each byte.
- Values of forms hold separators; iterations are begun anew; proxy URLs have several
  readings; credentials pass through the caller's storage.

`PROJECT.json` lists these hazards one by one with the line where each bites and the
properties that would notice.

### What makes each component correct

| component | properties |
|---|---|
| deferred responses | an answer reaches the connection its ticket came from; an accepted post decides; no lost wake-up; every exchange ends, exactly once |
| life cycle | the application hears "running" only when clients can connect, "stopped" only when all is closed; a stop ends the run and returns; a stopped server stays stopped, whichever side came first |
| connection slots | events reach their connection; the loop does not oversleep; peers get their whole time; every client is eventually admitted |
| connection state machine | requests are handed over once, in order, one at a time; responses do not mix; streamed bodies are finalized exactly once; 413 only for what does not fit; a request that was sent is answered |
| body reader | the caller sees exactly the body; ok means complete; moving bytes destroys none; out of room only when full |
| request reader | the body is the one that was sent; what is given back as free is free |
| client connection | a response returned ok is whole; no waiting for what is not owed; silence is bounded, and every call returns |
| endpoint | descriptors and contexts belong to who opened them |
| headers, forms, proxy | what one side means is what the other finds; iterations end and are complete; no credential is left behind |

## What is modelled

| module | models | status |
|---|---|---|
| `Deferral` | tickets, posts, flush, deadlines, slot release, teardown | checked, proved |
| `ExchangePromise` | the abstract promise made about an exchange | refined by `Deferral`: checked, proved |
| `DeferralInv` | the inductive invariant of `Deferral` | |
| `ServerLifecycle` | `http_server_run`, `http_server_stop`, the callback | checked, proved |
| `Server_proofs` | the proofs about `Deferral` and `ServerLifecycle` | |
| `ConnectionPool` | admission, listener, time-outs, sleep | checked, proved |
| `SlotPipeline` | one connection, byte by byte | checked, proved |
| `ResponseReader` | the client's body reader | checked, proved |
| `RequestReader` | the blocking server's reader of requests | checked, proved |
| `Endpoint`, `ClientSession` | descriptors; the client's connection with peer and clock | checked, proved |
| `Message` | headers and messages | checked, proved |
| `QueryString`, `Multipart`, `Forms` | the two kinds of form, from sender to iterator | checked, proved |
| `Text_proofs` | the proofs about `Message` and `Forms`, and about texts | |
| `ProxyRules`, `ProxyStorage`, `ProxyConfig` | the proxy from the environment | checked, proved for URLs of a grammar |
| other `..._proofs` | the proofs about the module of that name | |
| `MC...` | instances for TLC | |

The modules look at the same code at different grains. `Deferral` keeps the locks and
drops time and bytes. `ConnectionPool` keeps time, event batches and the listener and
takes the posting of an answer for one step. `SlotPipeline` keeps the bytes and has one
connection. `ClientSession` extends `Endpoint` (its connection is one of the
descriptors), takes a response for a few tokens and leaves windows to `ResponseReader`.
`Forms` composes `QueryString` and `Multipart` with a sender, `ProxyConfig` composes the
rules and the storage. Each names what it drops in its head comment.

Definitions called `Mutant...` are alternatives to the definition that follows them,
each with one plausible mistake. Nothing in a specification uses them. Every property
of a passing run has one that breaks it, listed under `mutants` in `PROJECT.json`.

## Modules and the code

### Deferral

State: per slot the fields of `http_server_connection_slot_t` with the same names.
`overdue` stands for `now_ms() >= pending_deadline_ms`; the request is a serial number.
`at` and `cursor` are the loop thread's position: which of the four places of the run
loop it is in and which slot its scan has reached. `posting[w]` says that worker `w` is
between the unlock of `deferral_post` and `event_loop_wake`. `conn`, `of`, `fate`,
`claim`, `answeredBy` are history, read by no guard.

Granularity: one action per critical section of `pending_mutex` and one per stretch of
loop-thread code between two of them. A worker sees a slot only inside
`deferral_post`'s critical section, so no finer step is observable.

| action | code |
|---|---|
| `Accept`, `HandshakeDone` | `on_listen_readable`, `slot_drive_handshake` |
| `Receive`, `RejectOversized` | `slot_drive_receive` |
| `FinishSend` | `slot_drive_send`, `slot_finish_send`, with a pipelined request |
| `ConnectionLost` | every path to `slot_close` in a callback |
| `TakeTicket` | `http_exchange_defer` |
| `HandlerResponds`, `HandlerCloses`, `HandlerDefers` | `run_handler_and_serialize` |
| `Post`, `Wake` | `deferral_post` up to its unlock; `event_loop_wake` |
| `Flush`, `Serialize` | `flush_pending_responses`: in the lock; after it |
| `SweepDeadline`, `RespondTimeout` | `sweep_pending_deadlines`, likewise |
| `SweepIdle` | `sweep_idle_connections` |
| `Enter`, `Poll`, `Teardown` | `http_server_run` |
| `Stop`, `DeadlinePasses` | the environment |

`PostResult` is the answer of `deferral_post`. A refused post changes nothing, so only
accepted ones are steps.

`ExchangePromise` is what a client of the server may rely on: a request is handled,
then answered or parked; a parked one is claimed by at most one ticket, of the same
connection; a claimed one is delivered with that ticket's answer or dropped with its
connection, never timed out. `KeepsPromise` maps `Deferral` to it (`PhaseOf`).

### ServerLifecycle

State: `server->state`; whether the listener is registered, the event loop exists,
has been told to wake, and has connections; the position of `http_server_run` (`run`),
its local `publish_running`, and of each `http_server_stop` (`stop`). `told[t]` is the
callback that runs on thread `t`, after the unlock.

Every critical section of `state_mutex` is one action. `SetUp`, `Register`,
`ReadState`, `PublishRunning`, `RunningTold`, `TestState`, `Dispatch`,
`RunOnceReturns`, `Sweep`, `TearDown`, `SetStopped`, `StoppedTold` are
`http_server_run` from top to bottom, with the failures of its set-up;
`StopCalled`, `StopWaited`, `StopTimesOut`, `StopMarks`, `StopTold`, `StopLoop` are
`http_server_stop`.

### ConnectionPool

State: per slot its state, whether `recv_used` is 0, and ages instead of time stamps
(`age` is `now_ms() - last_activity_ms`), counted no further than the limits they are
compared with; the listener and the kernel's backlog; the sleep that was asked for, and
the batch of events that `event_loop_run_once` has collected and not yet dispatched.
`Sleep` is `next_tick_ms`, `Collect` the return of `event_loop_run_once`,
`OnListenReadable` and `OnConnectionIo` the callbacks, `Flush`, `SweepDeadlines`,
`SweepIdle` the code between two sleeps; `Tick` is the clock. In a sweep all slots
change at once: the sweep reads the clock once, and nobody else touches what it touches.
`registerFails` says whether `event_loop_register` can refuse the listener in
`listener_rearm`, whose result the code ignores.

### SlotPipeline

The client sends a stream of requests; a byte is its offset in that stream. The receive
buffer holds `recv_used` bytes from offset `base`. The parser is what it finds: the
length of a head and of a body, if the buffer starts where a request starts, and
otherwise nonsense. `Feed` is `http_request_parser_feed`, `Receive`, `FinishSend`,
`ProbePending`, `Drained` the `slot_` functions of these names. `layered` is a TLS
connection: a read moves all bytes of the kernel to the layer and hands out those that
fit, and the event loop sees only the kernel's.

### ResponseReader

`buffer`, `start`, `end` and `stored_length` are the reader's. A byte of the window is
known by its provenance, the offset in what the peer sends, so that a byte overwritten or
moved to the wrong place shows. What a byte *says* is data: a digit of a framing
line, CR, or the line feed that ends a line and stands for what the line says.
`Fill`, `Deliver`, `PassThrough`, `ReadLine`, `Line`, `Drain` are the functions
`response_body_reader_...`; one action is one turn of their loops. Every split of the
stream into reads, and every place where the peer may stop, is a behaviour.

### RequestReader

One call of `http_connection_receive_request`. A byte of the caller's buffer is again
known by its offset in the request. `ReadHead` is a turn of
`read_until_headers_complete`; `Parse` is `http_request_parse` and the beginning of
`maybe_read_body`, including the move of what came with the head; `ReadBody` is a turn of
`read_remaining_body`. Of `read_chunked_body`, `SizeLine`, `Digits`, `SkipLine`,
`ChunkData` and `ChunkEnd` are its five places, and each takes one byte or one copy at a
time or, when `Has` finds too little, a turn of `EnsureBuffered`. `body_start` and
`body_length` are `request->body`; `RemainderStart` is where the remainder begins that
the caller gets back. A peer that closes before the head is complete leaves the parser
with spans that were never written: `ParseGarbage`, which may end either way.

### Endpoint and ClientSession

`Endpoint` has the table of descriptors (lowest free one first), `sd` and the TLS
context of each socket, and the objects that their user has to dispose of. `InitClient`,
`InitServer`, `Accept`, `ConnectBegins`, `ConnectSucceeds`, `ConnectFails` and `Dispose`
are the functions of `http_endpoint.c` and `http_connection_close`; the program opens and
closes descriptors of its own in between. `CreationFails` is a `socket_init` or
`socket_accept` that fails and leaves the descriptor 0 of `memset` in the object. In
`Accept` and `ConnectStrands` a descriptor may be opened and `socket_stream_initialize`
then fail: it, and the TLS context, are "lost", for nobody disposes of the object. They
are what `DescriptorsAreOwned` excepts and `NothingIsStranded` is about.

`ClientSession` follows one connection. `SendRequest`, `Call`, `Close` are the client's
calls. A call is in "head", "parse" or "body"; `ReadHead`, `ParseInterim`, `ParseFinal`,
`ParseFails`, `Fill`, `Deliver`, `BodyEnds` are `receive_response` from top to bottom.
`Tick` and `AwaitProgress` are the receive slice and `await_progress`; `silence` is the
time since `io_deadline` was last computed. `Framing` is
`determine_response_body_framing`, with `awaiting` the flag for HEAD. `lost` notes that
bytes that came with a head were dropped. The peer answers by RFC 9112, in pieces, and
may stop or close anywhere.

### Message

Text is a sequence of tokens; the lines that `span_iterate` gives are known by where they
begin (`LineStarts`, `LineAt`). `Add`, `Find`, `GetNext`, `HeadersParse` are the
functions of `http_headers.c`. `Serialize` writes a message; another program writes its
own line by line (`PeerWrites`, `draft`) and sends it (`PeerSends`): no blank behind the
colon, blanks around values, lines without a colon, names in capitals, no blank line at
the end. `IsHeader` and `NoHeader` say what a line may be, and what it then means. `ParseWhole` is
`http_request_parse` or `http_response_parse`, which share their form, `ParseHead` the
incremental parser with the whole message in its buffer. `pass` is the text that
`GetNext` has given since it last rewound, `begun` how much there was to give by then.

### Forms

`QueryString` and `Multipart` translate `http_query.c` and `multipart.c` byte by byte
(`QueryNext`, `PartNext`, `FindBoundary`, `ParamValue`, `Decode` ...). Where the code
walks along a text the model says which places it comes to: `DashesSeen` are the "--" of
`find_boundary`, which goes on behind each and so passes over every second pair in a row
of dashes; `HeaderStarts` are the lines of `parse_header_line`; the pairs that
`http_query_find` looks at begin behind a separator. The loop of
`http_query_find_decoded` is `Decoded`, what it makes of the bytes, and `Decode`, which of
that the room allows.

`Forms` has a sender (`WritePair`, `WritePart`) that adds one field after the other to a
query or to a body, in any of the ways the rules leave open: each byte of a value in a
query as itself, as a plus sign or as an escape with digits in either case (`Encodes`), an
empty value with its "=" or without, parts with a type of their own or not, a boundary
in quotes or not. `Open` begins the iterator that `NextPair` or `NextPart` call. Besides
there are texts of a sender who does not know the rules ("query_text", "parts_text").

### ProxyConfig

`ProxyRules` translates `http_endpoint_proxy_parse_url` up to its result (`ParseUrl`) and
`http_endpoint_proxy_should_bypass` (`ShouldBypass`); `ProxyStorage` the layout of the
storage, step by step: host name, staged credentials, encoding, wiping. A byte of the
storage is known by what it is part of. `ProxyConfig` is
`http_endpoint_config_set_proxy_from_environment`, which clears the proxy that the
configuration has (`EarlierProxies`) and calls both. A situation in
`MCProxyConfig` pairs each text with what its writer means by it.

## Runs

Runs of the state machines expected to pass:

| run | instance | what it shows |
|---|---|---|
| `deferral` | 2 slots, 2 connections on one slot in turn or on both, 2 requests, 2 workers, fair | tickets that meet another connection on their slot, double posts and cancels, deadline against post, scans over several slots: answers stay with their exchange, the promise is kept, every exchange ends |
| `lifecycle` | 2 runs, 2 stoppers with 2 stops each, fair | what a callback may rely on; a stop is final but for the window of `lifecycle_undone`, ends the run and returns |
| `pool` | 3 clients for 2 slots, 4 connection events, fair | silent peers, unanswered deferrals, a parked listener, batches with slots closed and taken in between |
| `pipeline` | 4 requests in a 4-byte buffer, TLS or not, fair | all splits of: two requests that fit together, one that fits exactly, one too large; deferred and streamed answers in between |
| `reader` | 13 bodies through a 5-byte window | all framings; bodies smaller than, equal to and larger than the window; malformed framing; cut off anywhere |
| `request` | 12 kinds of request in a 20-byte buffer | all framings, read in any pieces, cut off anywhere; chunked bodies of up to three chunks, with and without extensions, that fit and that do not |
| `session` | 2 requests on one connection, 2 descriptors, time-out 4 with slices of 2, or none; fair | HEAD, interim, body-less and malformed responses, all framings; a peer that is silent or closes anywhere; inits, accepts and connects that fail |
| `headers` | up to 3 lines, 4 bodies, two sizes of buffer | lines of either writer, empty values, duplicates, an odd line, a body that holds blank lines, iterations begun anew |
| `forms` | up to 2 fields of 2 names and 10 values, the shortest and the longest writing of each in a query, 2 boundaries, rooms of 0 to 4 bytes | values with escapes, line ends and near-boundaries; names of which one begins the other; fields of the same name; texts that are no form |
| `proxy` | URLs, lists and hosts in `MCProxyConfig`, 5 sizes of storage | the readings of URLs and lists; storage too small, exact and larger; an encoding that fails; an earlier proxy |

Runs that end with a counterexample (see [findings](#findings)): `lifecycle_undone`,
`request_digits`.

Properties, by module (the comment at each definition says the same at length):

- Deferral: `TicketStaysOnConnection`, `AcceptedPostDecides`, `NoLostWakeup`,
  `ParkedTicketIsGood`, `NoOrphanExchange`, `KeepsPromise`, `EveryExchangeEnds`.
- ServerLifecycle: `AnnouncedRunningIsOpen`, `AnnouncedStoppedIsClosed`,
  `StopIsFinal`, `StopEndsTheLoop`, `StopReturns`.
- ConnectionPool: `EventsReachTheirConnection`, `NeverOversleeps`,
  `PeersGetTheirTime`, `ClientsAreAdmitted`.
- SlotPipeline: `RequestsInOrder`, `AnswersKeepUp`, `StreamsAreFinalized`,
  `RejectsOnlyOversized`, `SentIsAnswered`.
- ResponseReader: `BodyIsIntact`, `OkMeansComplete`, `UnreadIsSafe`,
  `RefusesOnlyWhenFull`.
- RequestReader: `BodyIsIntact`, `RemainderIsFree`.
- Endpoint, ClientSession: `DescriptorsAreOwned`; `ResponseIsWhole`, `WaitsForWhatIsOwed`,
  `SilenceIsBounded`, `CallReturns`.
- Message: `MessageComesBack`, `PassesAreComplete`.
- Forms: `FieldsComeBack`, `LookupIsFirst`, `IterationAdvances`.
- ProxyConfig, ProxyStorage: `ProxyIsTheOneMeant`; `NoCredentialLeft`,
  `AuthorizationIsWhole`.

`CHECK_DEADLOCK FALSE` stands where the system really may stop: after the teardown of a
server, on a closed connection, at the end of a body, a call or an iteration. In `pool`,
`session` and `headers` something can always happen and deadlock is checked.

## Bounds

| constant | value | why it is enough |
|---|---|---|
| `SlotCount` | 2 | a slot that is recycled, and a second, which is all a scan can confuse it with |
| `Workers` | 2 | two posts race; a third meets the same two flags |
| `MaxConnections`, `GenModulus` | 2, 3 | connections that the listener takes, those that fail at once included: the second may have the slot of the first, whose ticket a worker still holds, and both may be open at once (the proofs are for any number). `MaxConnections < GenModulus` says that the 32-bit generation does not wrap |
| `MaxRequests` | 2 | two exchanges on one connection, on the next one in its slot, or in two slots at once |
| `MaxRuns`, `MaxStops` | 2 | a run after a stop, and a stop after a stop |
| `IdleTimeout`, `ReclaimMinIdle`, `DeferTimeout`, `SleepCap` | 3, 1, 2, 2 | different where the order matters: reclaiming comes before a time-out, sleeps are capped before both, deadlines fall between |
| `MaxClients` | 3 | one more than there are slots |
| `MaxTraffic` | 4 | events that connections have in a behaviour; after them peers are silent, the hard case for admission |
| `RecvSize` | 4 | requests of 3, 1, 4 and 5 bytes |
| `MaxResponse`, `MaxChunks` | 2, 1 | a response written in two pieces, a streamed body with a chunk after the first buffer |
| `Capacity` | 5 | bodies of 0 to 7 bytes; a chunked one of 18 bytes passes the window several times |
| `Capacity`, `SizeModulus` (`RequestReader`) | 20, 256 | heads of 1 and 2 bytes; requests of one, two and three chunks that fit raw bytes and all, and others that do not. In the run `request` chunk sizes have one digit: with two the body can go wrong (`request_digits`) |
| `Fds` | 0, 1 | 0, which the program opens and closes, and one more: each passes from the program, the endpoint and both connections to the others, and a socket may hold the old number |
| `MaxRequests`, `IoTimeouts`, `PollSlice` (`ClientSession`) | 2, {0, 4}, 2 | a response that is left over meets the next; two slices and a byte between them |
| `MaxLines`, `Room` | 3, {8, 16} | duplicates with another line between; a buffer that is full after one line |
| `MaxFields` | 2 | a field that is cut or swallowed is so by its neighbour |
| `Capacities`, `Lengths` | see `MCProxyConfig` | none, too little for any, exact for some, and enough for all |

Each guard that uses a bound is named in the module ("bound: ..."). The state spaces
are exhausted: none of the runs is a simulation.

## Fairness

- Loop thread (`Deferral`, `ConnectionPool`, `SlotPipeline`, `ServerLifecycle`): weak
  fairness. It is one thread that never waits except in `event_loop_run_once`, and a
  handler is required to return. In `ServerLifecycle` the wait returns when it was
  woken; no connection is assumed to wake it.
- Clock: weak fairness of `Tick` and `DeadlinePasses`.
- `http_server_stop`: weak fairness of each call's steps; `StopTimesOut` is what the
  timed wait on the condition variable provides.
- `SlotPipeline`, strong fairness of `WriteSome`: a client that reads what it is sent.
  Without it the server's answer stays in the send buffer until the idle time-out,
  which is not part of that module.
- `ClientSession`: weak fairness of `Client`, the thread in the call, and of `Tick`, the
  receive slice that the socket bounds.
- Never assumed: that a worker posts, that a peer sends, that a client goes
  away, that a stop comes.

## Proofs

### Deferral

`Server_proofs` proves `Spec => []IInv` (`Invariant`) for any number of slots,
workers, requests and connections, and from it every safety property the runs check
(`TypeCorrect`, `TicketSafety`, `PostSafety`, `ExchangeSafety`, `WakeupSafety`,
`TicketUsable`), and that the server implements the promise (`PromiseKept`).

Assumptions: at least one slot (`SlotCountAssumption`), a natural number of requests
(`MaxRequestsAssumption`), and that the generation does not wrap (`ReuseAssumption`).
The last is the one that matters: with 32 bits it takes 2^32 connections on one slot
while a ticket is held.

None of the properties is inductive. `IInv` (module `DeferralInv`) adds what one part
of the state knows of another:

- `InvNumbers`: requests are numbered in order and nothing is known of later ones;
- `InvGenerations`: a slot in use has a generation below the bound, so that
  releasing it gives one never seen before;
- `InvTickets`: a ticket is older than its slot's generation, or it is of the connection
  the slot holds now. This is what makes the single comparison in `deferral_post` enough;
- `InvOpen`: the open exchange of a slot came in on the connection it holds;
- `InvParked`, `InvHandler`, `InvSerialize`, `InvTimeout`: in each of the four places
  where an exchange can be, whether an answer was accepted for it, and which. Setting
  the slot to `sending` *inside* the lock is what separates `InvSerialize` and
  `InvTimeout`: after the claim no post is accepted;
- `InvClaims`: an answer is the one of the accepted claim, by a ticket of the connection;
- `InvCursor`, `InvFree`: scans start at the first slot; a free slot is idle while the
  loop runs (the teardown leaves the state of a slot as it was);
- `InvWake`: a posted answer is announced by a wake-up, outstanding or about to be
  issued, or the flush has not yet passed its slot.

The proof has one lemma per action; actions that share an effect share a lemma
(`CloseStep`, `SendStep`, `BeginStep`, `QuietStep`). `NextIInv` puts them together.
For the refinement, `PromiseIdle` treats every step that leaves all phases alone, and
`PromiseEnds`, `PromiseSend`, `PromiseBegin`, `PromisePark`, `PromiseClaim` the rest.

### ServerLifecycle

`Server_proofs` also proves `LifecycleInvariant`, `LifecycleTypeCorrect`,
`RunningMeansOpen`, `StoppedMeansClosed` and `StopsAreFinal`, for any set of stopping threads.
Assumption: the thread that runs the server is not one of them (`StoppersAssumption`), and
the bounds are natural numbers. `LifecycleIInv` says what exists at each place of `http_server_run`:
the listener, the loop and the connections belong to the runner alone, and no step of a
stopper touches them (`StopperStep`); the state belongs to all, and the one thing known
of it is that a runner about to publish "running" has not itself set "stopped" since.
`StopIsFinal` says of the state that once it is "stopping" or "stopped" it is never
"running" again, with the one exception of a stop that falls between the two critical
sections in which `http_server_run` decides to publish and does so (`AboutToPublish`).

### ConnectionPool

`ConnectionPool_proofs` proves `Invariant`, `TypeCorrect`, `EventSafety`
(`EventsReachTheirConnection`), `SleepSafety` (`NeverOversleeps`), `SweepSafety`
(`PeersGetTheirTime`, of every step) and `ListenerSafety` (`ParkedOnlyWhenFull`), for any
number of slots and clients and any time-outs. Assumption: `PoolAssumption`, at least one
slot and positive limits. Each property needs one thing that the others do not:

- `EventsReachTheirConnection` is inductive once the batch is empty outside of the
  dispatch (`InvBatch`): what remains is that a callback frees no slot but its own and
  fills only free ones, and that no event of the batch is of a free slot.
- `NeverOversleeps` needs `InvSleep`: a sleep is no longer than what was left, when it
  began, of every limit that it has to watch. `Tick` then takes from both alike
  (`Until`); a sleep that was cut short only wakes earlier.
- `PeersGetTheirTime` needs `InvWaited`: the age that is compared never exceeds the time
  the peer was really waited for, since everything that ends a wait also resets the age.
- `ParkedOnlyWhenFull` holds wherever the loop is (`InvListener`): whoever frees a slot
  re-arms the listener in the same step, if registering succeeds.

### SlotPipeline

`SlotPipeline_proofs` proves `Invariant`, `TypeCorrect`, `OrderSafety`
(`RequestsInOrder`), `AnswerSafety` (`AnswersKeepUp`), `FinalizerSafety`
(`StreamsAreFinalized`) and `RejectionSafety` (`RejectsOnlyOversized`), for a buffer of
any size, any stream of requests, and plain and TLS sockets. Assumption:
`PipelineAssumption`, that a request has a head, and positive sizes.

The bytes are related to the requests by `Start`, the sum of the sizes of the requests
ahead; `StartValues` and `StartsGrow`, what is known of it, take induction, done by looking at
the least element of the set of counterexamples (`LeastNumber`, `SetInduction`). The invariant then distinguishes two
cases at the front of the buffer. `InHand`: the request given to a handler starts at
offset 0 of the buffer, all of it is there, and the parser's lengths are its lengths.
`Awaited`: the next request starts there, some of it is missing, and the parser has found
nothing or its head. Every move from one to the other (`Feed`, `FinishSend` with what is
pipelined) keeps `base = Start[...]`; that is why the parser never meets the middle of a
request. `RejectsOnlyOversized` follows from the missing byte in a buffer that is full.
`InvAnswers` counts: all requests but the one in hand were answered.

### ResponseReader

`ResponseReader_proofs` proves, for a window of any size and any set of responses,
`Invariant`, `TypeCorrect`, `WindowSafety` (`UnreadIsSafe`), `RefusalSafety`
(`RefusesOnlyWhenFull`), and, for bodies that are not chunked, `PlainBodyIsIntact` and
`PlainOkMeansComplete`. Assumption: `ReaderAssumption`, which says what a response is.
`TypeCorrect` and `WindowSafety` together say that no index leaves the window and no
byte of it is
overwritten before it was consumed.

The invariant rests on one number, `TakenOut`: bytes received and no longer unread. A
fill leaves it alone however it moves the window (`MovedWindow`, `FillStep`); a delivery
advances it and the body together (`UnreadBytes`, `OffsetsFollow`, `DeliverStep`).
`BodyAt` relates it to the body handed over and to the length still to come.

`WholeBodies` and `CompleteBodies` state `BodyIsIntact` and `OkMeansComplete` for all
framings, under the hypothesis `ChunksAreFramed`: some lines of a chunked response are its
size lines, the data is where these sizes say, and nothing else is data. A response may
break off this order with a malformed size or without the line end behind a chunk, and may
be cut off anywhere; all responses of the run `reader` satisfy the hypothesis. A body is
the *set* of its offsets, and `Lists` says that a sequence runs through it; so what is to
be handed over takes no induction. The invariant `ChunkInv` says that the body so far
lists the data among the bytes taken out, and which line or chunk begins behind them
(`AtItsPlace`). `LineFound` is the step from the window to the response: the first line
feed that `read_line` finds, having skipped what it has `scanned` before, ends the very
line that begins behind the bytes taken out. `ListGrows` and `DeliverAppends` add what is
delivered to the list, `SameList` says that consuming framing does not.

### RequestReader

`RequestReader_proofs` proves `Invariant`, `BodyInOrder` and `RemainderSafe`
(`RemainderIsFree`), for a buffer of any size and any requests. The heart of `IInv` is
the comment beside the `memmove`, "output trails input": decoded bytes lie before the
parse position (`DecodedInOrder`: olen <= pos <= raw_len <= raw_cap), so that what is not
parsed yet is the peer's, in order (`UnreadIsIntact`). `NoGap` is needed because what
came with the head is cut to the room there is: that happens only if the raw buffer is
then full, so that no later byte is ever read behind the gap. `BodyInOrder` says that an
accepted body holds bytes of the request in their order and none twice.
Assumption: `RequestAssumption`, what a request is.

`WholeBodies` goes on to the content: the body is exactly the data the peer put into the
request (`BodyIsIntact`), wherever the reads cut it and wherever it is decoded to. It has
the hypothesis `OneDigitSizes`: chunks are framed as the standard says, and each size has
one digit. The second half is not for convenience: `request_digits` shows that a longer
size can be misread. Every chunked request of the run `request` satisfies it. Two more
invariants carry the proof (`ChunkInv`):
`AtItsPlace` says at which byte of the chunk stream each of the five places of
`read_chunked_body` can be (in a size line and with its size, `chunk` bytes before the end
of its data, ...), and `DecodedIsData` that the bytes decoded so far are the data bytes in
front of the parse position, all of them. Being a set of offsets, the data of a body takes
no induction; that the body is in order is `BodyInOrder`.

### Endpoint and ClientSession

`ClientSession_proofs` proves `EndpointInvariant` and `Ownership`
(`DescriptorsAreOwned`) of the composed specification, for any sets of endpoints,
connections and descriptors. Inductive with it: a connection that is being connected names
no descriptor, and there is at most one. Assumption:
`EndpointAssumption`, which keeps endpoints, connections and the rest of the program apart.

It also proves `SessionInvariant`, `WholeResponses` (`ResponseIsWhole`), `WaitSafety`
(`WaitsForWhatIsOwed`) and `SilenceSafety` (`SilenceIsBounded`), for any number of
requests, any exchanges with any lengths and interim responses, and any time-outs
(`SessionAssumption`). `SessionInv` looks at a response as a string of tokens. What is in
the caller's window, on the wire and still to be sent, one behind the other (`Rest`), is
at every moment an *end* of the response to the last request (`IsEndOf`), so that one
number, `Place`, says how much of it was consumed; `InPlace` relates it to where the call
is and to the bytes of body handed over. From that follows that a response returned ok
leaves nothing behind (`InvBetween`), and with it that the next request's response is not
mixed with this one's. `Gone` is the exception: a request that was sent to a peer that
had already closed. `InvClock` bounds the silence: since the deadline was computed the
socket waited at most once after it had passed.

### ProxyConfig and ProxyStorage

`ProxyConfig_proofs` proves `StorageInvariant`, `CredentialsAreWiped`
(`NoCredentialLeft`) and `AuthorizationWhole` (`AuthorizationIsWhole`) of the storage
alone, for any capacity and any lengths. The invariant says for each place of the
function what each byte of the storage is part of. The lemma that carries it is
`StagedIsBehind`: with `Needed` bytes of storage the staged credentials begin where the
authorization has ended.

`ConfigInvariant`, `ConfigCredentialsAreWiped` and `ConfigAuthorizationWhole` say the same
of `ProxyConfig`, the specification that TLC runs, where the lengths are those of what
`ParseUrl` finds in the environment. The only assumption is that the variables hold text
(`SituationsAssumption`); what it says, and whether it is a URL, is left open. Needed
for that is `UrlIsParsed`: a URL that is not malformed has a host name and credentials of
some length. `PercentDecode`, a recursive function, is the hard part of it
(`PercentDecoded`): that the function exists and that its values are text is shown by
`SetInduction`, induction for a set of numbers instead of a predicate, from the end of
the text to its front.

`ProxyIsTheOneMeant` compares the proxy that is configured with what the writers of the
variables mean, so it is proved in two parts. The first has no assumptions but
`SituationsAssumption`: by `ConfigFollowsTheRules` (`RulesAreFollowed`, inductive with
`IsSituation`) the call returns with the proxy that `ParseUrl` finds in the variable that
counts, or with none where the variable is unset, malformed or bypassed, and while it works,
and on failure, none is configured, whatever was before. `ConfigProxyIsUsable` adds that
such a proxy can be connected to: its host name is not empty and its port is from 1 to
65535 (`AcceptedUrlsAreUsable`, for any text at all).

The second part is about what the parser reads. `IsWritten(text, meant)` is a grammar that
has its meaning beside it. With the parser it shares the classes of characters, the table
of escapes and the value of digits, and none of what searches or cuts a text:

- blanks around the URL, none within its ends; "http" in any case and "://", or neither;
- a user with or without a password, each spelled with or without escapes (`IsSpelling`:
  places p, where each character begins as itself or as its escape); the spelled password
  may have more colons, both may have "@", neither has "/", "?" or "#";
- a host name or IPv4 address, or an IPv6 address in brackets; a port, an empty port
  (80) or none (80); a path, query or fragment, or none, with anything in it - without a
  scheme not two slashes in a row, for the code takes the first "://" wherever it is.

`UrlIsReadAsWritten` says that whatever is written so is read as it is meant. Each part of
the grammar has a lemma that the search for its end (first or last of some characters)
finds the end that the writer put there: the scheme (`SchemeIsRead`, `NoSchemeIsRead`), the
authority, the user, the address, and inside the user the colon and the escapes
(`SpellingIsDecoded`). `ConfigProxyIsAsWritten` puts both parts together: if the URLs are
written by the grammar, or mean nothing and are malformed, and the lists of hosts are read
as they are meant (`AsWritten`), then `ProxyIsTheOneMeant` holds for every environment and
storage. All the well-formed URLs of `MCProxyConfig` are of the grammar, by its parts: the
schemes, users, addresses, ports and paths it combines, and a blank behind.

`ConfigProxyIsTheOneMeant` is the same from the weaker hypothesis `Understood`, that each
text is read as it is meant. The situations of `MCProxyConfig` satisfy it: each of its URLs
and lists counts in some situation, and there the run `proxy` would fail otherwise.

### Message

`Text_proofs` proves `MessageInvariant`, `HeadersComeBack` (`MessageComesBack`) and
`PassesComplete` (`PassesAreComplete`), for any names, values, bodies and header lines of a
peer, any room and any number of lines. Assumptions: names are single tokens that are no
separators, values have neither line ends in them nor blanks around them, and a peer's
line is either no header (it has no colon) or a name, a colon and its value among any
blanks (`IsHeader`). Bodies are arbitrary up to four tokens, the numbers there are digits
for (`BodiesAssumption`).

`MessageComesBack` is not inductive: it looks at the two ends, and what is on its way has
to be known in between. `MessageIInv` adds three parts.

- `Written`: what is to be sent is whole lines none of which is empty (`Lined`), and it
  *means* the lines that were added or written (`Means`): every name is found in the text
  exactly if a line has it, with that line's value. On the wire it is followed by its
  blank line and the body, or lacks them in one of the two ways a peer may leave them out.
- `ReadBack`: what was parsed means what was sent, and the body is the body.
- `Iteration`: what a pass has given and what the iterator has yet to give, one behind
  the other, are the part of the block that was there when it began.

Two lemmas carry the proof. `MeansMore`: a line put behind whole lines changes only what
is found under its own name, and that only if no earlier line has it; it rests on
`LinesBehind`, by which the lines of the first text stay where they are and those of the
second are moved by its length. `FirstBlank`: behind whole lines the blank line is the
first one, which is why both parsers end the head where the sender did, whatever the body
holds. The properties of the texts themselves are shown from first elements and least
numbers (`LeastNumber`), without induction over data.

### Forms

`Text_proofs` goes on with `FormInvariantHolds`, `FormFieldsComeBack` (`FieldsComeBack`),
`FormLookupIsFirst` (`LookupIsFirst`) and `FormIterationAdvances` (`IterationAdvances`), for
any names, values, writings of values, boundaries, rooms and number of fields, and for any
texts of a sender who does not know the rules. Assumptions: a name is not empty and has
none of the separators of either reader in it (`FieldNamesAssumption`); a value is any
bytes, and what stands for it in a query is made of one writing per byte
(`EncodingsAssumption`); a boundary is not empty and has neither quotes nor separators
nor line ends in it (`BoundariesAssumption`). That no value holds the delimiter is a guard
of the sender (`Delimits`).

`FieldsComeBack` looks at the fields and at what was given of them; `FormInvariant` says
what the text and the iterator are in between.

- `WrittenDown`: the text is the fields one behind the other. `Places` says where each
  begins and ends, `Pairs` and `Parts` that the text holds there a pair with a writing of
  the value, or the part; in a query every "&" ends one of the fields.
- `GivenBack`: what was given are the first fields, decoded.
- `ReaderStands`: the iterator stands where the first field begins that it did not give; in
  a multipart body what it has left is the text from there on.

Everything is said with `Holds`, that a text holds a piece behind a place, which what is
written later does not change (`HoldsMore`). One call at a pair gives the pair
(`PairComes`), because neither a name nor a writing holds a separator. One call at a part
gives the part (`PartComes`): the delimiter found first is the part's own, the blank line
found first is the one behind its headers, and the delimiter found next is the next
part's. The last is the hard one (`BoundaryIs`): the code looks behind every second pair
of a row of dashes, so a delimiter could be missed; it is not, because a line end stands
before it. The values are decoded by a recursive function, which is shown to exist and to
undo every writing by `SetInduction` from the end of the text to its front
(`SpellingIsDecoded`). `HitsAre` says that the places where a lookup finds a name are those
where fields of that name were put.

### What is only model-checked

Liveness (`EveryExchangeEnds`, `StopEndsTheLoop`, `StopReturns`, `ClientsAreAdmitted`,
`SentIsAnswered`, `CallReturns`) is out of the prover's reach: it needs ENABLED.
All other invariants and action properties of the passing runs are proved, some of them
from hypotheses on the inputs. `ProxyIsTheOneMeant` needs to know what the rules read in
the texts: for URLs that is a grammar, but what `ShouldBypass` reads in a list of hosts is
left to TLC, because `Entries` is a fold, which cannot be reasoned about without an
induction theorem that takes an operator. That a URL which means nothing is refused is
proved only as far as `AcceptedUrlsAreUsable` goes, and run `proxy` shows it for the
malformed URLs of `MCProxyConfig`. Chunked bodies that are not framed as the hypotheses `ChunksAreFramed` and `OneDigitSizes`
say are left to TLC; of requests with longer sizes `BodyIsIntact` is false.

## Findings

Two runs end with a counterexample:

1. `lifecycle_undone` (`StopIsNotUndone`): `http_server_run` decides to publish "running"
   in one critical section (1363) and does so in another (1370). A stop whose second of
   waiting ran out in between is overwritten, which http_server.c:1358 says must not
   happen. `StopIsFinal` shows that there is no other way.
2. `request_digits`: `read_chunked_body` takes the digits of a chunk size only from what
   is in the buffer (http_connection.c:133). Digits that come with the next read are
   skipped like an extension: the body is decoded with a wrong size and returned ok.
   `request` shows that with sizes of one digit the body is always right.

Further counterexamples; each has its configuration beside the others, not among the
runs, and TLC finds it in seconds:

| configuration | property | what it shows |
|---|---|---|
| `MCDeferral_finished` | `FinishedTicketRefused` | The generation in a ticket changes only when the slot is released. On a keep-alive connection the ticket of an exchange that was answered is accepted for the next exchange parked there. http_server.c:505 and `http_server.h:420` say that it is refused. What still holds, and is proved, is that it never reaches another connection. |
| `MCServerLifecycle_outlives` | `LoopOutlivesStop` | Once `http_server_stop` has set "stopping" the run loop can end and destroy the event loop before `event_loop_stop` is called on it (`http_server.h:398`: "Safe to call from any thread"). |
| `MCSlotPipeline_stalls` | `WaitsOnThePeer` | Bytes that the TLS layer has decrypted already raise no event. After a response `slot_finish_send` (http_server.c:686) parses what is in the receive buffer and arms the slot without reading again, so the server waits for a peer that has sent its whole request, until more bytes come or the idle time-out closes the connection. Plain sockets are not concerned: there `WaitsOnThePeer` holds. |
| `MCSlotPipeline_unfinalized` | `OfferedIsFinalized` | A streamed response posted by a worker is held in the slot until the flush; if the connection closes first its finalizer is never called (`http_response.h:27`: "exactly once"). |
| `MCResponseReader_exact` | `RefusedDoesNotFit` | A body that ends with the connection and exactly fills the buffer is refused: `response_body_reader_fill` looks for room before it looks for the end of the stream (`http_connection.h:66`). |
| `MCRequestReader_truncated` | `OkBodyIsWhole` | If the peer closes in the middle of a body by length, `read_remaining_body` returns end_of_data, which is no error for its caller (http_connection.c:826): the request is accepted with part of its body. |
| `MCClientSession_headerless` | `BodyToTheCloseIsWhole` | The blank line of a response without header lines is eaten by the split of its status line; body bytes that came with the head are not found again (http_response.c:56) and are missing from the body. |
| `MCClientSession_stranded` | `NothingIsStranded` | If `socket_stream_initialize` fails after a connect or an accept (http_endpoint.c:170, 109) the error is returned with the descriptor and the TLS context left open; "callers do not deinitialize an object whose creation failed" (http_endpoint.c:176). Whether that call of common-lib-c can fail is not known here. |

Observed while modelling and not given a run of their own:

- A worker that posts before its handler has returned is told `not_found`
  (http_server.c:1056; the slot is parked at 538). `http_server.h:417` explains
  `not_found` by a lost connection and advises to drop the ticket; the client then gets
  the 504 of the deadline. The early post is in the model, as a step that changes nothing.
- `http_server_stop` on a thread that is past its wait sets "stopping" (1263) also after
  the server has stopped, and nothing sets "stopped" again.
- The state callback for "stopping" runs on the stopper's thread; `http_server.h:187`
  says that it runs on the server's loop thread.
- `listener_rearm` ignores a failing `event_loop_register`. The listener is then tried
  again only when another slot is released. `ParkedOnlyWhenFull` and `ClientsAreAdmitted`
  are therefore stated for registrations that succeed; the other properties of the pool
  hold either way.

- `http_connection_receive_request` returns end_of_data from a peer that closed before
  the head was complete as if it had read one, and parses
  spans that were never written (http_connection.c:818).
- The framing of chunked requests is lenient: a size line without digits is a size of 0
  and ends the body; a missing line end behind a chunk is not noticed; trailers and the
  last CRLF are left in the stream (or in the buffer) for the next request.
- A request with neither length nor chunks keeps what came with its head as its body,
  a pipelined request among it (http_connection.c:403).
- One flag remembers HEAD. If a second request is sent before the first response is
  received, the first is framed by the second's method (http_connection.c:875).
- What came with the head of an interim response is dropped (http_connection.c:733).
- `http_endpoint_wait_for_connection` clears the connection's `endpoint`, which its
  asynchronous form has just set.
- Headers: `get_next` needs ": " where `find` needs only ":" (http_headers.c:160, 199);
  after `init` and `add` the first `get_next` reports the end; the last line of a
  message that lacks its line end is dropped when earlier lines have theirs;
  the first of duplicate headers counts.
- Query strings: a "?" inside a raw query cuts it; names are not decoded.
- Multipart: a part without header lines swallows the next one's (multipart.c:197);
  "--" and the boundary delimit anywhere in the data, and as the prefix of a longer
  boundary; a ";" in a quoted name ends it.
- Proxy: a user name with an encoded ":" is ambiguous once joined to its password (as in
  every Basic authorization); names in `no_proxy` match IP addresses by suffix too.

## Not modelled

- The event loop, sockets, streams, mutexes: common-lib-c is a submodule, not part of
  this repository. Modelled from how the code uses it, marked external.
- `http_server_deinit`, overlapping calls of `http_server_run`, and what a worker finds
  when the event loop is gone: see the plan.
- Routes: matching is the regular expressions of common-lib-c. A handler's decision is a
  choice. `http_server_add_route` belongs to the time before the run.
- The start line of requests and responses, failing writes of a message to a stream, and
  sums of lengths near 2^32 in the parser and in the sizes of chunks.
- Calls of one client connection that overlap: the library asks for one at a time.
- Samples, benchmarks, build files; the tests served as evidence of the contract.

## Plan

Done, in this order, most important first: `Deferral` with `ExchangePromise` and its
proofs; `ServerLifecycle` and its proofs; `ConnectionPool`; `SlotPipeline`;
`ResponseReader` and its proofs; `RequestReader` and its proofs; `Endpoint` and
`ClientSession`; `Message`; `Forms`; `ProxyConfig` and its proofs; the proofs of
`ConnectionPool`, `SlotPipeline`, `ClientSession`, of the content of chunked bodies, of
`Message` and of `Forms`; what `ParseUrl` finds in a text, for a grammar of proxy URLs.

Next, extending the model:

1. `Deferral` composed with `ServerLifecycle`: the life-time of the event loop against
   the wake-up of a worker (http_server.c:1086), and `http_server_deinit`.
2. `ClientSession` with several requests under way, for the flag of HEAD.
3. The parser's arithmetic modulo 2^32 (`headers_end + content_length`).

Next, proving more: what `ShouldBypass` finds in a list, with its entries taken apart by a
recursive function instead of a fold, and the texts that `ParseUrl` must refuse.

## Running

    cd tla
    tlc -workers 2 -config MCForms_fields.cfg MCForms
    tlapm Server_proofs.tla
