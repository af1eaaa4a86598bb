-------------------------------- MODULE Endpoint --------------------------------
(***************************************************************************)
(* Who owns which descriptor: http_endpoint.c's init, connect,             *)
(* wait_for_connection and deinit, and http_connection_close.  An endpoint *)
(* and a connection each hold a socket_t; -1 is its sentinel for "none",   *)
(* and 0, which is what memset leaves, is a descriptor like any other.     *)
(* The socket layer is external: a socket has a descriptor and, for TLS, a *)
(* context, and hands out the lowest descriptor that is free.              *)
(***************************************************************************)
EXTENDS Integers

CONSTANTS Endpoints, Connections, Fds

Sockets == Endpoints \cup Connections
None == -1

ASSUME EndpointAssumption ==
    /\ Fds \subseteq Nat /\ 0 \in Fds
    /\ Endpoints \cap Connections = {} /\ {"nobody", "process", "lost"} \cap Sockets = {}

VARIABLES
    owner,     \* whom the kernel's descriptor was opened for; "lost": nobody will close it
    process,   \* the descriptors the rest of the program has open, 0 among them
    sd,        \* socket->sd, or its listen_sd if it listens
    context,   \* the sockets that have a TLS context
    live,      \* the endpoints and connections their user has to dispose of
    connecting, \* the connections http_endpoint_connect is working on
    role       \* endpoint->role

endpoint_vars == <<owner, process, sd, context, live, connecting, role>>

EndpointTypeOK ==
    /\ owner \in [Fds -> Sockets \cup {"nobody", "process", "lost"}] /\ process \subseteq Fds
    /\ sd \in [Sockets -> Fds \cup {None}] /\ context \subseteq Sockets /\ live \subseteq Sockets
    /\ connecting \subseteq Connections
    /\ role \in [Endpoints -> {"client", "server"}]

EndpointInit ==
    /\ owner = [f \in Fds |-> IF f = 0 THEN "process" ELSE "nobody"] /\ process = {0}
    /\ sd = [s \in Sockets |-> None] /\ context = {} /\ live = {} /\ connecting = {}
    /\ role \in [Endpoints -> {"client", "server"}]

-------------------------------------------------------------------------------
(* The socket layer. *)

Free == {f \in Fds : owner[f] = "nobody"}
Opens(f, who) ==
    /\ f \in Free /\ \A g \in Free : f <= g
    /\ owner' = [owner EXCEPT ![f] = who]

\* socket_deinit: it closes whatever descriptor is there that is not -1.
SocketDeinit(s) ==
    /\ owner' = [f \in Fds |-> IF f = sd[s] THEN "nobody" ELSE owner[f]]
    /\ sd' = [sd EXCEPT ![s] = None]
    /\ context' = context \ {s}

\* The rest of the program opens and closes descriptors of its own.
ProcessOpens == \E f \in Fds : Opens(f, "process") /\ process' = process \cup {f}
                               /\ UNCHANGED <<sd, context, live, connecting, role>>

ProcessCloses(f) ==
    /\ f \in process /\ process' = process \ {f}
    /\ owner' = [owner EXCEPT ![f] = "nobody"]
    /\ UNCHANGED <<sd, context, live, connecting, role>>

-------------------------------------------------------------------------------
(* http_endpoint.c *)

\* What http_endpoint_init leaves in the socket of a client, that it never opens.
MutantSentinelZero == 0
Sentinel == None

InitClient(e) ==
    /\ e \notin live /\ role[e] = "client"
    /\ sd' = [sd EXCEPT ![e] = Sentinel] /\ live' = live \cup {e}
    /\ UNCHANGED <<owner, process, context, connecting, role>>

\* socket_init of a server takes a context and a listening descriptor.
InitServer(e) ==
    /\ e \notin live /\ role[e] = "server"
    /\ \E f \in Fds : Opens(f, e) /\ sd' = [sd EXCEPT ![e] = f]
    /\ context' = context \cup {e} /\ live' = live \cup {e}
    /\ UNCHANGED <<process, connecting, role>>

\* A socket was opened but socket_stream_initialize fails: an error, and "callers do
\* not deinitialize an object whose creation failed".
Strands(f, c) == Opens(f, "lost") /\ sd' = [sd EXCEPT ![c] = f] /\ UNCHANGED live

\* http_endpoint_wait_for_connection: the accepted socket uses the endpoint's context.
Accept(e, c) ==
    /\ e \in live /\ role[e] = "server" /\ c \notin live \cup connecting
    /\ \E f \in Fds : \/ Opens(f, c) /\ sd' = [sd EXCEPT ![c] = f] /\ live' = live \cup {c}
                      \/ Strands(f, c)
    /\ UNCHANGED <<process, context, connecting, role>>

\* socket_init, of a server or in connect, or socket_accept fails and keeps nothing: the
\* socket has the descriptor memset left there, which is somebody else's.
CreationFails(s) ==
    /\ s \notin live \cup connecting
    /\ \/ s \in Endpoints /\ role[s] = "server"
       \/ s \in Connections /\ Endpoints \cap live # {}
    /\ sd' = [sd EXCEPT ![s] = 0]
    /\ UNCHANGED <<owner, process, context, live, connecting, role>>

\* http_endpoint_connect: socket_init takes a context.
ConnectBegins(e, c) ==
    /\ e \in live /\ role[e] = "client" /\ c \notin live /\ connecting = {}
    /\ sd' = [sd EXCEPT ![c] = None] /\ context' = context \cup {c}
    /\ connecting' = {c} /\ UNCHANGED <<owner, process, live, role>>

\* socket_connect opens a descriptor.
ConnectSucceeds(c) ==
    /\ c \in connecting /\ connecting' = {}
    /\ \E f \in Fds : Opens(f, c) /\ sd' = [sd EXCEPT ![c] = f]
    /\ live' = live \cup {c} /\ UNCHANGED <<process, context, role>>

\* It does, but no stream comes of it; the context is lost with the descriptor.
ConnectStrands(c) ==
    /\ c \in connecting /\ connecting' = {}
    /\ \E f \in Fds : Strands(f, c)
    /\ context' = context \ {c} /\ UNCHANGED <<process, role>>

\* It fails and gives its descriptor back; the code disposes of the rest, for its
\* caller will not.
ConnectFails(c) ==
    /\ c \in connecting /\ connecting' = {}
    /\ SocketDeinit(c) /\ UNCHANGED <<process, live, role>>

\* http_connection_close and http_endpoint_deinit.
Dispose(s) ==
    /\ s \in live /\ connecting = {} /\ SocketDeinit(s) /\ live' = live \ {s}
    /\ UNCHANGED <<process, connecting, role>>

DisposeEndpoint(e) == e \in Endpoints /\ Dispose(e)

EndpointNext ==
    \/ ProcessOpens
    \/ \E f \in Fds : ProcessCloses(f)
    \/ \E e \in Endpoints :
          \/ InitClient(e) \/ InitServer(e) \/ DisposeEndpoint(e)
          \/ \E c \in Connections : Accept(e, c) \/ ConnectBegins(e, c)
    \/ \E c \in Connections : ConnectFails(c) \/ ConnectStrands(c)
    \/ \E s \in Sockets : CreationFails(s)

-------------------------------------------------------------------------------

\* A descriptor belongs to whoever opened it until that one closes it: a socket
\* in use names only its own, the program's own stay open, and nothing that was
\* disposed of, or never came to be, keeps a descriptor or a TLS context; but for
\* those lost to a stream that could not be initialised, which NothingIsStranded is
\* about.  (The comments in http_endpoint_init and http_endpoint_connect.)
DescriptorsAreOwned ==
    /\ \A s \in live : sd[s] # None => owner[sd[s]] = s
    /\ \A f \in process : owner[f] = "process"
    /\ \A f \in Fds : owner[f] \in Sockets => owner[f] \in live /\ sd[owner[f]] = f
    /\ context \subseteq live \cup connecting

\* What makes it inductive: a connection that is being connected names no descriptor,
\* and connections are connected one by one.
EndpointInv ==
    /\ EndpointTypeOK /\ DescriptorsAreOwned
    /\ \A c \in connecting : sd[c] = None
    /\ connecting \cap live = {}
    /\ \A c, d \in connecting : c = d

(* What the documentation says, and the code does not do. *)

\* http_endpoint.c: "Callers do not deinitialize an object whose creation failed", so
\* a creation that fails has to leave nothing open.
NothingIsStranded == \A f \in Fds : owner[f] # "lost"
=================================================================================
