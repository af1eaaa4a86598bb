-------------------------- MODULE ClientSession_proofs --------------------------
(***************************************************************************)
(* Proofs about the descriptors of the client: for any number of endpoints,*)
(* connections and descriptors, each is closed only for its owner.         *)
(***************************************************************************)
EXTENDS ClientSession, SequenceTheorems, TLAPS

\* Taking a descriptor that is free disturbs nobody.
LEMMA OpensForSocket ==
    ASSUME EndpointInv, NEW s \in Sockets, s \notin live, NEW f \in Fds, Opens(f, s),
           sd' = [sd EXCEPT ![s] = f], live' = live \cup {s}, process' = process,
           UNCHANGED role, connecting' \subseteq connecting \ {s},
           context' \in {context, context \cup {s}},
           context \subseteq live' \cup connecting'
    PROVE  EndpointInv'
  <1> USE EndpointAssumption
  <1>1. /\ owner[f] = "nobody" /\ f # None
        /\ owner' = [owner EXCEPT ![f] = s]
        /\ owner \in [Fds -> Sockets \cup {"nobody", "process", "lost"}]
        /\ sd \in [Sockets -> Fds \cup {None}]
        /\ "nobody" \notin Sockets /\ "process" \notin Sockets
        /\ "nobody" # "process" /\ "lost" \notin Sockets
    BY DEF Opens, Free, EndpointInv, EndpointTypeOK, None
  <1>2. EndpointTypeOK'
    BY <1>1 DEF EndpointInv, EndpointTypeOK
  <1>3. ASSUME NEW t \in live', sd'[t] # None
        PROVE  owner'[sd'[t]] = t
    <2>1. CASE t = s
      BY <1>1, <2>1
    <2>2. CASE t # s
      <3>1. t \in live /\ t \in Sockets /\ sd'[t] = sd[t]
        BY <1>1, <2>2 DEF EndpointInv, EndpointTypeOK
      <3>2. owner[sd[t]] = t /\ sd[t] \in Fds
        BY <1>1, <1>3, <3>1 DEF EndpointInv, DescriptorsAreOwned
      <3>3. sd[t] # f
        BY <1>1, <3>1, <3>2
      <3> QED
        BY <1>1, <3>1, <3>2, <3>3
    <2> QED
      BY <2>1, <2>2
  <1>4. \A g \in process' : owner'[g] = "process"
    BY <1>1 DEF EndpointInv, DescriptorsAreOwned, EndpointTypeOK
  <1>5. ASSUME NEW g \in Fds, owner'[g] \in Sockets
        PROVE  owner'[g] \in live' /\ sd'[owner'[g]] = g
    <2>1. CASE g = f
      BY <1>1, <2>1
    <2>2. CASE g # f
      <3>1. owner'[g] = owner[g] /\ owner[g] \in live /\ sd[owner[g]] = g
        BY <1>1, <1>5, <2>2 DEF EndpointInv, DescriptorsAreOwned
      <3> QED
        BY <1>1, <1>5, <3>1
    <2> QED
      BY <2>1, <2>2
  <1>6. context' \subseteq live' \cup connecting'
    OBVIOUS
  <1>7. DescriptorsAreOwned'
    BY <1>3, <1>4, <1>5, <1>6 DEF DescriptorsAreOwned
  <1>8. /\ \A c \in connecting' : sd'[c] = None
        /\ connecting' \cap live' = {} /\ \A c, d \in connecting' : c = d
    BY <1>1 DEF EndpointInv, EndpointTypeOK
  <1> QED
    BY <1>2, <1>7, <1>8 DEF EndpointInv

\* socket_deinit takes away only what the socket has.
LEMMA DeinitKeeps ==
    ASSUME EndpointInv, NEW s \in live \cup connecting, SocketDeinit(s), live' = live \ {s},
           process' = process, UNCHANGED role, connecting' = connecting \ {s}
    PROVE  EndpointInv'
  <1> USE EndpointAssumption
  <1>1. /\ owner' = [f \in Fds |-> IF f = sd[s] THEN "nobody" ELSE owner[f]]
        /\ sd' = [sd EXCEPT ![s] = None] /\ context' = context \ {s}
        /\ owner \in [Fds -> Sockets \cup {"nobody", "process", "lost"}]
        /\ sd \in [Sockets -> Fds \cup {None}] /\ live \subseteq Sockets
        /\ process \subseteq Fds /\ s \in Sockets /\ sd[s] \in Fds \cup {None}
        /\ "nobody" \notin Sockets /\ "process" \notin Sockets /\ \A f \in Fds : f # None
    <2>1. /\ "nobody" \notin Sockets /\ "process" \notin Sockets
      OBVIOUS
    <2>2. \A f \in Fds : f # None
      BY DEF None
    <2> QED
      BY <2>1, <2>2 DEF SocketDeinit, EndpointInv, EndpointTypeOK, Sockets
  <1>2. EndpointTypeOK'
    BY <1>1 DEF EndpointInv, EndpointTypeOK
  <1>3. sd[s] # None => owner[sd[s]] = s
    BY <1>1 DEF EndpointInv, DescriptorsAreOwned
  <1>4. ASSUME NEW t \in live', sd'[t] # None
        PROVE  owner'[sd'[t]] = t
    <2>1. t \in live /\ t # s /\ sd'[t] = sd[t] /\ sd[t] \in Fds
      BY <1>1, <1>4
    <2>2. owner[sd[t]] = t
      BY <1>4, <2>1 DEF EndpointInv, DescriptorsAreOwned
    <2>3. sd[t] # sd[s]
      BY <1>1, <1>3, <2>1, <2>2
    <2> QED
      BY <1>1, <2>1, <2>2, <2>3
  <1>5. ASSUME NEW g \in process'
        PROVE  owner'[g] = "process"
    <2>1. owner[g] = "process" /\ g \in Fds
      BY <1>1 DEF EndpointInv, DescriptorsAreOwned
    <2>2. g # sd[s]
      BY <1>1, <1>3, <2>1
    <2> QED
      BY <1>1, <2>1, <2>2
  <1>6. ASSUME NEW g \in Fds, owner'[g] \in Sockets
        PROVE  owner'[g] \in live' /\ sd'[owner'[g]] = g
    <2>1. owner'[g] = owner[g] /\ g # sd[s]
      BY <1>1, <1>6
    <2>2. owner[g] \in live /\ sd[owner[g]] = g
      BY <1>6, <2>1 DEF EndpointInv, DescriptorsAreOwned
    <2>3. owner[g] # s
      BY <2>1, <2>2
    <2> QED
      BY <1>1, <2>1, <2>2, <2>3
  <1>7. context' \subseteq live' \cup connecting'
    BY <1>1 DEF EndpointInv, DescriptorsAreOwned
  <1>8. DescriptorsAreOwned'
    BY <1>4, <1>5, <1>6, <1>7 DEF DescriptorsAreOwned
  <1>9. /\ \A c \in connecting' : sd'[c] = None
        /\ connecting' \cap live' = {} /\ \A c, d \in connecting' : c = d
    BY <1>1 DEF EndpointInv
  <1> QED
    BY <1>2, <1>8, <1>9 DEF EndpointInv

\* The same when no descriptor is taken or given back.
LEMMA NothingOpens ==
    ASSUME EndpointInv, NEW s \in Sockets, s \notin live, sd' = [sd EXCEPT ![s] = None],
           UNCHANGED <<owner, process, role>>, live' \in {live, live \cup {s}},
           connecting' \subseteq Connections, connecting' \cap live' = {},
           connecting' \subseteq connecting \cup {s}, \A c, d \in connecting' : c = d,
           context' \subseteq Sockets, context' \subseteq live' \cup connecting'
    PROVE  EndpointInv'
  <1> USE EndpointAssumption
  <1>1. /\ sd \in [Sockets -> Fds \cup {None}] /\ live \subseteq Sockets
        /\ sd'[s] = None /\ \A t \in Sockets : t # s => sd'[t] = sd[t]
        /\ Connections \subseteq Sockets
    BY DEF EndpointInv, EndpointTypeOK, Sockets
  <1>2. EndpointTypeOK'
    BY <1>1 DEF EndpointInv, EndpointTypeOK
  <1>3. DescriptorsAreOwned'
    BY <1>1 DEF EndpointInv, DescriptorsAreOwned
  <1>4. \A c \in connecting' : sd'[c] = None
    BY <1>1 DEF EndpointInv
  <1> QED
    BY <1>2, <1>3, <1>4 DEF EndpointInv

\* What a creation that failed leaves in the connection is nobody's business, and a
\* descriptor that is lost is none of a socket's.
LEMMA CreationFailedKeeps ==
    ASSUME EndpointInv, NEW s \in Sockets, s \notin live, NEW v \in Fds \cup {None},
           sd' = [sd EXCEPT ![s] = v], UNCHANGED <<process, live, role>>,
           owner' = owner \/ \E f \in Free : owner' = [owner EXCEPT ![f] = "lost"],
           connecting' \subseteq connecting \ {s},
           context' \subseteq context, context' \subseteq live \cup connecting'
    PROVE  EndpointInv'
  <1> USE EndpointAssumption
  <1>1. /\ sd \in [Sockets -> Fds \cup {None}] /\ live \subseteq Sockets
        /\ \A t \in Sockets : t # s => sd'[t] = sd[t]
        /\ connecting \subseteq Connections /\ Connections \subseteq Sockets
    BY DEF EndpointInv, EndpointTypeOK, Sockets
  <1>2. /\ owner' \in [Fds -> Sockets \cup {"nobody", "process", "lost"}]
        /\ \A f \in Fds : \/ owner'[f] = owner[f]
                          \/ owner[f] = "nobody" /\ owner'[f] = "lost"
    BY DEF Free, EndpointInv, EndpointTypeOK
  <1>3. EndpointTypeOK'
    BY <1>1, <1>2 DEF EndpointInv, EndpointTypeOK
  <1>4. ASSUME NEW t \in live, sd'[t] # None
        PROVE  owner'[sd'[t]] = t
    <2>1. t \in Sockets /\ sd'[t] = sd[t] /\ sd[t] \in Fds
      BY <1>1, <1>4
    <2>2. owner[sd[t]] = t /\ owner[sd[t]] # "nobody"
      BY <1>4, <2>1 DEF EndpointInv, DescriptorsAreOwned
    <2> QED
      BY <1>2, <2>1, <2>2
  <1>5. \A f \in process : owner'[f] = "process"
    BY <1>2 DEF EndpointInv, EndpointTypeOK, DescriptorsAreOwned
  <1>6. \A f \in Fds : owner'[f] \in Sockets => owner'[f] \in live /\ sd'[owner'[f]] = f
    BY <1>1, <1>2 DEF EndpointInv, DescriptorsAreOwned
  <1>7. DescriptorsAreOwned'
    BY <1>4, <1>5, <1>6 DEF DescriptorsAreOwned
  <1>8. /\ \A c \in connecting' : sd'[c] = None
        /\ connecting' \cap live' = {} /\ \A c, d \in connecting' : c = d
    BY <1>1 DEF EndpointInv
  <1> QED
    BY <1>3, <1>7, <1>8 DEF EndpointInv

\* Another part of the process opening a descriptor takes none that is owned.
LEMMA ProcessOpensKeeps ==
    ASSUME EndpointInv, ProcessOpens
    PROVE  EndpointInv'
  <1> USE EndpointAssumption
  <1>1. PICK f \in Fds : Opens(f, "process") /\ process' = process \cup {f}
    BY DEF ProcessOpens
  <1>2. /\ UNCHANGED <<sd, context, live, connecting, role>>
        /\ owner[f] = "nobody" /\ owner' = [owner EXCEPT ![f] = "process"]
        /\ owner \in [Fds -> Sockets \cup {"nobody", "process", "lost"}]
        /\ "nobody" \notin Sockets /\ "process" \notin Sockets /\ "nobody" # "process"
        /\ live \subseteq Sockets /\ sd \in [Sockets -> Fds \cup {None}]
    BY <1>1 DEF ProcessOpens, Opens, Free, EndpointInv, EndpointTypeOK
  <1>3. EndpointTypeOK'
    BY <1>1, <1>2 DEF EndpointInv, EndpointTypeOK
  <1>4. ASSUME NEW s \in live, sd[s] # None
        PROVE  owner'[sd[s]] = s
    BY <1>2, <1>4 DEF EndpointInv, DescriptorsAreOwned
  <1>5. \A g \in process' : owner'[g] = "process"
    BY <1>1, <1>2 DEF EndpointInv, EndpointTypeOK, DescriptorsAreOwned
  <1>6. \A g \in Fds : owner'[g] \in Sockets => owner'[g] \in live /\ sd[owner'[g]] = g
    BY <1>2 DEF EndpointInv, DescriptorsAreOwned
  <1>7. DescriptorsAreOwned'
    BY <1>2, <1>4, <1>5, <1>6 DEF EndpointInv, DescriptorsAreOwned
  <1> QED
    BY <1>2, <1>3, <1>7 DEF EndpointInv

\* Another part of the process closes only descriptors of its own.
LEMMA ProcessClosesKeeps ==
    ASSUME EndpointInv, NEW f \in Fds, ProcessCloses(f)
    PROVE  EndpointInv'
  <1> USE EndpointAssumption
  <1>1. /\ UNCHANGED <<sd, context, live, connecting, role>>
        /\ owner[f] = "process" /\ owner' = [owner EXCEPT ![f] = "nobody"]
        /\ process' = process \ {f} /\ process \subseteq Fds
        /\ owner \in [Fds -> Sockets \cup {"nobody", "process", "lost"}]
        /\ "nobody" \notin Sockets /\ "process" \notin Sockets /\ "nobody" # "process"
        /\ live \subseteq Sockets /\ sd \in [Sockets -> Fds \cup {None}]
    BY DEF ProcessCloses, EndpointInv, EndpointTypeOK, DescriptorsAreOwned
  <1>2. EndpointTypeOK'
    BY <1>1 DEF EndpointInv, EndpointTypeOK
  <1>3. ASSUME NEW s \in live, sd[s] # None
        PROVE  owner'[sd[s]] = s
    BY <1>1, <1>3 DEF EndpointInv, DescriptorsAreOwned
  <1>4. \A g \in process' : owner'[g] = "process"
    BY <1>1 DEF EndpointInv, EndpointTypeOK, DescriptorsAreOwned
  <1>5. \A g \in Fds : owner'[g] \in Sockets => owner'[g] \in live /\ sd[owner'[g]] = g
    BY <1>1 DEF EndpointInv, DescriptorsAreOwned
  <1>6. DescriptorsAreOwned'
    BY <1>1, <1>3, <1>4, <1>5 DEF EndpointInv, DescriptorsAreOwned
  <1> QED
    BY <1>1, <1>2, <1>6 DEF EndpointInv

\* A connection that is made owns the descriptor it was given.
LEMMA ConnectSucceedsKeeps ==
    ASSUME EndpointInv, NEW c \in Connections, ConnectSucceeds(c)
    PROVE  EndpointInv'
  <1>1. PICK f \in Fds : Opens(f, c) /\ sd' = [sd EXCEPT ![c] = f]
    BY DEF ConnectSucceeds
  <1>2. /\ c \in connecting /\ connecting = {c} /\ connecting' = {} /\ live' = live \cup {c}
        /\ context' = context /\ c \notin live /\ context \subseteq live \cup connecting
    BY DEF ConnectSucceeds, EndpointInv, DescriptorsAreOwned
  <1> QED
    BY <1>1, <1>2, OpensForSocket DEF ConnectSucceeds, Sockets

\* Disposing of a socket gives up the descriptor it closes.
LEMMA DisposeKeeps ==
    ASSUME EndpointInv, NEW s \in Sockets, Dispose(s)
    PROVE  EndpointInv'
  BY DeinitKeeps DEF Dispose

\* Every operation on endpoints and connections keeps their invariant.
LEMMA EndpointStep ==
    ASSUME EndpointInv, EndpointNext
    PROVE  EndpointInv'
  <1>1. ASSUME NEW e \in Endpoints, InitClient(e)
        PROVE  EndpointInv'
    <2>1. /\ e \in Sockets /\ e \notin live /\ live' = live \cup {e} /\ connecting' = connecting
          /\ sd' = [sd EXCEPT ![e] = None] /\ UNCHANGED <<owner, process, role, context>>
      BY <1>1 DEF InitClient, Sentinel, Sockets
    <2>2. /\ connecting \subseteq Connections /\ e \notin connecting /\ connecting \cap live = {}
          /\ context \subseteq Sockets /\ context \subseteq live \cup connecting
          /\ \A c, d \in connecting : c = d
      BY EndpointAssumption DEF EndpointInv, EndpointTypeOK, DescriptorsAreOwned
    <2> QED
      BY <2>1, <2>2, NothingOpens
  <1>2. ASSUME NEW e \in Endpoints, InitServer(e)
        PROVE  EndpointInv'
    <2>1. PICK f \in Fds : Opens(f, e) /\ sd' = [sd EXCEPT ![e] = f]
      BY <1>2 DEF InitServer
    <2>2. /\ e \in Sockets /\ e \notin live /\ live' = live \cup {e} /\ connecting' = connecting
          /\ UNCHANGED <<process, role>> /\ context' = context \cup {e}
      BY <1>2 DEF InitServer, Sockets
    <2>3. e \notin connecting /\ context \subseteq live \cup connecting
      BY EndpointAssumption DEF EndpointInv, EndpointTypeOK, DescriptorsAreOwned
    <2> QED
      BY <2>1, <2>2, <2>3, OpensForSocket
  <1>3. ASSUME NEW e \in Endpoints, DisposeEndpoint(e)
        PROVE  EndpointInv'
    BY <1>3, DisposeKeeps DEF DisposeEndpoint, Sockets
  <1>4. ASSUME NEW e \in Endpoints, NEW c \in Connections, Accept(e, c)
        PROVE  EndpointInv'
    <2>1. PICK f \in Fds : \/ Opens(f, c) /\ sd' = [sd EXCEPT ![c] = f] /\ live' = live \cup {c}
                           \/ Strands(f, c)
      BY <1>4 DEF Accept
    <2>2. /\ c \in Sockets /\ c \notin live /\ connecting' = connecting
          /\ UNCHANGED <<process, role>> /\ context' = context /\ c \notin connecting
      BY <1>4 DEF Accept, Sockets
    <2>3. context \subseteq live \cup connecting
      BY DEF EndpointInv, DescriptorsAreOwned
    <2>4. CASE Opens(f, c) /\ sd' = [sd EXCEPT ![c] = f] /\ live' = live \cup {c}
      BY <2>2, <2>3, <2>4, OpensForSocket
    <2>5. CASE Strands(f, c)
      BY <2>2, <2>3, <2>5, CreationFailedKeeps DEF Strands, Opens
    <2> QED
      BY <2>1, <2>4, <2>5
  <1>5. ASSUME NEW e \in Endpoints, NEW c \in Connections, ConnectBegins(e, c)
        PROVE  EndpointInv'
    <2>1. /\ c \in Sockets /\ c \notin live /\ live' = live /\ connecting' = {c} /\ connecting = {}
          /\ sd' = [sd EXCEPT ![c] = None] /\ UNCHANGED <<owner, process, role>>
          /\ context' = context \cup {c}
      BY <1>5 DEF ConnectBegins, Sockets
    <2>2. context \subseteq Sockets /\ context \subseteq live \cup connecting
      BY DEF EndpointInv, EndpointTypeOK, DescriptorsAreOwned
    <2> QED
      BY <2>1, <2>2, NothingOpens
  <1>6. ASSUME NEW c \in Connections, ConnectFails(c)
        PROVE  EndpointInv'
    <2>1. /\ c \in Sockets /\ connecting = {c} /\ connecting' = {} /\ c \notin live
          /\ SocketDeinit(c) /\ UNCHANGED <<process, live, role>>
      BY <1>6 DEF ConnectFails, EndpointInv, Sockets
    <2> QED
      BY <2>1, DeinitKeeps
  <1>7. ASSUME NEW s \in Sockets, CreationFails(s)
        PROVE  EndpointInv'
    <2>1. /\ s \notin live \cup connecting /\ sd' = [sd EXCEPT ![s] = 0]
          /\ UNCHANGED <<owner, process, context, live, connecting, role>> /\ 0 \in Fds
      BY <1>7, EndpointAssumption DEF CreationFails
    <2>2. context \subseteq live \cup connecting /\ connecting \subseteq connecting \ {s}
      BY <2>1 DEF EndpointInv, DescriptorsAreOwned
    <2> QED
      BY <2>1, <2>2, CreationFailedKeeps
  <1>8. ASSUME NEW c \in Connections, ConnectStrands(c)
        PROVE  EndpointInv'
    <2>1. PICK f \in Fds : Strands(f, c)
      BY <1>8 DEF ConnectStrands
    <2>2. /\ c \in Sockets /\ connecting = {c} /\ connecting' = {} /\ c \notin live
          /\ context' = context \ {c} /\ UNCHANGED <<process, role>>
          /\ context \subseteq live \cup connecting
      BY <1>8 DEF ConnectStrands, EndpointInv, DescriptorsAreOwned, Sockets
    <2> QED
      BY <2>1, <2>2, CreationFailedKeeps DEF Strands, Opens
  <1> QED
    BY <1>1, <1>2, <1>3, <1>4, <1>5, <1>6, <1>7, <1>8, ProcessOpensKeeps, ProcessClosesKeeps DEF EndpointNext

\* No descriptor is owned at first.
LEMMA InitHolds ==
    ASSUME Init
    PROVE  EndpointInv
  BY EndpointAssumption DEF Init, EndpointInit, EndpointInv, EndpointTypeOK, DescriptorsAreOwned,
     None

\* Every step of the session keeps the invariant of its descriptors.
LEMMA StepHolds ==
    ASSUME EndpointInv, [Next]_vars
    PROVE  EndpointInv'
  <1>1. CASE UNCHANGED endpoint_vars
    BY <1>1 DEF endpoint_vars, EndpointInv, EndpointTypeOK, DescriptorsAreOwned
  <1>2. Connection \in Connections /\ Connections \subseteq Sockets
    BY SessionAssumption DEF Sockets
  <1>3. CASE Connect
    BY <1>2, <1>3, ConnectSucceedsKeeps DEF Connect
  <1>4. CASE Close
    BY <1>2, <1>4, DisposeKeeps DEF Close
  <1>5. CASE Elsewhere
    BY <1>2, <1>5, EndpointStep, ConnectSucceedsKeeps, DisposeKeeps DEF Elsewhere
  <1>6. CASE UNCHANGED vars
    BY <1>1, <1>6 DEF vars
  <1>7. CASE PeerSends \/ PeerCloses \/ SendRequest \/ Tick
    BY <1>1, <1>7 DEF PeerSends, PeerCloses, SendRequest, Tick
  <1>8. CASE Client
    BY <1>1, <1>8 DEF Client, Call, AwaitProgress, ReadHead, ParseInterim, ParseFinal, ParseFails,
       Deliver, BodyEnds, Fill
  <1> QED
    BY <1>3, <1>4, <1>5, <1>6, <1>7, <1>8 DEF Next

\* The invariant of the descriptors, whatever the client and everybody else do.
THEOREM EndpointInvariant == Spec => []EndpointInv
  <1>1. Init => EndpointInv
    BY InitHolds
  <1>2. EndpointInv /\ [Next]_vars => EndpointInv'
    BY StepHolds
  <1> QED
    BY <1>1, <1>2, PTL DEF Spec

\* Every descriptor is closed only for the one who opened it, and none is lost, for
\* any number of endpoints, connections and descriptors (http_endpoint.c).
THEOREM Ownership == Spec => []DescriptorsAreOwned
  <1>1. EndpointInv => DescriptorsAreOwned
    BY DEF EndpointInv
  <1> QED
    BY <1>1, EndpointInvariant, PTL

-------------------------------------------------------------------------------
(* Ends of sequences of tokens.                                              *)

\* A sequence is an end of itself.
LEMMA EndOfItself ==
    ASSUME NEW t \in Seq(Token)
    PROVE  IsEndOf(t, t)
  BY LenProperties DEF IsEndOf

\* An end of an end is an end.
LEMMA EndOfEnd ==
    ASSUME NEW r \in Seq(Token), NEW s \in Seq(Token), NEW t \in Seq(Token),
           IsEndOf(r, s), IsEndOf(s, t)
    PROVE  IsEndOf(r, t)
  <1>1. Len(r) \in Nat /\ Len(s) \in Nat /\ Len(t) \in Nat /\ Len(r) <= Len(s) /\ Len(s) <= Len(t)
    BY LenProperties DEF IsEndOf
  <1>2. ASSUME NEW j \in 1..Len(r) PROVE r[j] = t[(Len(t) - Len(r)) + j]
    <2>1. (Len(s) - Len(r)) + j \in 1..Len(s)
      BY <1>1
    <2>2. r[j] = s[(Len(s) - Len(r)) + j]
      BY DEF IsEndOf
    <2>3. s[(Len(s) - Len(r)) + j] = t[(Len(t) - Len(s)) + ((Len(s) - Len(r)) + j)]
      BY <2>1 DEF IsEndOf
    <2>4. (Len(t) - Len(s)) + ((Len(s) - Len(r)) + j) = (Len(t) - Len(r)) + j
      BY <1>1
    <2> QED
      BY <2>2, <2>3, <2>4
  <1> QED
    BY <1>1, <1>2 DEF IsEndOf

\* Three sequences in a row.
LEMMA Row ==
    ASSUME NEW w \in Seq(Token), NEW x \in Seq(Token), NEW u \in Seq(Token)
    PROVE  /\ (w \o x) \o u \in Seq(Token)
           /\ Len(w) \in Nat /\ Len(x) \in Nat /\ Len(u) \in Nat
           /\ Len((w \o x) \o u) = Len(w) + (Len(x) + Len(u))
           /\ \A j \in 1..Len(w) : ((w \o x) \o u)[j] = w[j]
           /\ \A j \in 1..(Len(x) + Len(u)) : ((w \o x) \o u)[Len(w) + j] = (x \o u)[j]
  <1>1. w \o (x \o u) = (w \o x) \o u /\ x \o u \in Seq(Token) /\ Len(x \o u) = Len(x) + Len(u)
    BY ConcatProperties, ConcatAssociative
  <1>2. Len(w) \in Nat /\ Len(x) \in Nat /\ Len(u) \in Nat
    BY LenProperties
  <1>3. /\ w \o (x \o u) \in Seq(Token) /\ Len(w \o (x \o u)) = Len(w) + Len(x \o u)
        /\ \A i \in 1..Len(w) + Len(x \o u) : (w \o (x \o u))[i] =
               IF i <= Len(w) THEN w[i] ELSE (x \o u)[i - Len(w)]
    BY <1>1, ConcatProperties
  <1>4. ASSUME NEW j \in 1..Len(w) PROVE ((w \o x) \o u)[j] = w[j]
    BY <1>1, <1>2, <1>3
  <1>5. ASSUME NEW j \in 1..(Len(x) + Len(u))
        PROVE  ((w \o x) \o u)[Len(w) + j] = (x \o u)[j]
    <2>1. /\ Len(w) + j \in 1..(Len(w) + Len(x \o u)) /\ ~(Len(w) + j <= Len(w))
          /\ (Len(w) + j) - Len(w) = j
      BY <1>1, <1>2
    <2> QED
      BY <1>1, <1>3, <2>1
  <1> QED
    BY <1>1, <1>2, <1>3, <1>4, <1>5

\* What is left when the first m of them are gone is an end of the row.
FirstGone(w, v, m) == Len(w) = m + Len(v) /\ \A j \in 1..Len(v) : v[j] = w[m + j]

IsRest(r, s, m) == IsEndOf(r, s) /\ Len(s) = m + Len(r)

\* Taking tokens from the front of the first of three sequences takes them from the row.
LEMMA RowLessFirst ==
    \A w, x, u, v \in Seq(Token), m \in Nat :
        FirstGone(w, v, m) => IsRest((v \o x) \o u, (w \o x) \o u, m)
  <1> TAKE w, x, u, v \in Seq(Token), m \in Nat
  <1> HAVE FirstGone(w, v, m)
  <1>0. Len(w) = m + Len(v) /\ \A j \in 1..Len(v) : v[j] = w[m + j]
    BY DEF FirstGone
  <1>1. /\ Len(v) \in Nat /\ Len(w) \in Nat /\ Len(x) \in Nat /\ Len(u) \in Nat
        /\ Len((w \o x) \o u) = Len(w) + (Len(x) + Len(u))
        /\ Len((v \o x) \o u) = Len(v) + (Len(x) + Len(u))
    BY Row
  <1>2. Len((w \o x) \o u) = m + Len((v \o x) \o u)
    BY <1>0, <1>1
  <1>3. ASSUME NEW j \in 1..Len((v \o x) \o u)
        PROVE  ((v \o x) \o u)[j] = ((w \o x) \o u)[m + j]
    <2>1. CASE j <= Len(v)
      <3>1. j \in 1..Len(v) /\ m + j \in 1..Len(w)
        BY <1>0, <1>1, <2>1
      <3> QED
        BY <1>0, <3>1, Row
    <2>2. CASE ~(j <= Len(v))
      <3>1. /\ j - Len(v) \in 1..(Len(x) + Len(u)) /\ Len(v) + (j - Len(v)) = j
            /\ Len(w) + (j - Len(v)) = m + j
        BY <1>0, <1>1, <2>2
      <3>2. \A i \in 1..(Len(x) + Len(u)) : ((v \o x) \o u)[Len(v) + i] = (x \o u)[i]
        BY Row
      <3>3. \A i \in 1..(Len(x) + Len(u)) : ((w \o x) \o u)[Len(w) + i] = (x \o u)[i]
        BY Row
      <3>4. ((v \o x) \o u)[Len(v) + (j - Len(v))] = (x \o u)[j - Len(v)]
        BY <3>1, <3>2
      <3>5. ((w \o x) \o u)[Len(w) + (j - Len(v))] = (x \o u)[j - Len(v)]
        BY <3>1, <3>3
      <3> QED
        BY <3>1, <3>4, <3>5
    <2> QED
      BY <2>1, <2>2
  <1>4. (Len((w \o x) \o u) - Len((v \o x) \o u)) = m /\ Len((v \o x) \o u) <= Len((w \o x) \o u)
    BY <1>0, <1>1
  <1> QED
    BY <1>2, <1>3, <1>4 DEF IsEndOf, IsRest

\* It does not matter which two of three sequences are put together first.
LEMMA Associative ==
    \A w, x, u \in Seq(Token) : (w \o x) \o u = w \o (x \o u)
  BY ConcatAssociative

\* Two sequences of tokens make one.
LEMMA Concatenated ==
    \A w, x \in Seq(Token) : w \o x \in Seq(Token)
  BY ConcatProperties

\* Moving the first n of one sequence to the end of the one before it.
LEMMA Moved ==
    ASSUME NEW w \in Seq(Token), NEW x \in Seq(Token), NEW n \in 1..Len(x)
    PROVE  /\ SubSeq(x, 1, n) \in Seq(Token) /\ SubSeq(x, n + 1, Len(x)) \in Seq(Token)
           /\ w \o SubSeq(x, 1, n) \in Seq(Token)
           /\ (w \o SubSeq(x, 1, n)) \o SubSeq(x, n + 1, Len(x)) = w \o x
  <1>1. Len(x) \in Nat /\ n \in Nat /\ n >= 1 /\ n <= Len(x)
    BY LenProperties
  <1>2. \A i \in 1..Len(x) : x[i] \in Token
    BY ElementOfSeq
  <1>3. SubSeq(x, 1, n) \in Seq(Token)
    BY <1>1, <1>2, SubSeqProperties
  <1>4. SubSeq(x, n + 1, Len(x)) \in Seq(Token)
    BY <1>1, <1>2, SubSeqProperties
  <1>5. SubSeq(x, 1, n) \o SubSeq(x, n + 1, Len(x)) = x
    <2>1. 1 \in 1..Len(x)+1 /\ n \in 1-1 .. Len(x) /\ Len(x) \in n .. Len(x)
      BY <1>1
    <2>2. SubSeq(x, 1, n) \o SubSeq(x, n + 1, Len(x)) = SubSeq(x, 1, Len(x))
      BY <2>1, ConcatAdjacentSubSeq
    <2> QED
      BY <2>2, SubSeqFull
  <1>6. /\ w \o SubSeq(x, 1, n) \in Seq(Token)
        /\ (w \o SubSeq(x, 1, n)) \o SubSeq(x, n + 1, Len(x)) = w \o x
    <2>1. w \o SubSeq(x, 1, n) \in Seq(Token)
      BY <1>3, Concatenated
    <2>2. (w \o SubSeq(x, 1, n)) \o SubSeq(x, n + 1, Len(x))
              = w \o (SubSeq(x, 1, n) \o SubSeq(x, n + 1, Len(x)))
      BY <1>3, <1>4, Associative
    <2> QED
      BY <1>5, <2>1, <2>2
  <1> QED
    BY <1>3, <1>4, <1>6

-------------------------------------------------------------------------------
(* The response that the peer sends.                                         *)

EndLength(x) == IF x.framing = "chunked" /\ ~x.head /\ x.status # "none" THEN 1 ELSE 0

TokenAt(x, k) ==
    IF k <= x.interim THEN "interim" ELSE IF k = x.interim + 1 THEN "head"
    ELSE IF k <= (x.interim + 1) + BodyLength(x) THEN "data" ELSE "end"

\* A run of one token has that token in every place.
LEMMA TokensOf ==
    ASSUME NEW n \in Nat, NEW what \in Token
    PROVE  /\ Tokens(n, what) \in Seq(Token) /\ Len(Tokens(n, what)) = n
           /\ \A i \in 1..n : Tokens(n, what)[i] = what
  BY DEF Tokens

\* What the parts of an exchange are.
LEMMA ExchangeType ==
    ASSUME NEW x \in Exchanges \cup {Idle}
    PROVE  /\ x.head \in BOOLEAN /\ x.interim \in Nat /\ x.length \in Nat /\ x.headers \in BOOLEAN
           /\ x.status \in {"none", "other", "malformed"}
           /\ x.framing \in {"length", "chunked", "close"}
           /\ BodyLength(x) \in Nat /\ EndLength(x) \in Nat
  <1>1. /\ x.head \in BOOLEAN /\ x.interim \in Nat /\ x.length \in Nat /\ x.headers \in BOOLEAN
        /\ x.status \in {"none", "other", "malformed"}
        /\ x.framing \in {"length", "chunked", "close"}
    <2>1. CASE x = Idle
      BY <2>1 DEF Idle
    <2>2. CASE x \in Exchanges
      <3>1. x \in [head : BOOLEAN, interim : Nat, headers : BOOLEAN, length : Nat,
                   status : {"none", "other", "malformed"},
                   framing : {"length", "chunked", "close"}]
        BY <2>2, SessionAssumption
      <3> QED
        BY <3>1
    <2> QED
      BY <2>1, <2>2
  <1> QED
    BY <1>1 DEF BodyLength, EndLength

\* Where the tokens of two sequences are found in the row of them.
LEMMA TwoInARow ==
    ASSUME NEW s \in Seq(Token), NEW t \in Seq(Token)
    PROVE  /\ s \o t \in Seq(Token) /\ Len(s \o t) = Len(s) + Len(t)
           /\ \A i \in 1..Len(s) : (s \o t)[i] = s[i]
           /\ \A i \in 1..Len(t) : (s \o t)[Len(s) + i] = t[i]
  <1> DEFINE m == Len(s)
             n == Len(t)
  <1>0. m \in Nat /\ n \in Nat
    BY LenProperties
  <1>1. /\ s \o t \in Seq(Token) /\ Len(s \o t) = Len(s) + Len(t)
        /\ \A i \in 1..Len(s) + Len(t) :
               (s \o t)[i] = IF i <= Len(s) THEN s[i] ELSE t[i - Len(s)]
    BY ConcatProperties
  <1>2. ASSUME NEW i \in 1..m PROVE (s \o t)[i] = s[i]
    BY <1>0, <1>1
  <1>3. ASSUME NEW i \in 1..n PROVE (s \o t)[m + i] = t[i]
    <2>1. m + i \in 1..Len(s) + Len(t) /\ ~(m + i <= Len(s)) /\ (m + i) - Len(s) = i
      BY <1>0
    <2> QED
      BY <1>1, <2>1
  <1> QED
    BY <1>1, <1>2, <1>3

\* Four sequences in a row, the second of one token.
InARow(r, a, h, b, e) ==
    /\ r \in Seq(Token)
    /\ Len(r) = ((Len(a) + 1) + Len(b)) + Len(e)
    /\ \A i \in 1..Len(a) : r[i] = a[i]
    /\ r[Len(a) + 1] = h[1]
    /\ \A i \in 1..Len(b) : r[(Len(a) + 1) + i] = b[i]
    /\ \A i \in 1..Len(e) : r[((Len(a) + 1) + Len(b)) + i] = e[i]

\* Where the tokens of four sequences are found in the row of them.
LEMMA FourInARow ==
    \A a, h, b, e \in Seq(Token) : Len(h) = 1 => InARow(((a \o h) \o b) \o e, a, h, b, e)
  <1> TAKE a, h, b, e \in Seq(Token)
  <1> HAVE Len(h) = 1
  <1> DEFINE na == Len(a)
             nb == Len(b)
             ne == Len(e)
             r  == ((a \o h) \o b) \o e
             p == a \o h
             q == p \o b
             mp == na + 1
             mq == (na + 1) + nb
  <1>0. na \in Nat /\ nb \in Nat /\ ne \in Nat
    BY LenProperties
  <1>1. /\ p \in Seq(Token) /\ Len(p) = mp
        /\ \A i \in 1..na : p[i] = a[i]
        /\ \A i \in 1..1 : p[na + i] = h[i]
    <2>1. /\ a \o h \in Seq(Token) /\ Len(a \o h) = Len(a) + Len(h)
          /\ \A i \in 1..Len(a) : (a \o h)[i] = a[i]
          /\ \A i \in 1..Len(h) : (a \o h)[Len(a) + i] = h[i]
      BY TwoInARow
    <2> QED
      BY <2>1
  <1>2. mp \in Nat /\ mq \in Nat /\ mq = mp + nb
    BY <1>0
  <1>3. na + 1 = mp /\ \A i \in 1..na : i \in 1..mp
    BY <1>0
  <1>4. mp \in 1..mp /\ \A i \in 1..mp : i \in 1..mq
    BY <1>0
  <1>5. \A i \in 1..nb : mp + i \in 1..mq
    BY <1>0
  <1>6. p[mp] = h[1]
    BY <1>0, <1>1
  <1>7. r = q \o e
    OBVIOUS
  <1> HIDE DEF na, nb, ne, r, mp, mq, p
  <1>8. /\ q \in Seq(Token) /\ Len(q) = mq
        /\ \A i \in 1..mp : q[i] = p[i]
        /\ \A i \in 1..nb : q[mp + i] = b[i]
    <2>1. /\ p \o b \in Seq(Token) /\ Len(p \o b) = Len(p) + Len(b)
          /\ \A i \in 1..Len(p) : (p \o b)[i] = p[i]
          /\ \A i \in 1..Len(b) : (p \o b)[Len(p) + i] = b[i]
      BY <1>1, TwoInARow
    <2> QED
      BY <1>0, <1>1, <1>2, <2>1 DEF nb
  <1> HIDE DEF q
  <1>9. /\ r \in Seq(Token) /\ Len(r) = mq + ne
        /\ \A i \in 1..mq : r[i] = q[i]
        /\ \A i \in 1..ne : r[mq + i] = e[i]
    <2>1. /\ q \o e \in Seq(Token) /\ Len(q \o e) = Len(q) + Len(e)
          /\ \A i \in 1..Len(q) : (q \o e)[i] = q[i]
          /\ \A i \in 1..Len(e) : (q \o e)[Len(q) + i] = e[i]
      BY <1>8, TwoInARow
    <2> QED
      BY <1>0, <1>2, <1>7, <1>8, <2>1 DEF ne
  <1>10. /\ \A i \in 1..na : r[i] = a[i]
         /\ r[mp] = h[1]
         /\ \A i \in 1..nb : r[mp + i] = b[i]
    BY <1>1, <1>3, <1>4, <1>5, <1>6, <1>8, <1>9
  <1> QED
    BY <1>9, <1>10 DEF mp, mq, na, nb, ne, r, InARow

\* Which token a response has in which place: interim heads, the head, body, end.
LEMMA ResponseTokens ==
    ASSUME NEW x \in Exchanges \cup {Idle}
    PROVE  /\ Response(x) \in Seq(Token)
           /\ Len(Response(x)) = ((x.interim + 1) + BodyLength(x)) + EndLength(x)
           /\ \A k \in 1..Len(Response(x)) : Response(x)[k] = TokenAt(x, k)
  <1> DEFINE a == Tokens(x.interim, "interim")
             h == <<"head">>
             b == Tokens(BodyLength(x), "data")
             e == IF x.framing = "chunked" /\ ~x.head /\ x.status # "none" THEN <<"end">> ELSE <<>>
             na == x.interim
             nb == BodyLength(x)
             ne == EndLength(x)
             R  == ((a \o h) \o b) \o e
  <1>1. na \in Nat /\ nb \in Nat /\ ne \in Nat
    BY ExchangeType
  <1>2. /\ a \in Seq(Token) /\ Len(a) = na /\ \A i \in 1..na : a[i] = "interim"
        /\ b \in Seq(Token) /\ Len(b) = nb /\ \A i \in 1..nb : b[i] = "data"
    BY <1>1, TokensOf DEF Token
  <1>3. h \in Seq(Token) /\ Len(h) = 1 /\ h[1] = "head"
    BY DEF Token
  <1>4. e \in Seq(Token) /\ Len(e) = ne /\ \A i \in 1..ne : e[i] = "end"
    <2>1. CASE x.framing = "chunked" /\ ~x.head /\ x.status # "none"
      <3>1. e = <<"end">> /\ ne = 1
        BY <2>1 DEF EndLength
      <3> HIDE DEF e, ne
      <3> QED
        BY <3>1 DEF Token
    <2>2. CASE ~(x.framing = "chunked" /\ ~x.head /\ x.status # "none")
      <3>1. e = <<>> /\ ne = 0
        BY <2>2 DEF EndLength
      <3> HIDE DEF e, ne
      <3> QED
        BY <3>1
    <2> QED
      BY <2>1, <2>2
  <1>5. Response(x) = R
    BY DEF Response
  <1>6. \A k : TokenAt(x, k) = IF k <= na THEN "interim" ELSE IF k = na + 1 THEN "head"
                               ELSE IF k <= (na + 1) + nb THEN "data" ELSE "end"
    BY DEF TokenAt
  <1> HIDE DEF a, h, b, e, na, nb, ne, R
  <1>7. /\ R \in Seq(Token) /\ Len(R) = ((na + 1) + nb) + ne
        /\ \A i \in 1..na : R[i] = a[i]
        /\ R[na + 1] = h[1]
        /\ \A i \in 1..nb : R[(na + 1) + i] = b[i]
        /\ \A i \in 1..ne : R[((na + 1) + nb) + i] = e[i]
    <2>0. /\ a \in Seq(Token) /\ h \in Seq(Token) /\ b \in Seq(Token) /\ e \in Seq(Token)
          /\ Len(h) = 1
      BY <1>2, <1>3, <1>4
    <2>1. InARow(R, a, h, b, e)
      BY <2>0, FourInARow DEF R
    <2> QED
      BY <1>2, <1>3, <1>4, <2>1 DEF InARow
  <1>8. ASSUME NEW k \in 1..(((na + 1) + nb) + ne)
        PROVE  R[k] = TokenAt(x, k)
    <2>1. CASE k <= na
      BY <1>1, <1>2, <1>6, <1>7, <2>1
    <2>2. CASE k = na + 1
      BY <1>1, <1>3, <1>6, <1>7, <2>2
    <2>3. CASE k > na + 1 /\ k <= (na + 1) + nb
      <3>1. k - (na + 1) \in 1..nb /\ (na + 1) + (k - (na + 1)) = k
        BY <1>1, <2>3
      <3>2. R[(na + 1) + (k - (na + 1))] = "data"
        BY <1>2, <1>7, <3>1
      <3> QED
        BY <1>1, <1>6, <2>3, <3>1, <3>2
    <2>4. CASE k > (na + 1) + nb
      <3>1. k - ((na + 1) + nb) \in 1..ne /\ ((na + 1) + nb) + (k - ((na + 1) + nb)) = k
        BY <1>1, <2>4
      <3>2. R[((na + 1) + nb) + (k - ((na + 1) + nb))] = "end"
        BY <1>4, <1>7, <3>1
      <3>3. ~(k <= na) /\ k # na + 1 /\ ~(k <= (na + 1) + nb)
        BY <1>1, <2>4
      <3> QED
        BY <1>6, <3>1, <3>2, <3>3
    <2> QED
      BY <1>1, <2>1, <2>2, <2>3, <2>4
  <1> QED
    BY <1>5, <1>7, <1>8 DEF na, nb, ne

-------------------------------------------------------------------------------
(* What the invariant says of the front of the window.                       *)

\* A slice of the receive is no longer than the time-out.
LEMMA SliceBounds ==
    ASSUME SessionTypeOK
    PROVE  io_timeout \in Nat /\ Slice \in Nat /\ Slice <= io_timeout
  <1>1. io_timeout \in Nat /\ PollSlice \in Nat
    BY SessionAssumption DEF SessionTypeOK
  <1>2. Slice \in {io_timeout, PollSlice} /\ \A y \in {io_timeout, PollSlice} : Slice <= y
    <2>1. CASE io_timeout <= PollSlice
      <3>1. \E x \in {io_timeout, PollSlice} : \A y \in {io_timeout, PollSlice} : x <= y
        BY <1>1, <2>1
      <3> QED
        BY <3>1 DEF Slice, Min
    <2>2. CASE ~(io_timeout <= PollSlice)
      <3>1. \E x \in {io_timeout, PollSlice} : \A y \in {io_timeout, PollSlice} : x <= y
        BY <1>1, <2>2
      <3> QED
        BY <3>1 DEF Slice, Min
    <2> QED
      BY <2>1, <2>2
  <1> QED
    BY <1>1, <1>2

\* What is to be consumed is in the window, on the wire and with the peer.
LEMMA RestLength ==
    ASSUME SessionTypeOK
    PROVE  /\ Rest \in Seq(Token) /\ Response(exchange) \in Seq(Token)
           /\ Len(Rest) \in Nat /\ Len(Response(exchange)) \in Nat /\ Place \in Int
           /\ Len(window) \in Nat /\ Len(wire) \in Nat /\ Len(unsent) \in Nat
           /\ Len(Rest) = Len(window) + (Len(wire) + Len(unsent))
           /\ window # <<>> => Len(window) >= 1 /\ Rest[1] = window[1]
  <1>1. /\ window \in Seq(Token) /\ wire \in Seq(Token) /\ unsent \in Seq(Token)
        /\ exchange \in Exchanges \cup {Idle}
    BY DEF SessionTypeOK
  <1>2. /\ Rest \in Seq(Token)
        /\ Len(window) \in Nat /\ Len(wire) \in Nat /\ Len(unsent) \in Nat
        /\ Len(Rest) = Len(window) + (Len(wire) + Len(unsent))
        /\ \A j \in 1..Len(window) : Rest[j] = window[j]
    BY <1>1, Row DEF Rest
  <1>3. Response(exchange) \in Seq(Token)
    BY <1>1, ResponseTokens
  <1>4. Len(Rest) \in Nat /\ Len(Response(exchange)) \in Nat
    BY <1>2, <1>3, LenProperties
  <1>5. window # <<>> => Len(window) >= 1
    BY <1>1, <1>2, EmptySeq
  <1> QED
    BY <1>2, <1>3, <1>4, <1>5 DEF Place

\* While something is received and not consumed, it is the next of the response.
LEMMA FrontOfWindow ==
    ASSUME SessionInv, window # <<>>
    PROVE  /\ IsEndOf(Rest, Response(exchange)) /\ InPlace /\ Place \in Nat
           /\ Place + Len(Rest) = Len(Response(exchange))
           /\ window[1] = TokenAt(exchange, Place + 1)
           /\ Place + 1 <= ((exchange.interim + 1) + BodyLength(exchange)) + EndLength(exchange)
  <1>1. SessionTypeOK /\ IsEndOf(Rest, Response(exchange)) /\ InPlace
    BY DEF SessionInv, InvStream, Gone
  <1>2. /\ Len(Rest) \in Nat /\ Len(Response(exchange)) \in Nat
        /\ Rest[1] = window[1] /\ Len(Rest) >= 1
    BY <1>1, RestLength
  <1>3. Len(Rest) <= Len(Response(exchange))
    BY <1>1 DEF IsEndOf
  <1>4. Place \in Nat /\ Place + Len(Rest) = Len(Response(exchange))
        /\ Place + 1 \in 1..Len(Response(exchange))
    BY <1>2, <1>3 DEF Place
  <1>5. Rest[1] = Response(exchange)[Place + 1]
    <2>1. 1 \in 1..Len(Rest)
      BY <1>2
    <2> QED
      BY <1>1, <2>1 DEF IsEndOf, Place
  <1>6. exchange \in Exchanges \cup {Idle}
    BY <1>1 DEF SessionTypeOK
  <1>7. /\ Response(exchange)[Place + 1] = TokenAt(exchange, Place + 1)
        /\ Len(Response(exchange))
               = ((exchange.interim + 1) + BodyLength(exchange)) + EndLength(exchange)
    BY <1>4, <1>6, ResponseTokens
  <1> QED
    BY <1>1, <1>2, <1>4, <1>5, <1>7

\* The first token of the window tells how far the response was consumed.
LEMMA KindOfFront ==
    ASSUME SessionInv, window # <<>>
    PROVE  LET x == exchange IN
           /\ window[1] = "interim" => Place + 1 <= x.interim
           /\ window[1] = "head" => Place = x.interim
           /\ window[1] = "data" => /\ Place + 1 > x.interim + 1
                                    /\ Place + 1 <= (x.interim + 1) + BodyLength(x)
           /\ window[1] = "end" => /\ Place = (x.interim + 1) + BodyLength(x)
                                   /\ Place + 1 = Len(Response(x))
  <1> DEFINE x == exchange
             k == Place + 1
  <1>1. /\ x.interim \in Nat /\ BodyLength(x) \in Nat /\ EndLength(x) \in {0, 1}
        /\ Len(Response(x)) = ((x.interim + 1) + BodyLength(x)) + EndLength(x)
    <2>1. x \in Exchanges \cup {Idle}
      BY DEF SessionInv, SessionTypeOK
    <2> QED
      BY <2>1, ExchangeType, ResponseTokens DEF EndLength
  <1>2. /\ window[1] = TokenAt(x, k) /\ Place \in Nat
        /\ k <= ((x.interim + 1) + BodyLength(x)) + EndLength(x)
    BY FrontOfWindow
  <1>3. window[1] = IF k <= x.interim THEN "interim" ELSE IF k = x.interim + 1 THEN "head"
                    ELSE IF k <= (x.interim + 1) + BodyLength(x) THEN "data" ELSE "end"
    BY <1>2 DEF TokenAt
  <1>4. window[1] = "interim" => k <= x.interim
    BY <1>3
  <1>5. window[1] = "head" => Place = x.interim
    BY <1>1, <1>2, <1>3
  <1>6. window[1] = "data" => k > x.interim + 1 /\ k <= (x.interim + 1) + BodyLength(x)
    BY <1>1, <1>2, <1>3
  <1>7. window[1] = "end" => /\ Place = (x.interim + 1) + BodyLength(x)
                             /\ k = Len(Response(x))
    <2>1. window[1] = "end" => /\ k > (x.interim + 1) + BodyLength(x)
                               /\ k <= ((x.interim + 1) + BodyLength(x)) + EndLength(x)
      BY <1>1, <1>2, <1>3
    <2> QED
      BY <1>1, <1>2, <2>1
  <1> QED
    BY <1>4, <1>5, <1>6, <1>7

\* Consuming the first m tokens of the window.
LEMMA Consuming ==
    ASSUME SessionTypeOK, IsEndOf(Rest, Response(exchange)), NEW m \in Nat,
           NEW v \in Seq(Token), Len(window) = m + Len(v),
           \A j \in 1..Len(v) : v[j] = window[m + j],
           window' = v, UNCHANGED <<wire, unsent, exchange>>
    PROVE  (IsEndOf(Rest, Response(exchange)))' /\ Place' = Place + m
  <1>1. /\ window \in Seq(Token) /\ wire \in Seq(Token) /\ unsent \in Seq(Token)
    BY DEF SessionTypeOK
  <1>0. FirstGone(window, v, m)
    BY DEF FirstGone
  <1> DEFINE r == (v \o wire) \o unsent
  <1>2. IsEndOf(r, Rest) /\ Len(Rest) = m + Len(r)
    <2>1. IsRest((v \o wire) \o unsent, (window \o wire) \o unsent, m)
      BY <1>1, <1>0, RowLessFirst
    <2> QED
      BY <2>1 DEF Rest, IsRest
  <1>3. r \in Seq(Token) /\ Len(r) \in Nat
    BY <1>1, Row, LenProperties
  <1>4. Rest' = r /\ Response(exchange)' = Response(exchange)
    BY DEF Rest
  <1> HIDE DEF r
  <1>5. IsEndOf(r, Response(exchange))
    BY <1>2, <1>3, RestLength, EndOfEnd
  <1>6. Len(Response(exchange)) - Len(r) = Place + m
    BY <1>2, <1>3, RestLength DEF Place
  <1> QED
    BY <1>4, <1>5, <1>6 DEF Place

\* Dropping the whole window.
LEMMA Dropping ==
    ASSUME SessionTypeOK, IsEndOf(Rest, Response(exchange)),
           window' = <<>>, UNCHANGED <<wire, unsent, exchange>>
    PROVE  (IsEndOf(Rest, Response(exchange)))' /\ Place' = Place + Len(window)
  <1>1. Len(window) \in Nat /\ <<>> \in Seq(Token) /\ Len(<<>>) = 0
    BY RestLength, EmptySeq
  <1>2. Len(window) = Len(window) + Len(<<>>)
    BY <1>1
  <1>3. \A j \in 1..Len(<<>>) : <<>>[j] = window[Len(window) + j]
    BY <1>1
  <1> DEFINE v == <<>>
             m == Len(window)
  <1>4. m \in Nat /\ v \in Seq(Token) /\ m = m + Len(v) /\ window' = v
        /\ \A j \in 1..Len(v) : v[j] = window[m + j]
    BY <1>1, <1>2, <1>3
  <1> HIDE DEF v
  <1> QED
    BY <1>4, Consuming

\* Consuming the first token of the window.
LEMMA ConsumingOne ==
    ASSUME SessionTypeOK, IsEndOf(Rest, Response(exchange)), window # <<>>,
           window' = Tail(window), UNCHANGED <<wire, unsent, exchange>>
    PROVE  /\ (IsEndOf(Rest, Response(exchange)))' /\ Place' = Place + 1
           /\ Tail(window) \in Seq(Token)
  <1>1. window \in Seq(Token)
    BY DEF SessionTypeOK
  <1> DEFINE v == Tail(window)
  <1>2. v \in Seq(Token) /\ Len(v) = Len(window) - 1
        /\ \A j \in 1..Len(v) : v[j] = window[j + 1]
    BY <1>1, HeadTailProperties
  <1>3. Len(window) \in Nat
    BY RestLength
  <1>4. Len(window) = 1 + Len(v) /\ \A j \in 1..Len(v) : v[j] = window[1 + j]
    BY <1>2, <1>3
  <1>5. window' = v
    OBVIOUS
  <1> HIDE DEF v
  <1>6. (IsEndOf(Rest, Response(exchange)))' /\ Place' = Place + 1
    BY <1>2, <1>4, <1>5, Consuming
  <1> QED
    BY <1>2, <1>6 DEF v

-------------------------------------------------------------------------------
(* The steps of the session.                                                 *)

\* A call that fails is over, and so is the use of its connection.
LEMMA Fails ==
    ASSUME SessionInv, call # "none", NEW r \in {"error", "timeout", "refused"}, Return(r),
           r = "timeout" => io_timeout > 0 /\ silence >= io_timeout,
           UNCHANGED <<endpoint_vars, io_timeout, exchange, requests, awaiting, unsent, wire, open,
                       framing, remaining, got, lost>>
    PROVE  SessionInv'
  <1>1. call' = "none" /\ result' = r /\ window' = <<>> /\ blocked' = 0 /\ silence' = silence
    BY DEF Return
  <1>2. SessionTypeOK'
    BY <1>1, EmptySeq DEF SessionInv, SessionTypeOK
  <1>3. InvClock'
    <2>1. Slice' = Slice /\ Slice \in Nat
      BY SliceBounds DEF SessionInv, Slice
    <2> QED
      BY <1>1, <2>1 DEF InvClock
  <1>4. InvCall' /\ InvHead' /\ InvBody' /\ InvBetween'
    BY <1>1 DEF InvCall, InvHead, InvBody, InvBetween, Expecting
  <1>5. InvStream'
    <2>1. CASE Gone
      BY <1>1, <2>1 DEF Gone, InvStream
    <2>2. CASE IsEndOf(Rest, Response(exchange))
      <3>1. (IsEndOf(Rest, Response(exchange)))'
        BY <1>1, <2>2, Dropping DEF SessionInv
      <3>2. InPlace'
        BY <1>1 DEF InPlace, Expecting
      <3> QED
        BY <3>1, <3>2 DEF InvStream
    <2> QED
      BY <2>1, <2>2 DEF SessionInv, InvStream
  <1> QED
    BY <1>2, <1>3, <1>4, <1>5 DEF SessionInv

\* What the peer sends, or its closing, keeps the invariant of the session.
LEMMA PeerStep ==
    ASSUME SessionInv, PeerSends \/ PeerCloses
    PROVE  SessionInv'
  <1>1. /\ UNCHANGED <<endpoint_vars, io_timeout, exchange, requests, awaiting, call, window, framing,
                       remaining, got, silence, blocked, result, lost>>
        /\ open
    BY DEF PeerSends, PeerCloses, body_vars, clock_vars
  <1>2. InvClock' /\ InvCall' /\ InvHead' /\ InvBody'
    <2>1. InvClock'
      BY <1>1 DEF SessionInv, InvClock, Slice
    <2>2. InvCall'
      BY <1>1 DEF SessionInv, InvCall, HeadComplete, Connected, endpoint_vars
    <2>3. InvHead' /\ InvBody'
      BY <1>1 DEF SessionInv, InvHead, InvBody, Expecting
    <2> QED
      BY <2>1, <2>2, <2>3
  <1>3. IsEndOf(Rest, Response(exchange)) /\ InPlace
    BY <1>1 DEF SessionInv, InvStream, Gone
  <1>4. ASSUME Rest' = Rest PROVE InvStream'
    <2>1. Response(exchange)' = Response(exchange) /\ Place' = Place
      BY <1>1, <1>4 DEF Place
    <2>2. InPlace'
      BY <1>1, <1>3, <2>1 DEF InPlace, Expecting
    <2> QED
      BY <1>3, <1>4, <2>1, <2>2 DEF InvStream
  <1>5. CASE PeerSends
    <2>1. PICK n \in 1..Len(unsent) : /\ wire' = wire \o SubSeq(unsent, 1, n)
                                      /\ unsent' = SubSeq(unsent, n + 1, Len(unsent))
      BY <1>5 DEF PeerSends
    <2>2. window \in Seq(Token) /\ wire \in Seq(Token) /\ unsent \in Seq(Token)
      BY DEF SessionInv, SessionTypeOK
    <2>3. wire' \in Seq(Token) /\ unsent' \in Seq(Token) /\ wire' \o unsent' = wire \o unsent
      BY <2>1, <2>2, Moved
    <2>4. Rest' = Rest
      <3>1. (window \o wire') \o unsent' = window \o (wire' \o unsent')
        BY <2>2, <2>3, Associative
      <3>2. (window \o wire) \o unsent = window \o (wire \o unsent)
        BY <2>2, Associative
      <3>3. Rest' = (window \o wire') \o unsent'
        BY <1>1 DEF Rest
      <3> QED
        BY <2>3, <3>1, <3>2, <3>3 DEF Rest
    <2>5. SessionTypeOK'
      BY <1>1, <1>5, <2>3 DEF PeerSends, SessionInv, SessionTypeOK
    <2>6. InvBetween'
      <3>1. ~(call = "none" /\ result \in {"none", "ok"})
        BY <1>1, <1>5 DEF PeerSends, SessionInv, InvBetween
      <3>2. result # "ok"
        BY <3>1 DEF SessionInv, InvCall
      <3> QED
        BY <1>1, <3>1, <3>2 DEF InvBetween
    <2> QED
      BY <1>2, <1>4, <2>4, <2>5, <2>6 DEF SessionInv
  <1>6. CASE PeerCloses
    <2>1. open' = FALSE /\ UNCHANGED <<unsent, wire>>
      BY <1>6 DEF PeerCloses
    <2>2. Rest' = Rest
      BY <1>1, <2>1 DEF Rest
    <2>3. SessionTypeOK' /\ InvBetween'
      BY <1>1, <2>1, ZenonT(60) DEF SessionInv, SessionTypeOK, InvBetween
    <2> QED
      BY <1>2, <1>4, <2>2, <2>3 DEF SessionInv
  <1> QED
    BY <1>5, <1>6

\* A connection is not in use before it is connected.
LEMMA ConnectStep ==
    ASSUME EndpointInv, SessionInv, Connect
    PROVE  SessionInv'
  <1>1. call = "none"
    BY DEF Connect, ConnectSucceeds, EndpointInv, SessionInv, InvCall, Connected
  <1>2. /\ requests' = 0 /\ awaiting' = FALSE /\ exchange' = Idle /\ unsent' = <<>> /\ wire' = <<>>
        /\ open' = TRUE /\ result' = "none" /\ lost' = FALSE /\ got' = 0 /\ framing' = "none"
        /\ UNCHANGED <<io_timeout, call, window, remaining, silence, blocked>>
        /\ window = <<>>
    BY <1>1 DEF Connect, clock_vars, SessionInv, InvCall
  <1>3. <<>> \in Seq(Token) /\ Len(<<>>) = 0 /\ 0 \in 0..MaxRequests
    BY EmptySeq, SessionAssumption
  <1>4. SessionTypeOK'
    BY <1>2, <1>3 DEF SessionInv, SessionTypeOK
  <1>5. InvClock' /\ InvCall' /\ InvHead' /\ InvBody' /\ InvBetween'
    <2>1. InvClock'
      BY <1>1, <1>2 DEF SessionInv, InvClock, Slice
    <2> QED
      BY <1>1, <1>2, <2>1 DEF InvCall, InvHead, InvBody, InvBetween, Expecting
  <1>6. InvStream'
    <2>1. Rest' = <<>>
      <3>1. (<<>> \o <<>>) \o <<>> = <<>>
        BY <1>3, ConcatEmptySeq
      <3> QED
        BY <1>2, <3>1 DEF Rest
    <2>2. Response(exchange)' \in Seq(Token)
      <3>1. Response(exchange)' = Response(Idle)
        BY <1>2
      <3>2. Response(Idle) \in Seq(Token)
        BY ResponseTokens
      <3> QED
        BY <3>1, <3>2
    <2>3. (IsEndOf(Rest, Response(exchange)))'
      <3>1. \A t \in Seq(Token) : IsEndOf(<<>>, t)
        BY <1>3, LenProperties DEF IsEndOf
      <3> QED
        BY <2>1, <2>2, <3>1
    <2>4. InPlace'
      BY <1>1, <1>2 DEF InPlace, Expecting
    <2> QED
      BY <2>3, <2>4 DEF InvStream
  <1> QED
    BY <1>4, <1>5, <1>6 DEF SessionInv

\* The response to a request follows nothing else.
LEMMA SendStep ==
    ASSUME SessionInv, SendRequest
    PROVE  SessionInv'
  <1>1. /\ call = "none" /\ requests < MaxRequests /\ result \in {"none", "ok"}
        /\ got' = 0 /\ lost' = FALSE
        /\ UNCHANGED <<endpoint_vars, io_timeout, wire, open, call, window, framing, remaining,
                       silence, blocked>>
    BY DEF SendRequest, clock_vars
  <1>2. PICK x \in Exchanges :
            /\ exchange' = x /\ awaiting' = x.head /\ requests' = requests + 1
            /\ IF open THEN unsent' = Response(x) /\ result' = "sent"
                       ELSE UNCHANGED unsent /\ result' \in {"sent", "error"}
    BY DEF SendRequest
  <1>3. window = <<>> /\ wire = <<>>
    BY <1>1 DEF SessionInv, InvCall, InvBetween
  <1>4. Response(x) \in Seq(Token) /\ x.head \in BOOLEAN
    BY ResponseTokens, ExchangeType
  <1>5. SessionTypeOK'
    <2>1. requests' \in 0..MaxRequests
      BY <1>1, <1>2, SessionAssumption DEF SessionInv, SessionTypeOK
    <2> QED
      BY <1>1, <1>2, <1>4, <2>1 DEF SessionInv, SessionTypeOK
  <1>6. InvClock'
    BY <1>1, <1>2 DEF SessionInv, InvClock, Slice
  <1>7. InvCall' /\ InvHead' /\ InvBody' /\ InvBetween'
    BY <1>1, <1>2, <1>3 DEF InvCall, InvHead, InvBody, InvBetween
  <1>8. InvStream'
    <2>1. CASE open
      <3>1. Rest' = Response(x)
        <4>1. <<>> \in Seq(Token)
          BY EmptySeq
        <4>2. (<<>> \o <<>>) \o Response(x) = Response(x)
          BY <1>4, <4>1, ConcatEmptySeq
        <4> QED
          BY <1>1, <1>2, <1>3, <2>1, <4>2 DEF Rest
      <3>2. Response(exchange)' = Response(x)
        BY <1>2
      <3>3. (IsEndOf(Rest, Response(exchange)))'
        BY <1>4, <3>1, <3>2, EndOfItself
      <3>4. Place' = 0
        <4>1. Place' = Len(Response(x)) - Len(Response(x)) /\ Len(Response(x)) \in Nat
          BY <1>4, <3>1, <3>2, LenProperties DEF Place
        <4> QED
          BY <4>1
      <3>5. exchange'.interim \in Nat
        BY <1>2, ExchangeType
      <3>6. InPlace'
        BY <1>1, <3>4, <3>5 DEF InPlace
      <3> QED
        BY <3>3, <3>6 DEF InvStream
    <2>2. CASE ~open
      BY <1>1, <1>3, <2>2 DEF InvStream, Gone
    <2> QED
      BY <2>1, <2>2
  <1> QED
    BY <1>5, <1>6, <1>7, <1>8 DEF SessionInv

\* http_connection_close keeps the invariant of the session.
LEMMA CloseStep ==
    ASSUME SessionInv, Close
    PROVE  SessionInv'
  <1>1. /\ call = "none" /\ open' = FALSE /\ unsent' = <<>> /\ wire' = <<>> /\ result' = "closed"
        /\ UNCHANGED <<io_timeout, exchange, requests, awaiting, call, window, framing, remaining,
                       got, silence, blocked, lost>>
        /\ window = <<>>
    BY DEF Close, body_vars, clock_vars, SessionInv, InvCall
  <1>2. SessionTypeOK'
    BY <1>1, EmptySeq DEF SessionInv, SessionTypeOK
  <1>3. InvClock'
    BY <1>1 DEF SessionInv, InvClock, Slice
  <1>4. InvCall' /\ InvHead' /\ InvBody' /\ InvBetween' /\ InvStream'
    BY <1>1 DEF InvCall, InvHead, InvBody, InvBetween, InvStream, Gone, Expecting
  <1> QED
    BY <1>2, <1>3, <1>4 DEF SessionInv

\* What others do with endpoints and descriptors leaves a connection connected.
LEMMA StaysConnected ==
    ASSUME EndpointInv, Connected, Elsewhere
    PROVE  Connected'
  <1>1. /\ Connection \in Connections /\ Connection \notin Endpoints
        /\ Connection \in live /\ Connection \in context /\ Connection \notin connecting
    BY SessionAssumption, EndpointAssumption DEF Connected, EndpointInv
  <1>2. ASSUME NEW s \in Sockets, s # Connection, Dispose(s) PROVE Connected'
    BY <1>1, <1>2 DEF Dispose, SocketDeinit, Connected
  <1>3. ASSUME NEW c, ConnectSucceeds(c) PROVE Connected'
    BY <1>1, <1>3 DEF ConnectSucceeds, Connected
  <1>4. CASE EndpointNext
    <2>1. ASSUME NEW e \in Endpoints, InitClient(e) \/ InitServer(e) PROVE Connected'
      BY <1>1, <2>1 DEF InitClient, InitServer, Connected
    <2>2. ASSUME NEW e \in Endpoints, DisposeEndpoint(e) PROVE Connected'
      <3>1. e \in Sockets /\ e # Connection /\ Dispose(e)
        BY <1>1, <2>2 DEF DisposeEndpoint, Sockets
      <3> QED
        BY <1>2, <3>1
    <2>3. ASSUME NEW e \in Endpoints, NEW c \in Connections,
                 Accept(e, c) \/ ConnectBegins(e, c)
          PROVE  Connected'
      BY <1>1, <2>3 DEF Accept, Strands, ConnectBegins, Connected
    <2>4. ASSUME NEW c \in Connections, ConnectFails(c) \/ ConnectStrands(c) PROVE Connected'
      BY <1>1, <2>4 DEF ConnectFails, ConnectStrands, Strands, SocketDeinit, Connected
    <2>5. CASE \/ ProcessOpens \/ \E f \in Fds : ProcessCloses(f)
               \/ \E s \in Sockets : CreationFails(s)
      BY <1>1, <2>5 DEF ProcessOpens, ProcessCloses, CreationFails, Connected
    <2> QED
      BY <1>4, <2>1, <2>2, <2>3, <2>4, <2>5 DEF EndpointNext
  <1> QED
    <2>1. ASSUME NEW c \in Connections, c # Connection, ConnectSucceeds(c) \/ Dispose(c)
          PROVE  Connected'
      <3>1. c \in Sockets
        BY DEF Sockets
      <3> QED
        BY <1>2, <1>3, <2>1, <3>1
    <2> QED
      BY <1>4, <2>1 DEF Elsewhere

\* What other connections and the process do keeps the invariant of the session.
LEMMA ElsewhereStep ==
    ASSUME EndpointInv, SessionInv, Elsewhere \/ UNCHANGED vars
    PROVE  SessionInv'
  <1>1. UNCHANGED <<io_timeout, exchange, requests, awaiting, unsent, wire, open, call, window,
                    framing, remaining, got, silence, blocked, result, lost>>
    BY DEF Elsewhere, vars, session_vars, peer_vars, clock_vars, body_vars
  <1>2. Connected => Connected'
    <2>1. CASE UNCHANGED vars
      BY <2>1 DEF vars, endpoint_vars, Connected
    <2> QED
      BY <2>1, StaysConnected
  <1>3. InvCall'
    BY <1>1, <1>2 DEF SessionInv, InvCall, HeadComplete
  <1>4. SessionTypeOK' /\ InvClock' /\ InvHead' /\ InvBody' /\ InvBetween'
    BY <1>1 DEF SessionInv, SessionTypeOK, InvClock, Slice, InvHead, InvBody, InvBetween, Expecting
  <1>5. InvStream'
    <2>1. Rest' = Rest /\ Place' = Place /\ Response(exchange)' = Response(exchange)
      BY <1>1 DEF Rest, Place
    <2>2. Gone => Gone'
      BY <1>1 DEF Gone
    <2>3. InPlace => InPlace'
      BY <1>1, <2>1 DEF InPlace, Expecting
    <2> QED
      BY <2>1, <2>2, <2>3 DEF SessionInv, InvStream
  <1> QED
    BY <1>3, <1>4, <1>5 DEF SessionInv

\* Time passes, or recv gives up for now: the deadline stays where it is.
LEMMA WaitStep ==
    ASSUME SessionInv, Tick \/ AwaitProgress
    PROVE  SessionInv'
  <1>1. Waiting /\ io_timeout > 0 /\ call # "none"
    BY DEF Tick, AwaitProgress, Waiting, NeedsMore
  <1>2. CASE AwaitProgress /\ GiveUp
    <2>1. Return("timeout") /\ silence >= io_timeout
      BY <1>2 DEF AwaitProgress, GiveUp
    <2>2. UNCHANGED <<endpoint_vars, io_timeout, exchange, requests, awaiting, unsent, wire, open,
                      framing, remaining, got, lost>>
      BY <1>2 DEF AwaitProgress, peer_vars, body_vars
    <2> QED
      BY <1>1, <2>1, <2>2, Fails
  <1>3. CASE Tick \/ (AwaitProgress /\ ~GiveUp)
    <2>1. /\ UNCHANGED <<endpoint_vars, io_timeout, exchange, requests, awaiting, unsent, wire, open,
                         call, window, framing, remaining, got, result, lost>>
          /\ \/ blocked < Slice /\ silence' = silence + 1 /\ blocked' = blocked + 1
             \/ ~(silence >= io_timeout) /\ silence' = silence /\ blocked' = 0
      BY <1>3 DEF Tick, AwaitProgress, GiveUp, peer_vars, body_vars
    <2>2. /\ io_timeout \in Nat /\ Slice \in Nat /\ silence \in Nat /\ blocked \in Nat
          /\ Slice' = Slice
      BY <2>1, SliceBounds DEF SessionInv, SessionTypeOK, Slice
    <2>3. SessionTypeOK'
      <3>1. silence' \in Nat /\ blocked' \in Nat
        BY <2>1, <2>2
      <3> QED
        BY <2>1, <3>1 DEF SessionInv, SessionTypeOK
    <2>4. result # "timeout"
      BY <1>1 DEF SessionInv, InvCall
    <2>5. InvClock'
      BY <1>1, <2>1, <2>2, <2>4 DEF SessionInv, InvClock
    <2>6. InvCall' /\ InvHead' /\ InvBody' /\ InvBetween'
      <3>1. InvCall'
        BY <2>1 DEF SessionInv, InvCall, HeadComplete, Connected, endpoint_vars
      <3> QED
        BY <2>1, <3>1 DEF SessionInv, InvHead, InvBody, InvBetween, Expecting
    <2>7. InvStream'
      <3>1. Rest' = Rest /\ Place' = Place /\ Response(exchange)' = Response(exchange)
        BY <2>1 DEF Rest, Place
      <3>2. (Gone => Gone') /\ (InPlace => InPlace')
        BY <2>1, <3>1 DEF Gone, InPlace, Expecting
      <3> QED
        BY <3>1, <3>2 DEF SessionInv, InvStream
    <2> QED
      BY <2>3, <2>5, <2>6, <2>7 DEF SessionInv
  <1> QED
    BY <1>2, <1>3

\* Sending a request keeps the invariant of the session.
LEMMA CallStep ==
    ASSUME SessionInv, Call
    PROVE  SessionInv'
  <1>1. /\ Connected /\ call = "none" /\ result \in {"sent", "interim"} /\ window = <<>>
        /\ call' = "head" /\ result' = "none" /\ silence' = 0 /\ blocked' = 0
        /\ UNCHANGED <<endpoint_vars, io_timeout, exchange, requests, awaiting, unsent, wire, open,
                       window, framing, remaining, got, lost>>
    BY DEF Call, peer_vars, body_vars, SessionInv, InvCall
  <1>2. SessionTypeOK'
    BY <1>1 DEF SessionInv, SessionTypeOK
  <1>3. InvClock'
    <2>1. Slice' = Slice /\ Slice \in Nat /\ io_timeout \in Nat
      BY <1>1, SliceBounds DEF SessionInv, Slice
    <2> QED
      BY <1>1, <2>1 DEF InvClock
  <1>4. InvCall'
    <2>1. ~HeadComplete(window)
      <3>1. Len(<<>>) = 0
        OBVIOUS
      <3> QED
        BY <1>1, <3>1 DEF HeadComplete
    <2> QED
      BY <1>1, <2>1 DEF InvCall, HeadComplete, Connected, endpoint_vars
  <1>5. InvHead' /\ InvBody' /\ InvBetween'
    BY <1>1 DEF SessionInv, InvHead, InvBody, InvBetween, Expecting
  <1>6. InvStream'
    <2>1. Rest' = Rest /\ Place' = Place /\ Response(exchange)' = Response(exchange)
      BY <1>1 DEF Rest, Place
    <2>2. (Gone => Gone') /\ (InPlace => InPlace')
      BY <1>1, <2>1 DEF Gone, InPlace, Expecting
    <2> QED
      BY <2>1, <2>2 DEF SessionInv, InvStream
  <1> QED
    BY <1>2, <1>3, <1>4, <1>5, <1>6 DEF SessionInv

\* What is read moves from the wire to the window, and the deadline with it.
LEMMA ReadStep ==
    ASSUME SessionInv, Read, call \in {"head", "body"},
           call' = IF call = "head" /\ HeadComplete(window') THEN "parse" ELSE call,
           UNCHANGED <<endpoint_vars, io_timeout, exchange, requests, awaiting, unsent, open,
                       framing, remaining, got, result, lost>>
    PROVE  SessionInv'
  <1>1. PICK n \in 1..Len(wire) : /\ window' = window \o SubSeq(wire, 1, n)
                                  /\ wire' = SubSeq(wire, n + 1, Len(wire))
                                  /\ silence' = 0 /\ blocked' = 0
    BY DEF Read
  <1>2. window \in Seq(Token) /\ wire \in Seq(Token) /\ unsent \in Seq(Token)
    BY DEF SessionInv, SessionTypeOK
  <1>3. window' \in Seq(Token) /\ wire' \in Seq(Token) /\ window' \o wire' = window \o wire
    BY <1>1, <1>2, Moved
  <1>4. SessionTypeOK'
    BY <1>1, <1>3 DEF SessionInv, SessionTypeOK
  <1>5. InvClock'
    <2>1. Slice' = Slice /\ Slice \in Nat /\ io_timeout \in Nat
      BY SliceBounds DEF SessionInv, Slice
    <2>2. result # "timeout"
      BY DEF SessionInv, InvCall
    <2> QED
      BY <1>1, <2>1, <2>2 DEF InvClock
  <1>6. InvCall'
    <2>1. call' # "none" /\ call' \in {"head", "parse", "body"}
      OBVIOUS
    <2>2. call' = "head" => ~HeadComplete(window')
      OBVIOUS
    <2>3. call' = "parse" => HeadComplete(window')
      OBVIOUS
    <2>4. Connected' /\ result' = "none"
      BY DEF SessionInv, InvCall, Connected, endpoint_vars
    <2> QED
      BY <2>1, <2>2, <2>3, <2>4 DEF InvCall, HeadComplete
  <1>7. InvHead' /\ InvBody' /\ InvBetween'
    <2>1. result \notin {"ok", "sent", "interim"} /\ result = "none" /\ call' # "none"
      BY DEF SessionInv, InvCall
    <2> QED
      BY <2>1 DEF SessionInv, InvHead, InvBody, InvBetween, Expecting
  <1>8. InvStream'
    <2>1. wire # <<>>
      <3>1. 1 <= Len(wire) /\ Len(<<>>) = 0
        BY <1>1, <1>2, LenProperties
      <3> QED
        BY <3>1
    <2>2. IsEndOf(Rest, Response(exchange)) /\ InPlace
      BY <2>1 DEF SessionInv, InvStream, Gone
    <2>3. Rest' = Rest /\ Place' = Place /\ Response(exchange)' = Response(exchange)
      BY <1>3 DEF Rest, Place
    <2>4. InPlace'
      BY <2>2, <2>3 DEF InPlace, Expecting
    <2> QED
      BY <2>2, <2>3, <2>4 DEF InvStream
  <1> QED
    BY <1>4, <1>5, <1>6, <1>7, <1>8 DEF SessionInv

\* Reading from the socket, or waiting for it, keeps the invariant of the session.
LEMMA ReceiveStep ==
    ASSUME SessionInv, ReadHead \/ Fill
    PROVE  SessionInv'
  <1>1. UNCHANGED <<endpoint_vars, io_timeout, exchange, requests, awaiting, unsent, open,
                    framing, remaining, got, lost>>
    BY DEF ReadHead, Fill, body_vars
  <1>2. CASE ReadHead
    <2>1. call = "head"
      BY <1>2 DEF ReadHead
    <2>2. CASE Return("error") /\ UNCHANGED wire
      BY <1>1, <2>1, <2>2, Fails
    <2>3. CASE Read /\ call' = (IF HeadComplete(window') THEN "parse" ELSE "head") /\ UNCHANGED result
      BY <1>1, <2>1, <2>3, ReadStep
    <2> QED
      BY <1>2, <2>2, <2>3 DEF ReadHead
  <1>3. CASE Fill
    <2>1. call = "body"
      BY <1>3 DEF Fill, NeedsMore
    <2>2. CASE Return("error") /\ UNCHANGED wire
      BY <1>1, <2>1, <2>2, Fails
    <2>3. CASE Read /\ UNCHANGED <<call, result>>
      BY <1>1, <2>1, <2>3, ReadStep
    <2> QED
      BY <1>3, <2>2, <2>3 DEF Fill
  <1> QED
    BY <1>2, <1>3

\* A response that cannot be parsed keeps the invariant of the session.
LEMMA ParseFailsStep ==
    ASSUME SessionInv, ParseFails
    PROVE  SessionInv'
  <1>1. UNCHANGED <<endpoint_vars, io_timeout, exchange, requests, awaiting, unsent, wire, open,
                    framing, remaining, got, lost>>
    BY DEF ParseFails, peer_vars, body_vars
  <1> QED
    BY <1>1, Fails DEF ParseFails

\* A call that parses has something to parse.
LEMMA ParsesSomething ==
    ASSUME SessionInv, call = "parse"
    PROVE  /\ window # <<>> /\ ~Gone /\ IsEndOf(Rest, Response(exchange)) /\ InPlace
           /\ awaiting = exchange.head /\ got = 0 /\ Connected /\ result = "none"
  <1>1. window # <<>>
    <2>1. Len(<<>>) = 0
      OBVIOUS
    <2> QED
      BY <2>1 DEF SessionInv, InvCall, HeadComplete
  <1> QED
    BY <1>1 DEF SessionInv, InvStream, Gone, InvHead, Expecting, InvCall

\* A window of one token has no other behind it.
LEMMA OnlyOne ==
    ASSUME SessionTypeOK, window # <<>>
    PROVE  /\ Len(window) = 1 + Len(Tail(window)) /\ Len(Tail(window)) \in Nat
           /\ Tail(window) \in Seq(Token)
           /\ Tail(window) = <<>> <=> Len(window) = 1
  <1>1. window \in Seq(Token)
    BY DEF SessionTypeOK
  <1>2. Tail(window) \in Seq(Token) /\ Len(Tail(window)) = Len(window) - 1
    BY <1>1, HeadTailProperties
  <1>3. Len(window) \in Nat /\ Len(Tail(window)) \in Nat
    BY <1>1, <1>2, LenProperties
  <1>4. Tail(window) = <<>> <=> Len(Tail(window)) = 0
    BY <1>2, EmptySeq
  <1> QED
    BY <1>2, <1>3, <1>4

\* Skipping an interim response keeps the invariant of the session.
LEMMA ParseInterimStep ==
    ASSUME SessionInv, ParseInterim
    PROVE  SessionInv'
  <1>1. /\ call = "parse" /\ window[1] = "interim"
        /\ call' = "none" /\ result' = "interim" /\ window' = <<>> /\ blocked' = 0
        /\ lost' = (lost \/ Tail(window) # <<>>)
        /\ UNCHANGED <<endpoint_vars, io_timeout, exchange, requests, awaiting, unsent, wire, open,
                       framing, remaining, got, silence>>
    BY DEF ParseInterim, Return, Drops, peer_vars, body_vars
  <1>2. /\ window # <<>> /\ IsEndOf(Rest, Response(exchange)) /\ InPlace
        /\ awaiting = exchange.head /\ got = 0
    BY <1>1, ParsesSomething
  <1>3. SessionTypeOK'
    BY <1>1, EmptySeq DEF SessionInv, SessionTypeOK
  <1>4. InvClock'
    <2>1. Slice' = Slice /\ Slice \in Nat
      BY <1>1, SliceBounds DEF SessionInv, Slice
    <2> QED
      BY <1>1, <2>1 DEF InvClock
  <1>5. InvCall' /\ InvHead' /\ InvBody' /\ InvBetween'
    BY <1>1, <1>2 DEF InvCall, InvHead, InvBody, InvBetween
  <1>6. InvStream'
    <2>1. (IsEndOf(Rest, Response(exchange)))' /\ Place' = Place + Len(window)
      BY <1>1, <1>2, Dropping DEF SessionInv
    <2>2. Place + 1 <= exchange.interim
      BY <1>1, <1>2, KindOfFront
    <2>3. ~lost' => Len(window) = 1
      BY <1>1, <1>2, OnlyOne DEF SessionInv
    <2>4. InPlace'
      BY <1>1, <2>1, <2>2, <2>3 DEF InPlace
    <2> QED
      BY <2>1, <2>4 DEF InvStream
  <1> QED
    BY <1>3, <1>4, <1>5, <1>6 DEF SessionInv

\* The framing that is determined is that of the response, for awaiting says whether
\* HEAD was asked.
LEMMA ParseFinalStep ==
    ASSUME SessionInv, ParseFinal
    PROVE  SessionInv'
  <1> DEFINE x == exchange
  <1>1. /\ call = "parse" /\ window[1] = "head" /\ x.status # "malformed"
        /\ awaiting' = FALSE /\ framing' = Framing /\ remaining' = x.length
        /\ UNCHANGED <<endpoint_vars, io_timeout, exchange, requests, unsent, wire, open, got>>
    BY DEF ParseFinal, peer_vars
  <1>2. /\ window # <<>> /\ IsEndOf(Rest, Response(x)) /\ InPlace
        /\ awaiting = x.head /\ got = 0 /\ result = "none" /\ Connected /\ SessionTypeOK
    BY <1>1, ParsesSomething DEF SessionInv
  <1>3. /\ x.head \in BOOLEAN /\ x.interim \in Nat /\ x.length \in Nat
        /\ x.status \in {"none", "other", "malformed"}
        /\ x.framing \in {"length", "chunked", "close"}
        /\ BodyLength(x) \in Nat /\ EndLength(x) \in Nat
        /\ Len(Response(x)) = ((x.interim + 1) + BodyLength(x)) + EndLength(x)
    <2>1. x \in Exchanges \cup {Idle}
      BY <1>2 DEF SessionTypeOK
    <2> QED
      BY <2>1, ExchangeType, ResponseTokens
  <1>4. Place = x.interim /\ Place + Len(Rest) = Len(Response(x))
    BY <1>1, <1>2, KindOfFront, FrontOfWindow
  <1>5. Framing \in {"none", "length", "chunked", "close"}
    BY <1>3 DEF Framing
  <1>6. Slice' = Slice /\ Slice \in Nat /\ io_timeout \in Nat
    BY <1>1, <1>2, SliceBounds DEF Slice
  <1>7. CASE Framing = "none"
    <2>1. /\ call' = "none" /\ result' = "ok" /\ window' = <<>> /\ blocked' = 0
          /\ lost' = (lost \/ Tail(window) # <<>>) /\ UNCHANGED silence
      BY <1>7 DEF ParseFinal, Return, Drops
    <2>2. BodyLength(x) = 0 /\ EndLength(x) = 0
      BY <1>2, <1>3, <1>7 DEF Framing, BodyLength, EndLength
    <2>3. Len(Rest) = 1
      BY <1>2, <1>3, <1>4, <2>2, RestLength
    <2>4. wire = <<>> /\ unsent = <<>>
      <3>1. /\ Len(window) \in Nat /\ Len(wire) \in Nat /\ Len(unsent) \in Nat
            /\ Len(window) + (Len(wire) + Len(unsent)) = 1 /\ Len(window) >= 1
        BY <1>2, <2>3, RestLength
      <3>2. Len(wire) = 0 /\ Len(unsent) = 0
        BY <3>1
      <3> QED
        BY <1>2, <3>2, EmptySeq DEF SessionTypeOK
    <2>5. SessionTypeOK'
      BY <1>1, <1>2, <1>3, <1>5, <2>1, EmptySeq DEF SessionTypeOK
    <2>6. InvClock'
      BY <1>6, <2>1 DEF InvClock
    <2>7. InvCall' /\ InvHead' /\ InvBody'
      BY <2>1 DEF InvCall, InvHead, InvBody, Expecting
    <2>8. InvBetween'
      <3>1. BodyLength(exchange)' = 0 /\ got' = 0 /\ wire' = <<>> /\ unsent' = <<>>
        BY <1>1, <1>2, <2>2, <2>4
      <3> QED
        BY <3>1 DEF InvBetween
    <2>9. InvStream'
      <3>1. (IsEndOf(Rest, Response(exchange)))'
        BY <1>1, <1>2, <2>1, Dropping
      <3>2. InPlace'
        BY <2>1 DEF InPlace, Expecting
      <3> QED
        BY <3>1, <3>2 DEF InvStream
    <2> QED
      BY <2>5, <2>6, <2>7, <2>8, <2>9 DEF SessionInv
  <1>8. CASE Framing # "none"
    <2>1. /\ call' = "body" /\ window' = Prefetched /\ lost' = (lost \/ Prefetched # Tail(window))
          /\ silence' = 0 /\ blocked' = 0 /\ UNCHANGED result
      BY <1>8 DEF ParseFinal
    <2>2. /\ x.status = "other" /\ ~x.head /\ Framing = x.framing /\ BodyLength(x) = x.length
      BY <1>1, <1>2, <1>3, <1>8 DEF Framing, BodyLength
    <2>3. Prefetched \in {<<>>, Tail(window)} /\ <<>> \in Seq(Token)
      BY EmptySeq DEF Prefetched
    <2>4. SessionTypeOK'
      <3>1. Prefetched \in Seq(Token)
        BY <1>2, <2>3, OnlyOne
      <3> QED
        BY <1>1, <1>2, <1>3, <1>5, <2>1, <3>1 DEF SessionTypeOK
    <2>5. InvClock'
      BY <1>1, <1>2, <1>6, <2>1 DEF InvClock
    <2>6. InvCall' /\ InvHead'
      BY <1>1, <1>2, <2>1 DEF InvCall, InvHead, Expecting, Connected, endpoint_vars
    <2>7. InvBody'
      BY <1>1, <1>2, <1>3, <2>1, <2>2 DEF InvBody
    <2>8. InvBetween'
      BY <1>2, <2>1 DEF InvBetween
    <2>9. InvStream'
      <3>1. /\ (IsEndOf(Rest, Response(exchange)))' /\ Place' >= x.interim + 1
            /\ ~lost' => Place' = x.interim + 1
        <4>1. CASE Prefetched = Tail(window)
          <5>1. (IsEndOf(Rest, Response(exchange)))' /\ Place' = Place + 1
            BY <1>1, <1>2, <2>1, <4>1, ConsumingOne
          <5>2. Place + 1 = x.interim + 1 /\ x.interim + 1 >= x.interim + 1
            BY <1>3, <1>4
          <5> QED
            BY <5>1, <5>2
        <4>2. CASE Prefetched = <<>> /\ Prefetched # Tail(window)
          <5>1. (IsEndOf(Rest, Response(exchange)))' /\ Place' = Place + Len(window)
            BY <1>1, <1>2, <2>1, <4>2, Dropping
          <5>2. Len(window) \in Nat /\ Len(window) >= 1
            BY <1>2, RestLength
          <5>3. Place + Len(window) >= x.interim + 1
            BY <1>3, <1>4, <5>2
          <5> QED
            BY <2>1, <4>2, <5>1, <5>3
        <4> QED
          BY <2>3, <4>1, <4>2
      <3>2. x.interim + 1 = (x.interim + 1) + got
        BY <1>2, <1>3
      <3>3. got <= BodyLength(exchange)
        BY <1>2, <1>3, ExchangeType, ResponseTokens DEF SessionTypeOK
      <3>4. InPlace'
        <4>1. BodyLength(exchange)' = BodyLength(exchange)
          BY <1>1
        <4> QED
          BY <1>1, <1>2, <2>1, <3>1, <3>2, <3>3, <4>1 DEF InPlace, Expecting
      <3> QED
        BY <3>1, <3>4 DEF InvStream
    <2> QED
      BY <2>4, <2>5, <2>6, <2>7, <2>8, <2>9 DEF SessionInv
  <1> QED
    BY <1>7, <1>8

\* A piece that is handed over is the next of the body, and there is one less to come.
LEMMA DeliverStep ==
    ASSUME SessionInv, Deliver
    PROVE  SessionInv'
  <1> DEFINE x == exchange
  <1>1. /\ call = "body" /\ window # <<>> /\ window[1] = "data"
        /\ framing = "length" => remaining > 0
        /\ UNCHANGED <<endpoint_vars, io_timeout, exchange, requests, awaiting, unsent, wire, open,
                       framing, lost>>
    BY DEF Deliver, peer_vars
  <1>2. CASE Return("refused") /\ UNCHANGED <<got, remaining>>
    <2>1. call # "none"
      BY <1>1
    <2>2. /\ call' = "none" /\ result' = "refused" /\ window' = <<>> /\ blocked' = 0 /\ silence' = silence
          /\ UNCHANGED <<got, remaining>>
      BY <1>2 DEF Return
    <2>3. Return("error") \/ Return("timeout") \/ Return("refused")
      BY <1>2
    <2> QED
      BY <1>1, <1>2, <2>1, Fails
  <1>3. CASE /\ got' = got + 1 /\ window' = Tail(window)
             /\ remaining' = (IF framing = "length" THEN remaining - 1 ELSE remaining)
             /\ UNCHANGED <<call, result, clock_vars>>
    <2>1. UNCHANGED <<call, result, silence, blocked>>
      BY <1>3 DEF clock_vars
    <2>2. /\ SessionTypeOK /\ IsEndOf(Rest, Response(x)) /\ InPlace /\ result = "none" /\ Connected
      BY <1>1, FrontOfWindow DEF SessionInv, InvCall
    <2>3. /\ got \in Nat /\ remaining \in Nat /\ x.interim \in Nat /\ x.length \in Nat
          /\ Place \in Nat
      <3>1. x \in Exchanges \cup {Idle} /\ got \in Nat /\ remaining \in Nat
        BY <2>2 DEF SessionTypeOK
      <3> QED
        BY <1>1, <3>1, ExchangeType, FrontOfWindow
    <2>4. remaining' \in Nat /\ got' \in Nat
      BY <1>1, <1>3, <2>3
    <2>5. (IsEndOf(Rest, Response(exchange)))' /\ Place' = Place + 1 /\ Tail(window) \in Seq(Token)
      BY <1>1, <1>3, <2>2, ConsumingOne
    <2>6. SessionTypeOK'
      BY <1>1, <1>3, <2>1, <2>2, <2>4, <2>5 DEF SessionTypeOK
    <2>7. InvClock'
      BY <1>1, <2>1 DEF SessionInv, InvClock, Slice
    <2>8. InvCall' /\ InvHead' /\ InvBetween'
      BY <1>1, <2>1, <2>2 DEF InvCall, InvHead, InvBetween, Expecting, Connected, endpoint_vars
    <2>9. InvBody'
      <3>1. framing = "length" => (got + 1) + (remaining - 1) = x.length
        BY <1>1, <2>3 DEF SessionInv, InvBody
      <3> QED
        BY <1>1, <1>3, <2>1, <3>1 DEF SessionInv, InvBody
    <2>10. InvStream'
      <3>1. Place >= (x.interim + 1) + got /\ (~lost => Place = (x.interim + 1) + got)
        BY <1>1, <2>2 DEF InPlace
      <3>2. /\ Place + 1 >= (x.interim + 1) + (got + 1)
            /\ ~lost => Place + 1 = (x.interim + 1) + (got + 1)
        BY <2>3, <3>1
      <3>3. ~lost => got + 1 <= BodyLength(x)
        <4>1. Place + 1 <= (x.interim + 1) + BodyLength(x)
          BY <1>1, <2>2, KindOfFront
        <4>2. BodyLength(x) \in Nat
          BY <2>2, ExchangeType DEF SessionTypeOK
        <4>3. \A a, g, l \in Nat : a + (g + 1) <= a + l => g + 1 <= l
          OBVIOUS
        <4>4. ~lost => (x.interim + 1) + (got + 1) <= (x.interim + 1) + BodyLength(x)
          BY <3>2, <4>1
        <4>5. x.interim + 1 \in Nat
          BY <2>3
        <4> QED
          BY <2>3, <4>2, <4>3, <4>4, <4>5
      <3>4. InPlace'
        <4>1. BodyLength(exchange)' = BodyLength(x)
          BY <1>1
        <4> QED
          BY <1>1, <1>3, <2>1, <2>2, <2>5, <3>2, <3>3, <4>1 DEF InPlace, Expecting
      <3> QED
        BY <2>5, <3>4 DEF InvStream
    <2> QED
      BY <2>6, <2>7, <2>8, <2>9, <2>10 DEF SessionInv
  <1> QED
    BY <1>2, <1>3 DEF Deliver

\* A body that is over is all that was to be consumed.
LEMMA BodyEndsStep ==
    ASSUME SessionInv, BodyEnds
    PROVE  SessionInv'
  <1> DEFINE x == exchange
  <1>1. /\ call = "body" /\ call' = "none" /\ result' = "ok" /\ window' = <<>> /\ blocked' = 0
        /\ UNCHANGED <<endpoint_vars, io_timeout, exchange, requests, awaiting, unsent, wire, open,
                       framing, remaining, got, silence>>
    BY DEF BodyEnds, Return, peer_vars, body_vars
  <1>2. /\ SessionTypeOK /\ IsEndOf(Rest, Response(x)) /\ InPlace
        /\ framing = x.framing /\ ~x.head /\ x.status = "other"
        /\ framing = "length" => got + remaining = x.length
    BY <1>1 DEF SessionInv, InvStream, Gone, InvBody
  <1>3. /\ got \in Nat /\ remaining \in Nat /\ x.interim \in Nat /\ x.length \in Nat
        /\ Len(Response(x)) = ((x.interim + 1) + x.length) + EndLength(x)
        /\ BodyLength(x) = x.length /\ EndLength(x) = IF framing = "chunked" THEN 1 ELSE 0
    <2>1. x \in Exchanges \cup {Idle} /\ got \in Nat /\ remaining \in Nat
      BY <1>2 DEF SessionTypeOK
    <2>2. BodyLength(x) = x.length /\ EndLength(x) = IF framing = "chunked" THEN 1 ELSE 0
      BY <1>2 DEF BodyLength, EndLength
    <2> QED
      BY <2>1, <2>2, ExchangeType, ResponseTokens
  <1>4. /\ Len(Rest) \in Nat /\ Len(window) \in Nat /\ Len(wire) \in Nat /\ Len(unsent) \in Nat
        /\ Len(Rest) = Len(window) + (Len(wire) + Len(unsent)) /\ Place \in Int
        /\ Place + Len(Rest) = Len(Response(x))
    BY <1>2, <1>3, RestLength DEF Place
  <1>5. Place >= (x.interim + 1) + got /\ (~lost => Place = (x.interim + 1) + got)
    BY <1>1, <1>2 DEF InPlace
  <1>6. /\ Len(wire) = 0 => wire = <<>>
        /\ Len(unsent) = 0 => unsent = <<>>
        /\ Len(<<>>) = 0
    BY <1>2, EmptySeq DEF SessionTypeOK
  <1>7. lost' \in BOOLEAN /\ (~lost' => ~lost)
    BY <1>2 DEF BodyEnds, Drops, SessionTypeOK
  <1>8. /\ wire = <<>> /\ (open => unsent = <<>>)
        /\ ~lost => /\ got <= x.length
                    /\ framing # "close" \/ unsent = <<>> => got = x.length
    <2>1. CASE framing = "length" /\ remaining = 0
      <3>1. got = x.length
        BY <1>2, <1>3, <2>1
      <3>2. EndLength(x) = 0
        BY <1>3, <2>1
      <3>3. Len(wire) = 0 /\ Len(unsent) = 0
        BY <1>3, <1>4, <1>5, <3>1, <3>2
      <3> QED
        BY <1>3, <1>6, <3>1, <3>3
    <2>2. CASE framing = "chunked" /\ window # <<>> /\ window[1] = "end"
      <3>1. Place = (x.interim + 1) + x.length /\ Place + 1 = Len(Response(x))
        BY <1>3, <2>2, KindOfFront
      <3>2. Len(window) >= 1
        BY <1>2, <2>2, RestLength
      <3>3. Len(wire) = 0 /\ Len(unsent) = 0
        BY <1>4, <3>1, <3>2
      <3>4. ~lost => got = x.length
        BY <1>3, <1>5, <3>1
      <3> QED
        BY <1>3, <1>6, <3>3, <3>4
    <2>3. CASE framing = "close" /\ window = <<>> /\ wire = <<>> /\ ~open
      <3>1. EndLength(x) = 0
        BY <1>3, <2>3
      <3>2. Place + Len(unsent) = (x.interim + 1) + x.length
        BY <1>3, <1>4, <1>6, <2>3, <3>1
      <3>3. ASSUME ~lost PROVE got + Len(unsent) = x.length
        <4>1. Place = (x.interim + 1) + got /\ x.interim + 1 \in Nat
          BY <1>3, <1>5, <3>3
        <4>2. \A a, g, u, l \in Nat : (a + g) + u = a + l => g + u = l
          OBVIOUS
        <4>3. ((x.interim + 1) + got) + Len(unsent) = (x.interim + 1) + x.length
          BY <3>2, <4>1
        <4>4. PICK a \in Nat, u \in Nat, l \in Nat :
                 a = x.interim + 1 /\ u = Len(unsent) /\ l = x.length
          BY <1>3, <1>4, <4>1
        <4>5. (a + got) + u = a + l
          BY <4>3, <4>4
        <4>6. got \in Nat
          BY <1>3
        <4>7. got + u = l
          BY <4>2, <4>4, <4>5, <4>6
        <4> QED
          BY <4>4, <4>7
      <3> QED
        BY <1>3, <1>4, <1>6, <2>3, <3>3
    <2> QED
      BY <2>1, <2>2, <2>3 DEF BodyEnds
  <1>9. SessionTypeOK'
    BY <1>1, <1>2, <1>7, EmptySeq DEF SessionTypeOK
  <1>10. InvClock'
    <2>1. Slice' = Slice /\ Slice \in Nat
      BY <1>1, <1>2, SliceBounds DEF Slice
    <2> QED
      BY <1>1, <2>1 DEF InvClock
  <1>11. InvCall' /\ InvHead' /\ InvBody'
    BY <1>1 DEF InvCall, InvHead, InvBody, Expecting
  <1>12. InvBetween'
    <2>1. BodyLength(exchange)' = x.length
      BY <1>1, <1>3
    <2> QED
      BY <1>1, <1>7, <1>8, <2>1 DEF InvBetween
  <1>13. InvStream'
    <2>1. (IsEndOf(Rest, Response(exchange)))'
      BY <1>1, <1>2, Dropping
    <2>2. InPlace'
      BY <1>1 DEF InPlace, Expecting
    <2> QED
      BY <2>1, <2>2 DEF InvStream
  <1> QED
    BY <1>9, <1>10, <1>11, <1>12, <1>13 DEF SessionInv

\* Nothing was sent or received at first.
LEMMA SessionInit ==
    ASSUME Init
    PROVE  SessionInv
  <1>1. <<>> \in Seq(Token) /\ Len(<<>>) = 0 /\ 0 \in 0..MaxRequests /\ Idle.head = FALSE
    BY EmptySeq, SessionAssumption DEF Idle
  <1>2. SessionTypeOK
    BY <1>1 DEF Init, SessionTypeOK
  <1>3. InvClock
    BY <1>2, SliceBounds DEF Init, InvClock
  <1>4. InvCall /\ InvHead /\ InvBody /\ InvBetween
    BY DEF Init, InvCall, InvHead, InvBody, InvBetween, Expecting
  <1>5. InvStream
    BY DEF Init, InvStream, Gone
  <1> QED
    BY <1>2, <1>3, <1>4, <1>5 DEF SessionInv

\* Every step keeps the invariant of the session.
LEMMA SessionStep ==
    ASSUME EndpointInv, SessionInv, [Next]_vars
    PROVE  SessionInv'
  <1>1. CASE PeerSends \/ PeerCloses
    BY <1>1, PeerStep
  <1>2. CASE Connect
    BY <1>2, ConnectStep
  <1>3. CASE SendRequest
    BY <1>3, SendStep
  <1>4. CASE Close
    BY <1>4, CloseStep
  <1>5. CASE Elsewhere \/ UNCHANGED vars
    BY <1>5, ElsewhereStep
  <1>6. CASE Tick \/ AwaitProgress
    BY <1>6, WaitStep
  <1>7. CASE Call
    BY <1>7, CallStep
  <1>8. CASE ReadHead \/ Fill
    BY <1>8, ReceiveStep
  <1>9. CASE ParseInterim
    BY <1>9, ParseInterimStep
  <1>10. CASE ParseFinal
    BY <1>10, ParseFinalStep
  <1>11. CASE ParseFails
    BY <1>11, ParseFailsStep
  <1>12. CASE Deliver
    BY <1>12, DeliverStep
  <1>13. CASE BodyEnds
    BY <1>13, BodyEndsStep
  <1> QED
    BY <1>1, <1>2, <1>3, <1>4, <1>5, <1>6, <1>7, <1>8, <1>9, <1>10, <1>11, <1>12, <1>13
    DEF Next, Client

\* The invariant of the session, for any exchanges, time-outs and ways the peer cuts
\* its responses into pieces, and at whatever point it closes.
THEOREM SessionInvariant == Spec => []SessionInv
  <1>1. Init => EndpointInv /\ SessionInv
    BY InitHolds, SessionInit
  <1>2. EndpointInv /\ SessionInv /\ [Next]_vars => EndpointInv' /\ SessionInv'
    BY StepHolds, SessionStep
  <1> QED
    BY <1>1, <1>2, PTL DEF Spec

-------------------------------------------------------------------------------
(* What it shows.                                                            *)

\* http_connection_receive_response returns ok with the whole body of the response to
\* the last request, and leaves nothing of it to be taken for the next response.
THEOREM WholeResponses == Spec => []ResponseIsWhole
  <1>1. SessionInv => ResponseIsWhole
    <2> SUFFICES ASSUME SessionInv, result = "ok", ~lost
                 PROVE  /\ wire = <<>> /\ (open => unsent = <<>>)
                        /\ got <= BodyLength(exchange)
                        /\ framing # "close" \/ unsent = <<>> => got = BodyLength(exchange)
      BY DEF ResponseIsWhole
    <2>1. call = "none"
      BY DEF SessionInv, InvCall
    <2> QED
      BY <2>1 DEF SessionInv, InvBetween
  <1> QED
    BY <1>1, SessionInvariant, PTL

\* receive_response waits only for what the peer still has to send, or for the close
\* that ends a body: also after interim responses, and after HEAD.
THEOREM WaitSafety == Spec => []WaitsForWhatIsOwed
  <1>1. SessionInv => WaitsForWhatIsOwed
    <2> SUFFICES ASSUME SessionInv, Waiting, ~lost, framing # "close"
                 PROVE  unsent # <<>>
      BY DEF WaitsForWhatIsOwed
    <2> DEFINE x == exchange
    <2>1. /\ wire = <<>> /\ open /\ SessionTypeOK
          /\ IsEndOf(Rest, Response(x)) /\ InPlace
      BY DEF Waiting, SessionInv, InvStream, Gone
    <2>2. /\ Len(Rest) \in Nat /\ Len(window) \in Nat /\ Len(wire) \in Nat /\ Len(unsent) \in Nat
          /\ Len(Rest) = Len(window) + (Len(wire) + Len(unsent)) /\ Place \in Int
          /\ Place + Len(Rest) = Len(Response(x)) /\ Len(<<>>) = 0
      <3>1. Len(Response(x)) \in Nat /\ Len(Rest) \in Nat
        BY <2>1, RestLength
      <3> QED
        BY <2>1, <3>1, RestLength DEF Place
    <2>3. /\ x.interim \in Nat /\ BodyLength(x) \in Nat /\ EndLength(x) \in Nat
          /\ Len(Response(x)) = ((x.interim + 1) + BodyLength(x)) + EndLength(x)
      <3>1. x \in Exchanges \cup {Idle}
        BY <2>1 DEF SessionTypeOK
      <3> QED
        BY <3>1, ExchangeType, ResponseTokens
    <2>4. window = <<>> /\ Place < Len(Response(x))
      <3>1. CASE call = "head"
        <4>1. Place <= x.interim
          BY <2>1, <3>1 DEF InPlace, Expecting
        <4>2. Place < Len(Response(x))
          BY <2>2, <2>3, <4>1
        <4>3. ASSUME window # <<>> PROVE FALSE
          <5>1. window[1] \in {"interim", "head"}
            <6>1. window[1] = TokenAt(x, Place + 1) /\ Place \in Nat
              BY <4>3, FrontOfWindow
            <6>2. Place + 1 <= x.interim \/ Place + 1 = x.interim + 1
              BY <2>3, <4>1, <6>1
            <6> QED
              BY <6>1, <6>2 DEF TokenAt
          <5>2. 1 \in 1..Len(window)
            BY <2>1, <2>2, <4>3, RestLength
          <5>3. HeadComplete(window)
            BY <5>1, <5>2 DEF HeadComplete
          <5> QED
            BY <3>1, <5>3 DEF SessionInv, InvCall
        <4> QED
          BY <4>2, <4>3
      <3>2. CASE NeedsMore
        <4>1. /\ call = "body" /\ window = <<>> /\ (framing = "length" => remaining > 0)
              /\ framing = x.framing /\ ~x.head /\ x.status = "other"
              /\ framing = "length" => got + remaining = x.length
          BY <3>2 DEF NeedsMore, SessionInv, InvBody
        <4>2. Place = (x.interim + 1) + got /\ got \in Nat /\ remaining \in Nat
          BY <2>1, <4>1 DEF InPlace, SessionTypeOK
        <4>3. BodyLength(x) = x.length /\ x.framing \in {"length", "chunked", "close"}
              /\ x.length \in Nat
          <5>1. x \in Exchanges \cup {Idle}
            BY <2>1 DEF SessionTypeOK
          <5> QED
            BY <4>1, <5>1, ExchangeType DEF BodyLength
        <4>4. CASE framing = "length"
          <5>1. got < x.length
            BY <4>1, <4>2, <4>3, <4>4
          <5> QED
            BY <2>3, <4>1, <4>2, <4>3, <5>1
        <4>5. CASE framing = "chunked"
          <5>1. EndLength(x) = 1
            BY <4>1, <4>5 DEF EndLength
          <5>2. got <= x.length
            BY <2>1, <4>1, <4>3 DEF InPlace
          <5> QED
            BY <2>3, <4>1, <4>2, <4>3, <5>1, <5>2
        <4> QED
          BY <4>1, <4>3, <4>4, <4>5
      <3> QED
        BY <3>1, <3>2 DEF Waiting
    <2> QED
      BY <2>1, <2>2, <2>4
  <1> QED
    BY <1>1, SessionInvariant, PTL

\* A call is given up when io_timeout_ms has passed without a byte, never before, and
\* at most one more slice of poll later.
THEOREM SilenceSafety == Spec => []SilenceIsBounded
  <1>1. SessionInv => SilenceIsBounded
    <2> SUFFICES ASSUME SessionInv PROVE SilenceIsBounded
      OBVIOUS
    <2>1. io_timeout \in Nat /\ Slice \in Nat /\ silence \in Nat /\ blocked \in Nat
      BY SliceBounds DEF SessionInv, SessionTypeOK
    <2> QED
      BY <2>1 DEF SessionInv, InvClock, SilenceIsBounded
  <1> QED
    BY <1>1, SessionInvariant, PTL
=================================================================================
