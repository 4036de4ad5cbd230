--------------------------- MODULE RpcSystemProofs ---------------------------
(***************************************************************************)
(* RpcSystem, for every number of connections, calls and notifications and *)
(* every choice of handler kinds.  First the types, the socket and its     *)
(* flags, the buffer, the pending calls and the server's list of clients;  *)
(* then the notifications, of which none disappears inside the browser,    *)
(* those made offline keep their order, and the ones sent twice were       *)
(* rolled back; then the calls, of which each is in exactly one place and  *)
(* which reach the server in the order they were made; last the            *)
(* refinement: the system implements the remote call of RpcCall.           *)
(***************************************************************************)
EXTENDS RpcSystem, WebSocketRpcProofs

-----------------------------------------------------------------------------
(* Type correctness, one lemma per group of actions.                        *)

\* Data sent to a browser keeps the type of the queues.
LEMMA ServerSendsType ==
  ASSUME TypeOK, NEW e \in Conns, NEW m \in Message, ServerSends(e, m)
  PROVE  s2c' \in [Conns -> Seq(Message)]
<1>1. Append(s2c[e], m) \in Seq(Message) /\ s2c \in [Conns -> Seq(Message)]
  BY DEF TypeOK, TransportTypeOK
<1> QED BY <1>1 DEF ServerSends

\* What the server takes is a message, and the queue stays one of messages.
LEMMA ServerTakesType ==
  ASSUME TypeOK, NEW e \in Conns, ServerTakes(e)
  PROVE  Head(c2s[e]) \in Message /\ c2s' \in [Conns -> Seq(Message)]
<1>1. c2s[e] \in Seq(Message) /\ c2s[e] # <<>> /\ c2s \in [Conns -> Seq(Message)]
  BY DEF ServerTakes, TypeOK, TransportTypeOK
<1>2. Head(c2s[e]) \in Message /\ Tail(c2s[e]) \in Seq(Message)
  BY <1>1
<1> QED BY <1>1, <1>2 DEF ServerTakes

\* Splicing a client out leaves a list of connections.
LEMMA WithoutType ==
  ASSUME NEW e, clients \in Seq(Conns)
  PROVE  Without(e) \in Seq(Conns)
<1>1. CASE \E i \in DOMAIN clients : clients[i] = e
  <2> DEFINE idx == CHOOSE i \in DOMAIN clients : clients[i] = e
  <2>1. idx \in DOMAIN clients
    BY <1>1
  <2>2. DOMAIN clients = 1..Len(clients) /\ Len(clients) \in Nat
    OBVIOUS
  <2> HIDE DEF idx
  <2>3. SubSeq(clients, 1, idx - 1) \in Seq(Conns)
    BY <2>1, <2>2
  <2>4. SubSeq(clients, idx + 1, Len(clients)) \in Seq(Conns)
    BY <2>1, <2>2
  <2>5. SubSeq(clients, 1, idx - 1) \o SubSeq(clients, idx + 1, Len(clients)) \in Seq(Conns)
    BY <2>3, <2>4
  <2> QED BY <1>1, <2>5 DEF Without, idx
<1>2. CASE ~\E i \in DOMAIN clients : clients[i] = e
  BY <1>2 DEF Without
<1> QED BY <1>1, <1>2

\* Connections at the server.
LEMMA RegisterType ==
  ASSUME TypeOK, NEW e \in Conns, RegisterClient(e) \/ UnregisterClient(e),
         UNCHANGED browserVars
  PROVE  TypeOK'
<1>1. srvEnd' \in [Conns -> SrvStates]
  BY DEF RegisterClient, UnregisterClient, AcceptConnection, ServerEndCloses,
    TypeOK, TransportTypeOK, SrvStates
<1>2. clients' \in Seq(Conns)
  <2>1. Append(clients, e) \in Seq(Conns) /\ Without(e) \in Seq(Conns)
    BY WithoutType DEF TypeOK, ServerTypeOK
  <2> QED BY <2>1 DEF RegisterClient, UnregisterClient, With
<1> QED
  BY <1>1, <1>2
  DEF RegisterClient, UnregisterClient, AcceptConnection, ServerEndCloses, TypeOK,
      TransportTypeOK, SocketTypeOK, RpcTypeOK, ServerTypeOK, browserVars, clientVars,
      rpcVars, dbVars

\* Requests and notifications at the server.
LEMMA ServerReadsType ==
  ASSUME TypeOK, NEW e \in Conns, NEW k \in HandlerKinds, ServerReads(e, k),
         UNCHANGED browserVars
  PROVE  TypeOK'
<1> DEFINE m == Head(c2s[e])
<1>1. CASE ReceiveRequest(e, k)
  <2>1. m \in Message /\ c2s' \in [Conns -> Seq(Message)] /\ m.id \in Calls
    BY <1>1, ServerTakesType, MessageFields DEF ReceiveRequest
  <2>2. ran' \in [Calls -> Nat]
    BY <1>1, <2>1 DEF ReceiveRequest, TypeOK, ServerTypeOK
  <2>3. work' \subseteq Work /\ s2c' \in [Conns -> Seq(Message)]
    <3>1. CASE Async(k)
      BY <1>1, <2>1, <3>1
      DEF ReceiveRequest, Async, Work, TypeOK, TransportTypeOK, ServerTypeOK
    <3>2. CASE ~Async(k)
      <4>1. Response(m.id, BodyOf(k)) \in Message
        BY <2>1, <3>2, BodyOfType, MessageConstructors
      <4>2. ServerSends(e, Response(m.id, BodyOf(k))) /\ work' = work
        BY <1>1, <3>2 DEF ReceiveRequest, Answer
      <4> QED BY <4>1, <4>2, ServerSendsType DEF TypeOK, ServerTypeOK
    <3> QED BY <3>1, <3>2
  <2> QED
    BY <1>1, <2>1, <2>2, <2>3
    DEF ReceiveRequest, TypeOK, TransportTypeOK, SocketTypeOK, RpcTypeOK, ServerTypeOK,
        browserVars, clientVars, rpcVars, dbVars
<1>2. CASE ReceiveNotification(e, k)
  <2>1. m \in Message /\ c2s' \in [Conns -> Seq(Message)] /\ m.id \in Notes
    BY <1>2, ServerTakesType, MessageFields DEF ReceiveNotification, TakeNotification
  <2>2. got' \in [Notes -> Nat]
    BY <1>2, <2>1 DEF ReceiveNotification, TakeNotification, TypeOK, ServerTypeOK
  <2> QED
    BY <1>2, <2>1, <2>2
    DEF ReceiveNotification, TypeOK, TransportTypeOK, SocketTypeOK, RpcTypeOK,
        ServerTypeOK, browserVars, clientVars, rpcVars, dbVars
<1> QED BY <1>1, <1>2 DEF ServerReads

\* Promises of the server's handlers.
LEMMA PromiseType ==
  ASSUME TypeOK, NEW w \in work, PromiseResolves(w) \/ PromiseRejects(w),
         UNCHANGED browserVars
  PROVE  TypeOK'
<1>1. w.conn \in Conns /\ w.id \in Calls
  BY DEF TypeOK, ServerTypeOK, Work
<1>2. CASE PromiseResolves(w)
  <2>1. PICK b \in {"result", "nothing"} : ServerSends(w.conn, Response(w.id, b))
    BY <1>2 DEF PromiseResolves
  <2>2. Response(w.id, b) \in Message
    BY <1>1, MessageConstructors DEF Bodies
  <2>3. s2c' \in [Conns -> Seq(Message)]
    BY <1>1, <2>1, <2>2, ServerSendsType
  <2> QED
    BY <1>1, <1>2, <2>3
    DEF PromiseResolves, TypeOK, TransportTypeOK, SocketTypeOK, RpcTypeOK,
        ServerTypeOK, browserVars, clientVars, rpcVars, dbVars
<1>3. CASE PromiseRejects(w)
  BY <1>1, <1>3
  DEF PromiseRejects, TypeOK, TransportTypeOK, SocketTypeOK, RpcTypeOK,
      ServerTypeOK, transportVars, browserVars, clientVars, rpcVars, dbVars
<1> QED BY <1>2, <1>3

\* The server's process ends.
LEMMA ServerDiesType ==
  ASSUME TypeOK, ServerDies, UNCHANGED browserVars
  PROVE  TypeOK'
<1>1. ASSUME ProcessEnds
      PROVE  /\ srvEnd' \in [Conns -> SrvStates]
             /\ clients' \in Seq(Conns) /\ work' \subseteq Work /\ unanswered' \subseteq Calls
  BY <1>1 DEF ProcessEnds, TypeOK, TransportTypeOK, ServerTypeOK, SrvStates, Work
<1>2. ASSUME NEW e \in Conns, NotificationKillsServer(e)
      PROVE  TypeOK'
  <2>1. Head(c2s[e]) \in Message /\ c2s' \in [Conns -> Seq(Message)] /\ Head(c2s[e]).id \in Notes
    BY <1>2, ServerTakesType, MessageFields DEF NotificationKillsServer, TakeNotification
  <2>2. got' \in [Notes -> Nat]
    BY <1>2, <2>1 DEF NotificationKillsServer, TakeNotification, TypeOK, ServerTypeOK
  <2> QED
    BY <1>1, <1>2, <2>1, <2>2
    DEF NotificationKillsServer, TypeOK, TransportTypeOK, SocketTypeOK, RpcTypeOK,
        ServerTypeOK, browserVars, clientVars, rpcVars, dbVars
<1>3. ASSUME NEW w \in work, RejectionKillsServer(w)
      PROVE  TypeOK'
  BY <1>1, <1>3
  DEF RejectionKillsServer, TypeOK, TransportTypeOK, SocketTypeOK, RpcTypeOK,
      ServerTypeOK, browserVars, clientVars, rpcVars, dbVars
<1> QED BY <1>2, <1>3 DEF ServerDies

\* The initial state is of the right type.
LEMMA InitType == Init => TypeOK
<1> SUFFICES ASSUME Init PROVE TypeOK
  OBVIOUS
<1>1. ClientTypeOK
  BY ClientInitType DEF Init
<1>2. ServerTypeOK
  BY DEF Init, ServerInit, ServerTypeOK
<1> QED BY <1>1, <1>2 DEF TypeOK, ClientTypeOK

\* Every step, and every stutter, keeps the types.
LEMMA NextType == TypeOK /\ [Next]_vars => TypeOK'
<1> SUFFICES ASSUME TypeOK, [Next]_vars PROVE TypeOK'
  OBVIOUS
<1>1. CASE BrowserNext /\ UNCHANGED serverVars
  <2>1. ClientTypeOK /\ ServerTypeOK'
    BY <1>1 DEF TypeOK, ClientTypeOK, ServerTypeOK, serverVars
  <2>2. ClientTypeOK'
    BY <1>1, <2>1, PageType, ReloadType, StoreType, SocketType
    DEF BrowserNext, PageStep, StoreStep, SocketStep
  <2> QED BY <2>1, <2>2 DEF TypeOK, ClientTypeOK
<1>2. CASE ServerNext /\ UNCHANGED browserVars
  BY <1>2, RegisterType, ServerReadsType, PromiseType, ServerDiesType DEF ServerNext
<1>3. CASE UNCHANGED vars
  BY <1>3
  DEF vars, TypeOK, TransportTypeOK, SocketTypeOK, RpcTypeOK, ServerTypeOK,
      transportVars, clientVars, rpcVars, dbVars, serverVars
<1> QED BY <1>1, <1>2, <1>3 DEF Next

(* Type correctness: whatever the number of connections, calls and
   notifications and whatever the handlers do, every variable keeps its type;
   no promise ends in a state of its own and no queue holds a foreign value. *)
THEOREM TypeCorrect == Spec => []TypeOK
<1>1. Init => TypeOK BY InitType
<1>2. TypeOK /\ [Next]_vars => TypeOK' BY NextType
<1> QED BY <1>1, <1>2, PTL DEF Spec

-----------------------------------------------------------------------------
(* The life of the connection.                                              *)

\* Both facts are needed to prove either: an open or close event concerns the
\* current socket because no other one is alive, and connect() constructs the
\* next one only over a CLOSED one because the flags tell the truth.  What
\* neither says is that the current socket exists.
SocketInv ==
  /\ FlagsTrackSocket
  /\ OneLiveSocket
  /\ cliEnd[socket] # "UNUSED"

\* Only four actions touch the sockets or the flags.
LEMMA SocketInvFrame ==
  ASSUME SocketInv, UNCHANGED <<cliEnd, clientVars>>
  PROVE  SocketInv'
BY DEF SocketInv, FlagsTrackSocket, OneLiveSocket, clientVars

\* A socket that is not closed, of those that exist, is the current one.
LEMMA LiveIsCurrent ==
  ASSUME TypeOK, SocketInv, NEW e \in Conns, cliEnd[e] \in {"CONNECTING", "OPEN"}
  PROVE  e = socket
BY DEF TypeOK, SocketTypeOK, SocketInv, OneLiveSocket, Conns

LEMMA AttemptSocket ==
  ASSUME TypeOK, SocketInv, OnAttempt
  PROVE  SocketInv'
<1> USE DEF OnAttempt, AttemptReconnect, NewWebSocket, MayConnect
<1>1. /\ socket \in Conns /\ socket + 1 \in Conns /\ socket' = socket + 1
      /\ cliEnd \in [Conns -> CliStates]
  BY NextConn DEF TypeOK, SocketTypeOK, TransportTypeOK, MayFail
<1>2. cliEnd' = [cliEnd EXCEPT ![socket + 1] = "CONNECTING"] /\ connecting' = TRUE
      /\ connected' = FALSE
  BY DEF TypeOK, SocketTypeOK
<1>3. cliEnd[socket] = "CLOSED"
  BY <1>1 DEF SocketInv, FlagsTrackSocket, CliStates
<1>4. FlagsTrackSocket'
  BY <1>1, <1>2 DEF FlagsTrackSocket
<1>5. OneLiveSocket'
  BY <1>1, <1>2, <1>3 DEF SocketInv, OneLiveSocket, Conns
<1> QED BY <1>1, <1>2, <1>4, <1>5 DEF SocketInv

LEMMA OpenSocket ==
  ASSUME TypeOK, SocketInv, NEW e \in Conns, OnOpen(e)
  PROVE  SocketInv'
<1>1. /\ cliEnd[e] = "CONNECTING" /\ cliEnd' = [cliEnd EXCEPT ![e] = "OPEN"]
      /\ socket' = socket /\ connected' = TRUE /\ connecting' = FALSE
  BY DEF OnOpen, SocketOpens, FlagsOnOpen
<1>2. e = socket /\ cliEnd \in [Conns -> CliStates]
  BY <1>1, LiveIsCurrent DEF TypeOK, TransportTypeOK
<1>3. FlagsTrackSocket'
  BY <1>1, <1>2 DEF FlagsTrackSocket
<1>4. OneLiveSocket'
  BY <1>1, <1>2 DEF SocketInv, OneLiveSocket, Conns
<1> QED BY <1>1, <1>2, <1>3, <1>4 DEF SocketInv

LEMMA CloseSocket ==
  ASSUME TypeOK, SocketInv, NEW e \in Conns, OnClose(e)
  PROVE  SocketInv'
<1>1. /\ cliEnd[e] \in {"CONNECTING", "OPEN"} /\ cliEnd' = [cliEnd EXCEPT ![e] = "CLOSED"]
      /\ socket' = socket /\ connected' = FALSE /\ connecting' = FALSE
  BY DEF OnClose, SocketCloses, FlagsOnClose
<1>2. e = socket /\ cliEnd \in [Conns -> CliStates]
  BY <1>1, LiveIsCurrent DEF TypeOK, TransportTypeOK
<1>3. FlagsTrackSocket'
  BY <1>1, <1>2 DEF FlagsTrackSocket
<1>4. OneLiveSocket'
  BY <1>1, <1>2 DEF SocketInv, OneLiveSocket, Conns
<1> QED BY <1>1, <1>2, <1>3, <1>4 DEF SocketInv

LEMMA ReloadSocket ==
  ASSUME TypeOK, SocketInv, Reload
  PROVE  SocketInv'
<1>1. /\ socket \in Conns /\ socket + 1 \in Conns /\ socket' = socket + 1
      /\ cliEnd \in [Conns -> CliStates]
  BY NextConn DEF Reload, PageRestarts, TypeOK, SocketTypeOK, TransportTypeOK
<1>2. /\ cliEnd' = [cliEnd EXCEPT ![socket] = "CLOSED", ![socket + 1] = "CONNECTING"]
      /\ connected' = FALSE /\ connecting' = TRUE
  BY DEF Reload, PageRestarts
<1>3. FlagsTrackSocket'
  BY <1>1, <1>2 DEF FlagsTrackSocket
<1>4. OneLiveSocket'
  BY <1>1, <1>2 DEF SocketInv, OneLiveSocket, Conns
<1> QED BY <1>1, <1>2, <1>3, <1>4 DEF SocketInv

\* Every other step leaves sockets and flags alone.
LEMMA NextSocket ==
  ASSUME TypeOK, SocketInv, [Next]_vars
  PROVE  SocketInv'
<1>1. CASE OnAttempt \/ Reload \/ \E e \in Conns : OnOpen(e) \/ OnClose(e)
  BY <1>1, AttemptSocket, ReloadSocket, OpenSocket, CloseSocket
<1>2. CASE Call \/ Notify \/ StoreStep \/ \E e \in Conns : OnResponse(e)
  <2>1. UNCHANGED <<cliEnd, clientVars>>
    BY <1>2 DEF Call, NewEntry, Notify, StoreStep, AddCommits, FlushSends, FlushAborts,
      FlushCommits, OnResponse, transportVars
  <2> QED BY <2>1, SocketInvFrame
<1>3. CASE ServerNext /\ UNCHANGED browserVars
  <2>1. UNCHANGED <<cliEnd, clientVars>>
    BY <1>3 DEF ServerNext, RegisterClient, UnregisterClient, AcceptConnection,
      ServerEndCloses, ServerReads, ReceiveRequest, ReceiveNotification,
      PromiseResolves, PromiseRejects, ServerDies, NotificationKillsServer,
      RejectionKillsServer, browserVars, transportVars
  <2> QED BY <2>1, SocketInvFrame
<1>4. CASE UNCHANGED vars
  BY <1>4, SocketInvFrame DEF vars, transportVars
<1> QED
  BY <1>1, <1>2, <1>3, <1>4 DEF Next, BrowserNext, PageStep, SocketStep

\* The page starts with one socket, CONNECTING, and flags that say so.
LEMMA InitSocket == Init => SocketInv
<1> SUFFICES ASSUME Init PROVE SocketInv
  OBVIOUS
<1>1. 1 \in Conns
  BY MaxConnsAssumption DEF Conns
<1>2. /\ socket = 1 /\ connected = FALSE /\ connecting = TRUE
      /\ cliEnd = [e \in Conns |-> IF e = 1 THEN "CONNECTING" ELSE "UNUSED"]
  BY DEF Init, SocketInit, TransportInit
<1> QED
  BY <1>1, <1>2 DEF SocketInv, FlagsTrackSocket, OneLiveSocket, Conns

LEMMA SocketInvariant == Spec => []SocketInv
<1>1. Init => TypeOK /\ SocketInv
  BY InitType, InitSocket
<1>2. TypeOK /\ SocketInv /\ [Next]_vars => TypeOK' /\ SocketInv'
  BY NextType, NextSocket
<1> QED BY <1>1, <1>2, PTL DEF Spec

(* The connection's life cycle: in every reachable state _connected and
   _connecting say exactly where the current socket is, so isConnected()
   never lies to WebSocketRpc. *)
THEOREM SocketCorrect == Spec => []FlagsTrackSocket
<1>1. SocketInv => FlagsTrackSocket
  BY DEF SocketInv
<1> QED BY <1>1, SocketInvariant, PTL

(* No socket but the current one is alive in any reachable state: no event of
   one that was abandoned can reach the handlers of the client. *)
THEOREM OneSocketCorrect == Spec => []OneLiveSocket
<1>1. SocketInv => OneLiveSocket
  BY DEF SocketInv
<1> QED BY <1>1, SocketInvariant, PTL

-----------------------------------------------------------------------------
(* The buffer and the pending table.                                        *)

\* The steps of the server and of the store touch neither.
LEMMA RpcFrame ==
  ASSUME \/ ServerNext /\ UNCHANGED browserVars
         \/ StoreStep
         \/ UNCHANGED vars
  PROVE  UNCHANGED <<connected, rpcVars>>
<1>1. CASE ServerNext /\ UNCHANGED browserVars
  BY <1>1 DEF browserVars, clientVars
<1>2. CASE StoreStep
  BY <1>2 DEF StoreStep, AddCommits, FlushSends, FlushAborts, FlushCommits, clientVars
<1>3. CASE UNCHANGED vars
  BY <1>3 DEF vars, clientVars
<1> QED BY <1>1, <1>2, <1>3

\* The flag goes up in onOpen only, which empties the buffer in the same run.
LEMMA NextBuffer ==
  ASSUME NothingBufferedWhileConnected, [Next]_vars
  PROVE  NothingBufferedWhileConnected'
<1> USE DEF NothingBufferedWhileConnected
<1>1. CASE Call
  BY <1>1 DEF Call, NewEntry, SendOrBuffer, clientVars
<1>2. CASE Notify \/ Reload \/ OnAttempt
  BY <1>2 DEF Notify, Reload, PageRestarts, OnAttempt, AttemptReconnect, clientVars, rpcVars
<1>3. ASSUME NEW e \in Conns, SocketStep(e)
      PROVE  NothingBufferedWhileConnected'
  <2>1. CASE OnOpen(e)
    BY <2>1 DEF OnOpen, SocketOpens, FlagsOnOpen, FlushBuffer
  <2>2. CASE OnClose(e)
    BY <2>2 DEF OnClose, SocketCloses, FlagsOnClose
  <2>3. CASE OnResponse(e)
    BY <2>3 DEF OnResponse, clientVars
  <2> QED BY <1>3, <2>1, <2>2, <2>3 DEF SocketStep
<1>4. ASSUME UNCHANGED <<connected, rpcVars>>
      PROVE  NothingBufferedWhileConnected'
  BY <1>4 DEF rpcVars
<1> QED
  BY <1>1, <1>2, <1>3, <1>4, RpcFrame DEF Next, BrowserNext, PageStep

\* An entry comes with its promise and goes when the promise is settled or
\* its page goes away.
LEMMA NextPending ==
  ASSUME TypeOK, PendingTracksPromises, [Next]_vars
  PROVE  PendingTracksPromises'
<1> USE DEF PendingTracksPromises
<1>1. promise \in [Calls -> PromiseStates]
  BY DEF TypeOK, RpcTypeOK
<1>2. CASE Call
  <2> DEFINE c == ncalls + 1
  <2>1. c \in Calls /\ pending' = pending \cup {c} /\ promise' = [promise EXCEPT ![c] = "pending"]
    BY <1>2 DEF Call, NewEntry
  <2> QED BY <1>1, <2>1
<1>3. CASE Notify \/ OnAttempt
  BY <1>3 DEF Notify, OnAttempt, rpcVars
<1>4. CASE Reload
  BY <1>1, <1>4 DEF Reload, PageRestarts, PromisesGone
<1>5. ASSUME NEW e \in Conns, SocketStep(e)
      PROVE  PendingTracksPromises'
  <2>1. CASE OnOpen(e) \/ OnClose(e)
    BY <2>1 DEF OnOpen, OnClose, rpcVars
  <2>2. CASE OnResponse(e)
    <3> DEFINE m == Head(s2c[e])
    <3>1. Settle(m.id, m.body)
      BY <2>2 DEF OnResponse
    <3>2. Outcome(m.body) # "pending"
      BY DEF Outcome
    <3> QED BY <1>1, <3>1, <3>2 DEF Settle
  <2> QED BY <1>5, <2>1, <2>2 DEF SocketStep
<1>6. ASSUME UNCHANGED <<connected, rpcVars>>
      PROVE  PendingTracksPromises'
  BY <1>6 DEF rpcVars
<1> QED
  BY <1>2, <1>3, <1>4, <1>5, <1>6, RpcFrame DEF Next, BrowserNext, PageStep

(* A call made after a reconnection finds the buffer empty, whatever happened
   before: it cannot overtake one that is still waiting there. *)
THEOREM BufferCorrect == Spec => []NothingBufferedWhileConnected
<1>1. Init => NothingBufferedWhileConnected
  BY DEF Init, RpcInit, StoreInit, NothingBufferedWhileConnected
<1>2. NothingBufferedWhileConnected /\ [Next]_vars => NothingBufferedWhileConnected'
  BY NextBuffer
<1> QED BY <1>1, <1>2, PTL DEF Spec

(* The pending table holds exactly the calls whose promise is unsettled: no
   promise is left without the entry that could settle it, and no entry
   outlives its promise. *)
THEOREM PendingCorrect == Spec => []PendingTracksPromises
<1>1. Init => PendingTracksPromises
  BY DEF Init, RpcInit, StoreInit, PendingTracksPromises
<1>2. TypeOK /\ PendingTracksPromises /\ [Next]_vars => PendingTracksPromises'
  BY NextPending
<1> QED BY <1>1, <1>2, TypeCorrect, PTL DEF Spec

-----------------------------------------------------------------------------
(* The server's clients.                                                    *)

LEMMA RegisterClients ==
  ASSUME TypeOK, ClientsAreOpen, NEW e \in Conns, RegisterClient(e)
  PROVE  ClientsAreOpen'
<1>1. /\ clients \in Seq(Conns) /\ clients' = Append(clients, e)
      /\ srvEnd \in [Conns -> SrvStates] /\ srvEnd[e] = "UNUSED"
      /\ srvEnd' = [srvEnd EXCEPT ![e] = "OPEN"]
  BY DEF RegisterClient, With, AcceptConnection, TypeOK, TransportTypeOK, ServerTypeOK
<1>2. /\ DOMAIN clients = 1..Len(clients) /\ DOMAIN clients' = 1..(Len(clients) + 1)
      /\ Len(clients) \in Nat
      /\ clients'[Len(clients) + 1] = e
      /\ \A i \in 1..Len(clients) : clients'[i] = clients[i]
  BY <1>1
<1>3. \A i \in 1..Len(clients) : clients[i] # e
  BY <1>1, <1>2 DEF ClientsAreOpen
<1>4. ASSUME NEW f \in Conns
      PROVE  srvEnd'[f] = "OPEN" <=> \E i \in DOMAIN clients' : clients'[i] = f
  <2>1. CASE f = e
    BY <1>1, <1>2, <2>1
  <2>2. CASE f # e
    <3>1. srvEnd'[f] = srvEnd[f]
      BY <1>1, <2>2
    <3> QED BY <1>2, <2>2, <3>1 DEF ClientsAreOpen
  <2> QED BY <2>1, <2>2
<1>5. \A i, j \in DOMAIN clients' : clients'[i] = clients'[j] => i = j
  BY <1>2, <1>3 DEF ClientsAreOpen
<1> QED BY <1>4, <1>5 DEF ClientsAreOpen

LEMMA UnregisterClients ==
  ASSUME TypeOK, ClientsAreOpen, NEW e \in Conns, UnregisterClient(e)
  PROVE  ClientsAreOpen'
<1>1. /\ clients \in Seq(Conns) /\ srvEnd \in [Conns -> SrvStates] /\ srvEnd[e] = "OPEN"
      /\ srvEnd' = [srvEnd EXCEPT ![e] = "CLOSED"] /\ clients' = Without(e)
  BY DEF UnregisterClient, ServerEndCloses, TypeOK, TransportTypeOK, ServerTypeOK
<1>2. \E i \in DOMAIN clients : clients[i] = e
  BY <1>1 DEF ClientsAreOpen
<1>3. PICK x : /\ x \in DOMAIN clients /\ clients[x] = e
               /\ clients' = SubSeq(clients, 1, x - 1) \o SubSeq(clients, x + 1, Len(clients))
  BY <1>1, <1>2 DEF Without
<1>4. /\ Len(clients) \in Nat /\ DOMAIN clients = 1..Len(clients) /\ x \in 1..Len(clients)
      /\ DOMAIN clients' = 1..(Len(clients) - 1)
      /\ \A i \in 1..(Len(clients) - 1) : clients'[i] = IF i < x THEN clients[i] ELSE clients[i + 1]
  <2> DEFINE a == SubSeq(clients, 1, x - 1)
             b == SubSeq(clients, x + 1, Len(clients))
  <2>1. Len(clients) \in Nat /\ DOMAIN clients = 1..Len(clients) /\ x \in 1..Len(clients)
    BY <1>1, <1>3
  <2>2. /\ a \in Seq(Conns) /\ Len(a) = x - 1
        /\ \A i \in 1..(x - 1) : a[i] = clients[i]
    BY <1>1, <2>1
  <2>3. /\ b \in Seq(Conns) /\ Len(b) = Len(clients) - x
        /\ \A i \in 1..(Len(clients) - x) : b[i] = clients[x + i]
    <3>1. /\ x + 1 \in Int /\ Len(clients) \in Int
          /\ \A i \in (x + 1)..Len(clients) : clients[i] \in Conns
      BY <1>1, <2>1
    <3>2. /\ b \in Seq(Conns)
          /\ Len(b) = IF x + 1 <= Len(clients) THEN Len(clients) - (x + 1) + 1 ELSE 0
          /\ \A i \in 1..(Len(clients) - (x + 1) + 1) : b[i] = clients[(x + 1) + i - 1]
      BY <3>1, SubSeqProperties
    <3> HIDE DEF b
    <3>3. Len(b) = Len(clients) - x
      <4> DEFINE n == Len(clients)
      <4>1. n \in Nat /\ x \in 1..n
        BY <2>1
      <4>2. Len(b) = IF x + 1 <= n THEN n - (x + 1) + 1 ELSE 0
        BY <3>2
      <4> HIDE DEF n
      <4>3. Len(b) = n - x
        BY <4>1, <4>2
      <4> QED BY <4>3 DEF n
    <3>4. ASSUME NEW i \in 1..(Len(clients) - x)
          PROVE  b[i] = clients[x + i]
      <4>1. i \in 1..(Len(clients) - (x + 1) + 1) /\ (x + 1) + i - 1 = x + i
        BY <2>1
      <4> QED BY <3>2, <4>1
    <3> QED BY <3>2, <3>3, <3>4
  <2> HIDE DEF a, b
  <2>4. clients' = a \o b
    BY <1>3 DEF a, b
  <2>5. DOMAIN clients' = 1..(Len(clients) - 1)
    <3>1. Len(a \o b) = Len(a) + Len(b) /\ DOMAIN (a \o b) = 1..Len(a \o b)
      BY <2>2, <2>3
    <3> QED BY <2>1, <2>2, <2>3, <2>4, <3>1
  <2>6. ASSUME NEW i \in 1..(Len(clients) - 1)
        PROVE  clients'[i] = IF i < x THEN clients[i] ELSE clients[i + 1]
    <3>1. CASE i < x
      BY <2>1, <2>2, <2>3, <2>4, <3>1
    <3>2. CASE ~(i < x)
      <4>1. clients'[i] = b[i - (x - 1)] /\ i - (x - 1) \in 1..(Len(clients) - x)
        BY <2>1, <2>2, <2>3, <2>4, <3>2
      <4>2. b[i - (x - 1)] = clients[x + (i - (x - 1))] /\ x + (i - (x - 1)) = i + 1
        BY <2>1, <2>3, <4>1
      <4> QED BY <3>2, <4>1, <4>2
    <3> QED BY <3>1, <3>2
  <2> QED BY <2>1, <2>5, <2>6
<1>5. ASSUME NEW i \in DOMAIN clients'
      PROVE  \E k \in DOMAIN clients : /\ k # x /\ clients'[i] = clients[k]
                                       /\ k = IF i < x THEN i ELSE i + 1
  BY <1>4
<1>6. ASSUME NEW k \in DOMAIN clients, k # x
      PROVE  \E i \in DOMAIN clients' : clients'[i] = clients[k]
  <2>1. CASE k < x
    BY <1>4, <2>1
  <2>2. CASE k > x
    <3>1. k - 1 \in DOMAIN clients' /\ ~(k - 1 < x) /\ (k - 1) + 1 = k
      BY <1>4, <2>2
    <3> QED BY <1>4, <3>1
  <2> QED BY <1>4, <1>6, <2>1, <2>2
<1>7. ASSUME NEW f \in Conns
      PROVE  srvEnd'[f] = "OPEN" <=> \E i \in DOMAIN clients' : clients'[i] = f
  <2>1. CASE f = e
    <3>1. srvEnd'[f] # "OPEN"
      BY <1>1, <2>1
    <3>2. \A k \in DOMAIN clients : k # x => clients[k] # e
      BY <1>3 DEF ClientsAreOpen
    <3> QED BY <1>5, <2>1, <3>1, <3>2
  <2>2. CASE f # e
    <3>1. srvEnd'[f] = srvEnd[f]
      BY <1>1, <2>2
    <3>2. srvEnd[f] = "OPEN" <=> \E k \in DOMAIN clients : clients[k] = f
      BY DEF ClientsAreOpen
    <3>3. ASSUME NEW k \in DOMAIN clients, clients[k] = f
          PROVE  \E i \in DOMAIN clients' : clients'[i] = f
      BY <1>3, <1>6, <2>2, <3>3
    <3>4. ASSUME NEW i \in DOMAIN clients', clients'[i] = f
          PROVE  \E k \in DOMAIN clients : clients[k] = f
      BY <1>5, <3>4
    <3> QED BY <3>1, <3>2, <3>3, <3>4
  <2> QED BY <2>1, <2>2
<1>8. ASSUME NEW i \in DOMAIN clients', NEW j \in DOMAIN clients', clients'[i] = clients'[j]
      PROVE  i = j
  <2>1. PICK k \in DOMAIN clients : clients'[i] = clients[k] /\ k = IF i < x THEN i ELSE i + 1
    BY <1>5
  <2>2. PICK l \in DOMAIN clients : clients'[j] = clients[l] /\ l = IF j < x THEN j ELSE j + 1
    BY <1>5
  <2>3. k = l
    BY <1>8, <2>1, <2>2 DEF ClientsAreOpen
  <2> QED BY <1>4, <2>1, <2>2, <2>3
<1> QED BY <1>7, <1>8 DEF ClientsAreOpen

(* The server's list of clients names every open connection once and no other,
   through breaks on either side and ends of the process. *)
THEOREM ClientsCorrect == Spec => []ClientsAreOpen
<1>1. Init => ClientsAreOpen
  BY DEF Init, TransportInit, ServerInit, ClientsAreOpen
<1>2. TypeOK /\ ClientsAreOpen /\ [Next]_vars => ClientsAreOpen'
  <2> SUFFICES ASSUME TypeOK, ClientsAreOpen, [Next]_vars
               PROVE  ClientsAreOpen'
    OBVIOUS
  <2>1. CASE UNCHANGED <<clients, srvEnd>>
    BY <2>1 DEF ClientsAreOpen
  <2>2. CASE ProcessEnds
    <3>1. clients' = <<>> /\ \A f \in Conns : srvEnd'[f] # "OPEN"
      BY <2>2 DEF ProcessEnds, TypeOK, TransportTypeOK
    <3> QED BY <3>1 DEF ClientsAreOpen
  <2>3. CASE BrowserNext /\ UNCHANGED serverVars
    <3>1. UNCHANGED <<clients, srvEnd>>
      BY <2>3
      DEF BrowserNext, PageStep, StoreStep, SocketStep, Call, Notify, OnAttempt, AttemptReconnect,
          Reload, PageRestarts, AddCommits, FlushSends, FlushAborts, FlushCommits, OnOpen,
          SocketOpens, OnClose, SocketCloses, OnResponse, transportVars, serverVars
    <3> QED BY <2>1, <3>1
  <2>4. CASE ServerNext
    BY <2>1, <2>2, <2>4, RegisterClients, UnregisterClients
    DEF ServerNext, ServerReads, ReceiveRequest, ReceiveNotification, PromiseResolves,
        PromiseRejects, ServerDies, NotificationKillsServer, RejectionKillsServer, transportVars
  <2> QED BY <2>1, <2>3, <2>4 DEF Next, vars, transportVars, serverVars
<1> QED BY <1>1, <1>2, TypeCorrect, PTL DEF Spec

-----------------------------------------------------------------------------
(* What the notification store holds.                                       *)

\* The notification store, its transactions and what a flush has sent hold no
\* requests: a rollback cannot bring a call back, a reload forgets none twice.
StoreHoldsNotes ==
  /\ \A i \in DOMAIN store : IsNotification(store[i])
  /\ \A i \in DOMAIN flushed : IsNotification(flushed[i])
  /\ \A i \in DOMAIN txs : txs[i].op = "add" => IsNotification(txs[i].msg)

NotesStored == TypeOK /\ StoreHoldsNotes

\* What goes into the store is a notification, and it comes out as one.
LEMMA NextStore ==
  ASSUME TypeOK, StoreHoldsNotes, [Next]_vars
  PROVE  StoreHoldsNotes'
<1> USE DEF StoreHoldsNotes
<1>1. store \in Seq(Message) /\ flushed \in Seq(Message) /\ txs \in Seq(Transactions)
  BY DEF TypeOK, RpcTypeOK
<1>2. CASE Notify
  <2> DEFINE m == Notification(nnotes + 1)
  <2>1. UNCHANGED <<store, flushed>> /\ (txs' = txs \/ txs' = Append(txs, AddTx(m)))
    BY <1>2 DEF Notify, SendOrStore
  <2>2. AddTx(m).msg = m /\ IsNotification(m)
    BY DEF AddTx, IsNotification, Notification
  <2> QED BY <1>1, <2>1, <2>2
<1>3. CASE \E e \in Conns : OnOpen(e)
  <2>1. UNCHANGED <<store, flushed>> /\ txs' = Append(txs, FlushTx)
    BY <1>3 DEF OnOpen, StartFlush
  <2>2. FlushTx.op # "add"
    BY DEF FlushTx
  <2> QED BY <1>1, <2>1, <2>2
<1>4. ASSUME Rollback
      PROVE  /\ \A i \in DOMAIN store' : IsNotification(store'[i])
             /\ \A i \in DOMAIN flushed' : IsNotification(flushed'[i])
  BY <1>1, <1>4 DEF Rollback
<1>5. CASE Reload
  BY <1>4, <1>5 DEF Reload, PageRestarts
<1>6. CASE AddCommits
  <2>1. txs # <<>> /\ Head(txs) = txs[1] /\ 1 \in DOMAIN txs /\ Head(txs).op = "add"
    BY <1>1, <1>6, TailIndices DEF AddCommits, Running
  <2>2. IsNotification(Head(txs).msg)
    BY <2>1
  <2>3. store' = Append(store, Head(txs).msg) /\ txs' = Tail(txs) /\ flushed' = flushed
    BY <1>6 DEF AddCommits
  <2>4. \A i \in DOMAIN txs' : txs'[i].op = "add" => IsNotification(txs'[i].msg)
    BY <1>1, <2>1, <2>3, TailIndices
  <2> QED BY <1>1, <2>2, <2>3, <2>4
<1>7. CASE FlushSends
  <2>1. store # <<>> /\ Head(store) = store[1] /\ 1 \in DOMAIN store
    BY <1>1, <1>7, TailIndices DEF FlushSends
  <2>2. store' = Tail(store) /\ flushed' = Append(flushed, Head(store)) /\ txs' = txs
    BY <1>7 DEF FlushSends, CursorDeletes
  <2>3. \A i \in DOMAIN store' : IsNotification(store'[i])
    BY <1>1, <2>1, <2>2, TailIndices
  <2> QED BY <1>1, <2>1, <2>2, <2>3
<1>8. CASE FlushAborts \/ FlushCommits
  <2>1. txs # <<>> /\ txs' = Tail(txs)
    BY <1>8 DEF FlushAborts, FlushCommits, Running
  <2>2. \A i \in DOMAIN txs' : txs'[i].op = "add" => IsNotification(txs'[i].msg)
    BY <1>1, <2>1, TailIndices
  <2> QED BY <1>4, <1>8, <2>2 DEF FlushAborts, FlushCommits
<1>9. CASE UNCHANGED <<store, flushed, txs>>
  BY <1>9
<1> QED
  BY <1>2, <1>3, <1>5, <1>6, <1>7, <1>8, <1>9
  DEF Next, BrowserNext, PageStep, StoreStep, SocketStep, Call, OnAttempt, OnClose,
      OnResponse, dbVars, browserVars, vars

LEMMA NotesStoredInvariant == Spec => []NotesStored
<1>1. Init => NotesStored
  <2> SUFFICES ASSUME Init PROVE NotesStored
    OBVIOUS
  <2>1. store = <<>> /\ txs = <<>> /\ flushed = <<>>
    BY DEF Init, RpcInit, StoreInit
  <2> QED BY <2>1, InitType DEF NotesStored, StoreHoldsNotes
<1>2. NotesStored /\ [Next]_vars => NotesStored'
  BY NextType, NextStore DEF NotesStored
<1> QED BY <1>1, <1>2, PTL DEF Spec

-----------------------------------------------------------------------------
(* What is gone stays gone, and what is sent is gone.                       *)

\* A message that send() takes is on its way or discarded, and none that was
\* either ceases to be.
LEMMA SendingGoes ==
  ASSUME TypeOK, NEW m \in Message, SendData(<<m>>), UNCHANGED <<got, forgotten>>
  PROVE  Gone(m)' /\ \A x : Gone(x) => Gone(x)'
<1>1. /\ socket \in Conns /\ c2s \in [Conns -> Seq(Message)]
      /\ c2s[socket] \in Seq(Message) /\ <<m>> \in Seq(Message)
  BY DEF TypeOK, TransportTypeOK, SocketTypeOK
<1>2. Range(<<m>>) = {m} /\ {<<m>>[i] : i \in DOMAIN <<m>>} = {m}
  BY DEF Range
<1>3. CASE cliEnd[socket] = "OPEN"
  <2>1. c2s' = [c2s EXCEPT ![socket] = @ \o <<m>>] /\ discarded' = discarded
    BY <1>3 DEF SendData
  <2>2. /\ c2s'[socket] = c2s[socket] \o <<m>>
        /\ \A e \in Conns : e # socket => c2s'[e] = c2s[e]
    BY <1>1, <2>1
  <2>3. \A e \in Conns : Range(c2s[e]) \subseteq Range(c2s'[e])
    <3>1. PICK s : s = <<m>>
      OBVIOUS
    <3>2. s \in Seq(Message) /\ Range(s) = {m}
      BY <1>1, <1>2, <3>1
    <3>3. Range(c2s[socket] \o s) = Range(c2s[socket]) \cup Range(s)
      BY <1>1, <3>2, JoinRange
    <3> QED BY <2>2, <3>1, <3>2, <3>3
  <2>4. m \in Range(c2s'[socket])
    <3>1. PICK s : s = <<m>>
      OBVIOUS
    <3>2. s \in Seq(Message) /\ Range(s) = {m}
      BY <1>1, <1>2, <3>1
    <3>3. Range(c2s[socket] \o s) = Range(c2s[socket]) \cup Range(s)
      BY <1>1, <3>2, JoinRange
    <3> QED BY <2>2, <3>1, <3>2, <3>3
  <2> QED BY <1>1, <2>1, <2>3, <2>4 DEF Gone
<1>4. CASE cliEnd[socket] # "OPEN"
  <2>1. c2s' = c2s /\ discarded' = discarded \cup {m}
    BY <1>2, <1>4 DEF SendData
  <2> QED BY <2>1 DEF Gone
<1> QED BY <1>3, <1>4

LEMMA TakingGoes ==
  ASSUME TypeOK, NEW e \in Conns, ServerTakes(e), UNCHANGED <<discarded, forgotten>>,
         NEW m \in Message, Gone(m),
         got[m.id] > 0 => got'[m.id] > 0,
         m = Head(c2s[e]) => got'[m.id] > 0
  PROVE  Gone(m)'
<1>1. /\ c2s \in [Conns -> Seq(Message)] /\ c2s[e] \in Seq(Message) /\ c2s[e] # <<>>
      /\ c2s'[e] = Tail(c2s[e]) /\ \A d \in Conns : d # e => c2s'[d] = c2s[d]
  BY DEF ServerTakes, TypeOK, TransportTypeOK
<1>2. Range(c2s[e]) = {Head(c2s[e])} \cup Range(Tail(c2s[e]))
  BY <1>1, TailRange
<1>3. CASE m = Head(c2s[e])
  BY <1>3 DEF Gone
<1>4. CASE m # Head(c2s[e])
  BY <1>1, <1>2, <1>4 DEF Gone
<1> QED BY <1>3, <1>4

LEMMA ServerKeepsGone ==
  ASSUME TypeOK, ServerNext, UNCHANGED browserVars, NEW m \in Message, IsNotification(m), Gone(m)
  PROVE  Gone(m)'
<1>1. UNCHANGED forgotten /\ m.id \in Notes /\ got \in [Notes -> Nat]
  BY MessageFields DEF browserVars, TypeOK, ServerTypeOK
<1>2. ASSUME UNCHANGED <<c2s, discarded, got>>
      PROVE  Gone(m)'
  BY <1>1, <1>2 DEF Gone
<1>3. ASSUME NEW e \in Conns, NEW k, ReceiveRequest(e, k)
      PROVE  Gone(m)'
  <2>1. ServerTakes(e) /\ UNCHANGED <<discarded, got>> /\ IsRequest(Head(c2s[e]))
    BY <1>3 DEF ReceiveRequest
  <2>2. m # Head(c2s[e])
    BY <2>1 DEF IsRequest, IsNotification
  <2> QED BY <1>1, <2>1, <2>2, TakingGoes
<1>4. ASSUME NEW e \in Conns, TakeNotification(e), UNCHANGED discarded
      PROVE  Gone(m)'
  <2>1. ServerTakes(e) /\ IsNotification(Head(c2s[e]))
        /\ got' = [got EXCEPT ![Head(c2s[e]).id] = @ + 1]
    BY <1>4 DEF TakeNotification
  <2>2. got[m.id] > 0 => got'[m.id] > 0
    BY <1>1, <2>1
  <2>3. m = Head(c2s[e]) => got'[m.id] > 0
    BY <1>1, <2>1
  <2> QED BY <1>1, <1>4, <2>1, <2>2, <2>3, TakingGoes
<1>5. CASE \E e \in Conns : RegisterClient(e) \/ UnregisterClient(e)
  BY <1>2, <1>5 DEF RegisterClient, UnregisterClient, AcceptConnection, ServerEndCloses
<1>6. CASE \E e \in Conns, k \in HandlerKinds : ServerReads(e, k)
  BY <1>3, <1>4, <1>6 DEF ServerReads, ReceiveNotification
<1>7. CASE \E w \in work : PromiseResolves(w) \/ PromiseRejects(w)
  BY <1>2, <1>7 DEF PromiseResolves, PromiseRejects, transportVars
<1>8. CASE ServerDies
  BY <1>2, <1>4, <1>8 DEF ServerDies, NotificationKillsServer, RejectionKillsServer
<1> QED BY <1>5, <1>6, <1>7, <1>8 DEF ServerNext

\* Sending happens in four actions; a reload adds to what died with a page.
LEMMA BrowserKeepsGone ==
  ASSUME TypeOK, BrowserNext, UNCHANGED serverVars, NEW m, Gone(m)
  PROVE  Gone(m)'
<1>1. UNCHANGED got
  BY DEF serverVars
<1>2. ASSUME UNCHANGED <<c2s, discarded>>, forgotten \subseteq forgotten'
      PROVE  Gone(m)'
  BY <1>1, <1>2 DEF Gone
<1>3. ASSUME NEW x \in Message, SendData(<<x>>), UNCHANGED forgotten
      PROVE  Gone(m)'
  BY <1>1, <1>3, SendingGoes
<1>4. CASE Call
  <2>1. Request(ncalls + 1) \in Message
    BY <1>4, MessageConstructors DEF Call, NewEntry, Message
  <2> QED BY <1>2, <1>3, <1>4, <2>1 DEF Call, SendOrBuffer
<1>5. CASE Notify
  <2>1. Notification(nnotes + 1) \in Message
    BY <1>5, MessageConstructors DEF Notify, Message
  <2> QED BY <1>2, <1>3, <1>5, <2>1 DEF Notify, SendOrStore
<1>6. CASE FlushSends
  <2>1. store \in Seq(Message) /\ store # <<>>
    BY <1>6 DEF FlushSends, TypeOK, RpcTypeOK
  <2>2. Head(store) \in Message
    BY <2>1
  <2> QED BY <1>3, <1>6, <2>2 DEF FlushSends
<1>7. CASE OnAttempt \/ AddCommits \/ FlushAborts \/ FlushCommits
  BY <1>2, <1>7
  DEF OnAttempt, AttemptReconnect, AddCommits, FlushAborts, FlushCommits, transportVars
<1>8. CASE Reload
  BY <1>2, <1>8 DEF Reload, PageRestarts
<1>9. ASSUME NEW e \in Conns, OnClose(e) \/ OnResponse(e)
      PROVE  Gone(m)'
  BY <1>2, <1>9 DEF OnClose, SocketCloses, OnResponse
<1>10. ASSUME NEW e \in Conns, OnOpen(e)
       PROVE  Gone(m)'
  <2>1. /\ socket \in Conns /\ c2s \in [Conns -> Seq(Message)]
        /\ c2s[socket] \in Seq(Message) /\ buffer \in Seq(Message)
    BY DEF TypeOK, TransportTypeOK, SocketTypeOK, RpcTypeOK, Message
  <2>2. UNCHANGED <<discarded, forgotten>> /\ FlushBuffer
    BY <1>10 DEF OnOpen
  <2>3. CASE c2s' = [c2s EXCEPT ![socket] = @ \o buffer]
    <3>1. \A d \in Conns : Range(c2s[d]) \subseteq Range(c2s'[d])
      BY <2>1, <2>3, JoinRange
    <3> QED BY <1>1, <2>2, <3>1 DEF Gone
  <2> QED BY <1>2, <2>2, <2>3 DEF FlushBuffer
<1> QED BY <1>4, <1>5, <1>6, <1>7, <1>8, <1>9, <1>10
        DEF BrowserNext, PageStep, StoreStep, SocketStep

-----------------------------------------------------------------------------
(* What is held stays held until it is gone.                                *)

\* The message of an add that is queued.
LEMMA QueuedMeans ==
  ASSUME NEW m
  PROVE  m \in QueuedAdds <=> \E k \in DOMAIN txs : txs[k].op = "add" /\ txs[k].msg = m
BY DEF QueuedAdds, Range

\* A queue that only grows keeps its adds.
LEMMA QueueGrows ==
  ASSUME TypeOK, NEW t \in Transactions, txs' = Append(txs, t)
  PROVE  /\ QueuedAdds \subseteq QueuedAdds'
         /\ t.op = "add" => t.msg \in QueuedAdds'
<1>1. txs \in Seq(Transactions)
  BY DEF TypeOK, RpcTypeOK
<1>2. Range(txs') = Range(txs) \cup {t}
  BY <1>1, AppendRange
<1> QED BY <1>2 DEF QueuedAdds

\* Its first transaction, done, takes no other's add along.
LEMMA QueueAdvances ==
  ASSUME TypeOK, txs # <<>>, txs' = Tail(txs), NEW m \in QueuedAdds
  PROVE  \/ m \in QueuedAdds'
         \/ Head(txs).op = "add" /\ m = Head(txs).msg
<1>1. txs \in Seq(Transactions)
  BY DEF TypeOK, RpcTypeOK
<1>2. Range(txs) = {Head(txs)} \cup Range(txs')
  BY <1>1, TailRange
<1> QED BY <1>2 DEF QueuedAdds

LEMMA RollbackKeeps ==
  ASSUME TypeOK, Rollback
  PROVE  Range(store) \subseteq Range(store')
BY JoinRange DEF Rollback, TypeOK, RpcTypeOK

LEMMA HeldStays ==
  ASSUME TypeOK, BrowserNext, UNCHANGED serverVars, NEW m, Held(m)
  PROVE  Held(m)' \/ Gone(m)'
<1>1. /\ store \in Seq(Message) /\ txs \in Seq(Transactions) /\ UNCHANGED got
  BY DEF TypeOK, RpcTypeOK, serverVars
<1>2. ASSUME UNCHANGED <<store, txs>>
      PROVE  Held(m)'
  BY <1>2 DEF Held, QueuedAdds
<1>3. CASE Notify
  <2>1. AddTx(Notification(nnotes + 1)) \in Transactions
    BY <1>3, MessageConstructors DEF Notify, AddTx, Transactions, Message
  <2>2. UNCHANGED store /\ (txs' = txs \/ txs' = Append(txs, AddTx(Notification(nnotes + 1))))
    BY <1>3 DEF Notify, SendOrStore
  <2> QED BY <1>2, <2>1, <2>2, QueueGrows DEF Held
<1>4. CASE AddCommits
  <2>1. /\ txs # <<>> /\ txs' = Tail(txs) /\ Head(txs).op = "add"
        /\ store' = Append(store, Head(txs).msg) /\ Head(txs) \in Transactions
    BY <1>1, <1>4 DEF AddCommits, Running
  <2>2. Head(txs).msg \in Message
    BY <2>1 DEF Transactions, FlushTx
  <2>3. Range(store') = Range(store) \cup {Head(txs).msg}
    BY <1>1, <2>1, <2>2, AppendRange
  <2> QED BY <2>1, <2>3, QueueAdvances DEF Held
<1>5. CASE FlushSends
  <2>1. PICK h : h = Head(store)
    OBVIOUS
  <2>2. store # <<>> /\ SendData(<<h>>) /\ store' = Tail(store) /\ UNCHANGED <<txs, forgotten>>
    BY <1>5, <2>1 DEF FlushSends, CursorDeletes
  <2>3. h \in Message
    BY <1>1, <2>1, <2>2
  <2>4. Gone(h)'
    BY <1>1, <2>2, <2>3, SendingGoes
  <2>5. m \in QueuedAdds => m \in QueuedAdds'
    BY <2>2 DEF QueuedAdds
  <2>6. Range(store) = {h} \cup Range(store')
    BY <1>1, <2>1, <2>2, TailRange
  <2>7. CASE m = h
    BY <2>4, <2>7
  <2>8. CASE m # h
    BY <2>5, <2>6, <2>8 DEF Held
  <2> QED BY <2>7, <2>8
<1>6. CASE FlushAborts
  <2>1. /\ txs # <<>> /\ txs' = Tail(txs) /\ Head(txs).op = "flush" /\ Rollback
    BY <1>6 DEF FlushAborts, Running
  <2> QED BY <2>1, RollbackKeeps, QueueAdvances DEF Held
<1>7. CASE FlushCommits
  <2>1. /\ txs # <<>> /\ txs' = Tail(txs) /\ Head(txs).op = "flush" /\ UNCHANGED store
    BY <1>7 DEF FlushCommits, Running
  <2> QED BY <2>1, QueueAdvances DEF Held
<1>8. CASE Reload
  <2>1. Rollback /\ QueuedAdds \subseteq forgotten'
    BY <1>8 DEF Reload, PageRestarts
  <2> QED BY <2>1, RollbackKeeps DEF Held, Gone
<1>9. ASSUME NEW e \in Conns, OnOpen(e)
      PROVE  Held(m)'
  <2>1. txs' = Append(txs, FlushTx) /\ UNCHANGED store /\ FlushTx \in Transactions
    BY <1>9 DEF OnOpen, StartFlush, Transactions
  <2> QED BY <2>1, QueueGrows DEF Held
<1>10. CASE Call \/ OnAttempt
  BY <1>2, <1>10 DEF Call, OnAttempt, dbVars
<1>11. ASSUME NEW e \in Conns, OnClose(e) \/ OnResponse(e)
       PROVE  Held(m)'
  BY <1>2, <1>11 DEF OnClose, OnResponse, dbVars
<1> QED BY <1>3, <1>4, <1>5, <1>6, <1>7, <1>8, <1>9, <1>10, <1>11
        DEF BrowserNext, PageStep, StoreStep, SocketStep

-----------------------------------------------------------------------------
(* A notification is accounted for.                                         *)

\* A new notification is sent or queued.
LEMMA NotifyAccounts ==
  ASSUME TypeOK, Notify, UNCHANGED serverVars, NEW m, m = Notification(nnotes + 1)
  PROVE  Held(m)' \/ Gone(m)'
<1>2. m \in Message /\ UNCHANGED <<got, forgotten>> /\ SendOrStore(m)
  BY MessageConstructors DEF Notify, Message, serverVars
<1>3. CASE SendData(<<m>>)
  BY <1>2, <1>3, SendingGoes
<1>4. CASE txs' = Append(txs, AddTx(m))
  <2>1. AddTx(m) \in Transactions /\ AddTx(m).op = "add" /\ AddTx(m).msg = m
    BY <1>2 DEF AddTx, Transactions
  <2>2. m \in QueuedAdds'
    BY <1>4, <2>1, QueueGrows
  <2> QED BY <2>2 DEF Held
<1> QED BY <1>2, <1>3, <1>4 DEF SendOrStore

LEMMA NextAccounts ==
  ASSUME TypeOK, NoteAccounted, [Next]_vars
  PROVE  NoteAccounted'
<1>1. nnotes \in Nat /\ nnotes <= MaxNotes /\ MaxNotes \in Nat
  BY JsonRpcAssumption DEF TypeOK, RpcTypeOK
<1>2. \A n \in 1..nnotes : Notification(n) \in Message /\ IsNotification(Notification(n))
  <2>1. 1..nnotes \subseteq Notes
    BY <1>1 DEF Notes
  <2> QED BY <2>1, MessageConstructors DEF Notification, IsNotification
<1>3. CASE BrowserNext /\ UNCHANGED serverVars
  <2>1. \A n \in 1..nnotes : Held(Notification(n))' \/ Gone(Notification(n))'
    BY <1>3, HeldStays, BrowserKeepsGone DEF NoteAccounted
  <2>2. CASE Notify
    <3>1. \A n \in 1..nnotes' : n \in 1..nnotes \/ n = nnotes + 1
      BY <1>1, <2>2 DEF Notify
    <3>2. ASSUME NEW n, n = nnotes + 1
          PROVE  Held(Notification(n))' \/ Gone(Notification(n))'
      BY <1>3, <2>2, <3>2, NotifyAccounts
    <3>3. ASSUME NEW n \in 1..nnotes'
          PROVE  Held(Notification(n))' \/ Gone(Notification(n))'
      BY <2>1, <3>1, <3>2
    <3> QED BY <3>3 DEF NoteAccounted
  <2>3. CASE ~Notify
    <3>1. UNCHANGED nnotes
      BY <1>3, <2>3
      DEF BrowserNext, PageStep, StoreStep, SocketStep, Call, OnAttempt, Reload, PageRestarts,
          AddCommits, FlushSends, FlushAborts, FlushCommits, OnOpen, OnClose, OnResponse, rpcVars
    <3> QED BY <2>1, <3>1 DEF NoteAccounted
  <2> QED BY <2>2, <2>3
<1>4. CASE ServerNext /\ UNCHANGED browserVars
  <2>1. UNCHANGED <<nnotes, store, txs>>
    BY <1>4 DEF browserVars, rpcVars, dbVars
  <2>2. \A m : Held(m) => Held(m)'
    BY <2>1 DEF Held, QueuedAdds
  <2> QED BY <1>2, <1>4, <2>1, <2>2, ServerKeepsGone DEF NoteAccounted
<1>5. CASE UNCHANGED vars
  BY <1>5 DEF vars, transportVars, rpcVars, dbVars, serverVars, NoteAccounted, Held, QueuedAdds, Gone
<1> QED BY <1>3, <1>4, <1>5 DEF Next

(* Every notification given to notify() is in the store or queued for it, on
   its way, at the server, or in one of the two recorded ways of dying,
   through aborted flushes, reconnections, reloads and restarts. *)
THEOREM NotesAccounted == Spec => []NoteAccounted
<1>1. Init => NoteAccounted
  BY DEF Init, RpcInit, StoreInit, NoteAccounted
<1>2. TypeOK /\ NoteAccounted /\ [Next]_vars => NoteAccounted'
  BY NextAccounts
<1> QED BY <1>1, <1>2, TypeCorrect, PTL DEF Spec

-----------------------------------------------------------------------------
(* The order of what is stored, sent by a flush and queued.                 *)

\* The adds in the transactions ts are in order, come after what is in s, and
\* were notified before n.
AddsOrdered(ts) ==
  \A i, j \in DOMAIN ts :
    i < j /\ ts[i].op = "add" /\ ts[j].op = "add" => ts[i].msg.id < ts[j].msg.id

AddsAbove(ts, s) ==
  \A k \in DOMAIN ts : ts[k].op = "add" => AllBelow(s, "notification", ts[k].msg.id)

AddsBelow(ts, n) == \A k \in DOMAIN ts : ts[k].op = "add" => ts[k].msg.id < n

\* What a flush has sent, the store and the queued adds, one after the other,
\* and all of it before what is notified next.
NoteOrder ==
  /\ Ordered(flushed, "notification") /\ Ordered(store, "notification")
  /\ Below(flushed, store, "notification")
  /\ AddsOrdered(txs) /\ AddsAbove(txs, flushed) /\ AddsAbove(txs, store)
  /\ AllBelow(flushed, "notification", nnotes + 1)
  /\ AllBelow(store, "notification", nnotes + 1)
  /\ AddsBelow(txs, nnotes + 1)

LEMMA AllBelowAppend ==
  ASSUME NEW S, NEW s \in Seq(S), NEW m \in S, NEW k, NEW n, AllBelow(s, k, n), m.id < n
  PROVE  AllBelow(Append(s, m), k, n)
<1>1. \A i \in DOMAIN Append(s, m) :
        Append(s, m)[i] = m \/ (i \in DOMAIN s /\ Append(s, m)[i] = s[i])
  OBVIOUS
<1> QED BY <1>1 DEF AllBelow

LEMMA AllBelowTail ==
  ASSUME NEW S, NEW s \in Seq(S), s # <<>>, NEW k, NEW n, AllBelow(s, k, n)
  PROVE  AllBelow(Tail(s), k, n)
BY TailIndices DEF AllBelow

LEMMA AllBelowJoin ==
  ASSUME NEW S, NEW s \in Seq(S), NEW t \in Seq(S), NEW k, NEW n,
         AllBelow(s, k, n), AllBelow(t, k, n)
  PROVE  AllBelow(s \o t, k, n)
BY JoinIsEither DEF AllBelow

\* Transactions that lose their first, or gain one.
LEMMA TailAdds ==
  ASSUME NEW S, NEW ts \in Seq(S), ts # <<>>, AddsOrdered(ts)
  PROVE  /\ AddsOrdered(Tail(ts))
         /\ ts[1].op = "add" => \A k \in DOMAIN Tail(ts) :
              Tail(ts)[k].op = "add" => ts[1].msg.id < Tail(ts)[k].msg.id
         /\ \A s : AddsAbove(ts, s) => AddsAbove(Tail(ts), s)
         /\ \A n : AddsBelow(ts, n) => AddsBelow(Tail(ts), n)
<1> DEFINE u == Tail(ts)
<1>1. \A k \in DOMAIN u : k + 1 \in DOMAIN ts /\ u[k] = ts[k + 1] /\ k \in Nat /\ k + 1 > 1
  BY TailIndices
<1>2. 1 \in DOMAIN ts
  BY TailIndices
<1> HIDE DEF u
<1>3. AddsOrdered(u)
  <2> SUFFICES ASSUME NEW i \in DOMAIN u, NEW j \in DOMAIN u, i < j,
                      u[i].op = "add", u[j].op = "add"
               PROVE  u[i].msg.id < u[j].msg.id
    BY DEF AddsOrdered
  <2>1. i + 1 < j + 1
    BY <1>1
  <2> QED BY <1>1, <2>1 DEF AddsOrdered
<1>4. ts[1].op = "add" => \A k \in DOMAIN u : u[k].op = "add" => ts[1].msg.id < u[k].msg.id
  BY <1>1, <1>2 DEF AddsOrdered
<1>5. \A s : AddsAbove(ts, s) => AddsAbove(u, s)
  BY <1>1 DEF AddsAbove
<1>6. \A n : AddsBelow(ts, n) => AddsBelow(u, n)
  BY <1>1 DEF AddsBelow
<1> QED BY <1>3, <1>4, <1>5, <1>6 DEF u

LEMMA AppendAdds ==
  ASSUME NEW S, NEW ts \in Seq(S), NEW t \in S, AddsOrdered(ts),
         t.op = "add" => AddsBelow(ts, t.msg.id)
  PROVE  /\ AddsOrdered(Append(ts, t))
         /\ \A s : AddsAbove(ts, s) /\ (t.op = "add" => AllBelow(s, "notification", t.msg.id))
                     => AddsAbove(Append(ts, t), s)
         /\ \A n : AddsBelow(ts, n) /\ (t.op = "add" => t.msg.id < n)
                     => AddsBelow(Append(ts, t), n)
<1>1. /\ DOMAIN ts = 1..Len(ts) /\ DOMAIN Append(ts, t) = 1..(Len(ts) + 1) /\ Len(ts) \in Nat
      /\ Append(ts, t)[Len(ts) + 1] = t /\ \A i \in 1..Len(ts) : Append(ts, t)[i] = ts[i]
  OBVIOUS
<1>2. AddsOrdered(Append(ts, t))
  BY <1>1 DEF AddsOrdered, AddsBelow
<1>3. \A k \in DOMAIN Append(ts, t) :
        Append(ts, t)[k] = t \/ (k \in DOMAIN ts /\ Append(ts, t)[k] = ts[k])
  BY <1>1
<1>4. \A s : AddsAbove(ts, s) /\ (t.op = "add" => AllBelow(s, "notification", t.msg.id))
               => AddsAbove(Append(ts, t), s)
  BY <1>3 DEF AddsAbove
<1>5. \A n : AddsBelow(ts, n) /\ (t.op = "add" => t.msg.id < n) => AddsBelow(Append(ts, t), n)
  BY <1>3 DEF AddsBelow
<1> QED BY <1>2, <1>4, <1>5

LEMMA NoteOrderMeans ==
  ASSUME NotesStored, NoteOrder
  PROVE  OfflineOrderKept
<1> DEFINE s == flushed \o store
<1>1. flushed \in Seq(Message) /\ store \in Seq(Message)
  BY DEF NotesStored, TypeOK, RpcTypeOK
<1>2. Ordered(s, "notification")
  BY <1>1, JoinOrdered DEF NoteOrder
<1>3. \A i \in DOMAIN s : s[i].kind = "notification"
  BY <1>1, JoinIsEither DEF NotesStored, StoreHoldsNotes, IsNotification
<1>4. \A k \in DOMAIN txs : txs[k].op = "add" => AllBelow(s, "notification", txs[k].msg.id)
  BY <1>1, AllBelowJoin DEF NoteOrder, AddsAbove
<1> HIDE DEF s
<1>5. \A i, j \in DOMAIN s : i < j => s[i].id < s[j].id
  BY <1>2, <1>3 DEF Ordered
<1>6. \A i \in DOMAIN s, k \in {l \in DOMAIN txs : txs[l].op = "add"} : s[i].id < txs[k].msg.id
  BY <1>3, <1>4 DEF AllBelow
<1>7. \A i, j \in {l \in DOMAIN txs : txs[l].op = "add"} :
        i < j => txs[i].msg.id < txs[j].msg.id
  BY DEF NoteOrder, AddsOrdered
<1> QED BY <1>5, <1>6, <1>7 DEF OfflineOrderKept, s

\* The transaction at the head of the queue is over.
LEMMA HeadDone ==
  ASSUME NotesStored, NoteOrder, txs # <<>>, txs' = Tail(txs), UNCHANGED nnotes
  PROVE  /\ AddsOrdered(txs') /\ AddsBelow(txs', nnotes' + 1)
         /\ AddsAbove(txs', store) /\ AddsAbove(txs', flushed)
<1>1. txs \in Seq(Transactions)
  BY DEF NotesStored, TypeOK, RpcTypeOK
<1> QED BY <1>1, TailAdds DEF NoteOrder

LEMMA RollbackOrder ==
  ASSUME NotesStored, NoteOrder, Rollback, UNCHANGED nnotes,
         AddsOrdered(txs'), AddsBelow(txs', nnotes + 1),
         AddsAbove(txs', store), AddsAbove(txs', flushed)
  PROVE  NoteOrder'
<1>1. flushed \in Seq(Message) /\ store \in Seq(Message)
  BY DEF NotesStored, TypeOK, RpcTypeOK
<1>2. store' = flushed \o store /\ flushed' = <<>>
  BY DEF Rollback
<1>3. Ordered(flushed \o store, "notification")
  BY <1>1, JoinOrdered DEF NoteOrder
<1>4. AllBelow(flushed \o store, "notification", nnotes + 1)
  BY <1>1, AllBelowJoin DEF NoteOrder
<1>5. AddsAbove(txs', flushed \o store)
  BY <1>1, AllBelowJoin DEF AddsAbove
<1>6. AllBelow(<<>>, "notification", nnotes + 1) /\ AddsAbove(txs', <<>>)
  BY DEF AllBelow, AddsAbove
<1> QED BY <1>2, <1>3, <1>4, <1>5, <1>6, EmptyOrdered DEF NoteOrder

LEMMA AddCommitsOrder ==
  ASSUME NotesStored, NoteOrder, AddCommits
  PROVE  NoteOrder'
<1>1. PICK m : m = Head(txs).msg
  OBVIOUS
<1>2. /\ txs \in Seq(Transactions) /\ txs # <<>> /\ txs' = Tail(txs) /\ Head(txs) = txs[1]
      /\ 1 \in DOMAIN txs /\ txs[1].op = "add" /\ txs[1].msg = m
      /\ store' = Append(store, m) /\ UNCHANGED <<flushed, nnotes>>
  BY <1>1, TailIndices DEF AddCommits, Running, rpcVars, NotesStored, TypeOK, RpcTypeOK
<1>3. store \in Seq(Message) /\ flushed \in Seq(Message) /\ m \in Message
  BY <1>2 DEF NotesStored, TypeOK, RpcTypeOK, Transactions, FlushTx
<1>4. /\ AllBelow(store, "notification", m.id) /\ AllBelow(flushed, "notification", m.id)
      /\ m.id < nnotes + 1
  BY <1>2 DEF NoteOrder, AddsAbove, AddsBelow
<1>5. Ordered(Append(store, m), "notification")
  BY <1>3, <1>4, AppendOrdered DEF NoteOrder
<1>6. AllBelow(Append(store, m), "notification", nnotes + 1)
  BY <1>3, <1>4, AllBelowAppend DEF NoteOrder
<1>7. Below(flushed, Append(store, m), "notification")
  <2>1. \A i \in DOMAIN Append(store, m) :
          Append(store, m)[i] = m \/ (i \in DOMAIN store /\ Append(store, m)[i] = store[i])
    BY <1>3
  <2> QED BY <1>4, <2>1 DEF NoteOrder, Below, AllBelow
<1>8. AddsOrdered(txs') /\ AddsBelow(txs', nnotes' + 1) /\ AddsAbove(txs', store) /\ AddsAbove(txs', flushed)
  BY <1>2, HeadDone
<1>9. AddsAbove(txs', Append(store, m))
  <2>1. \A k \in DOMAIN txs' : txs'[k].op = "add" => m.id < txs'[k].msg.id
    BY <1>2, TailAdds DEF NoteOrder
  <2> QED BY <1>3, <1>8, <2>1, AllBelowAppend DEF AddsAbove
<1> QED BY <1>2, <1>5, <1>6, <1>7, <1>8, <1>9 DEF NoteOrder

LEMMA FlushSendsOrder ==
  ASSUME NotesStored, NoteOrder, FlushSends
  PROVE  NoteOrder'
<1>1. PICK m : m = Head(store)
  OBVIOUS
<1>2. /\ store \in Seq(Message) /\ flushed \in Seq(Message) /\ store # <<>>
      /\ m = store[1] /\ 1 \in DOMAIN store /\ m \in Message
      /\ store' = Tail(store) /\ flushed' = Append(flushed, m) /\ UNCHANGED <<txs, nnotes>>
  BY <1>1, TailIndices DEF FlushSends, CursorDeletes, rpcVars, NotesStored, TypeOK, RpcTypeOK
<1>3. m.kind = "notification" /\ AllBelow(flushed, "notification", m.id) /\ m.id < nnotes + 1
  <2>1. m.kind = "notification"
    BY <1>2 DEF NotesStored, StoreHoldsNotes, IsNotification
  <2> QED BY <1>2, <2>1 DEF NoteOrder, Below, AllBelow
<1>4. \A k \in DOMAIN txs : txs[k].op = "add" => m.id < txs[k].msg.id
  BY <1>2, <1>3 DEF NoteOrder, AddsAbove, AllBelow
<1>5. /\ Ordered(Append(flushed, m), "notification") /\ Ordered(Tail(store), "notification")
      /\ AllBelow(Append(flushed, m), "notification", nnotes + 1)
      /\ AllBelow(Tail(store), "notification", nnotes + 1)
  BY <1>2, <1>3, AppendOrdered, TailOrdered, AllBelowAppend, AllBelowTail DEF NoteOrder
<1>6. AddsAbove(txs, Append(flushed, m)) /\ AddsAbove(txs, Tail(store))
  BY <1>2, <1>4, AllBelowAppend, AllBelowTail DEF NoteOrder, AddsAbove
<1>7. Below(Append(flushed, m), Tail(store), "notification")
  <2>1. \A i \in DOMAIN Append(flushed, m) :
          Append(flushed, m)[i] = m \/ (i \in DOMAIN flushed /\ Append(flushed, m)[i] = flushed[i])
    BY <1>2
  <2>2. ASSUME NEW j \in DOMAIN Tail(store), Tail(store)[j].kind = "notification"
        PROVE  /\ m.id < Tail(store)[j].id
               /\ \A i \in DOMAIN flushed : flushed[i].kind = "notification" =>
                    flushed[i].id < Tail(store)[j].id
    <3>1. j + 1 \in DOMAIN store /\ Tail(store)[j] = store[j + 1] /\ 1 < j + 1
      BY <1>2, TailIndices
    <3> QED BY <1>2, <1>3, <2>2, <3>1 DEF NoteOrder, Ordered, Below
  <2> QED BY <2>1, <2>2 DEF Below
<1> QED BY <1>2, <1>5, <1>6, <1>7 DEF NoteOrder

LEMMA NextNoteOrder ==
  ASSUME NotesStored, NoteOrder, [Next]_vars
  PROVE  NoteOrder'
<1>1. /\ store \in Seq(Message) /\ flushed \in Seq(Message) /\ txs \in Seq(Transactions)
      /\ nnotes \in Nat
  BY DEF NotesStored, TypeOK, RpcTypeOK
<1>2. CASE UNCHANGED <<store, flushed, txs, nnotes>>
  BY <1>2 DEF NoteOrder
<1>3. CASE Notify
  <2>1. PICK n : n = nnotes + 1
    OBVIOUS
  <2>2. /\ n \in Notes /\ n \in Nat /\ n > nnotes /\ nnotes' = n /\ UNCHANGED <<store, flushed>>
        /\ txs' = txs \/ txs' = Append(txs, AddTx(Notification(n)))
    BY <1>1, <1>3, <2>1 DEF Notify, SendOrStore
  <2>3. AddTx(Notification(n)) \in Transactions /\ AddTx(Notification(n)).msg.id = n
    BY <2>2, MessageConstructors DEF Transactions, AddTx, Notification
  <2>4. \A s : AllBelow(s, "notification", nnotes + 1) => AllBelow(s, "notification", n)
    BY <2>1
  <2>5. n < n + 1
    BY <2>2
  <2>6. /\ AllBelow(flushed, "notification", n + 1) /\ AllBelow(store, "notification", n + 1)
        /\ AddsBelow(txs, n + 1)
    <3>1. /\ \A i \in DOMAIN flushed : flushed[i].kind = "notification" => flushed[i].id \in Nat
          /\ \A i \in DOMAIN store : store[i].kind = "notification" => store[i].id \in Nat
      BY <1>1, MessageFields DEF IsNotification, Notes
    <3>2. \A k \in DOMAIN txs : txs[k].op = "add" => txs[k].msg.id \in Nat
      <4>1. ASSUME NEW k \in DOMAIN txs, txs[k].op = "add"
            PROVE  txs[k].msg.id \in Nat
        <5>1. txs[k].msg \in Message /\ IsNotification(txs[k].msg)
          BY <1>1, <4>1 DEF Transactions, FlushTx, NotesStored, StoreHoldsNotes
        <5> QED BY <5>1, MessageFields DEF Notes
      <4> QED BY <4>1
    <3>3. \A x \in Nat : x < nnotes + 1 => x < n + 1
      BY <1>1, <2>1
    <3> QED BY <3>1, <3>2, <3>3 DEF NoteOrder, AllBelow, AddsBelow
  <2>7. CASE txs' = txs
    BY <2>2, <2>6, <2>7 DEF NoteOrder
  <2>8. CASE txs' = Append(txs, AddTx(Notification(n)))
    <3>1. /\ AddsOrdered(txs') /\ AddsBelow(txs', n + 1)
          /\ AddsAbove(txs', flushed) /\ AddsAbove(txs', store)
      BY <1>1, <2>1, <2>3, <2>5, <2>6, <2>8, AppendAdds DEF NoteOrder
    <3> QED BY <2>2, <2>6, <3>1 DEF NoteOrder
  <2> QED BY <2>2, <2>7, <2>8
<1>4. ASSUME txs' = Append(txs, FlushTx), UNCHANGED <<store, flushed, nnotes>>
      PROVE  NoteOrder'
  <2>1. FlushTx \in Transactions /\ FlushTx.op # "add"
    BY DEF Transactions, FlushTx
  <2> QED BY <1>1, <1>4, <2>1, AppendAdds DEF NoteOrder
<1>5. CASE FlushAborts
  BY <1>5, HeadDone, RollbackOrder DEF FlushAborts, Running, rpcVars
<1>6. CASE FlushCommits
  <2>1. txs # <<>> /\ txs' = Tail(txs) /\ flushed' = <<>> /\ UNCHANGED <<store, nnotes>>
    BY <1>6 DEF FlushCommits, Running, rpcVars
  <2>2. AllBelow(<<>>, "notification", nnotes + 1) /\ AddsAbove(txs', <<>>)
    BY DEF AllBelow, AddsAbove
  <2> QED BY <2>1, <2>2, HeadDone, EmptyOrdered DEF NoteOrder
<1>7. CASE Reload
  <2>1. Rollback /\ txs' = <<>> /\ UNCHANGED nnotes
    BY <1>7 DEF Reload, PageRestarts
  <2>2. /\ AddsOrdered(txs') /\ AddsBelow(txs', nnotes + 1)
        /\ AddsAbove(txs', store) /\ AddsAbove(txs', flushed)
    BY <2>1 DEF AddsOrdered, AddsBelow, AddsAbove
  <2> QED BY <2>1, <2>2, RollbackOrder
<1>8. CASE BrowserNext
  BY <1>2, <1>3, <1>4, <1>5, <1>6, <1>7, <1>8, AddCommitsOrder, FlushSendsOrder
  DEF BrowserNext, PageStep, StoreStep, SocketStep, Call, OnAttempt, OnOpen, StartFlush, OnClose,
      OnResponse, rpcVars, dbVars
<1> QED BY <1>2, <1>8 DEF Next, vars, browserVars, rpcVars, dbVars

(* What was notified offline is replayed in the order it was notified, through
   flushes that are cut short and rolled back, breaks and reloads. *)
THEOREM OfflineOrderCorrect == Spec => []OfflineOrderKept
<1>1. Init => NoteOrder
  BY EmptyOrdered
  DEF Init, RpcInit, StoreInit, NoteOrder, AddsOrdered, AddsAbove, AddsBelow, AllBelow
<1>2. NotesStored /\ NoteOrder /\ [Next]_vars => NoteOrder'
  BY NextNoteOrder
<1>3. NotesStored /\ NoteOrder => OfflineOrderKept
  BY NoteOrderMeans
<1> QED BY <1>1, <1>2, <1>3, NotesStoredInvariant, PTL DEF Spec

-----------------------------------------------------------------------------
(* What is sent twice was rolled back.                                      *)

\* A notification that is held again after it was sent has a rollback of its
\* own to account for the copy that flush will make of it.
CopyInv ==
  /\ OnceInLine
  /\ \A n \in Notes : CopiesBounded(Notification(n), got[n])
  /\ \A n \in Notes : n > nnotes => Unsent(Notification(n), got[n])

LEMMA NotesOf ==
  ASSUME TypeOK
  PROVE  /\ ClientTypeOK /\ nnotes \in Nat
         /\ \A n \in Notes : /\ n \in Nat /\ got[n] \in Nat
                             /\ Notification(n) \in Message /\ ~IsRequest(Notification(n))
                             /\ \A k \in Notes : Notification(n) = Notification(k) => n = k
<1>1. ClientTypeOK /\ nnotes \in Nat
  BY DEF TypeOK, ClientTypeOK, RpcTypeOK
<1>2. \A n \in Notes : n \in Nat /\ got[n] \in Nat /\ Notification(n) \in Message
  BY MessageConstructors DEF TypeOK, ServerTypeOK, Notes
<1>3. \A n \in Notes : /\ ~IsRequest(Notification(n))
                       /\ \A k \in Notes : Notification(n) = Notification(k) => n = k
  BY DEF IsRequest, Notification
<1> QED BY <1>1, <1>2, <1>3

LEMMA NotifyCopies ==
  ASSUME TypeOK, CopyInv, Notify, UNCHANGED got
  PROVE  CopyInv'
<1>0. PICK k, x : k = nnotes + 1 /\ x = Notification(k)
  OBVIOUS
<1>1. k \in Notes /\ nnotes' = k /\ k > nnotes
  BY <1>0, NotesOf DEF Notify
<1>2. x \in Message /\ Unsent(x, got[k]) /\ got[k] \in Nat /\ ~InLine(x)
  BY <1>0, <1>1, NotesOf DEF CopyInv, Unsent
<1>3. SendOrStore(x) /\ UNCHANGED <<store, flushed, rollbacks>>
  BY <1>0 DEF Notify
<1>4. /\ OnceInLine'
      /\ \A m, t : m # x => (CopiesBounded(m, t) => CopiesBounded(m, t)')
                            /\ (Unsent(m, t) => Unsent(m, t)')
      /\ \A t \in Nat : Unsent(x, t) => CopiesBounded(x, t)'
  BY <1>2, <1>3, NotesOf, SendOrStoreLine DEF CopyInv
<1>5. ASSUME NEW n \in Notes
      PROVE  CopiesBounded(Notification(n), got[n])'
  <2>1. CASE n = k
    <3>1. CopiesBounded(x, got[k])'
      <4>1. PICK t \in Nat : t = got[k]
        BY <1>2
      <4> QED BY <1>2, <1>4, <4>1 DEF CopiesBounded
    <3> QED BY <1>0, <2>1, <3>1
  <2>2. CASE n # k
    <3>1. Notification(n) # x
      BY <1>0, <1>1, <2>2, NotesOf
    <3>2. CopiesBounded(Notification(n), got[n])
      BY DEF CopyInv
    <3> QED BY <1>4, <3>1, <3>2 DEF CopiesBounded
  <2> QED BY <2>1, <2>2
<1>6. ASSUME NEW n \in Notes, n > k
      PROVE  Unsent(Notification(n), got[n])'
  <2>1. n > nnotes /\ n # k
    BY <1>1, <1>6, NotesOf
  <2>2. Notification(n) # x
    BY <1>0, <1>1, <2>1, NotesOf
  <2>3. Unsent(Notification(n), got[n])
    BY <2>1 DEF CopyInv
  <2> QED BY <1>4, <2>2, <2>3 DEF Unsent
<1> QED BY <1>1, <1>4, <1>5, <1>6 DEF CopyInv

LEMMA BrowserCopies ==
  ASSUME TypeOK, CopyInv, BrowserNext, UNCHANGED serverVars
  PROVE  CopyInv'
<1>1. UNCHANGED got
  BY DEF serverVars
<1>2. ASSUME UNCHANGED <<c2s, store, txs, flushed, rollbacks, nnotes>>
      PROVE  CopyInv'
  BY <1>1, <1>2 DEF CopyInv, OnceInLine, CopiesBounded, Unsent, InLine
<1>3. ASSUME StoreSteps, UNCHANGED nnotes
      PROVE  CopyInv'
  BY <1>1, <1>3, NotesOf, StoreStepsLine, StoreStepsCopies DEF CopyInv
<1>4. ASSUME (\E e \in Conns : OnOpen(e)) \/ Call, UNCHANGED nnotes
      PROVE  CopyInv'
  <2>1. /\ OnceInLine' /\ UNCHANGED <<rollbacks, store, flushed>> /\ AddsOf(txs') = AddsOf(txs)
        /\ \A m : ~IsRequest(m) => Count(c2s', m) = Count(c2s, m)
    BY <1>4, NotesOf, RequestsPass DEF CopyInv
  <2> QED BY <1>1, <1>4, <2>1, NotesOf DEF CopyInv, CopiesBounded, Unsent, InLine
<1>5. CASE Notify
  BY <1>1, <1>5, NotifyCopies
<1>6. CASE StoreStep \/ Reload
  BY <1>3, <1>6
  DEF StoreStep, StoreSteps, Reload, PageRestarts, AddCommits, FlushSends, FlushAborts,
      FlushCommits, rpcVars
<1>7. CASE (\E e \in Conns : OnOpen(e)) \/ Call
  BY <1>4, <1>7 DEF OnOpen, Call
<1>8. CASE OnAttempt \/ \E e \in Conns : OnClose(e) \/ OnResponse(e)
  BY <1>2, <1>8 DEF OnAttempt, AttemptReconnect, OnClose, SocketCloses, OnResponse, rpcVars, dbVars
<1> QED BY <1>5, <1>6, <1>7, <1>8 DEF BrowserNext, PageStep, SocketStep

\* The server turns a copy on its way into one it has got.
LEMMA TakingCopies ==
  ASSUME TypeOK, NEW e \in Conns, ServerTakes(e), NEW n \in Notes, NEW g, g \in Nat,
         g = IF Head(c2s[e]) = Notification(n) THEN got[n] + 1 ELSE got[n]
  PROVE  g + Count(c2s', Notification(n)) = got[n] + Count(c2s, Notification(n))
<1> DEFINE m == Notification(n)
<1>1. got[n] \in Nat /\ c2s \in Queues /\ c2s[e] # <<>> /\ c2s' = Taken(c2s, e)
  BY NotesOf, CountsAreNat DEF ServerTakes, Taken
<1>2. c2s' \in Queues
  <2>1. Tail(c2s[e]) \in Seq(Message)
    BY <1>1 DEF Queues
  <2> QED BY <1>1, <2>1 DEF Queues, Taken
<1>3. Count(c2s, m) \in Nat /\ Count(c2s', m) \in Nat
  BY <1>1, <1>2, SpotsFinite
<1>4. Count(c2s, m) = Count(c2s', m) + IF m = Head(c2s[e]) THEN 1 ELSE 0
  BY <1>1, OneTaken
<1> HIDE DEF m
<1>5. g = IF m = Head(c2s[e]) THEN got[n] + 1 ELSE got[n]
  BY DEF m
<1>6. CASE m = Head(c2s[e])
  <2>1. Count(c2s, m) = Count(c2s', m) + 1 /\ g = got[n] + 1
    BY <1>4, <1>5, <1>6
  <2> QED BY <1>1, <1>3, <2>1 DEF m
<1>7. CASE m # Head(c2s[e])
  <2>1. Count(c2s, m) = Count(c2s', m) + 0 /\ g = got[n]
    BY <1>4, <1>5, <1>7
  <2> QED BY <1>1, <1>3, <2>1 DEF m
<1> QED BY <1>6, <1>7

LEMMA ServerCopies ==
  ASSUME TypeOK, CopyInv, ServerNext, UNCHANGED browserVars
  PROVE  CopyInv'
<1>1. UNCHANGED <<store, txs, flushed, rollbacks, nnotes>>
  BY DEF browserVars, rpcVars, dbVars
<1>2. ASSUME \A n \in Notes :
               got'[n] + Count(c2s', Notification(n)) = got[n] + Count(c2s, Notification(n))
      PROVE  CopyInv'
  BY <1>1, <1>2 DEF CopyInv, OnceInLine, CopiesBounded, Unsent, InLine
<1>3. CASE UNCHANGED <<c2s, got>>
  BY <1>2, <1>3
<1>4. ASSUME NEW e \in Conns, ServerTakes(e), IsRequest(Head(c2s[e])), UNCHANGED got
      PROVE  CopyInv'
  <2>1. ASSUME NEW n \in Notes
        PROVE  got'[n] + Count(c2s', Notification(n)) = got[n] + Count(c2s, Notification(n))
    <3>1. Head(c2s[e]) # Notification(n) /\ got'[n] = got[n] /\ got[n] \in Nat
      BY <1>4, NotesOf
    <3> QED BY <1>4, <3>1, TakingCopies
  <2> QED BY <1>2, <2>1
<1>5. ASSUME NEW e \in Conns, TakeNotification(e)
      PROVE  CopyInv'
  <2>1. ServerTakes(e) /\ IsNotification(Head(c2s[e]))
        /\ got' = [got EXCEPT ![Head(c2s[e]).id] = @ + 1]
    BY <1>5 DEF TakeNotification
  <2>2. Head(c2s[e]) \in Message
    BY <2>1 DEF ServerTakes, TypeOK, TransportTypeOK
  <2>3. PICK k \in Notes : Head(c2s[e]) = Notification(k) /\ Head(c2s[e]).id = k
    BY <2>1, <2>2, MessageFields
  <2>4. ASSUME NEW n \in Notes
        PROVE  got'[n] + Count(c2s', Notification(n)) = got[n] + Count(c2s, Notification(n))
    <3>1. Head(c2s[e]) = Notification(n) <=> n = k
      BY <2>3, NotesOf
    <3>2. got'[n] = IF n = k THEN got[n] + 1 ELSE got[n]
      BY <2>1, <2>3 DEF TypeOK, ServerTypeOK
    <3>3. got'[n] \in Nat
      BY <3>2, NotesOf
    <3> QED BY <2>1, <3>1, <3>2, <3>3, TakingCopies
  <2> QED BY <1>2, <2>4
<1>6. CASE \E e \in Conns : RegisterClient(e) \/ UnregisterClient(e)
  BY <1>3, <1>6 DEF RegisterClient, UnregisterClient, AcceptConnection, ServerEndCloses
<1>7. CASE \E e \in Conns, k \in HandlerKinds : ServerReads(e, k)
  BY <1>4, <1>5, <1>7 DEF ServerReads, ReceiveRequest, ReceiveNotification
<1>8. CASE \E w \in work : PromiseResolves(w) \/ PromiseRejects(w)
  BY <1>3, <1>8 DEF PromiseResolves, PromiseRejects, transportVars
<1>9. CASE ServerDies
  BY <1>3, <1>5, <1>9 DEF ServerDies, NotificationKillsServer, RejectionKillsServer
<1> QED BY <1>6, <1>7, <1>8, <1>9 DEF ServerNext

(* A notification reaches the server twice only if a flush that had sent it was
   rolled back, and as often again as there were rollbacks at most. *)
THEOREM DuplicatesCorrect == Spec => []DuplicatesOnlyAfterRollback
<1>1. Init => CopyInv
  <2> SUFFICES ASSUME Init PROVE CopyInv
    OBVIOUS
  <2>1. /\ c2s = [e \in Conns |-> <<>>] /\ store = <<>> /\ txs = <<>> /\ flushed = <<>>
        /\ rollbacks = 0 /\ got = [n \in Notes |-> 0]
    BY DEF Init, TransportInit, RpcInit, StoreInit, ServerInit
  <2>2. OnceInLine /\ \A m : ~InLine(m)
    BY <2>1 DEF OnceInLine, InLine, IsInjective, AddsOnce, AddsOf, Range
  <2>3. \A m : Count(c2s, m) = 0
    <3>1. c2s \in Queues /\ \A e \in Conns : Range(c2s[e]) = {}
      BY <2>1 DEF Queues, Range
    <3>2. \A m : \A e \in Conns : m \notin Range(c2s[e])
      BY <3>1
    <3> QED BY <3>1, <3>2, NoneThere
  <2> QED BY <2>1, <2>2, <2>3 DEF CopyInv, CopiesBounded, Unsent, InLine
<1>2. TypeOK /\ CopyInv /\ [Next]_vars => CopyInv'
  <2> SUFFICES ASSUME TypeOK, CopyInv, [Next]_vars PROVE CopyInv'
    OBVIOUS
  <2>1. CASE UNCHANGED vars
    BY <2>1 DEF vars, transportVars, rpcVars, dbVars, serverVars, CopyInv, OnceInLine,
       CopiesBounded, Unsent, InLine
  <2> QED BY <2>1, BrowserCopies, ServerCopies DEF Next
<1>3. CopyInv => DuplicatesOnlyAfterRollback
  BY DEF CopyInv, CopiesBounded, DuplicatesOnlyAfterRollback, SentCopies, InTransit, Count
<1> QED BY <1>1, <1>2, <1>3, TypeCorrect, PTL DEF Spec

-----------------------------------------------------------------------------
(* Calls.  The inductive invariant: where one is, and that it is awaited.   *)

\* The server sends answers only.
ServerOnlyAnswers == \A e \in Conns : \A i \in DOMAIN s2c[e] : IsResponse(s2c[e][i])

\* Nothing has happened on a connection that does not exist yet.
FutureConnsEmpty ==
  \A e \in Conns : e > socket =>
    srvEnd[e] = "UNUSED" /\ c2s[e] = <<>> /\ s2c[e] = <<>> /\ \A w \in work : w.conn # e

\* Message x, or an answer to call c, is in the queue s.
Has(s, x) == \E i \in DOMAIN s : s[i] = x
HasAnswer(s, c) == \E i \in DOMAIN s : s[i].id = c

\* Call c is with this page: in its buffer or on its current connection.
WithPage(c) ==
  \/ Has(buffer, Request(c)) \/ Has(c2s[socket], Request(c))
  \/ \E w \in work : w.conn = socket /\ w.id = c
  \/ HasAnswer(s2c[socket], c)

\* Its caller is still waiting.
PageCallsPending == \A c \in Calls : WithPage(c) => promise[c] = "pending"

\* A promise exists once its call is made.
IdleUntilCalled == \A c \in Calls : promise[c] = "idle" <=> c > ncalls

CallInv ==
  /\ TypeOK /\ SocketInv /\ PendingTracksPromises
  /\ StoreHoldsNotes /\ ServerOnlyAnswers /\ FutureConnsEmpty
  /\ PageCallsPending /\ IdleUntilCalled
  /\ CallInOnePlace

-----------------------------------------------------------------------------
(* Places.                                                                  *)

\* The stage is the first component of a place.
LEMMA Stages ==
  ASSUME NEW c
  PROVE  /\ \A p \in InBuffer(c) : p[1] = "buffer"
         /\ \A p \in OnItsWay(c) : p[1] = "c2s"
         /\ \A p \in InHandler(c) : p[1] = "work"
         /\ \A p \in OnItsWayBack(c) : p[1] = "s2c"
         /\ \A p \in Settled(c) : p[1] = "settled"
         /\ \A p \in NotAnswered(c) : p[1] = "unanswered"
         /\ \A p \in Forgotten(c) : p[1] = "forgotten"
BY DEF InBuffer, OnItsWay, InHandler, OnItsWayBack, Settled, NotAnswered, Forgotten

\* A call moves: the stages A lose it to the stages B, the rest R keep theirs.
LEMMA Moves ==
  ASSUME NEW A, NEW B, NEW R,
         Single(A \cup R),
         A \cap R = {},
         A = {} => B = {},
         Single(A) => Single(B)
  PROVE  Single(B \cup R)
<1>1. PICK p : A \cup R = {p}
  BY DEF Single
<1>2. CASE A = {}
  BY <1>1, <1>2 DEF Single
<1>3. CASE A # {}
  <2>1. A = {p} /\ R = {}
    BY <1>1, <1>3
  <2> QED BY <2>1 DEF Single
<1> QED BY <1>2, <1>3

\* What moves no call.
LEMMA PlacesFrame ==
  ASSUME CallInOnePlace,
         UNCHANGED <<buffer, c2s, work, s2c, promise, unanswered, forgotten, ncalls>>
  PROVE  CallInOnePlace'
BY DEF CallInOnePlace, Places, InBuffer, OnItsWay, InHandler, OnItsWayBack, Settled,
       NotAnswered, Forgotten

\* A message that is no request can be sent without a call moving.
LEMMA SendingNotes ==
  ASSUME TypeOK, NEW m \in Message, IsNotification(m), SendData(<<m>>), NEW c \in Calls
  PROVE  OnItsWay(c)' = OnItsWay(c)
<1>1. m # Request(c)
  BY DEF IsNotification, Request
<1>2. CASE cliEnd[socket] = "OPEN"
  <2>1. socket \in Conns /\ c2s \in [Conns -> Seq(Message)]
    BY DEF TypeOK, TransportTypeOK, SocketTypeOK
  <2>2. c2s' = [c2s EXCEPT ![socket] = c2s[socket] \o <<m>>]
    BY <1>2 DEF SendData
  <2>3. ASSUME NEW e \in Conns
        PROVE  {j \in DOMAIN c2s'[e] : c2s'[e][j] = Request(c)}
               = {j \in DOMAIN c2s[e] : c2s[e][j] = Request(c)}
    <3>1. c2s[e] \in Seq(Message)
      BY <2>1
    <3>2. CASE e = socket
      <4>1. c2s'[e] = Append(c2s[e], m)
        BY <2>1, <2>2, <3>1, <3>2
      <4> QED BY <1>1, <3>1, <4>1
    <3>3. CASE e # socket
      BY <2>1, <2>2, <3>3
    <3> QED BY <3>2, <3>3
  <2> QED BY <2>3 DEF OnItsWay
<1>3. CASE cliEnd[socket] # "OPEN"
  BY <1>3 DEF SendData, OnItsWay
<1> QED BY <1>2, <1>3

\* A call that is sent is on its way where it was put; the others stay put.
LEMMA SendingRequest ==
  ASSUME TypeOK, cliEnd[socket] = "OPEN", NEW d \in Calls, SendData(<<Request(d)>>),
         NEW c \in Calls
  PROVE  OnItsWay(c)' = OnItsWay(c) \cup
           (IF c = d THEN {<<"c2s", socket, Len(c2s[socket]) + 1>>} ELSE {})
<1> DEFINE m == Request(d)
           new == IF c = d THEN {<<"c2s", socket, Len(c2s[socket]) + 1>>} ELSE {}
           At(q) == {j \in DOMAIN q : q[j] = Request(c)}
<1>1. socket \in Conns /\ c2s \in [Conns -> Seq(Message)] /\ m \in Message
  BY MessageConstructors DEF TypeOK, TransportTypeOK, SocketTypeOK
<1>2. c2s' = [c2s EXCEPT ![socket] = Append(c2s[socket], m)]
  <2>1. c2s[socket] \o <<m>> = Append(c2s[socket], m)
    BY <1>1
  <2> QED BY <2>1 DEF SendData
<1>3. m = Request(c) <=> c = d
  BY DEF Request
<1>4. At(c2s'[socket]) = At(c2s[socket]) \cup (IF c = d THEN {Len(c2s[socket]) + 1} ELSE {})
  BY <1>1, <1>2, <1>3, AppendIndices
<1>5. \A e \in Conns \ {socket} : c2s'[e] = c2s[e]
  BY <1>1, <1>2
<1>6. OnItsWay(c) = UNION {{<<"c2s", e, i>> : i \in At(c2s[e])} : e \in Conns}
  BY DEF OnItsWay
<1>7. OnItsWay(c)' = UNION {{<<"c2s", e, i>> : i \in At(c2s'[e])} : e \in Conns}
  BY DEF OnItsWay
<1> HIDE DEF At
<1> QED BY <1>1, <1>4, <1>5, <1>6, <1>7

\* call(): the new call is in the buffer or on its way, the others stay put.
LEMMA CallPlacesOne ==
  ASSUME CallInv, Call, UNCHANGED serverVars, NEW c \in Calls
  PROVE  IF c = ncalls + 1 THEN Single(Places(c)') ELSE Places(c)' = Places(c)
<1> DEFINE d == ncalls + 1
<1>1. /\ d \in Calls /\ ncalls' = d
      /\ promise' = [promise EXCEPT ![d] = "pending"]
      /\ SendOrBuffer(Request(d))
      /\ UNCHANGED <<work, s2c, unanswered, forgotten>>
  BY DEF Call, NewEntry, serverVars
<1>2. ncalls \in Nat /\ promise \in [Calls -> PromiseStates] /\ Calls \subseteq Nat
  BY JsonRpcAssumption DEF CallInv, TypeOK, RpcTypeOK, Calls
<1>3. Places(d) = {}
  BY <1>1, <1>2 DEF CallInv, CallInOnePlace
<1>5. Settled(c)' = Settled(c)
  BY <1>1, <1>2, <1>3 DEF Settled, Places, PromiseStates
<1>6. /\ InHandler(c)' = InHandler(c) /\ OnItsWayBack(c)' = OnItsWayBack(c)
      /\ NotAnswered(c)' = NotAnswered(c) /\ Forgotten(c)' = Forgotten(c)
  BY <1>1 DEF InHandler, OnItsWayBack, NotAnswered, Forgotten
<1>7. CASE connected
  <2>1. SendData(<<Request(d)>>) /\ buffer' = buffer /\ cliEnd[socket] = "OPEN"
    BY <1>1, <1>7 DEF SendOrBuffer, CallInv, SocketInv, FlagsTrackSocket
  <2>2. InBuffer(c)' = InBuffer(c)
    BY <2>1 DEF InBuffer
  <2>3. OnItsWay(c)' = OnItsWay(c) \cup
          (IF c = d THEN {<<"c2s", socket, Len(c2s[socket]) + 1>>} ELSE {})
    BY <1>1, <2>1, SendingRequest DEF CallInv
  <2>4. CASE c # d
    BY <1>5, <1>6, <2>2, <2>3, <2>4 DEF Places
  <2>5. CASE c = d
    <3>1. Places(c)' = {<<"c2s", socket, Len(c2s[socket]) + 1>>}
      BY <1>3, <1>5, <1>6, <2>2, <2>3, <2>5 DEF Places
    <3> QED BY <2>5, <3>1 DEF Single
  <2> QED BY <2>4, <2>5
<1>8. CASE ~connected
  <2>1. buffer' = Append(buffer, Request(d)) /\ c2s' = c2s
    BY <1>1, <1>8 DEF SendOrBuffer
  <2>2. OnItsWay(c)' = OnItsWay(c)
    BY <2>1 DEF OnItsWay
  <2>3. {j \in DOMAIN buffer' : buffer'[j] = Request(c)}
        = {j \in DOMAIN buffer : buffer[j] = Request(c)}
            \cup (IF c = d THEN {Len(buffer) + 1} ELSE {})
    <3>1. buffer \in Seq(Requests) /\ Request(d) \in Requests
      BY <1>1, MessageConstructors DEF CallInv, TypeOK, RpcTypeOK
    <3>2. Request(d) = Request(c) <=> c = d
      BY DEF Request
    <3> QED BY <2>1, <3>1, <3>2, AppendIndices
  <2>4. InBuffer(c)' = InBuffer(c) \cup (IF c = d THEN {<<"buffer", 0, Len(buffer) + 1>>} ELSE {})
    BY <2>3 DEF InBuffer
  <2>5. CASE c # d
    BY <1>5, <1>6, <2>2, <2>4, <2>5 DEF Places
  <2>6. CASE c = d
    <3>1. Places(c)' = {<<"buffer", 0, Len(buffer) + 1>>}
      BY <1>3, <1>5, <1>6, <2>2, <2>4, <2>6 DEF Places
    <3> QED BY <2>6, <3>1 DEF Single
  <2> QED BY <2>5, <2>6
<1> QED BY <1>7, <1>8

LEMMA CallPlaces ==
  ASSUME CallInv, Call, UNCHANGED serverVars
  PROVE  CallInOnePlace'
<1>1. ncalls' = ncalls + 1 /\ ncalls \in Nat /\ Calls \subseteq Nat
  BY DEF Call, NewEntry, CallInv, TypeOK, RpcTypeOK, Calls
<1>2. ASSUME NEW c \in Calls
      PROVE  IF c <= ncalls + 1 THEN Single(Places(c)') ELSE Places(c)' = {}
  BY <1>1, CallPlacesOne DEF CallInv, CallInOnePlace
<1> QED BY <1>1, <1>2 DEF CallInOnePlace

-----------------------------------------------------------------------------
(* Queues that lose their head, or join.                                    *)

\* The places a call has in the queues of one direction, by its indices there.
AtStage(stage, at) == UNION {{<<stage, e, i>> : i \in at[e]} : e \in Conns}

\* When the indices move in one queue, the places move.
LEMMA StagesMove ==
  ASSUME NEW stage, NEW at, NEW new, NEW e \in Conns,
         \A f \in Conns \ {e} : new[f] = at[f],
         at[e] = {} => new[e] = {},
         Single(at[e]) => Single(new[e])
  PROVE  /\ AtStage(stage, at) = {} => AtStage(stage, new) = {}
         /\ Single(AtStage(stage, at)) => Single(AtStage(stage, new))
<1>1. ASSUME AtStage(stage, at) = {}
      PROVE  AtStage(stage, new) = {}
  <2>1. \A f \in Conns : \A i \in at[f] : <<stage, f, i>> \in AtStage(stage, at)
    BY DEF AtStage
  <2>2. \A f \in Conns : at[f] = {}
    BY <1>1, <2>1
  <2> QED BY <2>2 DEF AtStage
<1>2. ASSUME Single(AtStage(stage, at))
      PROVE  Single(AtStage(stage, new))
  <2>0. PICK x : AtStage(stage, at) = {x}
    BY <1>2 DEF Single
  <2>1. PICK f \in Conns : \E i \in at[f] : x = <<stage, f, i>>
    BY <2>0 DEF AtStage
  <2>2. PICK i \in at[f] : x = <<stage, f, i>>
    BY <2>1
  <2>3. ASSUME NEW g \in Conns, NEW j \in at[g]
        PROVE  g = f /\ j = i
    <3>1. <<stage, g, j>> \in AtStage(stage, at)
      BY DEF AtStage
    <3> QED BY <2>0, <2>2, <3>1
  <2>4. at[f] = {i} /\ \A g \in Conns \ {f} : at[g] = {}
    BY <2>2, <2>3
  <2>5. PICK j : new[f] = {j}
    BY <2>4 DEF Single
  <2>6. \A g \in Conns \ {f} : new[g] = {}
    BY <2>4
  <2>7. AtStage(stage, new) = {<<stage, f, j>>}
    BY <2>5, <2>6 DEF AtStage
  <2> QED BY <2>7 DEF Single
<1> QED BY <1>1, <1>2

\* The indices of call c in the queues of either direction.
SentAt(q, c) == [e \in Conns |-> {j \in DOMAIN q[e] : q[e][j] = Request(c)}]
AnswerAt(q, c) == [e \in Conns |-> {j \in DOMAIN q[e] : q[e][j].id = c}]

LEMMA AsSpots ==
  ASSUME NEW c
  PROVE  /\ OnItsWay(c) = AtStage("c2s", SentAt(c2s, c))
         /\ OnItsWay(c)' = AtStage("c2s", SentAt(c2s', c))
         /\ OnItsWayBack(c) = AtStage("s2c", AnswerAt(s2c, c))
         /\ OnItsWayBack(c)' = AtStage("s2c", AnswerAt(s2c', c))
BY DEF OnItsWay, OnItsWayBack, AtStage, SentAt, AnswerAt

\* The calls behind the request the server takes move up.
LEMMA TakingMovesUp ==
  ASSUME TypeOK, NEW e \in Conns, ServerTakes(e), NEW c, Head(c2s[e]) # Request(c)
  PROVE  /\ OnItsWay(c) = {} => OnItsWay(c)' = {}
         /\ Single(OnItsWay(c)) => Single(OnItsWay(c)')
<1> DEFINE s == c2s[e]
           at == SentAt(c2s, c)
           new == SentAt(c2s', c)
<1>1. s \in Seq(Message) /\ s # <<>> /\ c2s' = [c2s EXCEPT ![e] = Tail(s)] /\ c2s'[e] = Tail(s)
  BY DEF ServerTakes, TypeOK, TransportTypeOK
<1>2. \A f \in Conns \ {e} : new[f] = at[f]
  BY <1>1 DEF SentAt, TypeOK, TransportTypeOK
<1>3. /\ at[e] = {j \in DOMAIN s : s[j] = Request(c)}
      /\ new[e] = {j \in DOMAIN Tail(s) : Tail(s)[j] = Request(c)}
  BY <1>1 DEF SentAt
<1>4. \A j \in new[e] : j + 1 \in at[e] /\ j \in Nat
  BY <1>1, <1>3, TailIndices
<1>5. \A i \in at[e] : i - 1 \in new[e] /\ i \in Nat
  <2> SUFFICES ASSUME NEW i \in at[e] PROVE i - 1 \in new[e] /\ i \in Nat
    OBVIOUS
  <2>1. i \in DOMAIN s /\ s[i] = Request(c) /\ i # 1
    BY <1>1, <1>3, TailIndices
  <2>2. i - 1 \in DOMAIN Tail(s) /\ Tail(s)[i - 1] = s[i] /\ i \in Nat
    BY <1>1, <2>1, TailIndices
  <2> QED BY <1>3, <2>1, <2>2
<1> HIDE DEF at, new
<1>6. Single(at[e]) => Single(new[e])
  <2>1. ASSUME NEW i, at[e] = {i} PROVE new[e] = {i - 1}
    BY <1>4, <1>5, <2>1
  <2> QED BY <2>1 DEF Single
<1>7. at[e] = {} => new[e] = {}
  BY <1>4
<1>8. /\ AtStage("c2s", at) = {} => AtStage("c2s", new) = {}
      /\ Single(AtStage("c2s", at)) => Single(AtStage("c2s", new))
  BY <1>2, <1>6, <1>7, StagesMove
<1> QED BY <1>8, AsSpots DEF at, new

\* The calls behind the answer the browser takes move up.
LEMMA HearingMovesUp ==
  ASSUME TypeOK, NEW e \in Conns, ClientTakes(e), NEW c, Head(s2c[e]).id # c
  PROVE  /\ OnItsWayBack(c) = {} => OnItsWayBack(c)' = {}
         /\ Single(OnItsWayBack(c)) => Single(OnItsWayBack(c)')
<1> DEFINE s == s2c[e]
           at == AnswerAt(s2c, c)
           new == AnswerAt(s2c', c)
<1>1. s \in Seq(Message) /\ s # <<>> /\ s2c' = [s2c EXCEPT ![e] = Tail(s)] /\ s2c'[e] = Tail(s)
  BY DEF ClientTakes, TypeOK, TransportTypeOK
<1>2. \A f \in Conns \ {e} : new[f] = at[f]
  BY <1>1 DEF AnswerAt, TypeOK, TransportTypeOK
<1>3. /\ at[e] = {j \in DOMAIN s : s[j].id = c}
      /\ new[e] = {j \in DOMAIN Tail(s) : Tail(s)[j].id = c}
  BY <1>1 DEF AnswerAt
<1>4. \A j \in new[e] : j + 1 \in at[e] /\ j \in Nat
  BY <1>1, <1>3, TailIndices
<1>5. \A i \in at[e] : i - 1 \in new[e] /\ i \in Nat
  <2> SUFFICES ASSUME NEW i \in at[e] PROVE i - 1 \in new[e] /\ i \in Nat
    OBVIOUS
  <2>1. i \in DOMAIN s /\ s[i].id = c /\ i # 1
    BY <1>1, <1>3, TailIndices
  <2>2. i - 1 \in DOMAIN Tail(s) /\ Tail(s)[i - 1] = s[i] /\ i \in Nat
    BY <1>1, <2>1, TailIndices
  <2> QED BY <1>3, <2>1, <2>2
<1> HIDE DEF at, new
<1>6. Single(at[e]) => Single(new[e])
  <2>1. ASSUME NEW i, at[e] = {i} PROVE new[e] = {i - 1}
    BY <1>4, <1>5, <2>1
  <2> QED BY <2>1 DEF Single
<1>7. at[e] = {} => new[e] = {}
  BY <1>4
<1>8. /\ AtStage("s2c", at) = {} => AtStage("s2c", new) = {}
      /\ Single(AtStage("s2c", at)) => Single(AtStage("s2c", new))
  BY <1>2, <1>6, <1>7, StagesMove
<1> QED BY <1>8, AsSpots DEF at, new

\* CONNECT: a call in the buffer is on its way, behind those that were.
LEMMA OpenPlaces ==
  ASSUME CallInv, NEW e \in Conns, OnOpen(e), UNCHANGED serverVars
  PROVE  CallInOnePlace'
<1> DEFINE s == c2s[socket]
<1>1. /\ c2s' = [c2s EXCEPT ![socket] = s \o buffer] /\ buffer' = <<>>
      /\ UNCHANGED <<work, s2c, promise, unanswered, forgotten, ncalls>>
  BY DEF OnOpen, SocketOpens, FlagsOnOpen, FlushBuffer, serverVars
<1>2. /\ socket \in Conns /\ c2s \in [Conns -> Seq(Message)]
      /\ s \in Seq(Message) /\ buffer \in Seq(Message)
  BY DEF CallInv, TypeOK, TransportTypeOK, SocketTypeOK, RpcTypeOK, Message
<1>3. ASSUME NEW c \in Calls
      PROVE  /\ Single(Places(c)) => Single(Places(c)')
             /\ Places(c) = {} => Places(c)' = {}
  <2> DEFINE at == {j \in DOMAIN buffer : buffer[j] = Request(c)}
             A == InBuffer(c) \cup OnItsWay(c)
             B == OnItsWay(c)'
             R == InHandler(c) \cup OnItsWayBack(c) \cup Settled(c) \cup NotAnswered(c)
                    \cup Forgotten(c)
  <2>1. Places(c) = A \cup R
    BY DEF Places
  <2>2. Places(c)' = B \cup R
    <3>1. InBuffer(c)' = {}
      BY <1>1 DEF InBuffer
    <3> QED
      BY <1>1, <3>1 DEF Places, InHandler, OnItsWayBack, Settled, NotAnswered, Forgotten
  <2>3. A \cap R = {}
    BY Stages
  <2>4. InBuffer(c) = {<<"buffer", 0, i>> : i \in at}
    BY DEF InBuffer
  <2>5. B = OnItsWay(c) \cup {<<"c2s", socket, Len(s) + i>> : i \in at}
    <3> DEFINE Were(f) == {j \in DOMAIN c2s[f] : c2s[f][j] = Request(c)}
               Are(f) == {j \in DOMAIN c2s'[f] : c2s'[f][j] = Request(c)}
    <3>1. Are(socket) = Were(socket) \cup {Len(s) + i : i \in at}
      <4>1. c2s'[socket] = s \o buffer
        BY <1>1, <1>2
      <4>2. {j \in DOMAIN (s \o buffer) : (s \o buffer)[j] = Request(c)}
            = {j \in DOMAIN s : s[j] = Request(c)} \cup {Len(s) + i : i \in at}
        BY <1>2, JoinIndices
      <4> QED BY <4>1, <4>2
    <3>2. \A f \in Conns \ {socket} : Are(f) = Were(f)
      BY <1>1, <1>2
    <3>3. /\ OnItsWay(c) = UNION {{<<"c2s", f, i>> : i \in Were(f)} : f \in Conns}
          /\ OnItsWay(c)' = UNION {{<<"c2s", f, i>> : i \in Are(f)} : f \in Conns}
      BY DEF OnItsWay
    <3> HIDE DEF Were, Are, at
    <3> QED BY <1>2, <3>1, <3>2, <3>3
  <2> HIDE DEF at
  <2>6. A = {} => B = {}
    <3>1. \A i \in at : <<"buffer", 0, i>> \in A
      BY <2>4
    <3> QED BY <2>5, <3>1
  <2>7. Single(A) => Single(B)
    <3> SUFFICES ASSUME NEW p, A = {p} PROVE Single(B)
      BY DEF Single
    <3>1. CASE at = {}
      BY <2>4, <2>5, <3>1 DEF Single
    <3>2. CASE at # {}
      <4>1. PICK i \in at : TRUE
        BY <3>2
      <4>2. <<"buffer", 0, i>> = p /\ OnItsWay(c) = {} /\ InBuffer(c) = {p}
        BY <2>4, <4>1, Stages
      <4>3. \A j \in at : <<"buffer", 0, j>> = <<"buffer", 0, i>>
        BY <2>4, <4>2
      <4>4. at = {i}
        BY <4>1, <4>3
      <4>5. B = {<<"c2s", socket, Len(s) + i>>}
        BY <2>5, <4>2, <4>4
      <4> QED BY <4>5 DEF Single
    <3> QED BY <3>1, <3>2
  <2> HIDE DEF A, B, R
  <2>8. Single(A \cup R) => Single(B \cup R)
    BY <2>3, <2>6, <2>7, Moves
  <2> QED BY <2>1, <2>2, <2>6, <2>8
<1> QED BY <1>1, <1>3 DEF CallInv, CallInOnePlace

\* A place of a call is its only one.
LEMMA OnlyPlace ==
  ASSUME CallInOnePlace, NEW c \in Calls, NEW p \in Places(c)
  PROVE  Places(c) = {p} /\ c <= ncalls
BY DEF CallInOnePlace, Single

\* A message at the head of a queue, and the queue without it.
LEMMA TakenByServer ==
  ASSUME TypeOK, NEW e \in Conns, ServerTakes(e), NEW c, Head(c2s[e]) = Request(c)
  PROVE  /\ <<"c2s", e, 1>> \in OnItsWay(c)
         /\ OnItsWay(c) = {<<"c2s", e, 1>>} => OnItsWay(c)' = {}
<1> DEFINE s == c2s[e]
<1>1. s \in Seq(Message) /\ s # <<>> /\ c2s' = [c2s EXCEPT ![e] = Tail(s)] /\ c2s'[e] = Tail(s)
  BY DEF ServerTakes, TypeOK, TransportTypeOK
<1>2. 1 \in DOMAIN s /\ s[1] = Request(c)
  BY <1>1, TailIndices
<1>3. <<"c2s", e, 1>> \in OnItsWay(c)
  BY <1>2 DEF OnItsWay
<1>4. ASSUME OnItsWay(c) = {<<"c2s", e, 1>>}, NEW p \in OnItsWay(c)'
      PROVE  FALSE
  <2>1. PICK f \in Conns : \E i \in DOMAIN c2s'[f] :
               c2s'[f][i] = Request(c) /\ p = <<"c2s", f, i>>
    BY <1>4 DEF OnItsWay
  <2>2. PICK i \in DOMAIN c2s'[f] : c2s'[f][i] = Request(c)
    BY <2>1
  <2>3. CASE f = e
    <3>1. i + 1 \in DOMAIN s /\ s[i + 1] = Request(c) /\ i \in DOMAIN Tail(s)
      <4>1. i \in DOMAIN Tail(s) /\ Tail(s)[i] = Request(c)
        BY <1>1, <2>2, <2>3
      <4>2. i + 1 \in DOMAIN s /\ Tail(s)[i] = s[i + 1]
        BY <1>1, <4>1, TailIndices
      <4> QED BY <4>1, <4>2
    <3>2. <<"c2s", e, i + 1>> \in OnItsWay(c)
      BY <3>1 DEF OnItsWay
    <3>3. i + 1 = 1
      BY <1>4, <3>2
    <3> QED BY <1>1, <3>1, <3>3
  <2>4. CASE f # e
    <3>1. c2s'[f] = c2s[f]
      BY <1>1, <2>4 DEF TypeOK, TransportTypeOK
    <3>2. <<"c2s", f, i>> \in OnItsWay(c)
      BY <2>2, <3>1 DEF OnItsWay
    <3> QED BY <1>4, <2>4, <3>2
  <2> QED BY <2>3, <2>4
<1> QED BY <1>3, <1>4

LEMMA TakenByBrowser ==
  ASSUME TypeOK, NEW e \in Conns, ClientTakes(e), NEW c, Head(s2c[e]).id = c
  PROVE  /\ <<"s2c", e, 1>> \in OnItsWayBack(c)
         /\ OnItsWayBack(c) = {<<"s2c", e, 1>>} => OnItsWayBack(c)' = {}
<1> DEFINE s == s2c[e]
<1>1. s \in Seq(Message) /\ s # <<>> /\ s2c' = [s2c EXCEPT ![e] = Tail(s)] /\ s2c'[e] = Tail(s)
  BY DEF ClientTakes, TypeOK, TransportTypeOK
<1>2. 1 \in DOMAIN s /\ s[1].id = c
  BY <1>1, TailIndices
<1>3. <<"s2c", e, 1>> \in OnItsWayBack(c)
  BY <1>2 DEF OnItsWayBack
<1>4. ASSUME OnItsWayBack(c) = {<<"s2c", e, 1>>}, NEW p \in OnItsWayBack(c)'
      PROVE  FALSE
  <2>1. PICK f \in Conns : \E i \in DOMAIN s2c'[f] :
               s2c'[f][i].id = c /\ p = <<"s2c", f, i>>
    BY <1>4 DEF OnItsWayBack
  <2>2. PICK i \in DOMAIN s2c'[f] : s2c'[f][i].id = c
    BY <2>1
  <2>3. CASE f = e
    <3>1. i + 1 \in DOMAIN s /\ s[i + 1].id = c /\ i \in DOMAIN Tail(s)
      <4>1. i \in DOMAIN Tail(s) /\ Tail(s)[i].id = c
        BY <1>1, <2>2, <2>3
      <4>2. i + 1 \in DOMAIN s /\ Tail(s)[i] = s[i + 1]
        BY <1>1, <4>1, TailIndices
      <4> QED BY <4>1, <4>2
    <3>2. <<"s2c", e, i + 1>> \in OnItsWayBack(c)
      BY <3>1 DEF OnItsWayBack
    <3>3. i + 1 = 1
      BY <1>4, <3>2
    <3> QED BY <1>1, <3>1, <3>3
  <2>4. CASE f # e
    <3>1. s2c'[f] = s2c[f]
      BY <1>1, <2>4 DEF TypeOK, TransportTypeOK
    <3>2. <<"s2c", f, i>> \in OnItsWayBack(c)
      BY <2>2, <3>1 DEF OnItsWayBack
    <3> QED BY <1>4, <2>4, <3>2
  <2> QED BY <2>3, <2>4
<1> QED BY <1>3, <1>4

-----------------------------------------------------------------------------
(* The rest of the browser.                                                 *)

\* The response the browser is about to read is for a call that is pending.
LEMMA ResponseIsExpected ==
  ASSUME CallInv, NEW e \in Conns, cliEnd[e] = "OPEN", NEW i \in DOMAIN s2c[e]
  PROVE  /\ e = socket
         /\ s2c[e][i].id \in pending /\ promise[s2c[e][i].id] = "pending"
         /\ s2c[e][i].id \in Calls /\ s2c[e][i].body \in Bodies
<1> DEFINE m == s2c[e][i]
<1>1. e = socket
  BY LiveIsCurrent DEF CallInv
<1>2. m \in Message /\ IsResponse(m)
  BY DEF CallInv, TypeOK, TransportTypeOK, ServerOnlyAnswers
<1>3. m.id \in Calls /\ m.body \in Bodies
  BY <1>2, MessageFields
<1>4. WithPage(m.id)
  BY <1>1 DEF WithPage, HasAnswer
<1>5. promise[m.id] = "pending"
  BY <1>3, <1>4 DEF CallInv, PageCallsPending
<1> QED BY <1>1, <1>3, <1>5 DEF CallInv, PendingTracksPromises

LEMMA ResponsePlaces ==
  ASSUME CallInv, NEW e \in Conns, OnResponse(e), UNCHANGED serverVars
  PROVE  CallInOnePlace'
<1>0. PICK d, b : d = Head(s2c[e]).id /\ b = Head(s2c[e]).body
  OBVIOUS
<1>1. ClientTakes(e) /\ cliEnd[e] = "OPEN" /\ s2c[e] \in Seq(Message) /\ s2c[e] # <<>>
  BY DEF OnResponse, ClientTakes, CallInv, TypeOK, TransportTypeOK
<1>2. d \in Calls /\ d \in pending
  <2>1. 1 \in DOMAIN s2c[e] /\ Head(s2c[e]) = s2c[e][1]
    BY <1>1, TailIndices
  <2> QED BY <1>0, <1>1, <2>1, ResponseIsExpected
<1>3. promise' = [promise EXCEPT ![d] = Outcome(b)] /\ Outcome(b) \in {"resolved", "rejected"}
  BY <1>0, <1>2 DEF OnResponse, Settle, Outcome
<1>4. UNCHANGED <<buffer, c2s, work, unanswered, forgotten, ncalls>>
  BY DEF OnResponse, serverVars
<1>5. ASSUME NEW c \in Calls, c # d
      PROVE  /\ Single(Places(c)) => Single(Places(c)')
             /\ Places(c) = {} => Places(c)' = {}
  <2> DEFINE A == OnItsWayBack(c)
             B == OnItsWayBack(c)'
             R == InBuffer(c) \cup OnItsWay(c) \cup InHandler(c) \cup Settled(c)
                    \cup NotAnswered(c) \cup Forgotten(c)
  <2>1. Settled(c)' = Settled(c)
    BY <1>2, <1>3, <1>5 DEF Settled, CallInv, TypeOK, RpcTypeOK
  <2>2. Places(c) = A \cup R /\ Places(c)' = B \cup R
    BY <1>4, <2>1 DEF Places, InBuffer, OnItsWay, InHandler, NotAnswered, Forgotten
  <2>3. A \cap R = {}
    BY Stages
  <2>4. (A = {} => B = {}) /\ (Single(A) => Single(B))
    BY <1>0, <1>1, <1>5, HearingMovesUp DEF CallInv
  <2> HIDE DEF A, B, R
  <2>5. Single(A \cup R) => Single(B \cup R)
    BY <2>3, <2>4, Moves
  <2> QED BY <2>2, <2>4, <2>5
<1>6. d <= ncalls /\ Single(Places(d)')
  <2>1. <<"s2c", e, 1>> \in OnItsWayBack(d)
    BY <1>0, <1>1, TakenByBrowser DEF CallInv
  <2>2. Places(d) = {<<"s2c", e, 1>>} /\ d <= ncalls
    BY <1>2, <2>1, OnlyPlace DEF Places, CallInv
  <2>3. /\ OnItsWayBack(d) = {<<"s2c", e, 1>>}
        /\ InBuffer(d) = {} /\ OnItsWay(d) = {} /\ InHandler(d) = {}
        /\ NotAnswered(d) = {} /\ Forgotten(d) = {}
    BY <2>1, <2>2, Stages DEF Places
  <2>4. OnItsWayBack(d)' = {}
    BY <1>0, <1>1, <2>3, TakenByBrowser DEF CallInv
  <2>5. Settled(d)' = {<<"settled", 0, 0>>}
    BY <1>2, <1>3 DEF Settled, CallInv, TypeOK, RpcTypeOK
  <2>6. Places(d)' = {<<"settled", 0, 0>>}
    BY <1>4, <2>3, <2>4, <2>5
    DEF Places, InBuffer, OnItsWay, InHandler, NotAnswered, Forgotten
  <2> QED BY <2>2, <2>6 DEF Single
<1> QED BY <1>4, <1>5, <1>6 DEF CallInv, CallInOnePlace

\* A reload: a call in the buffer is forgotten, one that is settled stays so.
LEMMA ReloadPlaces ==
  ASSUME CallInv, Reload, UNCHANGED serverVars
  PROVE  CallInOnePlace'
<1>1. /\ buffer' = <<>>
      /\ forgotten' = forgotten \cup Range(buffer) \cup QueuedAdds
      /\ promise' = PromisesGone
      /\ UNCHANGED <<c2s, work, s2c, unanswered, ncalls>>
  BY DEF Reload, PageRestarts, serverVars
<1>2. \A c : Request(c) \notin QueuedAdds
  BY DEF QueuedAdds, Range, CallInv, StoreHoldsNotes, IsNotification, Request
<1>3. ASSUME NEW c \in Calls
      PROVE  /\ Single(Places(c)) => Single(Places(c)')
             /\ Places(c) = {} => Places(c)' = {}
  <2> DEFINE A == InBuffer(c) \cup Forgotten(c)
             B == Forgotten(c)'
             R == OnItsWay(c) \cup InHandler(c) \cup OnItsWayBack(c) \cup Settled(c)
                    \cup NotAnswered(c)
  <2>1. Settled(c)' = Settled(c)
    BY <1>1 DEF Settled, PromisesGone
  <2>2. Places(c) = A \cup R
    BY DEF Places
  <2>3. Places(c)' = B \cup R
    <3>1. InBuffer(c)' = {}
      BY <1>1 DEF InBuffer
    <3> QED
      BY <1>1, <2>1, <3>1 DEF Places, OnItsWay, InHandler, OnItsWayBack, NotAnswered
  <2>4. A \cap R = {}
    BY Stages
  <2>5. Request(c) \in Range(buffer) <=> InBuffer(c) # {}
    BY DEF Range, InBuffer
  <2>6. A = {} <=> B = {}
    BY <1>1, <1>2, <2>5 DEF Forgotten
  <2>7. Single(A) => Single(B)
    <3>1. B = {} \/ B = {<<"forgotten", 0, 0>>}
      BY DEF Forgotten
    <3> QED BY <2>6, <3>1 DEF Single
  <2> HIDE DEF A, B, R
  <2>8. Single(A \cup R) => Single(B \cup R)
    BY <2>4, <2>6, <2>7, Moves
  <2> QED BY <2>2, <2>3, <2>6, <2>8
<1> QED BY <1>1, <1>3 DEF CallInv, CallInOnePlace

\* Notifications and the notification store move no call.
LEMMA StorePlaces ==
  ASSUME CallInv, Notify \/ StoreStep, UNCHANGED serverVars
  PROVE  CallInOnePlace'
<1>1. UNCHANGED <<buffer, work, s2c, promise, unanswered, forgotten, ncalls>>
  BY DEF Notify, StoreStep, AddCommits, FlushSends, FlushAborts, FlushCommits,
    transportVars, rpcVars, serverVars
<1>2. ASSUME NEW c \in Calls
      PROVE  OnItsWay(c)' = OnItsWay(c)
  <2>1. CASE c2s' = c2s
    BY <2>1 DEF OnItsWay
  <2>2. CASE Notify /\ connected
    <3> DEFINE n == nnotes + 1
    <3>1. n \in Notes /\ SendData(<<Notification(n)>>)
      BY <2>2 DEF Notify, SendOrStore
    <3>2. Notification(n) \in Message /\ IsNotification(Notification(n))
      BY <3>1, MessageConstructors DEF IsNotification, Notification
    <3> QED BY <3>1, <3>2, SendingNotes DEF CallInv
  <2>3. CASE FlushSends
    <3>1. Head(store) \in Message /\ IsNotification(Head(store))
      <4>1. store \in Seq(Message) /\ store # <<>>
        BY <2>3 DEF FlushSends, CallInv, TypeOK, RpcTypeOK
      <4>2. Head(store) = store[1] /\ 1 \in DOMAIN store
        BY <4>1, TailIndices
      <4> QED BY <4>1, <4>2 DEF CallInv, StoreHoldsNotes
    <3> QED BY <2>3, <3>1, SendingNotes DEF FlushSends, CallInv
  <2> QED
    BY <2>1, <2>2, <2>3 DEF Notify, SendOrStore, StoreStep, AddCommits, FlushAborts,
      FlushCommits, transportVars
<1>3. \A c \in Calls : Places(c)' = Places(c)
  BY <1>1, <1>2
  DEF Places, InBuffer, InHandler, OnItsWayBack, Settled, NotAnswered, Forgotten
<1> QED BY <1>1, <1>3 DEF CallInv, CallInOnePlace

-----------------------------------------------------------------------------
(* The server.                                                              *)

\* An answer that is sent is on its way back where it was put.
LEMMA SendingAnswer ==
  ASSUME TypeOK, NEW e \in Conns, NEW d \in Calls, NEW b \in Bodies,
         ServerSends(e, Response(d, b)), NEW c \in Calls
  PROVE  OnItsWayBack(c)' = OnItsWayBack(c) \cup
           (IF c = d /\ srvEnd[e] = "OPEN" THEN {<<"s2c", e, Len(s2c[e]) + 1>>} ELSE {})
<1> DEFINE m == Response(d, b)
           At(q) == {j \in DOMAIN q : q[j].id = c}
<1>1. s2c \in [Conns -> Seq(Message)] /\ s2c[e] \in Seq(Message) /\ m \in Message /\ m.id = d
  BY MessageConstructors DEF TypeOK, TransportTypeOK, Response
<1>2. CASE srvEnd[e] = "OPEN"
  <2>1. s2c' = [s2c EXCEPT ![e] = Append(s2c[e], m)]
    BY <1>2 DEF ServerSends
  <2>2. At(Append(s2c[e], m)) = At(s2c[e]) \cup (IF c = d THEN {Len(s2c[e]) + 1} ELSE {})
    <3>1. /\ DOMAIN s2c[e] = 1..Len(s2c[e]) /\ Len(s2c[e]) \in Nat
          /\ DOMAIN Append(s2c[e], m) = 1..(Len(s2c[e]) + 1)
      BY <1>1
    <3>2. /\ Append(s2c[e], m)[Len(s2c[e]) + 1] = m
          /\ \A j \in 1..Len(s2c[e]) : Append(s2c[e], m)[j] = s2c[e][j]
      BY <1>1
    <3> HIDE DEF m
    <3> QED BY <1>1, <3>1, <3>2
  <2>3. At(s2c'[e]) = At(s2c[e]) \cup (IF c = d THEN {Len(s2c[e]) + 1} ELSE {})
    BY <1>1, <2>1, <2>2
  <2>4. \A f \in Conns \ {e} : s2c'[f] = s2c[f]
    BY <1>1, <2>1
  <2>5. /\ OnItsWayBack(c) = UNION {{<<"s2c", f, i>> : i \in At(s2c[f])} : f \in Conns}
        /\ OnItsWayBack(c)' = UNION {{<<"s2c", f, i>> : i \in At(s2c'[f])} : f \in Conns}
    BY DEF OnItsWayBack
  <2> HIDE DEF At
  <2> QED BY <1>2, <2>3, <2>4, <2>5
<1>3. CASE srvEnd[e] # "OPEN"
  BY <1>3 DEF ServerSends, OnItsWayBack
<1> QED BY <1>2, <1>3

\* Taking a message moves no call but the one the message is.
LEMMA TakingPlaces ==
  ASSUME CallInv, NEW e \in Conns, ServerTakes(e), NEW c, Head(c2s[e]) # Request(c),
         UNCHANGED <<buffer, promise, unanswered, forgotten>>,
         InHandler(c)' = InHandler(c), OnItsWayBack(c)' = OnItsWayBack(c)
  PROVE  /\ Single(Places(c)) => Single(Places(c)')
         /\ Places(c) = {} => Places(c)' = {}
<1> DEFINE A == OnItsWay(c)
           B == OnItsWay(c)'
           R == InBuffer(c) \cup InHandler(c) \cup OnItsWayBack(c) \cup Settled(c)
                  \cup NotAnswered(c) \cup Forgotten(c)
<1>1. Places(c) = A \cup R /\ Places(c)' = B \cup R
  BY DEF Places, InBuffer, Settled, NotAnswered, Forgotten
<1>2. A \cap R = {}
  BY Stages
<1>3. (A = {} => B = {}) /\ (Single(A) => Single(B))
  BY TakingMovesUp DEF CallInv
<1> HIDE DEF A, B, R
<1>4. Single(A \cup R) => Single(B \cup R)
  BY <1>2, <1>3, Moves
<1> QED BY <1>1, <1>3, <1>4

\* A request: it is with its handler, or answered at once.
LEMMA RequestPlaces ==
  ASSUME CallInv, NEW e \in Conns, NEW k \in HandlerKinds, ReceiveRequest(e, k),
         UNCHANGED browserVars
  PROVE  CallInOnePlace'
<1>1. PICK m : m = Head(c2s[e])
  OBVIOUS
<1>2. PICK d \in Calls : m = Request(d)
  <2>1. m \in Message /\ IsRequest(m)
    BY <1>1, ServerTakesType DEF ReceiveRequest, CallInv
  <2> QED BY <2>1, MessageFields
<1>3. ServerTakes(e) /\ srvEnd[e] = "OPEN"
  BY DEF ReceiveRequest, ServerTakes
<1>4. UNCHANGED <<buffer, promise, unanswered, forgotten, ncalls>>
  BY DEF ReceiveRequest, browserVars, rpcVars
<1>5. IF Async(k)
      THEN work' = work \cup {[conn |-> e, id |-> d, kind |-> k]} /\ UNCHANGED s2c
      ELSE ServerSends(e, Response(d, BodyOf(k))) /\ UNCHANGED work
  <2>1. m.id = d
    BY <1>2 DEF Request
  <2> QED BY <1>1, <2>1 DEF ReceiveRequest, Answer
<1>6. ASSUME NEW c \in Calls
      PROVE  /\ InHandler(c)' = InHandler(c) \cup
                  (IF c = d /\ Async(k) THEN {<<"work", e, k>>} ELSE {})
             /\ OnItsWayBack(c)' = OnItsWayBack(c) \cup
                  (IF c = d /\ ~Async(k) THEN {<<"s2c", e, Len(s2c[e]) + 1>>} ELSE {})
  <2>1. CASE Async(k)
    <3> DEFINE w == [conn |-> e, id |-> d, kind |-> k]
    <3>1. w.conn = e /\ w.id = d /\ w.kind = k /\ work' = work \cup {w} /\ s2c' = s2c
      BY <1>5, <2>1
    <3> HIDE DEF w
    <3>2. InHandler(c)' = InHandler(c) \cup (IF c = d THEN {<<"work", e, k>>} ELSE {})
      BY <3>1 DEF InHandler
    <3>3. OnItsWayBack(c)' = OnItsWayBack(c)
      BY <3>1 DEF OnItsWayBack
    <3> QED BY <2>1, <3>2, <3>3
  <2>2. CASE ~Async(k)
    <3>1. BodyOf(k) \in Bodies
      BY <2>2, BodyOfType
    <3>2. InHandler(c)' = InHandler(c)
      BY <1>5, <2>2 DEF InHandler
    <3> QED BY <1>3, <1>5, <2>2, <3>1, <3>2, SendingAnswer DEF CallInv
  <2> QED BY <2>1, <2>2
<1>7. ASSUME NEW c \in Calls, c # d
      PROVE  /\ Single(Places(c)) => Single(Places(c)')
             /\ Places(c) = {} => Places(c)' = {}
  <2>1. Head(c2s[e]) # Request(c)
    BY <1>1, <1>2, <1>7 DEF Request
  <2>2. InHandler(c)' = InHandler(c) /\ OnItsWayBack(c)' = OnItsWayBack(c)
    BY <1>6, <1>7
  <2> QED BY <1>3, <1>4, <2>1, <2>2, TakingPlaces
<1>8. d <= ncalls /\ Single(Places(d)')
  <2>1. <<"c2s", e, 1>> \in OnItsWay(d)
    BY <1>1, <1>2, <1>3, TakenByServer DEF CallInv
  <2>2. Places(d) = {<<"c2s", e, 1>>} /\ d <= ncalls
    BY <2>1, OnlyPlace DEF Places, CallInv
  <2>3. /\ OnItsWay(d) = {<<"c2s", e, 1>>}
        /\ InBuffer(d) = {} /\ InHandler(d) = {} /\ OnItsWayBack(d) = {}
        /\ Settled(d) = {} /\ NotAnswered(d) = {} /\ Forgotten(d) = {}
    BY <2>1, <2>2, Stages DEF Places
  <2>4. OnItsWay(d)' = {}
    BY <1>1, <1>2, <1>3, <2>3, TakenByServer DEF CallInv
  <2>5. Places(d)' = InHandler(d)' \cup OnItsWayBack(d)'
    BY <1>4, <2>3, <2>4 DEF Places, InBuffer, Settled, NotAnswered, Forgotten
  <2>6. InHandler(d)' \cup OnItsWayBack(d)' =
          (IF Async(k) THEN {<<"work", e, k>>} ELSE {<<"s2c", e, Len(s2c[e]) + 1>>})
    BY <1>6, <2>3
  <2> QED BY <2>2, <2>5, <2>6 DEF Single
<1> QED BY <1>4, <1>7, <1>8 DEF CallInv, CallInOnePlace

\* The request whose promise has settled is no longer with a handler; the
\* others are.
LEMMA WorkDone ==
  ASSUME CallInv, NEW w \in work, work' = work \ {w}
  PROVE  /\ w.id \in Calls /\ w.id <= ncalls
         /\ Places(w.id) = {<<"work", w.conn, w.kind>>}
         /\ InHandler(w.id) = {<<"work", w.conn, w.kind>>}
         /\ \A c : c # w.id => InHandler(c)' = InHandler(c)
<1>1. w.id \in Calls
  BY DEF CallInv, TypeOK, ServerTypeOK, Work
<1>2. <<"work", w.conn, w.kind>> \in InHandler(w.id)
  BY DEF InHandler
<1>3. Places(w.id) = {<<"work", w.conn, w.kind>>} /\ w.id <= ncalls
  BY <1>1, <1>2, OnlyPlace DEF Places, CallInv
<1>4. InHandler(w.id) = {<<"work", w.conn, w.kind>>}
  BY <1>2, <1>3 DEF Places
<1>5. \A c : c # w.id => InHandler(c)' = InHandler(c)
  BY DEF InHandler
<1> QED BY <1>1, <1>3, <1>4, <1>5

LEMMA WorkGone ==
  ASSUME CallInv, NEW w \in work, work' = work \ {w}, NEW d, d = w.id
  PROVE  InHandler(d)' = {}
<1>1. ASSUME NEW v \in work', v.id = d
      PROVE  FALSE
  <2>1. v \in work /\ v # w
    BY <1>1
  <2>2. <<"work", v.conn, v.kind>> \in InHandler(w.id)
    BY <1>1, <2>1 DEF InHandler
  <2>3. <<"work", v.conn, v.kind>> = <<"work", w.conn, w.kind>>
    BY <2>2, WorkDone
  <2>4. v.conn = w.conn /\ v.kind = w.kind /\ v.id = w.id
    BY <1>1, <2>3
  <2>5. v \in Work /\ w \in Work
    BY <2>1 DEF CallInv, TypeOK, ServerTypeOK
  <2> QED BY <2>1, <2>4, <2>5 DEF Work
<1> QED BY <1>1 DEF InHandler

\* A handler's promise that resolves: the answer is on its way back, or never
\* will be.
LEMMA ResolvePlaces ==
  ASSUME CallInv, NEW w \in work, PromiseResolves(w), UNCHANGED browserVars
  PROVE  CallInOnePlace'
<1>1. PICK d : d = w.id
  OBVIOUS
<1>2. PICK b \in {"result", "nothing"} : ServerSends(w.conn, Response(d, b))
  BY <1>1 DEF PromiseResolves
<1>3. /\ work' = work \ {w} /\ w.conn \in Conns
      /\ unanswered' = IF srvEnd[w.conn] = "OPEN" THEN unanswered ELSE unanswered \cup {d}
      /\ UNCHANGED <<buffer, c2s, promise, forgotten, ncalls>>
  BY <1>1 DEF PromiseResolves, browserVars, rpcVars, CallInv, TypeOK, ServerTypeOK, Work
<1>4. /\ d \in Calls /\ d <= ncalls
      /\ Places(d) = {<<"work", w.conn, w.kind>>} /\ InHandler(d) = {<<"work", w.conn, w.kind>>}
  BY <1>1, <1>3, WorkDone
<1>5. ASSUME NEW c \in Calls
      PROVE  /\ OnItsWayBack(c)' = OnItsWayBack(c) \cup
                  (IF c = d /\ srvEnd[w.conn] = "OPEN"
                   THEN {<<"s2c", w.conn, Len(s2c[w.conn]) + 1>>} ELSE {})
             /\ NotAnswered(c)' = NotAnswered(c) \cup
                  (IF c = d /\ srvEnd[w.conn] # "OPEN" THEN {<<"unanswered", 0, 0>>} ELSE {})
             /\ InBuffer(c)' = InBuffer(c) /\ OnItsWay(c)' = OnItsWay(c)
             /\ Settled(c)' = Settled(c) /\ Forgotten(c)' = Forgotten(c)
  <2>1. OnItsWayBack(c)' = OnItsWayBack(c) \cup
          (IF c = d /\ srvEnd[w.conn] = "OPEN"
           THEN {<<"s2c", w.conn, Len(s2c[w.conn]) + 1>>} ELSE {})
    BY <1>2, <1>3, <1>4, SendingAnswer DEF CallInv, Bodies
  <2>2. NotAnswered(c)' = NotAnswered(c) \cup
          (IF c = d /\ srvEnd[w.conn] # "OPEN" THEN {<<"unanswered", 0, 0>>} ELSE {})
    BY <1>3 DEF NotAnswered
  <2> QED BY <1>3, <2>1, <2>2 DEF InBuffer, OnItsWay, Settled, Forgotten
<1>6. ASSUME NEW c \in Calls, c # d
      PROVE  Places(c)' = Places(c)
  <2>1. InHandler(c)' = InHandler(c)
    BY <1>1, <1>3, <1>6, WorkDone
  <2> QED BY <1>5, <1>6, <2>1 DEF Places
<1>7. Single(Places(d)')
  <2>1. InHandler(d)' = {}
    BY <1>1, <1>3, WorkGone
  <2>2. /\ InBuffer(d) = {} /\ OnItsWay(d) = {} /\ OnItsWayBack(d) = {}
        /\ Settled(d) = {} /\ NotAnswered(d) = {} /\ Forgotten(d) = {}
    BY <1>4, Stages DEF Places
  <2>3. Places(d)' = IF srvEnd[w.conn] = "OPEN"
                     THEN {<<"s2c", w.conn, Len(s2c[w.conn]) + 1>>}
                     ELSE {<<"unanswered", 0, 0>>}
    BY <1>4, <1>5, <2>1, <2>2 DEF Places
  <2> QED BY <2>3 DEF Single
<1> QED BY <1>3, <1>4, <1>6, <1>7 DEF CallInv, CallInOnePlace

\* One that rejects: there never will be an answer.
LEMMA RejectPlaces ==
  ASSUME CallInv, NEW w \in work, PromiseRejects(w), UNCHANGED browserVars
  PROVE  CallInOnePlace'
<1>1. PICK d : d = w.id
  OBVIOUS
<1>2. /\ work' = work \ {w} /\ unanswered' = unanswered \cup {d}
      /\ UNCHANGED <<buffer, c2s, s2c, promise, forgotten, ncalls>>
  BY <1>1 DEF PromiseRejects, transportVars, browserVars, rpcVars
<1>3. /\ d \in Calls /\ d <= ncalls
      /\ Places(d) = {<<"work", w.conn, w.kind>>} /\ InHandler(d) = {<<"work", w.conn, w.kind>>}
  BY <1>1, <1>2, WorkDone
<1>4. ASSUME NEW c \in Calls
      PROVE  /\ InBuffer(c)' = InBuffer(c) /\ OnItsWay(c)' = OnItsWay(c)
             /\ OnItsWayBack(c)' = OnItsWayBack(c)
             /\ Settled(c)' = Settled(c) /\ Forgotten(c)' = Forgotten(c)
             /\ c # d => NotAnswered(c)' = NotAnswered(c)
             /\ c = d => NotAnswered(c)' = {<<"unanswered", 0, 0>>}
  BY <1>2 DEF InBuffer, OnItsWay, OnItsWayBack, Settled, NotAnswered, Forgotten
<1>5. ASSUME NEW c \in Calls, c # d
      PROVE  Places(c)' = Places(c)
  <2>1. InHandler(c)' = InHandler(c)
    BY <1>1, <1>2, <1>5, WorkDone
  <2> QED BY <1>4, <1>5, <2>1 DEF Places
<1>6. Places(d)' = {<<"unanswered", 0, 0>>}
  <2>1. InHandler(d)' = {}
    BY <1>1, <1>2, WorkGone
  <2>2. /\ InBuffer(d) = {} /\ OnItsWay(d) = {} /\ OnItsWayBack(d) = {}
        /\ Settled(d) = {} /\ Forgotten(d) = {}
    BY <1>3, Stages DEF Places
  <2> QED BY <1>3, <1>4, <2>1, <2>2 DEF Places
<1> QED BY <1>2, <1>3, <1>5, <1>6 DEF CallInv, CallInOnePlace, Single

\* A notification the server reads moves the calls behind it up; if its
\* handler throws, or a promise rejects on a node that minds, the calls in
\* handlers are never answered.
LEMMA NotificationPlaces ==
  ASSUME CallInv, NEW e \in Conns, TakeNotification(e),
         UNCHANGED <<buffer, promise, forgotten, ncalls, s2c>>,
         \/ UNCHANGED <<work, unanswered>>
         \/ work' = {} /\ unanswered' = unanswered \cup {w.id : w \in work}
  PROVE  CallInOnePlace'
<1>1. ServerTakes(e) /\ \A c : Head(c2s[e]) # Request(c)
  BY DEF TakeNotification, IsNotification, Request
<1>2. CASE UNCHANGED <<work, unanswered>>
  <2>1. \A c : InHandler(c)' = InHandler(c) /\ OnItsWayBack(c)' = OnItsWayBack(c)
    BY <1>2 DEF InHandler, OnItsWayBack
  <2> QED BY <1>1, <1>2, <2>1, TakingPlaces DEF CallInv, CallInOnePlace
<1>3. CASE work' = {} /\ unanswered' = unanswered \cup {w.id : w \in work}
  <2>1. ASSUME NEW c \in Calls
        PROVE  /\ Single(Places(c)) => Single(Places(c)')
               /\ Places(c) = {} => Places(c)' = {}
    <3> DEFINE A == OnItsWay(c) \cup InHandler(c) \cup NotAnswered(c)
               B == OnItsWay(c)' \cup NotAnswered(c)'
               R == InBuffer(c) \cup OnItsWayBack(c) \cup Settled(c) \cup Forgotten(c)
    <3>1. Places(c) = A \cup R
      BY DEF Places
    <3>2. Places(c)' = B \cup R
      BY <1>3 DEF Places, InBuffer, InHandler, OnItsWayBack, Settled, Forgotten
    <3>3. A \cap R = {}
      BY Stages
    <3>4. InHandler(c) \cup NotAnswered(c) = {} <=> NotAnswered(c)' = {}
      BY <1>3 DEF InHandler, NotAnswered
    <3>5. (OnItsWay(c) = {} => OnItsWay(c)' = {}) /\ (Single(OnItsWay(c)) => Single(OnItsWay(c)'))
      BY <1>1, TakingMovesUp DEF CallInv
    <3>6. NotAnswered(c)' = {} \/ Single(NotAnswered(c)')
      BY DEF NotAnswered, Single
    <3>7. A = {} => B = {}
      BY <3>4, <3>5
    <3>8. Single(A) => Single(B)
      <4> SUFFICES ASSUME NEW p, A = {p} PROVE Single(B)
        BY DEF Single
      <4>1. CASE OnItsWay(c) = {}
        BY <3>4, <3>5, <3>6, <4>1 DEF Single
      <4>2. CASE OnItsWay(c) # {}
        <5>1. OnItsWay(c) = {p} /\ InHandler(c) \cup NotAnswered(c) = {}
          BY <4>2, Stages
        <5>2. Single(OnItsWay(c)') /\ NotAnswered(c)' = {}
          BY <3>4, <3>5, <5>1 DEF Single
        <5> QED BY <5>2
      <4> QED BY <4>1, <4>2
    <3> HIDE DEF A, B, R
    <3>9. Single(A \cup R) => Single(B \cup R)
      BY <3>3, <3>7, <3>8, Moves
    <3> QED BY <3>1, <3>2, <3>7, <3>9
  <2> QED BY <2>1 DEF CallInv, CallInOnePlace
<1> QED BY <1>2, <1>3

LEMMA DeathPlaces ==
  ASSUME CallInv, UNCHANGED <<buffer, c2s, s2c, promise, forgotten, ncalls>>,
         work' = {}, unanswered' = unanswered \cup {w.id : w \in work}
  PROVE  CallInOnePlace'
<1>1. ASSUME NEW c \in Calls
      PROVE  /\ Single(Places(c)) => Single(Places(c)')
             /\ Places(c) = {} => Places(c)' = {}
  <2> DEFINE A == InHandler(c) \cup NotAnswered(c)
             B == NotAnswered(c)'
             R == InBuffer(c) \cup OnItsWay(c) \cup OnItsWayBack(c) \cup Settled(c)
                    \cup Forgotten(c)
  <2>1. Places(c) = A \cup R
    BY DEF Places
  <2>2. Places(c)' = B \cup R
    BY DEF Places, InBuffer, OnItsWay, InHandler, OnItsWayBack, Settled, Forgotten
  <2>3. A \cap R = {}
    BY Stages
  <2>4. A = {} <=> B = {}
    BY DEF InHandler, NotAnswered
  <2>5. B = {} \/ Single(B)
    BY DEF NotAnswered, Single
  <2>6. Single(A) => Single(B)
    BY <2>4, <2>5 DEF Single
  <2> HIDE DEF A, B, R
  <2>7. Single(A \cup R) => Single(B \cup R)
    BY <2>3, <2>4, <2>6, Moves
  <2> QED BY <2>1, <2>2, <2>4, <2>7
<1> QED BY <1>1 DEF CallInv, CallInOnePlace

\* Every step of the system.
LEMMA NextPlaces ==
  ASSUME CallInv, [Next]_vars
  PROVE  CallInOnePlace'
<1>1. CASE BrowserNext /\ UNCHANGED serverVars
  <2>1. CASE OnAttempt \/ \E e \in Conns : OnClose(e)
    <3>1. UNCHANGED <<buffer, c2s, work, s2c, promise, unanswered, forgotten, ncalls>>
      BY <1>1, <2>1 DEF OnAttempt, AttemptReconnect, OnClose, SocketCloses, rpcVars, serverVars
    <3> QED BY <3>1, PlacesFrame DEF CallInv
  <2> QED
    BY <1>1, <2>1, CallPlaces, StorePlaces, ReloadPlaces, OpenPlaces, ResponsePlaces
    DEF BrowserNext, PageStep, SocketStep
<1>2. CASE ServerNext /\ UNCHANGED browserVars
  <2>1. UNCHANGED <<buffer, promise, forgotten, ncalls>>
    BY <1>2 DEF browserVars, rpcVars
  <2>2. CASE \E e \in Conns : RegisterClient(e) \/ UnregisterClient(e)
    <3>1. UNCHANGED <<c2s, work, s2c, unanswered>>
      BY <2>2 DEF RegisterClient, UnregisterClient, AcceptConnection, ServerEndCloses
    <3> QED BY <2>1, <3>1, PlacesFrame DEF CallInv
  <2>3. CASE \E e \in Conns, k \in HandlerKinds : ReceiveRequest(e, k)
    BY <1>2, <2>3, RequestPlaces
  <2>4. CASE \E e \in Conns, k \in HandlerKinds : ReceiveNotification(e, k)
    BY <2>1, <2>4, NotificationPlaces DEF ReceiveNotification
  <2>5. CASE \E w \in work : PromiseResolves(w) \/ PromiseRejects(w)
    BY <1>2, <2>5, ResolvePlaces, RejectPlaces
  <2>6. CASE \E e \in Conns : NotificationKillsServer(e)
    BY <2>1, <2>6, NotificationPlaces DEF NotificationKillsServer, ProcessEnds
  <2>7. CASE \E w \in work : RejectionKillsServer(w)
    BY <2>1, <2>7, DeathPlaces DEF RejectionKillsServer, ProcessEnds
  <2> QED
    BY <1>2, <2>2, <2>3, <2>4, <2>5, <2>6, <2>7 DEF ServerNext, ServerReads, ServerDies
<1>3. CASE UNCHANGED vars
  BY <1>3, PlacesFrame DEF vars, transportVars, rpcVars, serverVars, CallInv
<1> QED BY <1>1, <1>2, <1>3 DEF Next

-----------------------------------------------------------------------------
(* The other parts of the invariant.                                        *)

\* Three actions put something on a connection to the browser or take it off.
LEMMA NextAnswers ==
  ASSUME TypeOK, ServerOnlyAnswers, [Next]_vars
  PROVE  ServerOnlyAnswers'
<1> USE DEF ServerOnlyAnswers
<1>1. s2c \in [Conns -> Seq(Message)]
  BY DEF TypeOK, TransportTypeOK
<1>2. ASSUME NEW e \in Conns, NEW c, NEW b, ServerSends(e, Response(c, b))
      PROVE  ServerOnlyAnswers'
  <2>1. IsResponse(Response(c, b))
    BY DEF IsResponse, Response
  <2>2. s2c[e] \in Seq(Message)
    BY <1>1
  <2>3. \A i \in DOMAIN Append(s2c[e], Response(c, b)) :
          IsResponse(Append(s2c[e], Response(c, b))[i])
    BY <2>1, <2>2
  <2> QED BY <1>1, <1>2, <2>3 DEF ServerSends
<1>3. CASE \E e \in Conns : OnResponse(e)
  <2>1. PICK e \in Conns : ClientTakes(e)
    BY <1>3 DEF OnResponse
  <2>2. s2c[e] \in Seq(Message) /\ s2c[e] # <<>> /\ s2c' = [s2c EXCEPT ![e] = Tail(s2c[e])]
    BY <1>1, <2>1 DEF ClientTakes
  <2>3. \A i \in DOMAIN Tail(s2c[e]) : IsResponse(Tail(s2c[e])[i])
    BY <2>2, TailIndices
  <2> QED BY <1>1, <2>2, <2>3
<1>4. CASE \E e \in Conns, k \in HandlerKinds : ReceiveRequest(e, k)
  BY <1>2, <1>4 DEF ReceiveRequest, Answer
<1>5. CASE \E w \in work : PromiseResolves(w)
  BY <1>2, <1>5 DEF PromiseResolves, TypeOK, ServerTypeOK, Work
<1>6. CASE UNCHANGED s2c
  BY <1>6
<1> QED
  BY <1>3, <1>4, <1>5, <1>6
  DEF Next, BrowserNext, PageStep, StoreStep, SocketStep, Call, NewEntry, Notify, OnAttempt,
      AttemptReconnect, Reload, PageRestarts, OnOpen, SocketOpens, OnClose, SocketCloses,
      AddCommits, FlushSends, FlushAborts, FlushCommits, ServerNext, RegisterClient,
      UnregisterClient, AcceptConnection, ServerEndCloses, ServerReads, ReceiveNotification,
      PromiseRejects, ServerDies, NotificationKillsServer, RejectionKillsServer,
      transportVars, vars

\* Nothing is sent on, accepted on or read from a connection that is to come.
LEMMA NextFuture ==
  ASSUME TypeOK, SocketInv, FutureConnsEmpty, [Next]_vars
  PROVE  FutureConnsEmpty'
<1> USE DEF FutureConnsEmpty
<1>1. /\ socket \in Nat /\ Conns \subseteq Nat /\ socket \in Conns
      /\ c2s \in [Conns -> Seq(Message)] /\ s2c \in [Conns -> Seq(Message)]
      /\ srvEnd \in [Conns -> SrvStates]
  BY DEF TypeOK, TransportTypeOK, SocketTypeOK, Conns
<1>2. \A e \in Conns : srvEnd[e] = "OPEN" \/ cliEnd[e] # "UNUSED" => ~(e > socket)
  BY DEF SocketInv, OneLiveSocket
<1>3. ASSUME NEW ms, SendData(ms)
      PROVE  \A e \in Conns : e > socket => c2s'[e] = c2s[e]
  BY <1>1, <1>3 DEF SendData
<1>4. CASE BrowserNext /\ UNCHANGED serverVars
  <2>1. UNCHANGED <<srvEnd, work>>
    BY <1>4
    DEF BrowserNext, PageStep, StoreStep, SocketStep, Call, Notify, OnAttempt,
        AttemptReconnect, Reload, PageRestarts, OnOpen, SocketOpens, OnClose, SocketCloses,
        OnResponse, AddCommits, FlushSends, FlushAborts, FlushCommits, transportVars, serverVars
  <2>2. socket' = socket \/ socket' = socket + 1
    BY <1>4
    DEF BrowserNext, PageStep, StoreStep, SocketStep, Call, Notify, OnAttempt, NewWebSocket,
        AttemptReconnect, Reload, PageRestarts, OnOpen, SocketOpens, OnClose, SocketCloses,
        OnResponse, AddCommits, FlushSends, FlushAborts, FlushCommits, clientVars
  <2>3. \A e \in Conns : e > socket => c2s'[e] = <<>>
    <3>1. CASE Call \/ Notify \/ FlushSends
      BY <1>3, <3>1 DEF Call, SendOrBuffer, Notify, SendOrStore, FlushSends
    <3>2. CASE \E e \in Conns : OnOpen(e)
      <4>1. c2s' = c2s \/ c2s' = [c2s EXCEPT ![socket] = c2s[socket] \o buffer]
        BY <3>2 DEF OnOpen, FlushBuffer
      <4>2. \A e \in Conns : e > socket => c2s'[e] = c2s[e]
        BY <1>1, <4>1
      <4> QED BY <4>2
    <3>3. CASE UNCHANGED c2s
      BY <3>3
    <3> QED
      BY <1>4, <3>1, <3>2, <3>3
      DEF BrowserNext, PageStep, StoreStep, SocketStep, OnAttempt, AttemptReconnect, Reload,
          PageRestarts, OnClose, SocketCloses, OnResponse, AddCommits, FlushAborts,
          FlushCommits, transportVars
  <2>4. \A e \in Conns : e > socket => s2c'[e] = <<>>
    <3>1. CASE \E e \in Conns : OnResponse(e)
      BY <1>1, <3>1 DEF OnResponse, ClientTakes
    <3>2. CASE UNCHANGED s2c
      BY <3>2
    <3> QED
      BY <1>4, <3>1, <3>2
      DEF BrowserNext, PageStep, StoreStep, SocketStep, Call, Notify, OnAttempt,
          AttemptReconnect, Reload, PageRestarts, OnOpen, SocketOpens, OnClose, SocketCloses,
          AddCommits, FlushSends, FlushAborts, FlushCommits, transportVars
  <2> QED BY <1>1, <2>1, <2>2, <2>3, <2>4
<1>5. CASE ServerNext /\ UNCHANGED browserVars
  <2>1. socket' = socket
    BY <1>5 DEF browserVars, clientVars
  <2>2. ASSUME NEW e \in Conns, ServerTakes(e)
        PROVE  \A f \in Conns : f > socket => c2s'[f] = c2s[f]
    BY <1>1, <1>2, <2>2 DEF ServerTakes
  <2>3. ASSUME NEW e \in Conns, NEW m, ServerSends(e, m)
        PROVE  \A f \in Conns : f > socket => s2c'[f] = s2c[f]
    BY <1>1, <1>2, <2>3 DEF ServerSends
  <2>4. CASE \E e \in Conns : RegisterClient(e) \/ UnregisterClient(e)
    BY <1>1, <1>2, <2>1, <2>4
    DEF RegisterClient, UnregisterClient, AcceptConnection, ServerEndCloses
  <2>5. CASE \E e \in Conns, k \in HandlerKinds : ReceiveRequest(e, k)
    <3>1. PICK e \in Conns, k \in HandlerKinds : ReceiveRequest(e, k)
      BY <2>5
    <3>2. ServerTakes(e) /\ ~(e > socket) /\ srvEnd' = srvEnd
      BY <1>2, <3>1 DEF ReceiveRequest, ServerTakes
    <3>3. \A f \in Conns : f > socket => s2c'[f] = s2c[f]
      BY <2>3, <3>1 DEF ReceiveRequest, Answer
    <3>4. \A w \in work' : w \in work \/ w.conn = e
      BY <3>1 DEF ReceiveRequest
    <3> QED BY <2>1, <2>2, <3>2, <3>3, <3>4
  <2>6. CASE \E e \in Conns, k \in HandlerKinds : ReceiveNotification(e, k)
    BY <2>1, <2>2, <2>6 DEF ReceiveNotification, TakeNotification
  <2>7. CASE \E w \in work : PromiseResolves(w)
    <3>1. PICK w \in work : PromiseResolves(w)
      BY <2>7
    <3>2. w.conn \in Conns
      BY DEF TypeOK, ServerTypeOK, Work
    <3>3. \A f \in Conns : f > socket => s2c'[f] = s2c[f]
      BY <2>3, <3>1, <3>2 DEF PromiseResolves
    <3> QED BY <2>1, <3>1, <3>3 DEF PromiseResolves
  <2>8. CASE \E w \in work : PromiseRejects(w)
    BY <2>1, <2>8 DEF PromiseRejects, transportVars
  <2>9. CASE ServerDies
    BY <1>1, <2>1, <2>2, <2>9
    DEF ServerDies, NotificationKillsServer, RejectionKillsServer, TakeNotification, ProcessEnds
  <2> QED
    BY <1>5, <2>4, <2>5, <2>6, <2>7, <2>8, <2>9 DEF ServerNext, ServerReads
<1>6. CASE UNCHANGED vars
  BY <1>6 DEF vars, transportVars, clientVars, serverVars
<1> QED BY <1>4, <1>5, <1>6 DEF Next

\* Messages that join a queue.
LEMMA AppendMembers ==
  ASSUME NEW S, NEW s \in Seq(S), NEW m \in S
  PROVE  /\ \A x : Has(Append(s, m), x) => x = m \/ Has(s, x)
         /\ \A c : HasAnswer(Append(s, m), c) => c = m.id \/ HasAnswer(s, c)
<1>1. \A i \in DOMAIN Append(s, m) :
        Append(s, m)[i] = m \/ (i \in DOMAIN s /\ Append(s, m)[i] = s[i])
  OBVIOUS
<1> QED BY <1>1 DEF Has, HasAnswer

LEMMA JoinMembers ==
  ASSUME NEW S, NEW s \in Seq(S), NEW t \in Seq(S), NEW x, Has(s \o t, x)
  PROVE  Has(s, x) \/ Has(t, x)
<1>1. {j \in DOMAIN (s \o t) : (s \o t)[j] = x}
      = {j \in DOMAIN s : s[j] = x} \cup {Len(s) + i : i \in {k \in DOMAIN t : t[k] = x}}
  BY JoinIndices
<1>2. PICK j \in DOMAIN (s \o t) : (s \o t)[j] = x
  BY DEF Has
<1> QED BY <1>1, <1>2 DEF Has

LEMMA TailMembers ==
  ASSUME NEW S, NEW s \in Seq(S), s # <<>>, NEW c, HasAnswer(Tail(s), c)
  PROVE  HasAnswer(s, c)
BY TailIndices DEF HasAnswer

\* What the page does to the calls that are with it.
LEMMA BrowserPagePending ==
  ASSUME CallInv, CallInOnePlace', BrowserNext, UNCHANGED serverVars
  PROVE  PageCallsPending'
<1>1. /\ socket \in Conns /\ c2s[socket] \in Seq(Message) /\ s2c[socket] \in Seq(Message)
      /\ c2s \in [Conns -> Seq(Message)] /\ s2c \in [Conns -> Seq(Message)]
      /\ buffer \in Seq(Requests) /\ buffer \in Seq(Message)
      /\ promise \in [Calls -> PromiseStates]
  BY DEF CallInv, TypeOK, TransportTypeOK, SocketTypeOK, RpcTypeOK, Message
<1>2. work' = work
  BY DEF serverVars
<1>3. \A c \in Calls : WithPage(c) => promise[c] = "pending"
  BY DEF CallInv, PageCallsPending
<1>4. CASE Call
  <2>1. PICK d : d = ncalls + 1
    OBVIOUS
  <2>2. /\ d \in Calls /\ promise' = [promise EXCEPT ![d] = "pending"]
        /\ SendOrBuffer(Request(d)) /\ UNCHANGED <<s2c, socket>>
    BY <1>4, <2>1 DEF Call, NewEntry, clientVars
  <2>3. Request(d) \in Requests /\ Request(d) \in Message
    BY <2>2, MessageConstructors
  <2>4. ASSUME NEW c \in Calls, WithPage(c)', c # d
        PROVE  WithPage(c)
    <3>1. Request(d) # Request(c)
      BY <2>4 DEF Request
    <3>2. CASE connected
      <4>1. buffer' = buffer /\ SendData(<<Request(d)>>)
        BY <2>2, <3>2 DEF SendOrBuffer
      <4>2. c2s'[socket] = c2s[socket] \/ c2s'[socket] = Append(c2s[socket], Request(d))
        BY <1>1, <2>3, <4>1 DEF SendData
      <4>3. Has(Append(c2s[socket], Request(d)), Request(c)) => Has(c2s[socket], Request(c))
        BY <1>1, <2>3, <3>1, AppendMembers
      <4> QED BY <1>2, <2>2, <2>4, <4>1, <4>2, <4>3 DEF WithPage
    <3>3. CASE ~connected
      <4>1. buffer' = Append(buffer, Request(d)) /\ c2s' = c2s
        BY <2>2, <3>3 DEF SendOrBuffer
      <4>2. Has(buffer', Request(c)) => Has(buffer, Request(c))
        BY <1>1, <2>3, <3>1, <4>1, AppendMembers
      <4> QED BY <1>2, <2>2, <2>4, <4>1, <4>2 DEF WithPage
    <3> QED BY <3>2, <3>3
  <2> QED BY <1>1, <1>3, <2>2, <2>4 DEF PageCallsPending
<1>5. ASSUME NEW m \in Message, IsNotification(m), SendData(<<m>>),
             UNCHANGED <<buffer, s2c, socket, promise>>
      PROVE  PageCallsPending'
  <2>1. c2s'[socket] = c2s[socket] \/ c2s'[socket] = Append(c2s[socket], m)
    BY <1>1, <1>5 DEF SendData
  <2>2. \A c : m # Request(c)
    BY <1>5 DEF IsNotification, Request
  <2>3. \A c : Has(Append(c2s[socket], m), Request(c)) => Has(c2s[socket], Request(c))
    BY <1>1, <1>5, <2>2, AppendMembers
  <2>4. \A c \in Calls : WithPage(c)' => WithPage(c)
    BY <1>2, <1>5, <2>1, <2>3 DEF WithPage
  <2> QED BY <1>3, <1>5, <2>4 DEF PageCallsPending
<1>6. CASE Notify \/ StoreStep
  <2>1. UNCHANGED <<buffer, s2c, socket, promise>>
    BY <1>6 DEF Notify, StoreStep, AddCommits, FlushSends, FlushAborts, FlushCommits,
      transportVars, rpcVars, clientVars
  <2>2. CASE c2s' = c2s
    BY <1>2, <1>3, <2>1, <2>2 DEF PageCallsPending, WithPage
  <2>3. CASE Notify /\ connected
    <3> DEFINE n == nnotes + 1
    <3>1. n \in Notes /\ SendData(<<Notification(n)>>)
      BY <2>3 DEF Notify, SendOrStore
    <3>2. Notification(n) \in Message /\ IsNotification(Notification(n))
      BY <3>1, MessageConstructors DEF IsNotification, Notification
    <3> QED BY <1>5, <2>1, <3>1, <3>2
  <2>4. CASE FlushSends
    <3>1. store \in Seq(Message) /\ store # <<>>
      BY <2>4 DEF FlushSends, CallInv, TypeOK, RpcTypeOK
    <3>2. Head(store) = store[1] /\ 1 \in DOMAIN store /\ Head(store) \in Message
      BY <3>1, TailIndices
    <3>3. IsNotification(Head(store))
      BY <3>2 DEF CallInv, StoreHoldsNotes
    <3> QED BY <1>5, <2>1, <2>4, <3>2, <3>3 DEF FlushSends
  <2> QED
    BY <1>6, <2>2, <2>3, <2>4 DEF Notify, SendOrStore, StoreStep, AddCommits, FlushAborts,
      FlushCommits, transportVars
<1>7. CASE OnAttempt \/ Reload
  <2>1. /\ socket' = socket + 1 /\ UNCHANGED <<c2s, s2c>>
        /\ buffer' = <<>> \/ UNCHANGED <<buffer, promise>>
    BY <1>7 DEF OnAttempt, AttemptReconnect, NewWebSocket, Reload, PageRestarts, rpcVars
  <2>2. socket + 1 \in Conns /\ socket + 1 > socket
    BY <1>1, <1>7, NextConn DEF OnAttempt, AttemptReconnect, NewWebSocket, Reload, PageRestarts,
      MayFail
  <2>3. /\ c2s[socket + 1] = <<>> /\ s2c[socket + 1] = <<>>
        /\ \A w \in work : w.conn # socket + 1
    BY <2>2 DEF CallInv, FutureConnsEmpty
  <2>4. \A c \in Calls : WithPage(c)' => WithPage(c) /\ UNCHANGED promise
    BY <1>2, <2>1, <2>3 DEF WithPage, Has, HasAnswer
  <2> QED BY <1>3, <2>4 DEF PageCallsPending
<1>8. CASE \E e \in Conns : OnOpen(e)
  <2>1. /\ buffer' = <<>> /\ c2s' = [c2s EXCEPT ![socket] = c2s[socket] \o buffer]
        /\ UNCHANGED <<s2c, socket, promise>>
    BY <1>8 DEF OnOpen, SocketOpens, FlagsOnOpen, FlushBuffer
  <2>2. c2s'[socket] = c2s[socket] \o buffer
    BY <1>1, <2>1
  <2>3. \A c \in Calls : Has(c2s'[socket], Request(c)) =>
          Has(c2s[socket], Request(c)) \/ Has(buffer, Request(c))
    BY <1>1, <2>2, JoinMembers
  <2>4. \A c \in Calls : ~Has(buffer', Request(c))
    BY <2>1 DEF Has
  <2>5. \A c \in Calls : WithPage(c)' => WithPage(c)
    BY <1>2, <2>1, <2>3, <2>4 DEF WithPage
  <2> QED BY <1>3, <2>1, <2>5 DEF PageCallsPending
<1>9. CASE \E e \in Conns : OnClose(e)
  BY <1>2, <1>3, <1>9 DEF PageCallsPending, WithPage, OnClose, SocketCloses, rpcVars
<1>10. CASE \E e \in Conns : OnResponse(e)
  <2>1. PICK e \in Conns : OnResponse(e)
    BY <1>10
  <2>2. PICK d, b : d = Head(s2c[e]).id /\ b = Head(s2c[e]).body
    OBVIOUS
  <2>3. UNCHANGED <<buffer, c2s, socket>> /\ s2c[e] \in Seq(Message) /\ s2c[e] # <<>>
    BY <1>1, <2>1 DEF OnResponse, ClientTakes, clientVars
  <2>4. s2c' = [s2c EXCEPT ![e] = Tail(s2c[e])] /\ Settle(d, b)
    BY <2>1, <2>2 DEF OnResponse, ClientTakes
  <2>5. promise' = promise \/ promise' = [promise EXCEPT ![d] = Outcome(b)]
    BY <2>4 DEF Settle
  <2>6. ASSUME NEW c \in Calls, WithPage(c)'
        PROVE  WithPage(c)
    <3>1. s2c'[socket] = s2c[socket] \/ (e = socket /\ s2c'[socket] = Tail(s2c[socket]))
      BY <1>1, <2>4
    <3>2. HasAnswer(s2c'[socket], c) => HasAnswer(s2c[socket], c)
      BY <1>1, <2>3, <3>1, TailMembers
    <3> QED BY <1>2, <2>3, <2>6, <3>2 DEF WithPage
  <2>7. ASSUME NEW c \in Calls, WithPage(c)', promise'[c] # promise[c]
        PROVE  FALSE
    <3>1. promise'[c] \in {"resolved", "rejected"}
      BY <1>1, <2>5, <2>7 DEF Outcome
    <3>2. <<"settled", 0, 0>> \in Places(c)'
      BY <3>1 DEF Places, Settled
    <3>3. InBuffer(c)' \cup OnItsWay(c)' \cup InHandler(c)' \cup OnItsWayBack(c)' # {}
      <4>1. socket' \in Conns
        BY <1>1, <2>3
      <4>2. Has(buffer', Request(c)) => InBuffer(c)' # {}
        BY DEF Has, InBuffer
      <4>3. Has(c2s'[socket'], Request(c)) => OnItsWay(c)' # {}
        <5> SUFFICES ASSUME NEW i \in DOMAIN c2s'[socket'], c2s'[socket'][i] = Request(c)
                     PROVE  <<"c2s", socket', i>> \in OnItsWay(c)'
          BY DEF Has
        <5> QED BY <4>1 DEF OnItsWay
      <4>4. HasAnswer(s2c'[socket'], c) => OnItsWayBack(c)' # {}
        <5> SUFFICES ASSUME NEW i \in DOMAIN s2c'[socket'], s2c'[socket'][i].id = c
                     PROVE  <<"s2c", socket', i>> \in OnItsWayBack(c)'
          BY DEF HasAnswer
        <5> QED BY <4>1 DEF OnItsWayBack
      <4>5. (\E w \in work' : w.conn = socket' /\ w.id = c) => InHandler(c)' # {}
        BY DEF InHandler
      <4> QED BY <2>7, <4>2, <4>3, <4>4, <4>5 DEF WithPage
    <3>4. Places(c)' = {<<"settled", 0, 0>>}
      BY <3>2 DEF CallInOnePlace, Single
    <3>5. <<"settled", 0, 0>> \in InBuffer(c)' \cup OnItsWay(c)' \cup InHandler(c)'
                                    \cup OnItsWayBack(c)'
      BY <3>3, <3>4 DEF Places
    <3> QED BY <3>5 DEF InBuffer, OnItsWay, InHandler, OnItsWayBack
  <2> QED BY <1>3, <2>6, <2>7 DEF PageCallsPending
<1> QED
  BY <1>4, <1>6, <1>7, <1>8, <1>9, <1>10 DEF BrowserNext, PageStep, SocketStep

\* What the server does to them.
LEMMA ServerPagePending ==
  ASSUME CallInv, ServerNext, UNCHANGED browserVars
  PROVE  PageCallsPending'
<1>1. /\ socket \in Conns /\ s2c \in [Conns -> Seq(Message)] /\ s2c[socket] \in Seq(Message)
      /\ c2s \in [Conns -> Seq(Message)] /\ c2s[socket] \in Seq(Message)
  BY DEF CallInv, TypeOK, TransportTypeOK, SocketTypeOK
<1>2. UNCHANGED <<buffer, promise, socket>>
  BY DEF browserVars, rpcVars, clientVars
<1>3. \A c \in Calls : WithPage(c) => promise[c] = "pending"
  BY DEF CallInv, PageCallsPending
<1>4. ASSUME NEW e \in Conns, ServerTakes(e)
      PROVE  \A x : Has(c2s'[socket], x) => Has(c2s[socket], x)
  <2>1. c2s[e] \in Seq(Message) /\ c2s[e] # <<>> /\ c2s' = [c2s EXCEPT ![e] = Tail(c2s[e])]
    BY <1>1, <1>4 DEF ServerTakes
  <2>2. \A x : Has(Tail(c2s[e]), x) => Has(c2s[e], x)
    BY <2>1, TailIndices DEF Has
  <2> QED BY <1>1, <2>1, <2>2
<1>5. ASSUME NEW e \in Conns, NEW d \in Calls, NEW b \in Bodies, ServerSends(e, Response(d, b))
      PROVE  \A c : HasAnswer(s2c'[socket], c) =>
               HasAnswer(s2c[socket], c) \/ (c = d /\ e = socket)
  <2>1. Response(d, b) \in Message /\ Response(d, b).id = d
    BY MessageConstructors DEF Response
  <2>2. \A c : HasAnswer(Append(s2c[socket], Response(d, b)), c) =>
          c = d \/ HasAnswer(s2c[socket], c)
    BY <1>1, <2>1, AppendMembers
  <2>3. \/ s2c'[socket] = s2c[socket]
        \/ e = socket /\ s2c'[socket] = Append(s2c[socket], Response(d, b))
    BY <1>1, <1>5 DEF ServerSends
  <2> QED BY <2>2, <2>3
<1>6. CASE \E e \in Conns : RegisterClient(e) \/ UnregisterClient(e)
  BY <1>2, <1>3, <1>6
  DEF RegisterClient, UnregisterClient, AcceptConnection, ServerEndCloses, PageCallsPending,
      WithPage
<1>7. CASE \E e \in Conns, k \in HandlerKinds : ReceiveRequest(e, k)
  <2>1. PICK e \in Conns, k \in HandlerKinds : ReceiveRequest(e, k)
    BY <1>7
  <2>2. PICK m : m = Head(c2s[e])
    OBVIOUS
  <2>3. ServerTakes(e) /\ IsRequest(m)
    BY <2>1, <2>2 DEF ReceiveRequest
  <2>4. m.id \in Calls /\ m = Request(m.id)
    BY <2>2, <2>3, ServerTakesType, MessageFields DEF CallInv
  <2>5. e = socket => WithPage(m.id)
    <3>1. c2s[e] # <<>> /\ c2s[e] \in Seq(Message)
      BY <1>1, <2>3 DEF ServerTakes
    <3>2. Has(c2s[e], m)
      BY <2>2, <3>1, TailIndices DEF Has
    <3> QED BY <2>4, <3>2 DEF WithPage
  <2>6. CASE Async(k)
    <3>1. s2c' = s2c /\ work' = work \cup {[conn |-> e, id |-> m.id, kind |-> k]}
      BY <2>1, <2>2, <2>6 DEF ReceiveRequest
    <3>2. \A c : (\E w \in work' : w.conn = socket /\ w.id = c) =>
                   (\E w \in work : w.conn = socket /\ w.id = c) \/ (c = m.id /\ e = socket)
      BY <3>1
    <3>3. \A c \in Calls : WithPage(c)' => WithPage(c)
      BY <1>2, <1>4, <2>3, <2>5, <3>1, <3>2 DEF WithPage
    <3> QED BY <1>2, <1>3, <3>3 DEF PageCallsPending
  <2>7. CASE ~Async(k)
    <3>1. work' = work /\ ServerSends(e, Response(m.id, BodyOf(k))) /\ BodyOf(k) \in Bodies
      BY <2>1, <2>2, <2>7, BodyOfType DEF ReceiveRequest, Answer
    <3>2. \A c : HasAnswer(s2c'[socket], c) =>
            HasAnswer(s2c[socket], c) \/ (c = m.id /\ e = socket)
      BY <1>5, <2>4, <3>1
    <3>3. \A c \in Calls : WithPage(c)' => WithPage(c)
      BY <1>2, <1>4, <2>3, <2>5, <3>1, <3>2 DEF WithPage
    <3> QED BY <1>2, <1>3, <3>3 DEF PageCallsPending
  <2> QED BY <2>6, <2>7
<1>8. CASE \E w \in work : PromiseResolves(w)
  <2>1. PICK w \in work : PromiseResolves(w)
    BY <1>8
  <2>2. w.conn \in Conns /\ w.id \in Calls /\ w.conn = socket => WithPage(w.id)
    BY DEF CallInv, TypeOK, ServerTypeOK, Work, WithPage
  <2>3. PICK b \in Bodies : ServerSends(w.conn, Response(w.id, b))
    BY <2>1 DEF PromiseResolves, Bodies
  <2>4. \A c : HasAnswer(s2c'[socket], c) =>
          HasAnswer(s2c[socket], c) \/ (c = w.id /\ w.conn = socket)
    <3>1. w.conn \in Conns /\ w.id \in Calls
      BY DEF CallInv, TypeOK, ServerTypeOK, Work
    <3> QED BY <1>5, <2>3, <3>1
  <2>5. \A c \in Calls : WithPage(c)' => WithPage(c)
    <3>1. c2s' = c2s /\ work' \subseteq work
      BY <2>1 DEF PromiseResolves
    <3> QED BY <1>2, <2>1, <2>4, <3>1 DEF WithPage
  <2> QED BY <1>2, <1>3, <2>5 DEF PageCallsPending
<1>9. CASE \/ \E e \in Conns, k \in HandlerKinds : ReceiveNotification(e, k)
           \/ \E w \in work : PromiseRejects(w)
           \/ ServerDies
  <2>1. s2c' = s2c /\ work' \subseteq work
    BY <1>9 DEF ReceiveNotification, PromiseRejects, ServerDies, NotificationKillsServer,
      RejectionKillsServer, ProcessEnds, transportVars
  <2>2. c2s' = c2s \/ \E e \in Conns : ServerTakes(e)
    BY <1>9 DEF ReceiveNotification, PromiseRejects, ServerDies, NotificationKillsServer,
      TakeNotification, RejectionKillsServer, transportVars
  <2>3. \A c \in Calls : WithPage(c)' => WithPage(c)
    BY <1>2, <1>4, <2>1, <2>2 DEF WithPage
  <2> QED BY <1>2, <1>3, <2>3 DEF PageCallsPending
<1> QED BY <1>6, <1>7, <1>8, <1>9 DEF ServerNext, ServerReads

\* A promise leaves idle when its call is made, and never comes back.
LEMMA NextIdle ==
  ASSUME TypeOK, PendingTracksPromises, IdleUntilCalled, [Next]_vars
  PROVE  IdleUntilCalled'
<1> USE DEF IdleUntilCalled
<1>1. promise \in [Calls -> PromiseStates] /\ ncalls \in Nat /\ Calls \subseteq Nat
  BY JsonRpcAssumption DEF TypeOK, RpcTypeOK, Calls
<1>2. CASE Call
  <2>1. /\ ncalls + 1 \in Calls /\ ncalls' = ncalls + 1
        /\ promise' = [promise EXCEPT ![ncalls + 1] = "pending"]
    BY <1>2 DEF Call, NewEntry
  <2> QED BY <1>1, <2>1
<1>3. CASE Reload
  BY <1>1, <1>3 DEF Reload, PromisesGone
<1>4. CASE \E e \in Conns : OnResponse(e)
  <2>1. PICK e \in Conns : OnResponse(e)
    BY <1>4
  <2>2. Settle(Head(s2c[e]).id, Head(s2c[e]).body) /\ ncalls' = ncalls
    BY <2>1 DEF OnResponse
  <2>3. \A b : Outcome(b) # "idle"
    BY DEF Outcome
  <2> QED BY <1>1, <2>2, <2>3 DEF Settle, PendingTracksPromises
<1>5. CASE UNCHANGED <<promise, ncalls>>
  BY <1>5
<1> QED
  BY <1>2, <1>3, <1>4, <1>5
  DEF Next, BrowserNext, PageStep, StoreStep, SocketStep, Notify, OnAttempt, OnOpen, OnClose,
      AddCommits, FlushSends, FlushAborts, FlushCommits, rpcVars, browserVars, vars

-----------------------------------------------------------------------------
LEMMA InitCallInv == Init => CallInv
<1> SUFFICES ASSUME Init PROVE CallInv
  OBVIOUS
<1>1. /\ buffer = <<>> /\ c2s = [e \in Conns |-> <<>>] /\ s2c = [e \in Conns |-> <<>>]
      /\ srvEnd = [e \in Conns |-> "UNUSED"] /\ socket = 1 /\ 1 \in Conns
      /\ work = {} /\ unanswered = {} /\ forgotten = {}
      /\ promise = [c \in Calls |-> "idle"] /\ ncalls = 0 /\ pending = {}
      /\ store = <<>> /\ txs = <<>> /\ flushed = <<>>
  BY MaxConnsAssumption DEF Init, TransportInit, SocketInit, RpcInit, StoreInit, ServerInit, Conns
<1>2. TypeOK /\ SocketInv
  BY InitType, InitSocket
<1>3. PendingTracksPromises
  BY <1>1 DEF PendingTracksPromises
<1>4. StoreHoldsNotes /\ ServerOnlyAnswers /\ FutureConnsEmpty
  BY <1>1 DEF StoreHoldsNotes, ServerOnlyAnswers, FutureConnsEmpty
<1>5. PageCallsPending
  BY <1>1 DEF PageCallsPending, WithPage, Has, HasAnswer
<1>6. \A c \in Calls : c > 0
  BY JsonRpcAssumption DEF Calls
<1>7. IdleUntilCalled
  BY <1>1, <1>6 DEF IdleUntilCalled
<1>8. ASSUME NEW c \in Calls
      PROVE  Places(c) = {} /\ ~(c <= ncalls)
  <2>1. /\ InBuffer(c) = {} /\ OnItsWay(c) = {} /\ InHandler(c) = {} /\ OnItsWayBack(c) = {}
        /\ Settled(c) = {} /\ NotAnswered(c) = {} /\ Forgotten(c) = {}
    BY <1>1 DEF InBuffer, OnItsWay, InHandler, OnItsWayBack, Settled, NotAnswered, Forgotten
  <2>2. c \in Nat /\ c > 0
    BY <1>6 DEF Calls
  <2> QED BY <1>1, <2>1, <2>2 DEF Places
<1> QED BY <1>2, <1>3, <1>4, <1>5, <1>7, <1>8 DEF CallInv, CallInOnePlace

LEMMA NextCallInv == CallInv /\ [Next]_vars => CallInv'
<1> SUFFICES ASSUME CallInv, [Next]_vars PROVE CallInv'
  OBVIOUS
<1>1. TypeOK' /\ SocketInv' /\ PendingTracksPromises'
  BY NextType, NextSocket, NextPending DEF CallInv
<1>2. StoreHoldsNotes' /\ ServerOnlyAnswers' /\ FutureConnsEmpty' /\ IdleUntilCalled'
  BY NextStore, NextAnswers, NextFuture, NextIdle DEF CallInv
<1>3. CallInOnePlace'
  BY NextPlaces
<1>4. PageCallsPending'
  <2>1. CASE UNCHANGED vars
    BY <2>1 DEF CallInv, PageCallsPending, WithPage, vars, transportVars, clientVars, rpcVars,
      serverVars
  <2> QED BY <1>3, <2>1, BrowserPagePending, ServerPagePending DEF Next
<1> QED BY <1>1, <1>2, <1>3, <1>4 DEF CallInv

LEMMA CallInvariant == Spec => []CallInv
<1> QED BY InitCallInv, NextCallInv, PTL DEF Spec

(* A call that has been made is in exactly one place, through buffer, breaks,
   reloads, restarts of the server and handlers of every kind: it is never
   sent, handled, answered or settled twice, and never gone without being in
   one of the recorded ways of dying. *)
THEOREM OnePlaceCorrect == Spec => []CallInOnePlace
<1>1. CallInv => CallInOnePlace
  BY DEF CallInv
<1> QED BY <1>1, CallInvariant, PTL

(* Every response an open socket has still to deliver finds its entry in the
   pending table: resolve() never gets to report an unknown id. *)
THEOREM ResponsesMatch == Spec => []NoUnmatchedResponse
<1>1. CallInv => NoUnmatchedResponse
  BY ResponseIsExpected DEF NoUnmatchedResponse
<1> QED BY <1>1, CallInvariant, PTL

-----------------------------------------------------------------------------
(* Calls stay in the order they were made.                                  *)

\* The requests that are with the page have been made.
LEMMA RequestsMade ==
  ASSUME CallInv, NEW n, n > ncalls, n \in Nat
  PROVE  /\ AllBelow(c2s[socket], "request", n)
         /\ AllBelow(buffer, "request", n)
<1>1. ncalls \in Nat /\ Calls \subseteq Nat
  BY DEF CallInv, TypeOK, RpcTypeOK, Calls
<1>2. ASSUME NEW m \in Message, IsRequest(m), WithPage(m.id)
      PROVE  m.id < n
  <2>1. m.id \in Calls
    BY <1>2, MessageFields
  <2>2. promise[m.id] = "pending"
    BY <1>2, <2>1 DEF CallInv, PageCallsPending
  <2>3. ~(m.id > ncalls)
    BY <2>1, <2>2 DEF CallInv, IdleUntilCalled
  <2>4. \A c \in Nat : ~(c > ncalls) => c < n
    BY <1>1
  <2>5. m.id \in Nat
    BY <1>1, <2>1
  <2> QED BY <2>3, <2>4, <2>5
<1>3. ASSUME NEW i \in DOMAIN c2s[socket], c2s[socket][i].kind = "request"
      PROVE  c2s[socket][i].id < n
  <2>1. c2s[socket][i] \in Message
    BY DEF CallInv, TypeOK, TransportTypeOK, SocketTypeOK
  <2>2. c2s[socket][i] = Request(c2s[socket][i].id)
    BY <1>3, <2>1, MessageFields DEF IsRequest
  <2> QED BY <1>2, <1>3, <2>1, <2>2 DEF WithPage, Has, IsRequest
<1>4. ASSUME NEW i \in DOMAIN buffer, buffer[i].kind = "request"
      PROVE  buffer[i].id < n
  <2>1. buffer[i] \in Message
    BY DEF CallInv, TypeOK, RpcTypeOK, Message
  <2>2. buffer[i] = Request(buffer[i].id)
    BY <1>4, <2>1, MessageFields DEF IsRequest
  <2> QED BY <1>2, <1>4, <2>1, <2>2 DEF WithPage, Has, IsRequest
<1> QED BY <1>3, <1>4 DEF AllBelow

\* The current connection and the buffer, each in order, the one before the other.
CallOrder ==
  /\ Ordered(c2s[socket], "request")
  /\ Ordered(buffer, "request")
  /\ Below(c2s[socket], buffer, "request")

LEMMA CallOrderMeans ==
  ASSUME TypeOK
  PROVE  CallsInOrder <=> CallOrder
<1>1. c2s[socket] \in Seq(Message) /\ buffer \in Seq(Message)
  BY DEF TypeOK, TransportTypeOK, SocketTypeOK, RpcTypeOK, Message
<1>2. CallsInOrder <=> Ordered(c2s[socket] \o buffer, "request")
  BY DEF CallsInOrder, Ordered, IsRequest
<1> QED BY <1>1, <1>2, JoinOrdered DEF CallOrder

\* Sending on the current socket while it is connected.
LEMMA SendingOrdered ==
  ASSUME CallInv, NothingBufferedWhileConnected, CallOrder, NEW m \in Message,
         SendData(<<m>>), UNCHANGED <<socket, buffer>>,
         m.kind = "request" => AllBelow(c2s[socket], "request", m.id)
  PROVE  CallOrder'
<1>1. socket \in Conns /\ c2s \in [Conns -> Seq(Message)] /\ c2s[socket] \in Seq(Message)
  BY DEF CallInv, TypeOK, TransportTypeOK, SocketTypeOK
<1>2. CASE cliEnd[socket] = "OPEN"
  <2>1. buffer = <<>>
    BY <1>2 DEF CallInv, SocketInv, FlagsTrackSocket, NothingBufferedWhileConnected
  <2>2. c2s[socket] \o <<m>> = Append(c2s[socket], m)
    BY <1>1
  <2>3. c2s'[socket] = Append(c2s[socket], m)
    BY <1>1, <1>2, <2>2 DEF SendData
  <2>4. Ordered(Append(c2s[socket], m), "request")
    BY <1>1, AppendOrdered DEF CallOrder
  <2> QED BY <2>1, <2>3, <2>4, EmptyOrdered DEF CallOrder
<1>3. CASE cliEnd[socket] # "OPEN"
  BY <1>3 DEF SendData, CallOrder
<1> QED BY <1>2, <1>3

LEMMA BrowserOrder ==
  ASSUME CallInv, NothingBufferedWhileConnected, CallOrder, BrowserNext
  PROVE  CallOrder'
<1>1. /\ socket \in Conns /\ c2s \in [Conns -> Seq(Message)] /\ c2s[socket] \in Seq(Message)
      /\ buffer \in Seq(Requests) /\ buffer \in Seq(Message) /\ ncalls \in Nat
  BY DEF CallInv, TypeOK, TransportTypeOK, SocketTypeOK, RpcTypeOK, Message
<1>2. CASE Call
  <2>1. PICK d : d = ncalls + 1
    OBVIOUS
  <2>2. d \in Calls /\ SendOrBuffer(Request(d)) /\ socket' = socket /\ d > ncalls /\ d \in Nat
    BY <1>1, <1>2, <2>1 DEF Call, NewEntry, clientVars
  <2>3. Request(d) \in Message /\ Request(d).id = d /\ Request(d).kind = "request"
    BY <2>2, MessageConstructors DEF Request
  <2>4. AllBelow(c2s[socket], "request", d) /\ AllBelow(buffer, "request", d)
    BY <2>2, RequestsMade
  <2>5. CASE connected
    BY <2>2, <2>3, <2>4, <2>5, SendingOrdered DEF SendOrBuffer
  <2>6. CASE ~connected
    <3>1. buffer' = Append(buffer, Request(d)) /\ c2s' = c2s
      BY <2>2, <2>6 DEF SendOrBuffer
    <3>2. Ordered(Append(buffer, Request(d)), "request")
      BY <1>1, <2>3, <2>4, AppendOrdered DEF CallOrder
    <3>3. \A j \in DOMAIN Append(buffer, Request(d)) :
            \/ Append(buffer, Request(d))[j] = Request(d)
            \/ j \in DOMAIN buffer /\ Append(buffer, Request(d))[j] = buffer[j]
      BY <1>1, <2>3
    <3>4. Below(c2s[socket], Append(buffer, Request(d)), "request")
      BY <2>3, <2>4, <3>3 DEF Below, AllBelow, CallOrder
    <3> QED BY <2>2, <3>1, <3>2, <3>4 DEF CallOrder
  <2> QED BY <2>5, <2>6
<1>3. CASE Notify \/ StoreStep
  <2>1. UNCHANGED <<socket, buffer>>
    BY <1>3 DEF Notify, StoreStep, AddCommits, FlushSends, FlushAborts, FlushCommits, rpcVars,
      clientVars
  <2>2. CASE c2s' = c2s
    BY <2>1, <2>2 DEF CallOrder
  <2>3. CASE Notify /\ connected
    <3>1. PICK n : n = nnotes + 1
      OBVIOUS
    <3>2. n \in Notes /\ SendData(<<Notification(n)>>)
      BY <2>3, <3>1 DEF Notify, SendOrStore
    <3>3. Notification(n) \in Message /\ Notification(n).kind # "request"
      BY <3>2, MessageConstructors DEF Notification
    <3> QED BY <2>1, <3>2, <3>3, SendingOrdered
  <2>4. CASE FlushSends
    <3>1. PICK m : m = Head(store)
      OBVIOUS
    <3>2. store \in Seq(Message) /\ store # <<>> /\ SendData(<<m>>)
      BY <2>4, <3>1 DEF FlushSends, CallInv, TypeOK, RpcTypeOK
    <3>3. m = store[1] /\ 1 \in DOMAIN store /\ m \in Message
      BY <3>1, <3>2, TailIndices
    <3>4. m.kind # "request"
      BY <3>3 DEF CallInv, StoreHoldsNotes, IsNotification
    <3> QED BY <2>1, <3>2, <3>3, <3>4, SendingOrdered
  <2> QED
    BY <1>3, <2>2, <2>3, <2>4 DEF Notify, SendOrStore, StoreStep, AddCommits, FlushAborts,
      FlushCommits, transportVars
<1>4. ASSUME socket' = socket + 1, c2s' = c2s, socket + 1 \in Conns,
             buffer' \in {buffer, <<>>}
      PROVE  CallOrder'
  <2>1. c2s[socket + 1] = <<>>
    <3>1. socket + 1 > socket
      BY <1>1 DEF Conns
    <3> QED BY <1>4, <3>1 DEF CallInv, FutureConnsEmpty
  <2>2. Ordered(buffer', "request")
    BY <1>4, EmptyOrdered DEF CallOrder
  <2> QED BY <1>4, <2>1, <2>2, EmptyOrdered DEF CallOrder
<1>5. CASE OnAttempt
  <2>1. socket + 1 \in Conns
    BY <1>1, <1>5, MaxConnsAssumption DEF OnAttempt, AttemptReconnect, NewWebSocket, Conns
  <2> QED BY <1>4, <1>5, <2>1 DEF OnAttempt, AttemptReconnect, NewWebSocket, rpcVars
<1>6. CASE Reload
  BY <1>1, <1>4, <1>6, NextConn DEF Reload, PageRestarts
<1>7. ASSUME NEW e \in Conns, OnOpen(e)
      PROVE  CallOrder'
  <2>1. /\ buffer' = <<>> /\ c2s' = [c2s EXCEPT ![socket] = c2s[socket] \o buffer]
        /\ socket' = socket
    BY <1>7 DEF OnOpen, SocketOpens, FlagsOnOpen, FlushBuffer
  <2>2. c2s'[socket] = c2s[socket] \o buffer
    BY <1>1, <2>1
  <2>3. Ordered(c2s[socket] \o buffer, "request")
    BY <1>1, JoinOrdered DEF CallOrder
  <2> QED BY <2>1, <2>2, <2>3, EmptyOrdered DEF CallOrder
<1>8. CASE \E e \in Conns : OnClose(e) \/ OnResponse(e)
  BY <1>8 DEF OnClose, SocketCloses, OnResponse, rpcVars, clientVars, CallOrder
<1> QED
  BY <1>2, <1>3, <1>5, <1>6, <1>7, <1>8 DEF BrowserNext, PageStep, SocketStep

LEMMA ServerOrder ==
  ASSUME CallInv, CallOrder, ServerNext, UNCHANGED browserVars
  PROVE  CallOrder'
<1>1. UNCHANGED <<buffer, socket>> /\ c2s \in [Conns -> Seq(Message)]
  BY DEF browserVars, rpcVars, clientVars, CallInv, TypeOK, TransportTypeOK
<1>2. ASSUME NEW e \in Conns, ServerTakes(e)
      PROVE  CallOrder'
  <2>1. c2s[e] \in Seq(Message) /\ c2s[e] # <<>> /\ c2s' = [c2s EXCEPT ![e] = Tail(c2s[e])]
    BY <1>1, <1>2 DEF ServerTakes
  <2>2. CASE e = socket
    <3>1. c2s'[socket] = Tail(c2s[socket])
      BY <1>1, <2>1, <2>2
    <3>2. Ordered(Tail(c2s[socket]), "request") /\ Below(Tail(c2s[socket]), buffer, "request")
      BY <2>1, <2>2, TailOrdered, TailBelow DEF CallOrder
    <3> QED BY <1>1, <3>1, <3>2 DEF CallOrder
  <2>3. CASE e # socket
    <3>1. c2s'[socket] = c2s[socket]
      BY <1>1, <2>1, <2>3 DEF CallInv, TypeOK, SocketTypeOK
    <3> QED BY <1>1, <3>1 DEF CallOrder
  <2> QED BY <2>2, <2>3
<1>3. CASE c2s' = c2s
  BY <1>1, <1>3 DEF CallOrder
<1> QED
  BY <1>2, <1>3
  DEF ServerNext, RegisterClient, UnregisterClient, AcceptConnection, ServerEndCloses,
      ServerReads, ReceiveRequest, ReceiveNotification, TakeNotification, PromiseResolves,
      PromiseRejects, ServerDies, NotificationKillsServer, RejectionKillsServer, transportVars

(* Calls reach the server in the order they were made: no call on the current
   connection or in the buffer is behind one that was made after it. *)
THEOREM CallOrderCorrect == Spec => []CallsInOrder
<1> DEFINE Inv == CallInv /\ NothingBufferedWhileConnected /\ CallOrder
<1>1. Init => CallOrder
  BY MaxConnsAssumption, EmptyOrdered
  DEF Init, TransportInit, SocketInit, RpcInit, CallOrder, Conns
<1>2. CallInv /\ NothingBufferedWhileConnected /\ CallOrder /\ [Next]_vars => CallOrder'
  <2> SUFFICES ASSUME CallInv, NothingBufferedWhileConnected, CallOrder, [Next]_vars
               PROVE  CallOrder'
    OBVIOUS
  <2>1. CASE UNCHANGED vars
    BY <2>1 DEF vars, transportVars, clientVars, rpcVars, CallOrder
  <2> QED BY <2>1, BrowserOrder, ServerOrder DEF Next
<1>3. CallInv /\ CallOrder => CallsInOrder
  BY CallOrderMeans DEF CallInv
<1> QED BY <1>1, <1>2, <1>3, CallInvariant, BufferCorrect, PTL DEF Spec

-----------------------------------------------------------------------------
(* Which calls are served.                                                  *)

\* Call c is still in the buffer, on a connection, or died with a page.
NotTaken(c) ==
  \/ Has(buffer, Request(c))
  \/ \E e \in Conns : Has(c2s[e], Request(c))
  \/ Request(c) \in forgotten

LEMMA ServedIsTaken ==
  /\ Served = {c \in 1..ncalls : ~NotTaken(c)}
  /\ Served' = {c \in 1..ncalls' : ~NotTaken(c)'}
BY DEF Served, NotTaken, Has, Range

\* A call that is not taken is in one of three stages, and the other way round.
LEMMA NotTakenPlaces ==
  ASSUME NEW c
  PROVE  /\ NotTaken(c) => InBuffer(c) \cup OnItsWay(c) \cup Forgotten(c) # {}
         /\ InBuffer(c) \cup OnItsWay(c) \cup Forgotten(c) # {} => NotTaken(c)
<1>1. InBuffer(c) # {} <=> Has(buffer, Request(c))
  BY DEF InBuffer, Has
<1>2. Forgotten(c) # {} <=> Request(c) \in forgotten
  BY DEF Forgotten
<1>3. ASSUME NEW e \in Conns, Has(c2s[e], Request(c))
      PROVE  OnItsWay(c) # {}
  <2>1. PICK i \in DOMAIN c2s[e] : c2s[e][i] = Request(c)
    BY <1>3 DEF Has
  <2>2. <<"c2s", e, i>> \in OnItsWay(c)
    BY <2>1 DEF OnItsWay
  <2> QED BY <2>2
<1>4. OnItsWay(c) # {} => \E e \in Conns : Has(c2s[e], Request(c))
  BY DEF OnItsWay, Has
<1> QED BY <1>1, <1>2, <1>3, <1>4 DEF NotTaken

\* Where a message of a queue is after one joins, a queue joins, or one leaves.
LEMMA AppendHas ==
  ASSUME NEW S, NEW s \in Seq(S), NEW m \in S, NEW x
  PROVE  Has(Append(s, m), x) <=> m = x \/ Has(s, x)
<1>1. {j \in DOMAIN Append(s, m) : Append(s, m)[j] = x}
      = {j \in DOMAIN s : s[j] = x} \cup (IF m = x THEN {Len(s) + 1} ELSE {})
  BY AppendIndices
<1>2. Has(Append(s, m), x) <=> {j \in DOMAIN Append(s, m) : Append(s, m)[j] = x} # {}
  BY DEF Has
<1>3. Has(s, x) <=> {j \in DOMAIN s : s[j] = x} # {}
  BY DEF Has
<1> QED BY <1>1, <1>2, <1>3

LEMMA JoinHas ==
  ASSUME NEW S, NEW s \in Seq(S), NEW t \in Seq(S), NEW x
  PROVE  Has(s \o t, x) <=> Has(s, x) \/ Has(t, x)
<1>1. {j \in DOMAIN (s \o t) : (s \o t)[j] = x}
      = {j \in DOMAIN s : s[j] = x} \cup {Len(s) + i : i \in {k \in DOMAIN t : t[k] = x}}
  BY JoinIndices
<1>2. Has(s \o t, x) <=> {j \in DOMAIN (s \o t) : (s \o t)[j] = x} # {}
  BY DEF Has
<1>3. Has(s, x) <=> {j \in DOMAIN s : s[j] = x} # {}
  BY DEF Has
<1>4. Has(t, x) <=> {k \in DOMAIN t : t[k] = x} # {}
  BY DEF Has
<1> QED BY <1>1, <1>2, <1>3, <1>4

LEMMA TailHas ==
  ASSUME NEW S, NEW s \in Seq(S), s # <<>>, NEW x, Head(s) # x
  PROVE  Has(Tail(s), x) <=> Has(s, x)
<1>1. ASSUME NEW j \in DOMAIN Tail(s), Tail(s)[j] = x
      PROVE  Has(s, x)
  BY <1>1, TailIndices DEF Has
<1>2. ASSUME NEW i \in DOMAIN s, s[i] = x
      PROVE  Has(Tail(s), x)
  <2>1. i # 1
    BY <1>2, TailIndices
  <2>2. i - 1 \in DOMAIN Tail(s) /\ Tail(s)[i - 1] = s[i]
    BY <2>1, TailIndices
  <2> QED BY <1>2, <2>2 DEF Has
<1> QED BY <1>1, <1>2 DEF Has

\* Sending a message that is not the request of c does not change whether c is
\* taken.
LEMMA SendingOthers ==
  ASSUME TypeOK, NEW m \in Message, SendData(<<m>>), NEW c, m # Request(c)
  PROVE  \A e \in Conns : Has(c2s'[e], Request(c)) <=> Has(c2s[e], Request(c))
<1>1. socket \in Conns /\ c2s \in [Conns -> Seq(Message)] /\ c2s[socket] \in Seq(Message)
  BY DEF TypeOK, TransportTypeOK, SocketTypeOK
<1>2. Has(Append(c2s[socket], m), Request(c)) <=> Has(c2s[socket], Request(c))
  BY <1>1, AppendHas
<1>3. c2s' = c2s \/ c2s' = [c2s EXCEPT ![socket] = Append(c2s[socket], m)]
  <2>1. c2s[socket] \o <<m>> = Append(c2s[socket], m)
    BY <1>1
  <2> QED BY <2>1 DEF SendData
<1> QED BY <1>1, <1>2, <1>3

\* When being taken and the number of calls stay, so does what is served.
LEMMA ServedFrame ==
  ASSUME ncalls' = ncalls, \A c \in 1..ncalls : NotTaken(c)' <=> NotTaken(c)
  PROVE  Served' = Served
BY ServedIsTaken

\* No step of the page serves a call, or undoes it.
LEMMA BrowserServed ==
  ASSUME CallInv, BrowserNext, UNCHANGED serverVars
  PROVE  Served' = Served
<1>1. /\ socket \in Conns /\ c2s \in [Conns -> Seq(Message)]
      /\ buffer \in Seq(Requests) /\ buffer \in Seq(Message) /\ ncalls \in Nat
  BY DEF CallInv, TypeOK, TransportTypeOK, SocketTypeOK, RpcTypeOK, Message
<1>2. CASE Call
  <2>1. PICK d : d = ncalls + 1
    OBVIOUS
  <2>2. d \in Calls /\ ncalls' = d /\ SendOrBuffer(Request(d)) /\ forgotten' = forgotten
    BY <1>2, <2>1 DEF Call, NewEntry
  <2>3. Request(d) \in Requests /\ Request(d) \in Message
    BY <2>2, MessageConstructors
  <2>4. \A c : c # d => Request(d) # Request(c)
    BY DEF Request
  <2>5. CASE connected
    <3>1. buffer' = buffer /\ SendData(<<Request(d)>>) /\ cliEnd[socket] = "OPEN"
      BY <2>2, <2>5 DEF SendOrBuffer, CallInv, SocketInv, FlagsTrackSocket
    <3>2. \A c \in 1..ncalls : NotTaken(c)' <=> NotTaken(c)
      <4>1. \A c \in 1..ncalls : c # d
        BY <1>1, <2>1
      <4> QED BY <2>2, <2>3, <2>4, <3>1, <4>1, SendingOthers DEF NotTaken, CallInv
    <3>3. NotTaken(d)'
      <4>1. c2s[socket] \in Seq(Message)
        BY <1>1
      <4>2. c2s'[socket] = Append(c2s[socket], Request(d))
        BY <1>1, <2>3, <3>1, <4>1 DEF SendData
      <4>3. Has(c2s'[socket], Request(d))
        BY <2>3, <4>1, <4>2, AppendHas
      <4> QED BY <1>1, <4>3 DEF NotTaken
    <3> QED BY <1>1, <2>1, <2>2, <3>2, <3>3, ServedIsTaken
  <2>6. CASE ~connected
    <3>1. buffer' = Append(buffer, Request(d)) /\ c2s' = c2s
      BY <2>2, <2>6 DEF SendOrBuffer
    <3>2. \A c : Has(buffer', Request(c)) <=> (Request(d) = Request(c) \/ Has(buffer, Request(c)))
      BY <1>1, <2>3, <3>1, AppendHas
    <3>3. \A c \in 1..ncalls : NotTaken(c)' <=> NotTaken(c)
      <4>1. \A c \in 1..ncalls : c # d
        BY <1>1, <2>1
      <4> QED BY <2>2, <2>4, <3>1, <3>2, <4>1 DEF NotTaken
    <3>4. NotTaken(d)'
      BY <3>2 DEF NotTaken
    <3> QED BY <1>1, <2>1, <2>2, <3>3, <3>4, ServedIsTaken
  <2> QED BY <2>5, <2>6
<1>3. ASSUME NEW m \in Message, IsNotification(m), SendData(<<m>>),
             UNCHANGED <<buffer, forgotten, ncalls>>
      PROVE  Served' = Served
  <2>1. \A c : m # Request(c)
    BY <1>3 DEF IsNotification, Request
  <2> QED BY <1>3, <2>1, SendingOthers, ServedFrame DEF NotTaken, CallInv
<1>4. CASE Notify \/ StoreStep
  <2>1. UNCHANGED <<buffer, forgotten, ncalls>>
    BY <1>4 DEF Notify, StoreStep, AddCommits, FlushSends, FlushAborts, FlushCommits, rpcVars
  <2>2. CASE c2s' = c2s
    BY <2>1, <2>2, ServedFrame DEF NotTaken
  <2>3. CASE Notify /\ connected
    <3> DEFINE n == nnotes + 1
    <3>1. n \in Notes /\ SendData(<<Notification(n)>>)
      BY <2>3 DEF Notify, SendOrStore
    <3>2. Notification(n) \in Message /\ IsNotification(Notification(n))
      BY <3>1, MessageConstructors DEF IsNotification, Notification
    <3> QED BY <1>3, <2>1, <3>1, <3>2
  <2>4. CASE FlushSends
    <3>1. store \in Seq(Message) /\ store # <<>>
      BY <2>4 DEF FlushSends, CallInv, TypeOK, RpcTypeOK
    <3>2. Head(store) = store[1] /\ 1 \in DOMAIN store /\ Head(store) \in Message
      BY <3>1, TailIndices
    <3>3. IsNotification(Head(store))
      BY <3>2 DEF CallInv, StoreHoldsNotes
    <3> QED BY <1>3, <2>1, <2>4, <3>2, <3>3 DEF FlushSends
  <2> QED
    BY <1>4, <2>2, <2>3, <2>4 DEF Notify, SendOrStore, StoreStep, AddCommits, FlushAborts,
      FlushCommits, transportVars
<1>5. CASE Reload
  <2>1. /\ buffer' = <<>> /\ c2s' = c2s /\ ncalls' = ncalls
        /\ forgotten' = forgotten \cup Range(buffer) \cup QueuedAdds
    BY <1>5 DEF Reload, PageRestarts
  <2>2. \A c : Request(c) \notin QueuedAdds
    BY DEF QueuedAdds, Range, CallInv, StoreHoldsNotes, IsNotification, Request
  <2>3. \A x : x \in Range(buffer) <=> Has(buffer, x)
    BY DEF Range, Has
  <2>4. \A x : ~Has(buffer', x)
    BY <2>1 DEF Has
  <2> QED BY <2>1, <2>2, <2>3, <2>4, ServedFrame DEF NotTaken
<1>6. CASE \E e \in Conns : OnOpen(e)
  <2>1. /\ buffer' = <<>> /\ c2s' = [c2s EXCEPT ![socket] = c2s[socket] \o buffer]
        /\ UNCHANGED <<forgotten, ncalls>>
    BY <1>6 DEF OnOpen, SocketOpens, FlagsOnOpen, FlushBuffer
  <2>2. \A x : Has(c2s[socket] \o buffer, x) <=> (Has(c2s[socket], x) \/ Has(buffer, x))
    BY <1>1, JoinHas
  <2>3. /\ c2s'[socket] = c2s[socket] \o buffer
        /\ \A f \in Conns \ {socket} : c2s'[f] = c2s[f]
    BY <1>1, <2>1
  <2>4. \A x : ~Has(buffer', x)
    BY <2>1 DEF Has
  <2>5. \A c : NotTaken(c)' <=> NotTaken(c)
    BY <1>1, <2>1, <2>2, <2>3, <2>4 DEF NotTaken
  <2> QED BY <2>1, <2>5, ServedFrame
<1>7. CASE OnAttempt \/ \E e \in Conns : OnClose(e) \/ OnResponse(e)
  BY <1>7, ServedFrame
  DEF OnAttempt, AttemptReconnect, OnClose, SocketCloses, OnResponse, NotTaken, rpcVars
<1> QED
  BY <1>2, <1>4, <1>5, <1>6, <1>7 DEF BrowserNext, PageStep, SocketStep

\* The request at the head of a connection is in no other place, and when the
\* server takes it, it is served.
LEMMA RequestServed ==
  ASSUME CallInv, NEW e \in Conns, NEW k \in HandlerKinds, ReceiveRequest(e, k),
         UNCHANGED browserVars, NEW d, d = Head(c2s[e]).id
  PROVE  /\ d \in Calls /\ d <= ncalls /\ Head(c2s[e]) = Request(d)
         /\ Places(d) = {<<"c2s", e, 1>>}
         /\ d \notin Served /\ Served' = Served \cup {d}
<1>1. Head(c2s[e]) = Request(d) /\ d \in Calls
  BY ServerTakesType, MessageFields DEF ReceiveRequest, CallInv
<1>2. /\ ServerTakes(e) /\ UNCHANGED <<buffer, forgotten, ncalls>>
      /\ c2s \in [Conns -> Seq(Message)] /\ ncalls \in Nat /\ Calls \subseteq Nat \ {0}
  BY DEF ReceiveRequest, browserVars, rpcVars, CallInv, TypeOK, TransportTypeOK, RpcTypeOK, Calls
<1>3. c2s[e] # <<>> /\ c2s[e] \in Seq(Message) /\ c2s' = [c2s EXCEPT ![e] = Tail(c2s[e])]
  BY <1>2 DEF ServerTakes
<1>4. <<"c2s", e, 1>> \in OnItsWay(d)
  BY <1>1, <1>2, TakenByServer DEF CallInv
<1>5. Places(d) = {<<"c2s", e, 1>>} /\ d <= ncalls
  BY <1>1, <1>4, OnlyPlace DEF Places, CallInv
<1>6. OnItsWay(d)' = {} /\ InBuffer(d) = {} /\ Forgotten(d) = {}
  <2>1. OnItsWay(d) = {<<"c2s", e, 1>>} /\ InBuffer(d) = {} /\ Forgotten(d) = {}
    BY <1>4, <1>5, Stages DEF Places
  <2> QED BY <1>1, <1>2, <2>1, TakenByServer DEF CallInv
<1>7. NotTaken(d)
  BY <1>4, NotTakenPlaces
<1>8. ~NotTaken(d)'
  <2>1. ~Has(buffer, Request(d)) /\ Request(d) \notin forgotten
    BY <1>6 DEF InBuffer, Forgotten, Has
  <2>2. ASSUME NEW f \in Conns, Has(c2s'[f], Request(d))
        PROVE  FALSE
    <3>1. PICK i \in DOMAIN c2s'[f] : c2s'[f][i] = Request(d)
      BY <2>2 DEF Has
    <3>2. <<"c2s", f, i>> \in OnItsWay(d)'
      BY <3>1 DEF OnItsWay
    <3> QED BY <1>6, <3>2
  <2> QED BY <1>2, <2>1, <2>2 DEF NotTaken
<1>9. ASSUME NEW c, c # d
      PROVE  NotTaken(c)' <=> NotTaken(c)
  <2>1. Head(c2s[e]) # Request(c)
    BY <1>1, <1>9 DEF Request
  <2>2. Has(Tail(c2s[e]), Request(c)) <=> Has(c2s[e], Request(c))
    BY <1>3, <2>1, TailHas
  <2>3. \A f \in Conns : Has(c2s'[f], Request(c)) <=> Has(c2s[f], Request(c))
    BY <1>2, <1>3, <2>2
  <2> QED BY <1>2, <2>3 DEF NotTaken
<1>10. d \in 1..ncalls /\ ncalls' = ncalls
  BY <1>1, <1>2, <1>5
<1> QED BY <1>1, <1>5, <1>7, <1>8, <1>9, <1>10, ServedIsTaken

\* No other step of the server serves one.
LEMMA ServerServed ==
  ASSUME CallInv, ServerNext, UNCHANGED browserVars,
         ~\E e \in Conns, k \in HandlerKinds : ReceiveRequest(e, k)
  PROVE  Served' = Served
<1>1. UNCHANGED <<buffer, forgotten, ncalls>> /\ c2s \in [Conns -> Seq(Message)]
  BY DEF browserVars, rpcVars, CallInv, TypeOK, TransportTypeOK
<1>2. ASSUME NEW e \in Conns, TakeNotification(e)
      PROVE  Served' = Served
  <2>1. /\ c2s[e] # <<>> /\ c2s[e] \in Seq(Message)
        /\ c2s' = [c2s EXCEPT ![e] = Tail(c2s[e])] /\ \A c : Head(c2s[e]) # Request(c)
    BY <1>1, <1>2 DEF TakeNotification, ServerTakes, IsNotification, Request
  <2>2. \A c : Has(Tail(c2s[e]), Request(c)) <=> Has(c2s[e], Request(c))
    BY <2>1, TailHas
  <2>3. \A c : \A f \in Conns : Has(c2s'[f], Request(c)) <=> Has(c2s[f], Request(c))
    BY <1>1, <2>1, <2>2
  <2> QED BY <1>1, <2>3, ServedFrame DEF NotTaken
<1>3. CASE c2s' = c2s
  BY <1>1, <1>3, ServedFrame DEF NotTaken
<1> QED
  BY <1>2, <1>3
  DEF ServerNext, RegisterClient, UnregisterClient, AcceptConnection, ServerEndCloses,
      ServerReads, ReceiveNotification, PromiseResolves, PromiseRejects, ServerDies,
      NotificationKillsServer, RejectionKillsServer, transportVars

-----------------------------------------------------------------------------
(* How often the handler of a call ran.                                     *)

\* An answer that is not an error comes from a handler that ran.
AnswersRan ==
  \A e \in Conns : \A i \in DOMAIN s2c[e] :
    s2c[e][i].body # "error" => ran[s2c[e][i].id] = 1

\* It ran once for what the server is working on, and not yet for what the
\* server has not taken.
RanInv ==
  /\ \A c \in Calls : c \notin Served => ran[c] = 0
  /\ \A w \in work : ran[w.id] = 1
  /\ AnswersRan

\* Sending an answer, when the count of no call answered before changes.
LEMMA AnswersRanSent ==
  ASSUME TypeOK, AnswersRan, NEW e \in Conns, NEW d \in Calls, NEW b \in Bodies,
         ServerSends(e, Response(d, b)), b # "error" => ran'[d] = 1,
         \A f \in Conns : \A i \in DOMAIN s2c[f] : ran'[s2c[f][i].id] = ran[s2c[f][i].id]
  PROVE  AnswersRan'
<1> DEFINE m == Response(d, b)
<1>1. s2c \in [Conns -> Seq(Message)] /\ s2c[e] \in Seq(Message) /\ m \in Message
  BY MessageConstructors DEF TypeOK, TransportTypeOK
<1>2. m.id = d /\ m.body = b
  BY DEF Response
<1>3. CASE s2c' = s2c
  BY <1>3 DEF AnswersRan
<1>4. CASE s2c' = [s2c EXCEPT ![e] = Append(s2c[e], m)]
  <2> SUFFICES ASSUME NEW f \in Conns, NEW i \in DOMAIN s2c'[f], s2c'[f][i].body # "error"
               PROVE  ran'[s2c'[f][i].id] = 1
    BY DEF AnswersRan
  <2>1. CASE f # e
    <3>1. s2c'[f] = s2c[f]
      BY <1>1, <1>4, <2>1
    <3> QED BY <3>1 DEF AnswersRan
  <2>2. CASE f = e
    <3>1. s2c'[f] = Append(s2c[f], m) /\ s2c[f] \in Seq(Message)
      BY <1>1, <1>4, <2>2
    <3>2. s2c'[f][i] = m \/ (i \in DOMAIN s2c[f] /\ s2c'[f][i] = s2c[f][i])
      BY <1>1, <3>1
    <3> QED BY <1>2, <3>2 DEF AnswersRan
  <2> QED BY <2>1, <2>2
<1> QED BY <1>3, <1>4 DEF ServerSends

\* The browser runs no handler of the server, and takes answers only.
LEMMA BrowserRan ==
  ASSUME CallInv, RanInv, BrowserNext, UNCHANGED serverVars
  PROVE  RanInv'
<1>1. Served' = Served /\ ran' = ran /\ work' = work
  BY BrowserServed DEF serverVars
<1>2. AnswersRan'
  <2>1. CASE s2c' = s2c
    BY <1>1, <2>1 DEF AnswersRan, RanInv
  <2>2. ASSUME NEW e \in Conns, OnResponse(e)
        PROVE  AnswersRan'
    <3>1. s2c[e] \in Seq(Message) /\ s2c[e] # <<>> /\ s2c' = [s2c EXCEPT ![e] = Tail(s2c[e])]
      BY <2>2 DEF OnResponse, ClientTakes, CallInv, TypeOK, TransportTypeOK
    <3>2. s2c'[e] = Tail(s2c[e]) /\ \A f \in Conns \ {e} : s2c'[f] = s2c[f]
      BY <3>1 DEF CallInv, TypeOK, TransportTypeOK
    <3>3. \A j \in DOMAIN Tail(s2c[e]) :
            j + 1 \in DOMAIN s2c[e] /\ Tail(s2c[e])[j] = s2c[e][j + 1]
      BY <3>1, TailIndices
    <3> SUFFICES ASSUME NEW f \in Conns, NEW j \in DOMAIN s2c'[f], s2c'[f][j].body # "error"
                 PROVE  ran[s2c'[f][j].id] = 1
      BY <1>1 DEF AnswersRan
    <3>4. CASE f = e
      <4>1. j + 1 \in DOMAIN s2c[e] /\ s2c'[f][j] = s2c[e][j + 1]
        BY <3>2, <3>3, <3>4
      <4> QED BY <4>1 DEF AnswersRan, RanInv
    <3>5. CASE f # e
      BY <3>2, <3>5 DEF AnswersRan, RanInv
    <3> QED BY <3>4, <3>5
  <2> QED
    BY <2>1, <2>2
    DEF BrowserNext, PageStep, StoreStep, SocketStep, Call, Notify, OnAttempt, AttemptReconnect,
        Reload, PageRestarts, AddCommits, FlushSends, FlushAborts, FlushCommits, OnOpen,
        SocketOpens, OnClose, SocketCloses, transportVars
<1> QED BY <1>1, <1>2 DEF RanInv

\* Taking a request runs its handler once, or finds there is none.
LEMMA RequestRan ==
  ASSUME CallInv, RanInv, NEW e \in Conns, NEW k \in HandlerKinds, ReceiveRequest(e, k),
         UNCHANGED browserVars, NEW d, d = Head(c2s[e]).id
  PROVE  RanInv' /\ ran[d] = 0 /\ ran' \in {ran, [ran EXCEPT ![d] = @ + 1]}
<1>1. /\ d \in Calls /\ Places(d) = {<<"c2s", e, 1>>}
      /\ d \notin Served /\ Served' = Served \cup {d}
  BY RequestServed
<1>2. /\ ran' = IF k = "missing" THEN ran ELSE [ran EXCEPT ![d] = @ + 1]
      /\ \/ Async(k) /\ work' = work \cup {[conn |-> e, id |-> d, kind |-> k]} /\ s2c' = s2c
         \/ ~Async(k) /\ ServerSends(e, Response(d, BodyOf(k))) /\ work' = work
  BY DEF ReceiveRequest, Answer
<1>3. ran[d] = 0 /\ ran \in [Calls -> Nat]
  BY <1>1 DEF RanInv, CallInv, TypeOK, ServerTypeOK
<1>4. ran'[d] = (IF k = "missing" THEN 0 ELSE 1) /\ \A c \in Calls : c # d => ran'[c] = ran[c]
  BY <1>1, <1>2, <1>3
<1>5. InHandler(d) = {} /\ OnItsWayBack(d) = {}
  BY <1>1, Stages DEF Places
<1>6. ASSUME NEW w \in work
      PROVE  w.id \in Calls /\ w.id # d
  <2>1. w.id \in Calls
    BY DEF CallInv, TypeOK, ServerTypeOK, Work
  <2>2. w.id = d => <<"work", w.conn, w.kind>> \in InHandler(d)
    BY DEF InHandler
  <2> QED BY <1>5, <2>1, <2>2
<1>7. ASSUME NEW f \in Conns, NEW i \in DOMAIN s2c[f]
      PROVE  ran'[s2c[f][i].id] = ran[s2c[f][i].id]
  <2>1. s2c[f][i].id # d
    <3>1. SUFFICES ASSUME s2c[f][i].id = d PROVE FALSE
      OBVIOUS
    <3>2. <<"s2c", f, i>> \in OnItsWayBack(d)
      BY <3>1 DEF OnItsWayBack
    <3> QED BY <1>5, <3>2
  <2>2. s2c[f] \in Seq(Message) /\ s2c[f][i] \in Message /\ IsResponse(s2c[f][i])
    BY DEF CallInv, TypeOK, TransportTypeOK, ServerOnlyAnswers
  <2>3. s2c[f][i].id \in Calls
    BY <2>2, MessageFields
  <2> QED BY <1>4, <2>1, <2>3
<1>8. CASE Async(k)
  <2>1. /\ work' = work \cup {[conn |-> e, id |-> d, kind |-> k]} /\ s2c' = s2c
        /\ ran'[d] = 1
    BY <1>2, <1>4, <1>8 DEF Async
  <2> QED BY <1>1, <1>2, <1>3, <1>4, <1>6, <1>7, <2>1 DEF RanInv, AnswersRan
<1>9. CASE ~Async(k)
  <2>1. ServerSends(e, Response(d, BodyOf(k))) /\ work' = work
    BY <1>2, <1>9
  <2>2. BodyOf(k) \in Bodies /\ (BodyOf(k) # "error" => k # "missing")
    BY <1>9, BodyOfType DEF BodyOf
  <2>3. AnswersRan'
    BY <1>1, <1>4, <1>7, <2>1, <2>2, AnswersRanSent DEF RanInv, CallInv
  <2> QED BY <1>1, <1>2, <1>3, <1>4, <1>6, <2>1, <2>3 DEF RanInv
<1> QED BY <1>2, <1>3, <1>8, <1>9

\* Nothing else the server does runs the handler of a call.
LEMMA ServerRan ==
  ASSUME CallInv, RanInv, ServerNext, UNCHANGED browserVars,
         ~\E e \in Conns, k \in HandlerKinds : ReceiveRequest(e, k)
  PROVE  RanInv' /\ ran' = ran
<1>1. Served' = Served
  BY ServerServed
<1>2. ASSUME NEW w \in work, PromiseResolves(w)
      PROVE  RanInv' /\ ran' = ran
  <2>1. /\ w.conn \in Conns /\ w.id \in Calls /\ ran' = ran /\ work' = work \ {w}
        /\ \E b \in {"result", "nothing"} : ServerSends(w.conn, Response(w.id, b))
    BY <1>2 DEF PromiseResolves, CallInv, TypeOK, ServerTypeOK, Work
  <2>2. PICK b \in {"result", "nothing"} : ServerSends(w.conn, Response(w.id, b))
    BY <2>1
  <2>3. b \in Bodies /\ ran'[w.id] = 1
    BY <2>1 DEF Bodies, RanInv
  <2>4. AnswersRan'
    BY <2>1, <2>2, <2>3, AnswersRanSent DEF RanInv, CallInv
  <2> QED BY <1>1, <2>1, <2>4 DEF RanInv
<1>3. CASE ran' = ran /\ work' \subseteq work /\ s2c' = s2c
  BY <1>1, <1>3 DEF RanInv, AnswersRan
<1> QED
  BY <1>2, <1>3
  DEF ServerNext, RegisterClient, UnregisterClient, AcceptConnection, ServerEndCloses,
      ServerReads, ReceiveNotification, TakeNotification, PromiseRejects, ServerDies, ProcessEnds,
      NotificationKillsServer, RejectionKillsServer, transportVars

-----------------------------------------------------------------------------
(* The refinement.                                                          *)

LEMMA InitRanInv == Init => RanInv
BY DEF Init, TransportInit, ServerInit, RanInv, AnswersRan

LEMMA NextRanInv == CallInv /\ RanInv /\ [Next]_vars => RanInv'
<1> SUFFICES ASSUME CallInv, RanInv, [Next]_vars PROVE RanInv'
  OBVIOUS
<1>1. CASE BrowserNext /\ UNCHANGED serverVars
  BY <1>1, BrowserRan
<1>2. ASSUME UNCHANGED browserVars, NEW e \in Conns, NEW k \in HandlerKinds, ReceiveRequest(e, k)
      PROVE  RanInv'
  <2>1. PICK d : d = Head(c2s[e]).id
    OBVIOUS
  <2> QED BY <1>2, <2>1, RequestRan
<1>3. CASE UNCHANGED vars
  <2>1. UNCHANGED <<ran, work, s2c>> /\ Served' = Served
    BY <1>3 DEF vars, transportVars, serverVars, rpcVars, Served
  <2> QED BY <2>1 DEF RanInv, AnswersRan
<1> QED BY <1>1, <1>2, <1>3, ServerRan DEF Next

LEMMA InitRefines == Init => Remote!Init
<1>1. Init => Served = {}
  BY DEF Init, RpcInit, Served
<1> QED BY <1>1 DEF Init, RpcInit, ServerInit, Remote!Init

\* call() issues, a reload takes the pending promises along, a response
\* settles; what else the page does, the caller does not see.
LEMMA BrowserRefines ==
  ASSUME CallInv, RanInv, BrowserNext, UNCHANGED serverVars
  PROVE  [Remote!Next]_(Remote!vars)
<1>1. Served' = Served /\ ran' = ran
  BY BrowserServed DEF serverVars
<1>2. CASE Call
  <2>1. PICK d : d = ncalls + 1
    OBVIOUS
  <2>2. d \in Calls /\ promise' = [promise EXCEPT ![d] = "pending"] /\ d > ncalls
    BY <1>2, <2>1 DEF Call, NewEntry, CallInv, TypeOK, RpcTypeOK
  <2>3. promise[d] = "idle"
    BY <2>2 DEF CallInv, IdleUntilCalled
  <2> QED BY <1>1, <2>2, <2>3 DEF Remote!Next, Remote!Issue
<1>3. CASE Reload
  BY <1>1, <1>3 DEF Reload, PromisesGone, Remote!Next, Remote!PageGoes
<1>4. ASSUME NEW e \in Conns, OnResponse(e)
      PROVE  \E d \in Calls : Remote!SettleCall(d)
  <2>1. PICK d, b : d = Head(s2c[e]).id /\ b = Head(s2c[e]).body
    OBVIOUS
  <2>2. /\ cliEnd[e] = "OPEN" /\ s2c[e] \in Seq(Message) /\ s2c[e] # <<>> /\ Settle(d, b)
    BY <1>4, <2>1 DEF OnResponse, ClientTakes, CallInv, TypeOK, TransportTypeOK
  <2>3. 1 \in DOMAIN s2c[e] /\ s2c[e][1].id = d /\ s2c[e][1].body = b
    BY <2>1, <2>2, TailIndices
  <2>4. d \in Calls /\ d \in pending /\ promise[d] = "pending" /\ b \in Bodies
    BY <2>2, <2>3, ResponseIsExpected
  <2>5. promise' = [promise EXCEPT ![d] = Outcome(b)]
    BY <2>2, <2>4 DEF Settle
  <2>6. b # "error" => ran[d] = 1
    BY <2>3 DEF RanInv, AnswersRan
  <2>7. d \in Served
    <3>1. <<"s2c", e, 1>> \in OnItsWayBack(d)
      BY <2>3 DEF OnItsWayBack
    <3>2. Places(d) = {<<"s2c", e, 1>>} /\ d <= ncalls
      BY <2>4, <3>1, OnlyPlace DEF Places, CallInv
    <3>3. InBuffer(d) \cup OnItsWay(d) \cup Forgotten(d) = {}
      BY <3>2, Stages DEF Places
    <3>4. ~NotTaken(d)
      BY <3>3, NotTakenPlaces
    <3>5. d \in 1..ncalls
      BY <2>4, <3>2 DEF Calls, CallInv, TypeOK, RpcTypeOK
    <3> QED BY <3>4, <3>5, ServedIsTaken
  <2>8. \/ ran[d] = 1 /\ promise' = [promise EXCEPT ![d] = "resolved"]
        \/ promise' = [promise EXCEPT ![d] = "rejected"]
    BY <2>5, <2>6 DEF Outcome
  <2>9. Remote!SettleCall(d)
    BY <1>1, <2>4, <2>7, <2>8 DEF Remote!SettleCall
  <2> QED BY <2>4, <2>9
<1>5. CASE promise' = promise
  BY <1>1, <1>5 DEF Remote!vars
<1> QED
  BY <1>2, <1>3, <1>4, <1>5
  DEF BrowserNext, PageStep, StoreStep, SocketStep, Notify, OnAttempt, AddCommits, FlushSends,
      FlushAborts, FlushCommits, OnOpen, OnClose, rpcVars, Remote!Next

\* Taking a request serves it; the caller sees nothing of the rest.
LEMMA ServerRefines ==
  ASSUME CallInv, RanInv, ServerNext, UNCHANGED browserVars
  PROVE  [Remote!Next]_(Remote!vars)
<1>1. promise' = promise
  BY DEF browserVars, rpcVars
<1>2. ASSUME NEW e \in Conns, NEW k \in HandlerKinds, ReceiveRequest(e, k)
      PROVE  \E d \in Calls : Remote!Serve(d)
  <2>1. PICK d : d = Head(c2s[e]).id
    OBVIOUS
  <2>2. /\ d \in Calls /\ d <= ncalls /\ Places(d) = {<<"c2s", e, 1>>}
        /\ d \notin Served /\ Served' = Served \cup {d}
    BY <1>2, <2>1, RequestServed
  <2>3. ran' \in {ran, [ran EXCEPT ![d] = @ + 1]}
    BY <1>2, <2>1, RequestRan
  <2>4. promise[d] \in {"pending", "gone"}
    <3>1. Settled(d) = {}
      BY <2>2, Stages DEF Places
    <3>2. promise[d] \in PromiseStates /\ ~(d > ncalls)
      BY <2>2 DEF CallInv, TypeOK, RpcTypeOK, Calls
    <3>3. promise[d] # "idle"
      BY <2>2, <3>2 DEF CallInv, IdleUntilCalled
    <3> QED BY <3>1, <3>2, <3>3 DEF Settled, PromiseStates
  <2>5. Remote!Serve(d)
    BY <1>1, <2>2, <2>3, <2>4 DEF Remote!Serve
  <2> QED BY <2>2, <2>5
<1>3. CASE ~\E e \in Conns, k \in HandlerKinds : ReceiveRequest(e, k)
  BY <1>1, <1>3, ServerServed, ServerRan DEF Remote!vars
<1> QED BY <1>2, <1>3 DEF Remote!Next

(* The buffer, the reconnections, the reloads and the server's handlers
   together implement the remote call of RpcCall: a promise is settled at most
   once, and resolved only by an answer to that call whose handler ran, once. *)
THEOREM SystemImplementsRpcCall == Spec => ImplementsRpcCall
<1>1. Init => CallInv /\ RanInv
  BY InitCallInv, InitRanInv
<1>2. CallInv /\ RanInv /\ [Next]_vars => (CallInv /\ RanInv)'
  BY NextCallInv, NextRanInv
<1>3. CallInv /\ RanInv /\ [Next]_vars => [Remote!Next]_(Remote!vars)
  <2> SUFFICES ASSUME CallInv, RanInv, [Next]_vars
               PROVE  [Remote!Next]_(Remote!vars)
    OBVIOUS
  <2>1. CASE BrowserNext /\ UNCHANGED serverVars
    BY <2>1, BrowserRefines
  <2>2. CASE ServerNext /\ UNCHANGED browserVars
    BY <2>2, ServerRefines
  <2>3. CASE UNCHANGED vars
    BY <2>3 DEF vars, transportVars, serverVars, rpcVars, Served, Remote!vars
  <2> QED BY <2>1, <2>2, <2>3 DEF Next
<1> QED
  BY <1>1, <1>2, <1>3, InitRefines, PTL DEF Spec, ImplementsRpcCall, Remote!Spec

=============================================================================
