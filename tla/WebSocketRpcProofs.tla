--------------------------- MODULE WebSocketRpcProofs --------------------------
(***************************************************************************)
(* Lemmas about the browser's side, for every system it is a part of: what *)
(* its actions do to the types of its variables, to its queues, and to the *)
(* number of copies of a message that are on their way.                    *)
(***************************************************************************)
EXTENDS WebSocketRpc, SequenceTheorems, FunctionTheorems, FiniteSetTheorems,
        TLAPS

-----------------------------------------------------------------------------
(* Messages and bounds.                                                     *)

\* The kind of a message decides which fields it has and their ranges.
LEMMA MessageFields ==
  ASSUME NEW m \in Message
  PROVE  /\ IsRequest(m) => m.id \in Calls /\ m = Request(m.id)
         /\ IsNotification(m) => m.id \in Notes /\ m = Notification(m.id)
         /\ IsResponse(m) => m.id \in Calls /\ m.body \in Bodies
BY DEF Message, Requests, Notifications, Responses, IsRequest, IsNotification,
       IsResponse, Request, Notification

\* The messages the code constructs are messages.
LEMMA MessageConstructors ==
  /\ \A c \in Calls : Request(c) \in Requests /\ Request(c) \in Message
  /\ \A n \in Notes : Notification(n) \in Message
  /\ \A c \in Calls, b \in Bodies : Response(c, b) \in Message
BY DEF Message, Requests, Notifications, Responses, Request, Notification, Response

\* A handler that does not return a promise gives one of the three bodies.
LEMMA BodyOfType ==
  ASSUME NEW k \in HandlerKinds, ~Async(k)
  PROVE  BodyOf(k) \in Bodies
BY JsonRpcAssumption DEF AllHandlerKinds, Async, BodyOf, Bodies

\* The next connection exists when this one may fail.
LEMMA NextConn ==
  ASSUME NEW e \in Conns
  PROVE  /\ e \in Nat
         /\ MayFail(e) => e + 1 \in Conns
BY MaxConnsAssumption DEF Conns, MayFail

\* What a settled promise becomes.
LEMMA OutcomeType == \A b : Outcome(b) \in PromiseStates
BY DEF Outcome, PromiseStates

-----------------------------------------------------------------------------
(* Queues that lose their first message or gain one, and queues in a row.   *)

\* A queue that loses its head.
LEMMA TailIndices ==
  ASSUME NEW S, NEW s \in Seq(S), s # <<>>
  PROVE  /\ \A j \in DOMAIN Tail(s) : j + 1 \in DOMAIN s /\ Tail(s)[j] = s[j + 1]
         /\ \A i \in DOMAIN s : i # 1 => i - 1 \in DOMAIN Tail(s) /\ Tail(s)[i - 1] = s[i]
         /\ DOMAIN s \subseteq Nat /\ DOMAIN Tail(s) \subseteq Nat
         /\ Head(s) = s[1] /\ 1 \in DOMAIN s
OBVIOUS

\* Where x is in a queue that a message joins.
LEMMA AppendIndices ==
  ASSUME NEW S, NEW s \in Seq(S), NEW m \in S, NEW x
  PROVE  {j \in DOMAIN Append(s, m) : Append(s, m)[j] = x}
         = {j \in DOMAIN s : s[j] = x} \cup (IF m = x THEN {Len(s) + 1} ELSE {})
<1>1. DOMAIN s = 1..Len(s) /\ DOMAIN Append(s, m) = 1..(Len(s) + 1) /\ Len(s) \in Nat
  OBVIOUS
<1>2. Append(s, m)[Len(s) + 1] = m /\ \A j \in 1..Len(s) : Append(s, m)[j] = s[j]
  OBVIOUS
<1> QED BY <1>1, <1>2

\* A buffer that is put behind a queue.
LEMMA JoinIndices ==
  ASSUME NEW S, NEW s \in Seq(S), NEW t \in Seq(S), NEW x
  PROVE  {j \in DOMAIN (s \o t) : (s \o t)[j] = x}
         = {j \in DOMAIN s : s[j] = x} \cup {Len(s) + i : i \in {k \in DOMAIN t : t[k] = x}}
<1>1. /\ DOMAIN s = 1..Len(s) /\ DOMAIN t = 1..Len(t)
      /\ Len(s) \in Nat /\ Len(t) \in Nat
      /\ DOMAIN (s \o t) = 1..(Len(s) + Len(t))
  OBVIOUS
<1>2. \A j \in 1..Len(s) : (s \o t)[j] = s[j]
  OBVIOUS
<1>3. \A j \in (Len(s) + 1)..(Len(s) + Len(t)) : (s \o t)[j] = t[j - Len(s)]
  OBVIOUS
<1>4. ASSUME NEW k \in DOMAIN t
      PROVE  Len(s) + k \in DOMAIN (s \o t) /\ (s \o t)[Len(s) + k] = t[k]
  BY <1>1, <1>3
<1>5. ASSUME NEW j \in DOMAIN (s \o t), (s \o t)[j] = x, j \notin DOMAIN s
      PROVE  j - Len(s) \in DOMAIN t /\ t[j - Len(s)] = x /\ j = Len(s) + (j - Len(s))
  BY <1>1, <1>3, <1>5
<1> QED BY <1>1, <1>2, <1>4, <1>5

\* A member of two sequences in a row is one of the first or of the second.
LEMMA JoinIsEither ==
  ASSUME NEW S, NEW s \in Seq(S), NEW t \in Seq(S), NEW i \in DOMAIN (s \o t)
  PROVE  \/ \E j \in DOMAIN s : (s \o t)[i] = s[j]
         \/ \E j \in DOMAIN t : (s \o t)[i] = t[j]
<1>1. /\ DOMAIN s = 1..Len(s) /\ DOMAIN t = 1..Len(t) /\ Len(s) \in Nat /\ Len(t) \in Nat
      /\ DOMAIN (s \o t) = 1..(Len(s) + Len(t))
      /\ \A j \in 1..Len(s) : (s \o t)[j] = s[j]
      /\ \A j \in 1..Len(t) : (s \o t)[Len(s) + j] = t[j]
  OBVIOUS
<1>2. CASE i <= Len(s)
  BY <1>1, <1>2
<1>3. CASE i > Len(s)
  <2>1. i - Len(s) \in 1..Len(t) /\ i = Len(s) + (i - Len(s))
    BY <1>1, <1>3
  <2> QED BY <1>1, <2>1
<1> QED BY <1>1, <1>2, <1>3

\* Their members.
LEMMA AppendRange ==
  ASSUME NEW S, NEW s \in Seq(S), NEW m \in S
  PROVE  Range(Append(s, m)) = Range(s) \cup {m}
<1>1. /\ DOMAIN s = 1..Len(s) /\ DOMAIN Append(s, m) = 1..(Len(s) + 1) /\ Len(s) \in Nat
      /\ Append(s, m)[Len(s) + 1] = m /\ \A i \in 1..Len(s) : Append(s, m)[i] = s[i]
  OBVIOUS
<1>2. \A i \in 1..(Len(s) + 1) : i = Len(s) + 1 \/ i \in 1..Len(s)
  BY <1>1
<1>3. 1..Len(s) \subseteq 1..(Len(s) + 1) /\ Len(s) + 1 \in 1..(Len(s) + 1)
  BY <1>1
<1> QED BY <1>1, <1>2, <1>3 DEF Range

LEMMA TailRange ==
  ASSUME NEW S, NEW s \in Seq(S), s # <<>>
  PROVE  Range(s) = {Head(s)} \cup Range(Tail(s))
<1>1. /\ DOMAIN s = 1..Len(s) /\ DOMAIN Tail(s) = 1..(Len(s) - 1) /\ Len(s) \in Nat \ {0}
      /\ Head(s) = s[1] /\ \A i \in 1..(Len(s) - 1) : Tail(s)[i] = s[i + 1]
  OBVIOUS
<1>2. \A i \in 1..Len(s) : i = 1 \/ (i - 1 \in 1..(Len(s) - 1) /\ (i - 1) + 1 = i)
  BY <1>1
<1>3. 1 \in 1..Len(s) /\ \A i \in 1..(Len(s) - 1) : i + 1 \in 1..Len(s)
  BY <1>1
<1>4. ASSUME NEW i \in DOMAIN s
      PROVE  s[i] \in {Head(s)} \cup Range(Tail(s))
  <2>1. CASE i = 1
    BY <1>1, <2>1
  <2>2. CASE i # 1
    <3>1. i - 1 \in DOMAIN Tail(s) /\ Tail(s)[i - 1] = s[i]
      BY <1>1, <1>2, <2>2
    <3> QED BY <3>1 DEF Range
  <2> QED BY <2>1, <2>2
<1>5. {Head(s)} \cup Range(Tail(s)) \subseteq Range(s)
  BY <1>1, <1>3 DEF Range
<1> QED BY <1>4, <1>5 DEF Range

LEMMA JoinRange ==
  ASSUME NEW S, NEW s \in Seq(S), NEW t \in Seq(S)
  PROVE  Range(s \o t) = Range(s) \cup Range(t)
<1>1. /\ DOMAIN s = 1..Len(s) /\ DOMAIN t = 1..Len(t) /\ Len(s) \in Nat /\ Len(t) \in Nat
      /\ DOMAIN (s \o t) = 1..(Len(s) + Len(t))
      /\ \A i \in 1..Len(s) : (s \o t)[i] = s[i]
      /\ \A i \in 1..Len(t) : (s \o t)[Len(s) + i] = t[i]
  OBVIOUS
<1>2. /\ 1..Len(s) \subseteq 1..(Len(s) + Len(t))
      /\ \A i \in 1..Len(t) : Len(s) + i \in 1..(Len(s) + Len(t))
  BY <1>1
<1>3. Range(s) \subseteq Range(s \o t) /\ Range(t) \subseteq Range(s \o t)
  BY <1>1, <1>2 DEF Range
<1>4. ASSUME NEW i \in DOMAIN (s \o t)
      PROVE  (s \o t)[i] \in Range(s) \cup Range(t)
  BY JoinIsEither DEF Range
<1>5. Range(s \o t) \subseteq Range(s) \cup Range(t)
  BY <1>4 DEF Range
<1> QED BY <1>3, <1>5

LEMMA RangeType ==
  ASSUME NEW S, NEW s \in Seq(S)
  PROVE  Range(s) \subseteq S
BY DEF Range

\* Queues that hold nothing twice.
LEMMA AppendOnce ==
  ASSUME NEW S, NEW s \in Seq(S), NEW m \in S, IsInjective(s), m \notin Range(s)
  PROVE  IsInjective(Append(s, m))
<1>1. \A i \in DOMAIN Append(s, m) :
        \/ i = Len(s) + 1 /\ Append(s, m)[i] = m
        \/ i \in DOMAIN s /\ Append(s, m)[i] = s[i]
  OBVIOUS
<1> QED BY <1>1 DEF IsInjective, Range

LEMMA TailOnce ==
  ASSUME NEW S, NEW s \in Seq(S), s # <<>>, IsInjective(s)
  PROVE  IsInjective(Tail(s)) /\ Head(s) \notin Range(Tail(s))
<1>1. ASSUME NEW i \in DOMAIN Tail(s), NEW j \in DOMAIN Tail(s), Tail(s)[i] = Tail(s)[j]
      PROVE  i = j
  <2>1. i + 1 = j + 1 /\ i \in Nat /\ j \in Nat
    BY <1>1, TailIndices DEF IsInjective
  <2> QED BY <2>1
<1>2. ASSUME NEW i \in DOMAIN Tail(s), Tail(s)[i] = Head(s)
      PROVE  FALSE
  <2>1. i + 1 = 1 /\ i \in Nat /\ i # 0
    <3>1. i # 0
      OBVIOUS
    <3> QED BY <1>2, <3>1, TailIndices DEF IsInjective
  <2> QED BY <2>1
<1> QED BY <1>1, <1>2 DEF IsInjective, Range

LEMMA JoinOnce ==
  ASSUME NEW S, NEW s \in Seq(S), NEW t \in Seq(S), IsInjective(s), IsInjective(t),
         Range(s) \cap Range(t) = {}
  PROVE  IsInjective(s \o t)
<1>1. /\ DOMAIN s = 1..Len(s) /\ DOMAIN t = 1..Len(t) /\ Len(s) \in Nat /\ Len(t) \in Nat
      /\ DOMAIN (s \o t) = 1..(Len(s) + Len(t))
      /\ \A i \in 1..Len(s) : (s \o t)[i] = s[i]
      /\ \A i \in (Len(s) + 1)..(Len(s) + Len(t)) : (s \o t)[i] = t[i - Len(s)]
  OBVIOUS
<1>2. \A i \in DOMAIN (s \o t) : 
        \/ i \in DOMAIN s /\ (s \o t)[i] = s[i]
        \/ i \in Nat /\ i - Len(s) \in DOMAIN t /\ (s \o t)[i] = t[i - Len(s)]
  BY <1>1
<1>3. \A i \in DOMAIN s, j \in DOMAIN t : s[i] # t[j]
  BY DEF Range
<1>4. \A i, j \in Nat : i - Len(s) = j - Len(s) => i = j
  BY <1>1
<1> QED BY <1>2, <1>3, <1>4 DEF IsInjective

-----------------------------------------------------------------------------
(* Type correctness, one lemma per group of actions.                        *)

\* The types of what a page and its connections have.
ClientTypeOK ==
  /\ TransportTypeOK(Message)
  /\ SocketTypeOK
  /\ RpcTypeOK

\* A page that has just been loaded, for the first time.
LEMMA ClientInitType ==
  ASSUME TransportInit, SocketInit, RpcInit
  PROVE  ClientTypeOK
<1>1. TransportTypeOK(Message)
  BY DEF TransportInit, TransportTypeOK, CliStates, SrvStates
<1>2. SocketTypeOK
  <2>1. 1 \in Conns
    BY MaxConnsAssumption DEF Conns
  <2> QED BY <2>1 DEF SocketInit, SocketTypeOK
<1>3. RpcTypeOK
  <2>1. 0 \in 0..MaxCalls /\ 0 \in 0..MaxNotes
    BY JsonRpcAssumption
  <2>2. <<>> \in Seq(Requests) /\ <<>> \in Seq(Message) /\ <<>> \in Seq(Transactions)
    OBVIOUS
  <2> QED BY <2>1, <2>2 DEF RpcInit, StoreInit, RpcTypeOK, PromiseStates
<1> QED BY <1>1, <1>2, <1>3 DEF ClientTypeOK

\* Sending on the current socket keeps the types of the transport.
LEMMA SendDataType ==
  ASSUME TransportTypeOK(Message), SocketTypeOK, NEW m \in Message, SendData(<<m>>)
  PROVE  c2s' \in [Conns -> Seq(Message)] /\ discarded' \in SUBSET Message
<1>1. <<m>> \in Seq(Message) /\ {<<m>>[i] : i \in DOMAIN <<m>>} = {m}
  OBVIOUS
<1>2. CASE cliEnd[socket] = "OPEN"
  <2>1. c2s[socket] \o <<m>> \in Seq(Message)
    BY <1>1 DEF TransportTypeOK, SocketTypeOK
  <2> QED BY <1>2, <2>1 DEF TransportTypeOK, SocketTypeOK, SendData
<1>3. CASE cliEnd[socket] # "OPEN"
  BY <1>1, <1>3 DEF TransportTypeOK, SendData
<1> QED BY <1>2, <1>3

\* send() keeps the types of the transport and the buffer.
LEMMA SendOrBufferType ==
  ASSUME ClientTypeOK, NEW m \in Requests, SendOrBuffer(m)
  PROVE  /\ c2s' \in [Conns -> Seq(Message)]
         /\ discarded' \in SUBSET Message
         /\ buffer' \in Seq(Requests)
<1>1. m \in Message
  BY DEF Message
<1>2. CASE connected
  <2>1. SendData(<<m>>) /\ buffer' = buffer
    BY <1>2 DEF SendOrBuffer
  <2> QED BY <1>1, <2>1, SendDataType DEF ClientTypeOK, RpcTypeOK
<1>3. CASE ~connected
  <2>1. buffer' = Append(buffer, m) /\ UNCHANGED <<c2s, discarded>>
    BY <1>3 DEF SendOrBuffer
  <2>2. Append(buffer, m) \in Seq(Requests)
    BY DEF ClientTypeOK, RpcTypeOK
  <2> QED BY <2>1, <2>2 DEF ClientTypeOK, TransportTypeOK
<1> QED BY <1>2, <1>3

\* So does its counterpart with the notification store.
LEMMA SendOrStoreType ==
  ASSUME ClientTypeOK, NEW m \in Message, SendOrStore(m)
  PROVE  /\ c2s' \in [Conns -> Seq(Message)]
         /\ discarded' \in SUBSET Message
         /\ txs' \in Seq(Transactions)
<1>1. CASE connected
  <2>1. SendData(<<m>>) /\ txs' = txs
    BY <1>1 DEF SendOrStore
  <2> QED BY <2>1, SendDataType DEF ClientTypeOK, RpcTypeOK
<1>2. CASE ~connected
  <2>1. AddTx(m) \in Transactions
    BY DEF AddTx, Transactions
  <2>2. txs' = Append(txs, AddTx(m)) /\ UNCHANGED <<c2s, discarded>>
    BY <1>2 DEF SendOrStore
  <2>3. Append(txs, AddTx(m)) \in Seq(Transactions)
    BY <2>1 DEF ClientTypeOK, RpcTypeOK
  <2> QED BY <2>2, <2>3 DEF ClientTypeOK, TransportTypeOK
<1> QED BY <1>1, <1>2

\* Calls, notifications, the interval.
LEMMA PageType ==
  ASSUME ClientTypeOK, Call \/ Notify \/ OnAttempt
  PROVE  ClientTypeOK'
<1>1. CASE Call
  <2> DEFINE c == ncalls + 1
  <2>1. c \in Calls /\ Request(c) \in Message /\ Request(c) \in Requests
    BY <1>1, MessageConstructors DEF Call, NewEntry
  <2>2. /\ c2s' \in [Conns -> Seq(Message)]
        /\ discarded' \in SUBSET Message
        /\ buffer' \in Seq(Requests)
    BY <1>1, <2>1, SendOrBufferType DEF Call, NewEntry
  <2>3. ncalls' \in 0..MaxCalls /\ pending' \subseteq Calls /\ promise' \in [Calls -> PromiseStates]
    BY <1>1, <2>1, JsonRpcAssumption DEF Call, NewEntry, ClientTypeOK, RpcTypeOK, Calls, PromiseStates
  <2> QED
    BY <1>1, <2>2, <2>3
    DEF Call, NewEntry, ClientTypeOK, TransportTypeOK, SocketTypeOK, RpcTypeOK, clientVars,
        dbVars
<1>2. CASE Notify
  <2> DEFINE n == nnotes + 1
  <2>1. n \in Notes /\ Notification(n) \in Message
    BY <1>2, MessageConstructors DEF Notify
  <2>2. /\ c2s' \in [Conns -> Seq(Message)]
        /\ discarded' \in SUBSET Message
        /\ txs' \in Seq(Transactions)
    BY <1>2, <2>1, SendOrStoreType DEF Notify
  <2>3. nnotes' \in 0..MaxNotes
    BY <1>2, <2>1, JsonRpcAssumption DEF Notify, ClientTypeOK, RpcTypeOK, Notes
  <2> QED
    BY <1>2, <2>2, <2>3
    DEF Notify, ClientTypeOK, TransportTypeOK, SocketTypeOK, RpcTypeOK, clientVars
<1>3. CASE OnAttempt
  <2>1. socket' \in Conns /\ cliEnd' \in [Conns -> CliStates]
    BY <1>3, NextConn DEF OnAttempt, AttemptReconnect, NewWebSocket, ClientTypeOK, SocketTypeOK,
      TransportTypeOK, MayFail, CliStates
  <2> QED
    BY <1>3, <2>1
    DEF OnAttempt, AttemptReconnect, NewWebSocket, ClientTypeOK, TransportTypeOK, SocketTypeOK,
        RpcTypeOK, rpcVars, dbVars
<1> QED BY <1>1, <1>2, <1>3

\* The socket's events.
LEMMA SocketType ==
  ASSUME ClientTypeOK, NEW e \in Conns, OnOpen(e) \/ OnClose(e) \/ OnResponse(e)
  PROVE  ClientTypeOK'
<1>1. CASE OnOpen(e)
  <2>1. cliEnd' \in [Conns -> CliStates]
    BY <1>1 DEF OnOpen, SocketOpens, ClientTypeOK, TransportTypeOK, CliStates
  <2>2. c2s' \in [Conns -> Seq(Message)] /\ buffer' \in Seq(Requests)
    <3>1. buffer \in Seq(Message) /\ c2s[socket] \in Seq(Message)
      BY DEF ClientTypeOK, TransportTypeOK, SocketTypeOK, RpcTypeOK, Message
    <3>2. c2s[socket] \o buffer \in Seq(Message)
      BY <3>1
    <3>3. c2s' = [c2s EXCEPT ![socket] = c2s[socket] \o buffer] /\ buffer' = <<>>
      BY <1>1 DEF OnOpen, SocketOpens, FlagsOnOpen, FlushBuffer
    <3>4. c2s \in [Conns -> Seq(Message)] /\ <<>> \in Seq(Requests)
      BY DEF ClientTypeOK, TransportTypeOK
    <3> QED BY <3>2, <3>3, <3>4
  <2>3. txs' \in Seq(Transactions)
    <3>1. FlushTx \in Transactions
      BY DEF Transactions
    <3>2. Append(txs, FlushTx) \in Seq(Transactions)
      BY <3>1 DEF ClientTypeOK, RpcTypeOK
    <3> QED BY <1>1, <3>2 DEF OnOpen, StartFlush
  <2> QED
    BY <1>1, <2>1, <2>2, <2>3
    DEF OnOpen, SocketOpens, FlagsOnOpen, ClientTypeOK, TransportTypeOK, SocketTypeOK,
        RpcTypeOK
<1>2. CASE OnClose(e)
  BY <1>2
  DEF OnClose, SocketCloses, FlagsOnClose, ClientTypeOK, TransportTypeOK, SocketTypeOK,
      RpcTypeOK, CliStates, rpcVars, dbVars
<1>3. CASE OnResponse(e)
  <2> DEFINE m == Head(s2c[e])
  <2>1. s2c[e] \in Seq(Message) /\ s2c[e] # <<>>
    BY <1>3 DEF OnResponse, ClientTakes, ClientTypeOK, TransportTypeOK
  <2>2. m \in Message /\ Tail(s2c[e]) \in Seq(Message)
    BY <2>1
  <2>3. s2c' \in [Conns -> Seq(Message)]
    BY <1>3, <2>2 DEF OnResponse, ClientTakes, ClientTypeOK, TransportTypeOK
  <2>4. pending' \subseteq Calls /\ promise' \in [Calls -> PromiseStates]
    <3>1. Outcome(m.body) \in PromiseStates
      BY OutcomeType
    <3>2. Settle(m.id, m.body)
      BY <1>3 DEF OnResponse
    <3> QED BY <3>1, <3>2 DEF Settle, ClientTypeOK, RpcTypeOK
  <2> QED
    BY <1>3, <2>3, <2>4
    DEF OnResponse, ClientTypeOK, TransportTypeOK, SocketTypeOK, RpcTypeOK,
        clientVars, dbVars
<1> QED BY <1>1, <1>2, <1>3

\* A rollback keeps the types of the store.
LEMMA RollbackType ==
  ASSUME ClientTypeOK, Rollback
  PROVE  store' \in Seq(Message) /\ flushed' \in Seq(Message) /\ rollbacks' \in Nat
BY DEF ClientTypeOK, RpcTypeOK, Rollback

\* The transactions of the notification store.
LEMMA StoreType ==
  ASSUME ClientTypeOK, AddCommits \/ FlushSends \/ FlushAborts \/ FlushCommits
  PROVE  ClientTypeOK'
<1>1. txs # <<>> => Head(txs) \in Transactions /\ Tail(txs) \in Seq(Transactions)
  BY DEF ClientTypeOK, RpcTypeOK
<1>2. CASE AddCommits
  <2>1. Head(txs).msg \in Message
    BY <1>1, <1>2 DEF AddCommits, Running, Transactions, FlushTx
  <2>2. store' \in Seq(Message) /\ txs' \in Seq(Transactions)
    BY <1>1, <1>2, <2>1 DEF AddCommits, Running, ClientTypeOK, RpcTypeOK
  <2> QED
    BY <1>2, <2>2
    DEF AddCommits, ClientTypeOK, TransportTypeOK, SocketTypeOK, RpcTypeOK,
        transportVars, clientVars, rpcVars
<1>3. CASE FlushSends
  <2>1. /\ Head(store) \in Message
        /\ Tail(store) \in Seq(Message)
        /\ Append(flushed, Head(store)) \in Seq(Message)
    BY <1>3 DEF FlushSends, ClientTypeOK, RpcTypeOK
  <2>2. c2s' \in [Conns -> Seq(Message)] /\ discarded' \in SUBSET Message
    BY <1>3, <2>1, SendDataType DEF FlushSends, ClientTypeOK
  <2> QED
    BY <1>3, <2>1, <2>2
    DEF FlushSends, CursorDeletes, ClientTypeOK, TransportTypeOK, SocketTypeOK, RpcTypeOK, clientVars, rpcVars
<1>4. CASE FlushAborts
  BY <1>1, <1>4, RollbackType
  DEF FlushAborts, Running, ClientTypeOK, TransportTypeOK, SocketTypeOK, RpcTypeOK, transportVars, clientVars, rpcVars
<1>5. CASE FlushCommits
  BY <1>1, <1>5
  DEF FlushCommits, Running, ClientTypeOK, TransportTypeOK, SocketTypeOK, RpcTypeOK, transportVars, clientVars, rpcVars
<1> QED BY <1>2, <1>3, <1>4, <1>5

\* The page goes away.
LEMMA ReloadType ==
  ASSUME ClientTypeOK, Reload
  PROVE  ClientTypeOK'
<1>1. socket' \in Conns /\ cliEnd' \in [Conns -> CliStates]
  BY NextConn DEF Reload, PageRestarts, ClientTypeOK, TransportTypeOK, SocketTypeOK, CliStates
<1>2. promise' \in [Calls -> PromiseStates]
  BY DEF Reload, PageRestarts, PromisesGone, ClientTypeOK, RpcTypeOK, PromiseStates
<1>3. forgotten' \subseteq Message
  <2>1. Range(buffer) \subseteq Message
    BY DEF Range, ClientTypeOK, RpcTypeOK, Message
  <2>2. QueuedAdds \subseteq Message
    BY DEF QueuedAdds, Range, ClientTypeOK, RpcTypeOK, Transactions, FlushTx
  <2> QED BY <2>1, <2>2 DEF Reload, PageRestarts, ClientTypeOK, RpcTypeOK
<1>4. store' \in Seq(Message) /\ flushed' \in Seq(Message) /\ rollbacks' \in Nat
  BY RollbackType DEF Reload, PageRestarts
<1>5. buffer' \in Seq(Requests) /\ txs' \in Seq(Transactions) /\ pending' \subseteq Calls
  BY DEF Reload, PageRestarts
<1> QED
  BY <1>1, <1>2, <1>3, <1>4, <1>5
  DEF Reload, PageRestarts, ClientTypeOK, TransportTypeOK, SocketTypeOK, RpcTypeOK

-----------------------------------------------------------------------------
(* Copies on their way.                                                     *)

Queues == [Conns -> Seq(Message)]

Count(q, m) == Cardinality(Spots(q, m))

\* The queues after messages s are sent on connection d, or its first is taken.
Sent(q, d, s) == [q EXCEPT ![d] = @ \o s]
Taken(q, d) == [q EXCEPT ![d] = Tail(@)]

LEMMA SpotsMeans ==
  ASSUME NEW q, NEW m
  PROVE  \A e \in Conns : \A i : <<e, i>> \in Spots(q, m) <=> i \in DOMAIN q[e] /\ q[e][i] = m
BY DEF Spots

LEMMA SpotIs ==
  ASSUME NEW q, NEW m, NEW p \in Spots(q, m)
  PROVE  \E e \in Conns : \E i : p = <<e, i>> /\ i \in DOMAIN q[e] /\ q[e][i] = m
BY DEF Spots

\* There are finitely many copies.
LEMMA SpotsFinite ==
  ASSUME NEW q \in Queues, NEW m
  PROVE  IsFiniteSet(Spots(q, m)) /\ Count(q, m) \in Nat
<1> DEFINE At(e) == {<<e, i>> : i \in {j \in DOMAIN q[e] : q[e][j] = m}}
           f == [e \in Conns |-> At(e)]
           T == {At(e) : e \in Conns}
<1>1. IsFiniteSet(Conns)
  BY MaxConnsAssumption, FS_Interval DEF Conns
<1>2. IsFiniteSet(T)
  <2>1. f \in [Conns -> T] /\ \A x \in T : \E e \in Conns : f[e] = x
    OBVIOUS
  <2> HIDE DEF f, T
  <2>2. f \in Surjection(Conns, T)
    BY <2>1, Fun_IsSurj
  <2> QED BY <1>1, <2>2, FS_Surjection
<1>3. ASSUME NEW e \in Conns
      PROVE  IsFiniteSet(At(e))
  <2>1. q[e] \in Seq(Message)
    BY DEF Queues
  <2>2. 1 \in Int /\ Len(q[e]) \in Int /\ DOMAIN q[e] = 1..Len(q[e])
    BY <2>1
  <2>3. IsFiniteSet(1..Len(q[e])) /\ IsFiniteSet({e})
    BY <2>2, FS_Interval, FS_Singleton
  <2>4. IsFiniteSet({e} \X (1..Len(q[e])))
    BY <2>3, FS_Product
  <2>5. At(e) \subseteq {e} \X (1..Len(q[e]))
    BY <2>2
  <2> QED BY <2>4, <2>5, FS_Subset
<1>4. IsFiniteSet(UNION T)
  <2>1. \A U \in T : IsFiniteSet(U)
    BY <1>3
  <2> HIDE DEF T
  <2> QED BY <1>2, <2>1, FS_UNION
<1>5. IsFiniteSet(Spots(q, m))
  BY <1>4 DEF Spots
<1> QED BY <1>5, FS_CardinalityType DEF Count

LEMMA NoneThere ==
  ASSUME NEW q \in Queues, NEW m
  PROVE  Count(q, m) = 0 <=> \A e \in Conns : m \notin Range(q[e])
<1>1. Count(q, m) = 0 <=> Spots(q, m) = {}
  BY SpotsFinite, FS_EmptySet DEF Count
<1>2. ASSUME NEW p \in Spots(q, m)
      PROVE  \E e \in Conns : m \in Range(q[e])
  BY SpotIs DEF Range
<1>3. ASSUME NEW e \in Conns, m \in Range(q[e])
      PROVE  Spots(q, m) # {}
  <2>1. PICK i \in DOMAIN q[e] : q[e][i] = m
    BY <1>3 DEF Range
  <2> QED BY <2>1, SpotsMeans
<1> QED BY <1>1, <1>2, <1>3

\* Messages that are sent without m among them leave its copies where they are.
LEMMA OthersSent ==
  ASSUME NEW q \in Queues, NEW d \in Conns, NEW s \in Seq(Message), NEW m, m \notin Range(s),
         NEW r, r = Sent(q, d, s)
  PROVE  Spots(r, m) = Spots(q, m) /\ Count(r, m) = Count(q, m)
<1>1. q[d] \in Seq(Message) /\ \A e \in Conns : r[e] = IF e = d THEN q[d] \o s ELSE q[e]
  BY DEF Queues, Sent
<1>2. /\ \A i \in DOMAIN q[d] : i \in DOMAIN (q[d] \o s) /\ (q[d] \o s)[i] = q[d][i]
      /\ \A i \in DOMAIN (q[d] \o s) : i \in DOMAIN q[d] \/ (q[d] \o s)[i] \in Range(s)
  <2>1. \A i \in DOMAIN (q[d] \o s) :
          \/ i \in DOMAIN q[d]
          \/ i - Len(q[d]) \in DOMAIN s /\ (q[d] \o s)[i] = s[i - Len(q[d])]
    BY <1>1
  <2>2. \A i \in DOMAIN q[d] : i \in DOMAIN (q[d] \o s) /\ (q[d] \o s)[i] = q[d][i]
    BY <1>1
  <2> QED BY <2>1, <2>2 DEF Range
<1>3. \A e \in Conns : {j \in DOMAIN r[e] : r[e][j] = m} = {j \in DOMAIN q[e] : q[e][j] = m}
  BY <1>1, <1>2
<1>4. Spots(r, m) = Spots(q, m)
  BY <1>3 DEF Spots
<1> QED BY <1>4 DEF Count

\* A message that is sent is on its way once more.
LEMMA OneSent ==
  ASSUME NEW q \in Queues, NEW d \in Conns, NEW m \in Message,
         NEW r, r = Sent(q, d, <<m>>)
  PROVE  Count(r, m) = Count(q, m) + 1
<1> DEFINE n == Len(q[d]) + 1
<1>1. q[d] \in Seq(Message) /\ \A e \in Conns : r[e] = IF e = d THEN q[d] \o <<m>> ELSE q[e]
  BY DEF Queues, Sent
<1>2. /\ DOMAIN (q[d] \o <<m>>) = DOMAIN q[d] \cup {n} /\ n \notin DOMAIN q[d]
      /\ (q[d] \o <<m>>)[n] = m
      /\ \A i \in DOMAIN q[d] : (q[d] \o <<m>>)[i] = q[d][i]
  BY <1>1
<1> HIDE DEF n
<1>3. ASSUME NEW p \in Spots(r, m)
      PROVE  p \in Spots(q, m) \cup {<<d, n>>}
  <2>1. \E e \in Conns : \E i : p = <<e, i>> /\ i \in DOMAIN r[e] /\ r[e][i] = m
    BY <1>3, SMT DEF Spots
  <2>2. PICK e, i : e \in Conns /\ p = <<e, i>> /\ i \in DOMAIN r[e] /\ r[e][i] = m
    BY <2>1
  <2>3. (e = d /\ i = n) \/ (i \in DOMAIN q[e] /\ q[e][i] = m)
    BY <1>1, <1>2, <2>2
  <2> QED BY <2>2, <2>3, SpotsMeans
<1>4. ASSUME NEW p \in Spots(q, m)
      PROVE  p \in Spots(r, m)
  <2>2. PICK e, i : e \in Conns /\ p = <<e, i>> /\ i \in DOMAIN q[e] /\ q[e][i] = m
    BY <1>4, SMT DEF Spots
  <2>3. i \in DOMAIN r[e] /\ r[e][i] = m
    BY <1>1, <1>2, <2>2
  <2> QED BY <2>2, <2>3, SpotsMeans
<1>5. <<d, n>> \in Spots(r, m) /\ <<d, n>> \notin Spots(q, m)
  <2>1. n \in DOMAIN r[d] /\ r[d][n] = m
    BY <1>1, <1>2
  <2>2. ASSUME <<d, n>> \in Spots(q, m)
        PROVE  FALSE
    <3>1. n \in DOMAIN q[d]
      BY <2>2, SpotsMeans
    <3> QED BY <1>2, <3>1
  <2> QED BY <2>1, <2>2, SpotsMeans
<1>6. Spots(r, m) = Spots(q, m) \cup {<<d, n>>}
  BY <1>3, <1>4, <1>5
<1> QED BY <1>5, <1>6, SpotsFinite, FS_AddElement DEF Count

\* A message that is taken is on its way once less, the others move up.
LEMMA OneTaken ==
  ASSUME NEW q \in Queues, NEW d \in Conns, q[d] # <<>>, NEW m,
         NEW r, r = Taken(q, d)
  PROVE  Count(q, m) = Count(r, m) + IF m = Head(q[d]) THEN 1 ELSE 0
<1> DEFINE s == q[d]
           S == Spots(r, m)
           T == Spots(q, m) \ {<<d, 1>>}
           f == [p \in S |-> IF p[1] = d THEN <<d, p[2] + 1>> ELSE p]
<1>1. s \in Seq(Message) /\ s # <<>> /\ \A e \in Conns : r[e] = IF e = d THEN Tail(s) ELSE q[e]
  BY DEF Queues, Taken
<1>2. /\ 1 \in DOMAIN s /\ Head(s) = s[1] /\ DOMAIN s \subseteq Nat /\ DOMAIN Tail(s) \subseteq Nat
      /\ \A i \in DOMAIN Tail(s) : i + 1 \in DOMAIN s /\ i + 1 # 1 /\ Tail(s)[i] = s[i + 1]
      /\ \A i \in DOMAIN s : i # 1 => i - 1 \in DOMAIN Tail(s) /\ (i - 1) + 1 = i
  BY <1>1
<1>3. r \in Queues
  <2>1. Tail(s) \in Seq(Message)
    BY <1>1
  <2> QED BY <2>1 DEF Queues, Taken
<1>4. IsFiniteSet(Spots(q, m)) /\ Count(q, m) \in Nat /\ IsFiniteSet(S) /\ Count(r, m) \in Nat
  BY <1>3, SpotsFinite
<1>5. f \in Bijection(S, T)
  <2>1. ASSUME NEW p \in S
        PROVE  \E e \in Conns : \E i : p = <<e, i>> /\ i \in DOMAIN r[e] /\ r[e][i] = m
    <3>1. p \in Spots(r, m)
      BY <2>1
    <3> QED BY <3>1, SMT DEF Spots
  <2>2. ASSUME NEW p \in T
        PROVE  \E e \in Conns : \E i : p = <<e, i>> /\ i \in DOMAIN q[e] /\ q[e][i] = m
    <3>1. p \in Spots(q, m)
      BY <2>2
    <3> QED BY <3>1, SMT DEF Spots
  <2>3. ASSUME NEW p \in S
        PROVE  f[p] \in T
    <3>1. PICK e, i : e \in Conns /\ p = <<e, i>> /\ i \in DOMAIN r[e] /\ r[e][i] = m
      BY <2>1
    <3>2. CASE e = d
      <4>1. i + 1 \in DOMAIN s /\ i + 1 # 1 /\ s[i + 1] = m
        BY <1>1, <1>2, <3>1, <3>2
      <4>2. <<d, i + 1>> \in T
        BY <4>1, SpotsMeans
      <4> QED BY <3>1, <3>2, <4>2
    <3>3. CASE e # d
      <4>1. i \in DOMAIN q[e] /\ q[e][i] = m
        BY <1>1, <3>1, <3>3
      <4>2. p \in T
        BY <3>1, <3>3, <4>1, SpotsMeans
      <4> QED BY <3>1, <3>3, <4>2
    <3> QED BY <3>2, <3>3
  <2>4. ASSUME NEW p \in S, NEW o \in S, f[p] = f[o]
        PROVE  p = o
    <3>1. PICK e, i : e \in Conns /\ p = <<e, i>> /\ i \in DOMAIN r[e] /\ r[e][i] = m
      BY <2>1
    <3>2. PICK c, k : c \in Conns /\ o = <<c, k>> /\ k \in DOMAIN r[c] /\ r[c][k] = m
      BY <2>1
    <3>3. /\ f[p] = IF e = d THEN <<d, i + 1>> ELSE <<e, i>>
          /\ f[o] = IF c = d THEN <<d, k + 1>> ELSE <<c, k>>
      BY <3>1, <3>2
    <3>4. e = c
      BY <2>4, <3>3
    <3>5. CASE e = d
      <4>1. i + 1 = k + 1 /\ i \in Nat /\ k \in Nat
        BY <1>1, <1>2, <2>4, <3>1, <3>2, <3>3, <3>4, <3>5
      <4>2. i = k
        BY <4>1
      <4> QED BY <3>1, <3>2, <3>4, <4>2
    <3>6. CASE e # d
      BY <2>4, <3>1, <3>2, <3>3, <3>4, <3>6
    <3> QED BY <3>5, <3>6
  <2>5. ASSUME NEW o \in T
        PROVE  \E p \in S : f[p] = o
    <3>1. PICK e, i : e \in Conns /\ o = <<e, i>> /\ i \in DOMAIN q[e] /\ q[e][i] = m
      BY <2>2
    <3>2. CASE e = d
      <4>1. i # 1
        BY <3>1, <3>2
      <4>2. i - 1 \in DOMAIN Tail(s) /\ (i - 1) + 1 = i /\ Tail(s)[i - 1] = s[(i - 1) + 1]
        BY <1>2, <3>1, <3>2, <4>1
      <4>3. i - 1 \in DOMAIN r[d] /\ r[d][i - 1] = m
        BY <1>1, <3>1, <3>2, <4>2
      <4>4. <<d, i - 1>> \in S
        BY <4>3, SpotsMeans
      <4>5. f[<<d, i - 1>>] = <<d, (i - 1) + 1>>
        BY <4>4
      <4>6. f[<<d, i - 1>>] = o
        BY <3>1, <3>2, <4>2, <4>5
      <4> QED BY <4>4, <4>6
    <3>3. CASE e # d
      <4>1. i \in DOMAIN r[e] /\ r[e][i] = m
        BY <1>1, <3>1, <3>3
      <4>2. o \in S
        BY <3>1, <4>1, SpotsMeans
      <4>3. f[o] = o
        BY <3>1, <3>3, <4>2
      <4> QED BY <4>2, <4>3
    <3> QED BY <3>2, <3>3
  <2>6. f \in [S -> T]
    BY <2>3
  <2> HIDE DEF f, S, T
  <2> QED BY <2>4, <2>5, <2>6, Fun_IsBij
<1>6. Cardinality(T) = Cardinality(S)
  BY <1>4, <1>5, FS_Bijection DEF ExistsBijection
<1>7. <<d, 1>> \in Spots(q, m) <=> m = Head(s)
  <2>1. <<d, 1>> \in Spots(q, m) <=> 1 \in DOMAIN q[d] /\ q[d][1] = m
    BY SMT DEF Spots
  <2> QED BY <1>2, <2>1
<1>8. Cardinality(T) = IF m = Head(s) THEN Count(q, m) - 1 ELSE Count(q, m)
  BY <1>4, <1>7, FS_RemoveElement DEF Count
<1>9. Cardinality(S) = Count(r, m)
  BY DEF Count
<1> QED BY <1>4, <1>6, <1>8, <1>9

-----------------------------------------------------------------------------
(* The line of what was notified, or answered, offline: what a running flush *)
(* has sent, the store and the queued adds.                                  *)

AddsOf(ts) == {ts[k].msg : k \in {l \in DOMAIN ts : ts[l].op = "add"}}

AddsOnce(ts) ==
  \A i, j \in DOMAIN ts :
    ts[i].op = "add" /\ ts[j].op = "add" /\ ts[i].msg = ts[j].msg => i = j

\* Nothing is in line twice.
OnceInLine ==
  /\ IsInjective(flushed) /\ IsInjective(store) /\ AddsOnce(txs)
  /\ Range(flushed) \cap Range(store) = {}
  /\ Range(flushed) \cap AddsOf(txs) = {}
  /\ Range(store) \cap AddsOf(txs) = {}

InLine(m) == m \in Range(flushed) \cup Range(store) \cup AddsOf(txs)

LEMMA HeldMeans == \A m : Held(m) <=> m \in Range(store) \cup AddsOf(txs)
BY DEF Held, QueuedAdds, AddsOf, Range

LEMMA AddsOfType ==
  ASSUME NEW ts \in Seq(Transactions)
  PROVE  AddsOf(ts) \subseteq Message
<1>1. ASSUME NEW k \in DOMAIN ts, ts[k].op = "add"
      PROVE  ts[k].msg \in Message
  BY <1>1 DEF Transactions, FlushTx
<1> QED BY <1>1 DEF AddsOf

LEMMA TailAddsOnce ==
  ASSUME NEW S, NEW ts \in Seq(S), ts # <<>>, AddsOnce(ts)
  PROVE  /\ AddsOnce(Tail(ts))
         /\ Head(ts).op # "add" => AddsOf(Tail(ts)) = AddsOf(ts)
         /\ Head(ts).op = "add" => /\ AddsOf(ts) = {Head(ts).msg} \cup AddsOf(Tail(ts))
                                   /\ Head(ts).msg \notin AddsOf(Tail(ts))
<1> DEFINE u == Tail(ts)
<1>1. /\ \A k \in DOMAIN u : k + 1 \in DOMAIN ts /\ u[k] = ts[k + 1] /\ k \in Nat /\ k + 1 # 1
      /\ \A i \in DOMAIN ts : i = 1 \/ \E k \in DOMAIN u : ts[i] = u[k]
  <2>1. \A k \in DOMAIN u : k \in Nat /\ k # 0 /\ k + 1 # 1
    OBVIOUS
  <2>2. \A k \in DOMAIN u : k + 1 \in DOMAIN ts /\ u[k] = ts[k + 1]
    BY TailIndices
  <2>3. \A i \in DOMAIN ts : i # 1 => i - 1 \in DOMAIN u /\ u[i - 1] = ts[i]
    BY TailIndices
  <2> HIDE DEF u
  <2> QED BY <2>1, <2>2, <2>3
<1>2. 1 \in DOMAIN ts /\ Head(ts) = ts[1]
  BY TailIndices
<1> HIDE DEF u
<1>3. AddsOnce(u)
  <2> SUFFICES ASSUME NEW i \in DOMAIN u, NEW j \in DOMAIN u,
                      u[i].op = "add", u[j].op = "add", u[i].msg = u[j].msg
               PROVE  i = j
    BY DEF AddsOnce
  <2>1. i + 1 = j + 1
    BY <1>1 DEF AddsOnce
  <2> QED BY <1>1, <2>1
<1>4. AddsOf(u) \subseteq AddsOf(ts)
  BY <1>1 DEF AddsOf
<1>5. ASSUME NEW m \in AddsOf(ts)
      PROVE  m \in AddsOf(u) \/ (ts[1].op = "add" /\ m = ts[1].msg)
  BY <1>1 DEF AddsOf
<1>6. ts[1].op = "add" => ts[1].msg \in AddsOf(ts) /\ ts[1].msg \notin AddsOf(u)
  BY <1>1, <1>2 DEF AddsOf, AddsOnce
<1> QED BY <1>2, <1>3, <1>4, <1>5, <1>6 DEF u

LEMMA AppendAddsOnce ==
  ASSUME NEW S, NEW ts \in Seq(S), NEW t \in S, AddsOnce(ts),
         t.op = "add" => t.msg \notin AddsOf(ts)
  PROVE  /\ AddsOnce(Append(ts, t))
         /\ AddsOf(Append(ts, t)) = IF t.op = "add" THEN AddsOf(ts) \cup {t.msg} ELSE AddsOf(ts)
<1> DEFINE u == Append(ts, t)
<1>1. /\ \A i \in DOMAIN u : (i = Len(ts) + 1 /\ u[i] = t) \/ (i \in DOMAIN ts /\ u[i] = ts[i])
      /\ \A i \in DOMAIN ts : i \in DOMAIN u /\ u[i] = ts[i]
      /\ Len(ts) + 1 \in DOMAIN u /\ u[Len(ts) + 1] = t
  OBVIOUS
<1> HIDE DEF u
<1>2. AddsOnce(u)
  BY <1>1 DEF AddsOnce, AddsOf
<1>3. AddsOf(u) = IF t.op = "add" THEN AddsOf(ts) \cup {t.msg} ELSE AddsOf(ts)
  BY <1>1 DEF AddsOf
<1> QED BY <1>2, <1>3 DEF u

\* Joining the line at its end.
LEMMA AddJoinsLine ==
  ASSUME ClientTypeOK, OnceInLine, NEW m \in Message, ~InLine(m),
         txs' = Append(txs, AddTx(m)), UNCHANGED <<store, flushed>>
  PROVE  OnceInLine' /\ \A x : InLine(x)' => x = m \/ InLine(x)
<1>1. txs \in Seq(Transactions) /\ AddTx(m) \in Transactions
      /\ AddTx(m).op = "add" /\ AddTx(m).msg = m
  BY DEF ClientTypeOK, RpcTypeOK, AddTx, Transactions
<1>2. AddsOnce(txs') /\ AddsOf(txs') = AddsOf(txs) \cup {m}
  BY <1>1, AppendAddsOnce DEF OnceInLine, InLine
<1> QED BY <1>2 DEF OnceInLine, InLine

LEMMA FlushJoinsLine ==
  ASSUME ClientTypeOK, OnceInLine, StartFlush, UNCHANGED <<store, flushed>>
  PROVE  OnceInLine' /\ AddsOf(txs') = AddsOf(txs)
<1>1. txs \in Seq(Transactions) /\ FlushTx \in Transactions /\ FlushTx.op # "add"
  BY DEF ClientTypeOK, RpcTypeOK, Transactions, FlushTx
<1>2. AddsOnce(txs') /\ AddsOf(txs') = AddsOf(txs)
  BY <1>1, AppendAddsOnce DEF OnceInLine, StartFlush
<1> QED BY <1>2 DEF OnceInLine

LEMMA AddCommitsLine ==
  ASSUME ClientTypeOK, OnceInLine, AddCommits
  PROVE  /\ OnceInLine' /\ UNCHANGED <<flushed, rollbacks, c2s>>
         /\ Range(store') \cup AddsOf(txs') = Range(store) \cup AddsOf(txs)
<1>1. PICK h : h = Head(txs).msg
  OBVIOUS
<1>2. /\ txs \in Seq(Transactions) /\ store \in Seq(Message) /\ txs # <<>>
      /\ Head(txs).op = "add" /\ txs' = Tail(txs) /\ store' = Append(store, h)
      /\ UNCHANGED <<flushed, rollbacks, c2s>>
  BY <1>1 DEF AddCommits, Running, transportVars, ClientTypeOK, RpcTypeOK
<1>3. /\ AddsOnce(txs') /\ AddsOf(txs) = {h} \cup AddsOf(txs') /\ h \notin AddsOf(txs')
  BY <1>1, <1>2, TailAddsOnce DEF OnceInLine
<1>4. h \in Message
  BY <1>2, <1>3, AddsOfType
<1>5. Range(store') = Range(store) \cup {h}
  BY <1>2, <1>4, AppendRange
<1>6. h \notin Range(store) /\ h \notin Range(flushed)
  BY <1>3 DEF OnceInLine
<1>7. IsInjective(store')
  BY <1>2, <1>4, <1>6, AppendOnce DEF OnceInLine
<1> QED BY <1>2, <1>3, <1>5, <1>6, <1>7 DEF OnceInLine

\* What the cursor sends and deletes is out of the store.
LEMMA FlushSendsLine ==
  ASSUME ClientTypeOK, OnceInLine, FlushSends, NEW h, h = Head(store)
  PROVE  /\ OnceInLine' /\ UNCHANGED <<txs, rollbacks>> /\ h \in Message /\ SendData(<<h>>)
         /\ Range(store) = {h} \cup Range(store')
         /\ Range(flushed') = Range(flushed) \cup {h}
         /\ h \notin Range(store') \cup AddsOf(txs')
<1>1. /\ store \in Seq(Message) /\ flushed \in Seq(Message) /\ store # <<>>
      /\ SendData(<<h>>) /\ store' = Tail(store) /\ flushed' = Append(flushed, h)
      /\ UNCHANGED <<txs, rollbacks>>
  BY DEF FlushSends, CursorDeletes, ClientTypeOK, RpcTypeOK
<1>2. Range(store) = {h} \cup Range(store') /\ IsInjective(store') /\ h \notin Range(store')
  BY <1>1, TailRange, TailOnce DEF OnceInLine
<1>3. h \in Message
  BY <1>1
<1>4. Range(flushed') = Range(flushed) \cup {h}
  BY <1>1, <1>3, AppendRange
<1>5. h \notin Range(flushed) /\ h \notin AddsOf(txs)
  BY <1>2 DEF OnceInLine
<1>6. IsInjective(flushed')
  BY <1>1, <1>3, <1>5, AppendOnce DEF OnceInLine
<1> QED BY <1>1, <1>2, <1>3, <1>4, <1>5, <1>6 DEF OnceInLine

\* A flush that is cut short puts back what it has sent.
LEMMA RollbackLine ==
  ASSUME ClientTypeOK, OnceInLine, Rollback, AddsOnce(txs'), AddsOf(txs') \subseteq AddsOf(txs)
  PROVE  /\ OnceInLine' /\ flushed' = <<>>
         /\ Range(store') = Range(flushed) \cup Range(store)
         /\ rollbacks' = IF Range(flushed) = {} THEN rollbacks ELSE rollbacks + 1
<1>1. /\ store \in Seq(Message) /\ flushed \in Seq(Message)
      /\ store' = flushed \o store /\ flushed' = <<>>
      /\ rollbacks' = IF flushed = <<>> THEN rollbacks ELSE rollbacks + 1
  BY DEF Rollback, ClientTypeOK, RpcTypeOK
<1>2. Range(store') = Range(flushed) \cup Range(store) /\ IsInjective(store')
  BY <1>1, JoinRange, JoinOnce DEF OnceInLine
<1>3. Range(flushed') = {} /\ IsInjective(flushed')
  BY <1>1 DEF Range, IsInjective
<1>4. Range(flushed) = {} <=> flushed = <<>>
  <2>1. flushed # <<>> => flushed[1] \in Range(flushed)
    BY <1>1 DEF Range
  <2> QED BY <2>1 DEF Range
<1> QED BY <1>1, <1>2, <1>3, <1>4 DEF OnceInLine

LEMMA FlushAbortsLine ==
  ASSUME ClientTypeOK, OnceInLine, FlushAborts
  PROVE  /\ AddsOnce(txs') /\ AddsOf(txs') = AddsOf(txs) /\ Rollback /\ UNCHANGED c2s
<1>1. /\ txs \in Seq(Transactions) /\ txs # <<>> /\ txs' = Tail(txs)
      /\ Head(txs).op # "add" /\ Rollback /\ UNCHANGED c2s
  BY DEF FlushAborts, Running, transportVars, ClientTypeOK, RpcTypeOK
<1> QED BY <1>1, TailAddsOnce DEF OnceInLine

LEMMA FlushCommitsLine ==
  ASSUME ClientTypeOK, OnceInLine, FlushCommits
  PROVE  /\ OnceInLine' /\ flushed' = <<>> /\ UNCHANGED <<store, rollbacks, c2s>>
         /\ AddsOf(txs') = AddsOf(txs)
<1>1. /\ txs \in Seq(Transactions) /\ txs # <<>> /\ txs' = Tail(txs)
      /\ Head(txs).op # "add" /\ flushed' = <<>> /\ UNCHANGED <<store, rollbacks, c2s>>
  BY DEF FlushCommits, Running, transportVars, ClientTypeOK, RpcTypeOK
<1>2. AddsOnce(txs') /\ AddsOf(txs') = AddsOf(txs)
  BY <1>1, TailAddsOnce DEF OnceInLine
<1>3. Range(flushed') = {} /\ IsInjective(flushed')
  BY <1>1 DEF Range, IsInjective
<1> QED BY <1>1, <1>2, <1>3 DEF OnceInLine

LEMMA ReloadLine ==
  ASSUME Reload
  PROVE  AddsOnce(txs') /\ AddsOf(txs') = {} /\ Rollback /\ UNCHANGED c2s
BY DEF Reload, PageRestarts, AddsOnce, AddsOf

-----------------------------------------------------------------------------
(* How often what goes through the line is sent.  Of a message m, t copies   *)
(* have been taken off their connection.                                     *)

\* One copy more than there were rollbacks; none more while m waits to be sent.
CopiesBounded(m, t) ==
  /\ t + Count(c2s, m) <= 1 + rollbacks
  /\ m \in Range(store) \cup AddsOf(txs) => t + Count(c2s, m) <= rollbacks

Unsent(m, t) == ~InLine(m) /\ t + Count(c2s, m) = 0

LEMMA CountsAreNat ==
  ASSUME ClientTypeOK
  PROVE  c2s \in Queues /\ \A m : Count(c2s, m) \in Nat
<1>1. c2s \in Queues
  BY DEF ClientTypeOK, TransportTypeOK, Queues
<1> QED BY <1>1, SpotsFinite

\* Sending makes one copy at most, and only of what is sent.
LEMMA SendingCopies ==
  ASSUME ClientTypeOK, NEW x \in Message, SendData(<<x>>)
  PROVE  /\ Count(c2s', x) <= Count(c2s, x) + 1 /\ Count(c2s', x) \in Nat
         /\ \A m : m # x => Count(c2s', m) = Count(c2s, m)
<1>1. c2s \in Queues /\ (\A m : Count(c2s, m) \in Nat) /\ socket \in Conns /\ <<x>> \in Seq(Message)
  BY CountsAreNat DEF ClientTypeOK, SocketTypeOK
<1>2. CASE c2s' = [c2s EXCEPT ![socket] = @ \o <<x>>]
  <2>1. Count(c2s', x) = Count(c2s, x) + 1
    <3>1. c2s' = Sent(c2s, socket, <<x>>)
      BY <1>2 DEF Sent
    <3> QED BY <1>1, <3>1, OneSent
  <2>2. ASSUME NEW m, m # x
        PROVE  Count(c2s', m) = Count(c2s, m)
    <3>1. PICK s : s = <<x>>
      OBVIOUS
    <3>2. s \in Seq(Message) /\ m \notin Range(s)
      BY <1>1, <2>2, <3>1 DEF Range
    <3>3. c2s' = Sent(c2s, socket, s)
      BY <1>2, <3>1 DEF Sent
    <3> QED BY <1>1, <3>2, <3>3, OthersSent
  <2> QED BY <1>1, <2>1, <2>2
<1>3. CASE UNCHANGED c2s
  BY <1>1, <1>3
<1> QED BY <1>2, <1>3 DEF SendData

\* The steps of the store, and the end of a page, keep the line and the bound.
StoreSteps == AddCommits \/ FlushSends \/ FlushAborts \/ FlushCommits \/ Reload

LEMMA StoreStepsLine ==
  ASSUME ClientTypeOK, OnceInLine, StoreSteps
  PROVE  OnceInLine' /\ \A m : InLine(m)' => InLine(m)
<1>1. CASE AddCommits
  BY <1>1, AddCommitsLine DEF InLine
<1>2. CASE FlushSends
  BY <1>2, FlushSendsLine DEF InLine
<1>3. CASE FlushAborts
  BY <1>3, FlushAbortsLine, RollbackLine DEF InLine, Range
<1>4. CASE FlushCommits
  BY <1>4, FlushCommitsLine DEF InLine, Range
<1>5. CASE Reload
  BY <1>5, ReloadLine, RollbackLine DEF InLine, Range
<1> QED BY <1>1, <1>2, <1>3, <1>4, <1>5 DEF StoreSteps

\* The bound after a rollback, whose counter is r, of a flush that had sent s.
LEMMA RollbackArithmetic ==
  ASSUME NEW n \in Nat, NEW k \in Nat, NEW sent \in BOOLEAN, NEW held \in BOOLEAN,
         n <= 1 + k, held => n <= k, NEW r, r = k + 1 \/ (~sent /\ r = k)
  PROVE  n <= 1 + r /\ (sent \/ held => n <= r)
OBVIOUS

LEMMA RollbackCopies ==
  ASSUME ClientTypeOK, OnceInLine, Rollback, AddsOnce(txs'), AddsOf(txs') \subseteq AddsOf(txs),
         UNCHANGED c2s, NEW m, NEW t \in Nat, CopiesBounded(m, t)
  PROVE  CopiesBounded(m, t)'
<1> DEFINE n == t + Count(c2s, m)
           held == m \in Range(store) \cup AddsOf(txs)
           sent == m \in Range(flushed)
<1>1. n \in Nat /\ rollbacks \in Nat
  BY CountsAreNat DEF ClientTypeOK, RpcTypeOK
<1>2. /\ Range(store') = Range(flushed) \cup Range(store)
      /\ rollbacks' = IF Range(flushed) = {} THEN rollbacks ELSE rollbacks + 1
  BY RollbackLine
<1>3. n <= 1 + rollbacks /\ (held => n <= rollbacks)
  BY DEF CopiesBounded
<1>4. rollbacks' = rollbacks + 1 \/ (~sent /\ rollbacks' = rollbacks)
  BY <1>2
<1>5. sent \in BOOLEAN /\ held \in BOOLEAN
  OBVIOUS
<1>6. n' = n /\ (m \in Range(store') \cup AddsOf(txs') => sent \/ held)
  BY <1>2
<1> HIDE DEF n, held, sent
<1>7. n <= 1 + rollbacks' /\ (sent \/ held => n <= rollbacks')
  BY <1>1, <1>3, <1>4, <1>5, RollbackArithmetic
<1> QED BY <1>6, <1>7 DEF CopiesBounded, n

LEMMA StoreStepsCopies ==
  ASSUME ClientTypeOK, OnceInLine, StoreSteps, NEW m, NEW t \in Nat
  PROVE  /\ CopiesBounded(m, t) => CopiesBounded(m, t)'
         /\ Unsent(m, t) => Unsent(m, t)'
<1>1. (\A x : Count(c2s, x) \in Nat) /\ rollbacks \in Nat
  BY CountsAreNat DEF ClientTypeOK, RpcTypeOK
<1>2. CASE FlushSends
  <2>1. PICK h : h = Head(store)
    OBVIOUS
  <2>2. /\ UNCHANGED <<txs, rollbacks>> /\ h \in Message /\ SendData(<<h>>)
        /\ Range(store) = {h} \cup Range(store')
        /\ h \notin Range(store') \cup AddsOf(txs')
    BY <1>2, <2>1, FlushSendsLine
  <2>3. /\ Count(c2s', h) <= Count(c2s, h) + 1 /\ Count(c2s', h) \in Nat
        /\ \A x : x # h => Count(c2s', x) = Count(c2s, x)
    BY <2>2, SendingCopies
  <2>4. CASE m = h
    <3>1. ~Unsent(m, t)
      BY <2>2, <2>4 DEF Unsent, InLine
    <3>2. CopiesBounded(m, t) => t + Count(c2s, m) <= rollbacks
      BY <2>2, <2>4 DEF CopiesBounded
    <3>3. CopiesBounded(m, t) => t + Count(c2s', m) <= 1 + rollbacks'
      BY <1>1, <2>2, <2>3, <2>4, <3>2
    <3> QED BY <2>2, <2>4, <3>1, <3>3 DEF CopiesBounded
  <2>5. CASE m # h
    <3>1. Count(c2s', m) = Count(c2s, m)
      BY <2>3, <2>5
    <3>2. CopiesBounded(m, t) => CopiesBounded(m, t)'
      BY <2>2, <3>1 DEF CopiesBounded
    <3> QED BY <1>2, <3>1, <3>2, StoreStepsLine DEF Unsent, StoreSteps
  <2> QED BY <2>4, <2>5
<1>3. CASE AddCommits \/ FlushCommits
  <2>1. UNCHANGED <<rollbacks, c2s>>
        /\ Range(store') \cup AddsOf(txs') = Range(store) \cup AddsOf(txs)
    BY <1>3, AddCommitsLine, FlushCommitsLine
  <2> QED BY <1>3, <2>1, StoreStepsLine DEF CopiesBounded, Unsent, StoreSteps
<1>4. CASE FlushAborts \/ Reload
  <2>1. Rollback /\ AddsOnce(txs') /\ AddsOf(txs') \subseteq AddsOf(txs) /\ UNCHANGED c2s
    BY <1>4, FlushAbortsLine, ReloadLine
  <2> QED BY <1>4, <2>1, RollbackCopies, StoreStepsLine DEF Unsent, StoreSteps
<1> QED BY <1>2, <1>3, <1>4 DEF StoreSteps

\* A message that is sent or queued for the first time.
LEMMA SendOrStoreLine ==
  ASSUME ClientTypeOK, OnceInLine, NEW x \in Message, ~InLine(x), SendOrStore(x),
         UNCHANGED <<store, flushed, rollbacks>>
  PROVE  /\ OnceInLine'
         /\ \A m : InLine(m)' => m = x \/ InLine(m)
         /\ \A m, t : m # x => (CopiesBounded(m, t) => CopiesBounded(m, t)')
                               /\ (Unsent(m, t) => Unsent(m, t)')
         /\ \A t \in Nat : Unsent(x, t) => CopiesBounded(x, t)'
<1>1. (\A y : Count(c2s, y) \in Nat) /\ rollbacks \in Nat
  BY CountsAreNat DEF ClientTypeOK, RpcTypeOK
<1>2. CASE SendData(<<x>>) /\ UNCHANGED txs
  <2>1. /\ Count(c2s', x) <= Count(c2s, x) + 1 /\ Count(c2s', x) \in Nat
        /\ \A m : m # x => Count(c2s', m) = Count(c2s, m)
    BY <1>2, SendingCopies
  <2>2. OnceInLine' /\ \A m : InLine(m)' = InLine(m)
    BY <1>2 DEF OnceInLine, InLine
  <2>3. \A m, t : m # x => (CopiesBounded(m, t) => CopiesBounded(m, t)')
                           /\ (Unsent(m, t) => Unsent(m, t)')
    BY <1>2, <2>1, <2>2 DEF CopiesBounded, Unsent
  <2>4. ASSUME NEW t \in Nat, t + Count(c2s, x) = 0
        PROVE  t + Count(c2s', x) <= 1 + rollbacks
    BY <1>1, <2>1, <2>4
  <2>5. ~(x \in Range(store') \cup AddsOf(txs'))
    BY <1>2 DEF InLine
  <2> QED BY <2>2, <2>3, <2>4, <2>5 DEF CopiesBounded, Unsent
<1>3. CASE txs' = Append(txs, AddTx(x)) /\ UNCHANGED c2s
  <2>1. OnceInLine' /\ \A m : InLine(m)' => m = x \/ InLine(m)
    BY <1>3, AddJoinsLine
  <2>2. AddsOf(txs') \subseteq AddsOf(txs) \cup {x}
    BY <2>1 DEF InLine, OnceInLine
  <2>3. \A m, t : m # x => (CopiesBounded(m, t) => CopiesBounded(m, t)')
                           /\ (Unsent(m, t) => Unsent(m, t)')
    BY <1>3, <2>1, <2>2 DEF CopiesBounded, Unsent
  <2>4. ASSUME NEW t \in Nat, t + Count(c2s, x) = 0
        PROVE  t + Count(c2s, x) <= 1 + rollbacks /\ t + Count(c2s, x) <= rollbacks
    <3>1. 0 <= 1 + rollbacks /\ 0 <= rollbacks
      BY <1>1
    <3> QED BY <2>4, <3>1
  <2> QED BY <1>3, <2>1, <2>3, <2>4 DEF CopiesBounded, Unsent
<1> QED BY <1>2, <1>3 DEF SendOrStore

\* Requests pass the line by: they are buffered in memory, or sent.
LEMMA RequestsPass ==
  ASSUME ClientTypeOK, OnceInLine, (\E e \in Conns : OnOpen(e)) \/ Call
  PROVE  /\ OnceInLine' /\ UNCHANGED rollbacks
         /\ AddsOf(txs') = AddsOf(txs) /\ UNCHANGED <<store, flushed>>
         /\ \A m : ~IsRequest(m) => Count(c2s', m) = Count(c2s, m)
<1>1. c2s \in Queues /\ socket \in Conns /\ buffer \in Seq(Requests)
  BY CountsAreNat DEF ClientTypeOK, SocketTypeOK, RpcTypeOK
<1>2. CASE \E e \in Conns : OnOpen(e)
  <2>1. StartFlush /\ FlushBuffer /\ UNCHANGED <<store, flushed, rollbacks>>
    BY <1>2 DEF OnOpen
  <2>2. ASSUME NEW m, ~IsRequest(m)
        PROVE  Count(c2s', m) = Count(c2s, m)
    <3>1. buffer \in Seq(Message) /\ m \notin Range(buffer)
      <4>1. buffer \in Seq(Message)
        BY <1>1 DEF Message
      <4>2. Range(buffer) \subseteq Requests
        BY <1>1, RangeType
      <4> QED BY <2>2, <4>1, <4>2 DEF Requests, IsRequest
    <3>2. c2s' = Sent(c2s, socket, buffer) \/ UNCHANGED c2s
      BY <2>1 DEF FlushBuffer, Sent
    <3> QED BY <1>1, <3>1, <3>2, OthersSent
  <2> QED BY <2>1, <2>2, FlushJoinsLine
<1>3. CASE Call
  <2>1. PICK x : x = Request(ncalls + 1)
    OBVIOUS
  <2>2. /\ x \in Message /\ IsRequest(x) /\ (SendData(<<x>>) \/ UNCHANGED c2s)
        /\ UNCHANGED <<txs, store, flushed, rollbacks>>
    BY <1>3, <2>1, MessageConstructors
    DEF Call, NewEntry, SendOrBuffer, dbVars, Request, IsRequest
  <2>3. \A m : ~IsRequest(m) => Count(c2s', m) = Count(c2s, m)
    BY <2>2, SendingCopies
  <2> QED BY <2>2, <2>3 DEF OnceInLine
<1> QED BY <1>2, <1>3

-----------------------------------------------------------------------------
(* Queues in order.                                                         *)

\* The messages of kind k in s, and those of s followed by those of t, have
\* increasing numbers.
Ordered(s, k) ==
  \A i, j \in DOMAIN s : i < j /\ s[i].kind = k /\ s[j].kind = k => s[i].id < s[j].id

Below(s, t, k) ==
  \A i \in DOMAIN s, j \in DOMAIN t : s[i].kind = k /\ t[j].kind = k => s[i].id < t[j].id

\* Every message of kind k in s is below n.
AllBelow(s, k, n) == \A i \in DOMAIN s : s[i].kind = k => s[i].id < n

LEMMA EmptyOrdered ==
  ASSUME NEW t, NEW k
  PROVE  Ordered(<<>>, k) /\ Below(<<>>, t, k) /\ Below(t, <<>>, k)
BY DEF Ordered, Below

LEMMA AppendOrdered ==
  ASSUME NEW S, NEW s \in Seq(S), NEW m \in S, NEW k, Ordered(s, k),
         m.kind = k => AllBelow(s, k, m.id)
  PROVE  Ordered(Append(s, m), k)
<1>1. /\ DOMAIN s = 1..Len(s) /\ DOMAIN Append(s, m) = 1..(Len(s) + 1) /\ Len(s) \in Nat
      /\ Append(s, m)[Len(s) + 1] = m /\ \A i \in 1..Len(s) : Append(s, m)[i] = s[i]
  OBVIOUS
<1> QED BY <1>1 DEF Ordered, AllBelow

LEMMA TailOrdered ==
  ASSUME NEW S, NEW s \in Seq(S), s # <<>>, NEW k, Ordered(s, k)
  PROVE  Ordered(Tail(s), k)
<1> SUFFICES ASSUME NEW i \in DOMAIN Tail(s), NEW j \in DOMAIN Tail(s), i < j,
                    Tail(s)[i].kind = k, Tail(s)[j].kind = k
             PROVE  Tail(s)[i].id < Tail(s)[j].id
  BY DEF Ordered
<1>1. /\ i + 1 \in DOMAIN s /\ Tail(s)[i] = s[i + 1] /\ i \in Nat
      /\ j + 1 \in DOMAIN s /\ Tail(s)[j] = s[j + 1] /\ j \in Nat
  BY TailIndices
<1>2. i + 1 < j + 1
  BY <1>1
<1> QED BY <1>1, <1>2 DEF Ordered

LEMMA TailBelow ==
  ASSUME NEW S, NEW s \in Seq(S), s # <<>>, NEW k, NEW t, Below(s, t, k)
  PROVE  Below(Tail(s), t, k)
BY TailIndices DEF Below

\* Two queues in a row.
LEMMA JoinOrdered ==
  ASSUME NEW S, NEW s \in Seq(S), NEW t \in Seq(S), NEW k
  PROVE  Ordered(s \o t, k) <=> Ordered(s, k) /\ Ordered(t, k) /\ Below(s, t, k)
<1>1. /\ DOMAIN s = 1..Len(s) /\ DOMAIN t = 1..Len(t) /\ Len(s) \in Nat /\ Len(t) \in Nat
      /\ DOMAIN (s \o t) = 1..(Len(s) + Len(t))
      /\ \A i \in 1..Len(s) : (s \o t)[i] = s[i]
      /\ \A i \in 1..Len(t) : (s \o t)[Len(s) + i] = t[i]
  OBVIOUS
<1>2. ASSUME Ordered(s, k), Ordered(t, k), Below(s, t, k)
      PROVE  Ordered(s \o t, k)
  <2> SUFFICES ASSUME NEW i \in DOMAIN (s \o t), NEW j \in DOMAIN (s \o t), i < j,
                      (s \o t)[i].kind = k, (s \o t)[j].kind = k
               PROVE  (s \o t)[i].id < (s \o t)[j].id
    BY DEF Ordered
  <2>1. CASE j <= Len(s)
    BY <1>1, <1>2, <2>1 DEF Ordered
  <2>2. CASE i <= Len(s) /\ j > Len(s)
    <3>1. PICK b \in 1..Len(t) : j = Len(s) + b
      <4>1. j - Len(s) \in 1..Len(t) /\ j = Len(s) + (j - Len(s))
        BY <1>1, <2>2
      <4> QED BY <4>1
    <3> QED BY <1>1, <1>2, <2>2, <3>1 DEF Below
  <2>3. CASE i > Len(s)
    <3>1. PICK b \in 1..Len(t) : j = Len(s) + b
      <4>1. j - Len(s) \in 1..Len(t) /\ j = Len(s) + (j - Len(s))
        BY <1>1, <2>3
      <4> QED BY <4>1
    <3>2. PICK a \in 1..Len(t) : i = Len(s) + a
      <4>1. i - Len(s) \in 1..Len(t) /\ i = Len(s) + (i - Len(s))
        BY <1>1, <2>3
      <4> QED BY <4>1
    <3>3. a < b /\ (s \o t)[i] = t[a] /\ (s \o t)[j] = t[b]
      BY <1>1, <3>1, <3>2
    <3> QED BY <1>1, <1>2, <3>3 DEF Ordered
  <2> QED BY <1>1, <2>1, <2>2, <2>3
<1>3. ASSUME Ordered(s \o t, k)
      PROVE  Ordered(s, k) /\ Ordered(t, k) /\ Below(s, t, k)
  <2>1. Ordered(s, k)
    BY <1>1, <1>3 DEF Ordered
  <2>2. ASSUME NEW i \in DOMAIN t, NEW j \in DOMAIN t, i < j, t[i].kind = k, t[j].kind = k
        PROVE  t[i].id < t[j].id
    <3>1. /\ Len(s) + i \in DOMAIN (s \o t) /\ Len(s) + j \in DOMAIN (s \o t)
          /\ Len(s) + i < Len(s) + j
          /\ (s \o t)[Len(s) + i] = t[i] /\ (s \o t)[Len(s) + j] = t[j]
      BY <1>1, <2>2
    <3> QED BY <1>3, <2>2, <3>1 DEF Ordered
  <2>3. ASSUME NEW i \in DOMAIN s, NEW j \in DOMAIN t, s[i].kind = k, t[j].kind = k
        PROVE  s[i].id < t[j].id
    <3>1. /\ i \in DOMAIN (s \o t) /\ Len(s) + j \in DOMAIN (s \o t) /\ i < Len(s) + j
          /\ (s \o t)[i] = s[i] /\ (s \o t)[Len(s) + j] = t[j]
      BY <1>1, <2>3
    <3> QED BY <1>3, <2>3, <3>1 DEF Ordered
  <2>4. Ordered(t, k)
    BY <2>2 DEF Ordered
  <2>5. Below(s, t, k)
    BY <2>3 DEF Below
  <2> QED BY <2>1, <2>4, <2>5
<1> QED BY <1>2, <1>3

=============================================================================
