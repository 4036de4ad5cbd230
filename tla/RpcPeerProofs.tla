---------------------------- MODULE RpcPeerProofs ----------------------------
(***************************************************************************)
(* A page that serves its peer: its promises are settled once, the peer's  *)
(* requests are accounted for and have one answer, which arrives once or   *)
(* was replayed.  For a peer that asks, tells and answers when and where   *)
(* it likes, and every number of connections, calls and requests.          *)
(***************************************************************************)
EXTENDS RpcPeer, WebSocketRpcProofs

-----------------------------------------------------------------------------
(* A response finds its entry only while its promise is unsettled, and a new *)
(* call takes a promise no one has had.                                      *)

PromiseInv ==
  /\ ncalls \in Nat
  /\ promise \in [Calls -> PromiseStates]
  /\ PendingTracksPromises
  /\ \A c \in Calls : c > ncalls => promise[c] = "idle"

\* What a step may do to the promises.
OnlyUnsettled ==
  \A c \in Calls : promise[c] \notin {"idle", "pending"} => promise'[c] = promise[c]

LEMMA InitPromises == Init => PromiseInv
<1> SUFFICES ASSUME Init PROVE PromiseInv
  OBVIOUS
<1>1. pending = {} /\ ncalls = 0 /\ promise = [c \in Calls |-> "idle"]
  BY DEF Init, RpcInit
<1> QED BY <1>1 DEF PromiseInv, PendingTracksPromises, PromiseStates

\* A step of neither kind leaves the promises alone.
LEMMA PromisesUntouched ==
  ASSUME PromiseInv, UNCHANGED <<ncalls, pending, promise>>
  PROVE  PromiseInv' /\ OnlyUnsettled
BY DEF PromiseInv, PendingTracksPromises, OnlyUnsettled

LEMMA CallPromises ==
  ASSUME PromiseInv, Call
  PROVE  PromiseInv' /\ OnlyUnsettled
<1>1. PICK d : d = ncalls + 1
  OBVIOUS
<1>2. /\ d \in Calls /\ d > ncalls /\ d \in Nat /\ ncalls' = d /\ pending' = pending \cup {d}
      /\ promise' = [promise EXCEPT ![d] = "pending"] /\ promise[d] = "idle"
  BY <1>1 DEF Call, NewEntry, PromiseInv
<1>3. \A c \in Calls : promise'[c] = IF c = d THEN "pending" ELSE promise[c]
  BY <1>2 DEF PromiseInv
<1>4. promise' \in [Calls -> PromiseStates]
  BY <1>2 DEF PromiseInv, PromiseStates
<1>5. \A c \in Calls : c > d => c > ncalls /\ c # d
  BY <1>1, <1>2 DEF PromiseInv, Calls
<1> QED BY <1>2, <1>3, <1>4, <1>5 DEF PromiseInv, PendingTracksPromises, OnlyUnsettled

LEMMA SettlePromises ==
  ASSUME PromiseInv, NEW d, NEW b, Settle(d, b), UNCHANGED ncalls
  PROVE  PromiseInv' /\ OnlyUnsettled
<1>1. CASE d \in pending
  <2>1. /\ pending' = pending \ {d} /\ promise' = [promise EXCEPT ![d] = Outcome(b)]
        /\ d \in Calls /\ promise[d] = "pending"
    BY <1>1 DEF Settle, PromiseInv, PendingTracksPromises
  <2>2. Outcome(b) \in PromiseStates /\ Outcome(b) # "pending"
    BY DEF Outcome, PromiseStates
  <2>3. \A c \in Calls : promise'[c] = IF c = d THEN Outcome(b) ELSE promise[c]
    BY <2>1 DEF PromiseInv
  <2>4. promise' \in [Calls -> PromiseStates]
    BY <2>1, <2>2 DEF PromiseInv
  <2> QED BY <2>1, <2>2, <2>3, <2>4 DEF PromiseInv, PendingTracksPromises, OnlyUnsettled
<1>2. CASE d \notin pending
  BY <1>2, PromisesUntouched DEF Settle
<1> QED BY <1>1, <1>2

LEMMA ReloadPromises ==
  ASSUME PromiseInv, Reload
  PROVE  PromiseInv' /\ OnlyUnsettled
<1>1. pending' = {} /\ UNCHANGED ncalls
      /\ promise' = [c \in Calls |-> IF promise[c] = "pending" THEN "gone" ELSE promise[c]]
  BY DEF Reload, PromisesGone
<1> QED BY <1>1 DEF PromiseInv, PendingTracksPromises, OnlyUnsettled, PromiseStates

LEMMA NextPromises ==
  ASSUME PromiseInv, [Next]_vars
  PROVE  PromiseInv' /\ OnlyUnsettled
<1>1. CASE BrowserNext
  <2>1. CASE PageReloads
    BY <2>1, ReloadPromises DEF PageReloads
  <2>2. ASSUME NEW e \in Conns, OnAnswer(e)
        PROVE  PromiseInv' /\ OnlyUnsettled
    BY <2>2, SettlePromises DEF OnAnswer, OnResponse
  <2>3. CASE Call
    BY <2>3, CallPromises
  <2>4. CASE \/ \E e \in Conns : \/ OnNotification(e) \/ OnOpen(e) \/ OnClose(e)
                                 \/ \E k \in HandlerKinds : OnRequest(e, k)
             \/ \E j \in running : HandlerResolves(j)
             \/ Notify \/ OnAttempt
             \/ AddCommits \/ FlushSends \/ FlushAborts \/ FlushCommits
    <3>1. UNCHANGED <<ncalls, pending, promise>>
      BY <2>4
      DEF OnNotification, OnOpen, OnClose, OnRequest, HandlerResolves, Notify, OnAttempt,
          AddCommits, FlushSends, FlushAborts, FlushCommits, rpcVars
    <3> QED BY <3>1, PromisesUntouched
  <2> QED BY <1>1, <2>1, <2>2, <2>3, <2>4 DEF BrowserNext
<1>2. CASE PeerNext /\ UNCHANGED <<clientVars, rpcVars, dbVars, forgotten, servingVars>>
  BY <1>2, PromisesUntouched DEF rpcVars
<1>3. CASE UNCHANGED vars
  BY <1>3, PromisesUntouched DEF vars, rpcVars
<1> QED BY <1>1, <1>2, <1>3 DEF Next

-----------------------------------------------------------------------------
(* A promise that has settled, or died with its page, never changes again:
   whatever the peer answers, twice, late, on another connection or to another
   page, and however ids and pages come and go. *)
THEOREM FinalCorrect == Spec => PromisesFinal
<1>1. Init => PromiseInv
  BY InitPromises
<1>2. PromiseInv /\ [Next]_vars => PromiseInv'
  BY NextPromises
<1>3. PromiseInv /\ [Next]_vars
        => [\A c \in Calls : promise[c] \notin {"idle", "pending"} => promise'[c] = promise[c]]_promise
  BY NextPromises DEF OnlyUnsettled
<1> QED BY <1>1, <1>2, <1>3, PTL DEF Spec, PromisesFinal

-----------------------------------------------------------------------------
(* Types.                                                                   *)

\* A queue that loses its head, or gains a message, holds messages.
LEMMA QueueTypes ==
  ASSUME NEW q \in Queues, NEW d \in Conns
  PROVE  /\ q[d] # <<>> => Head(q[d]) \in Message /\ Taken(q, d) \in Queues
         /\ \A m \in Message : Sent(q, d, <<m>>) \in Queues
<1>1. q[d] \in Seq(Message)
  BY DEF Queues
<1>2. q[d] # <<>> => Head(q[d]) \in Message /\ Tail(q[d]) \in Seq(Message)
  BY <1>1
<1>3. \A m \in Message : q[d] \o <<m>> \in Seq(Message)
  BY <1>1
<1> QED BY <1>2, <1>3 DEF Queues, Sent, Taken

\* What the actions do to the queues of a connection.
LEMMA PeerQueues ==
  ASSUME TypeOK
  PROVE  /\ ClientTypeOK /\ c2s \in Queues /\ s2c \in Queues
         /\ \A e \in Conns : ClientTakes(e) => /\ s2c' = Taken(s2c, e) /\ s2c[e] # <<>>
                                               /\ Head(s2c[e]) \in Message
         /\ \A e \in Conns : \A m : PeerSends(e, m) => s2c' = Sent(s2c, e, <<m>>)
<1>1. ClientTypeOK /\ c2s \in Queues /\ s2c \in Queues
  BY DEF TypeOK, ClientTypeOK, TransportTypeOK, Queues
<1>2. \A e \in Conns : ClientTakes(e) => s2c' = Taken(s2c, e) /\ s2c[e] # <<>>
                                         /\ Head(s2c[e]) \in Message
  BY <1>1, QueueTypes DEF ClientTakes, Taken
<1>3. \A e \in Conns : \A m : PeerSends(e, m) => s2c' = Sent(s2c, e, <<m>>)
  <2>1. ASSUME NEW e \in Conns, NEW m
        PROVE  Append(s2c[e], m) = s2c[e] \o <<m>>
    <3>1. s2c[e] \in Seq(Message)
      BY <1>1 DEF Queues
    <3> QED BY <3>1
  <2> QED BY <2>1 DEF PeerSends, Sent
<1> QED BY <1>1, <1>2, <1>3

LEMMA AnswerPeerType ==
  ASSUME TypeOK, NEW x \in Responses, AnswerPeer(x),
         UNCHANGED <<cliEnd, srvEnd, clientVars, rpcVars, store, flushed, rollbacks, forgotten>>,
         s2c' \in Queues
  PROVE  ClientTypeOK'
<1>1. ClientTypeOK /\ x \in Message
  BY PeerQueues DEF Message
<1>2. /\ c2s' \in [Conns -> Seq(Message)] /\ discarded' \in SUBSET Message
      /\ txs' \in Seq(Transactions)
  BY <1>1, SendOrStoreType DEF AnswerPeer
<1> QED BY <1>1, <1>2
        DEF ClientTypeOK, TransportTypeOK, SocketTypeOK, RpcTypeOK, clientVars, rpcVars, Queues

LEMMA BrowserPeerType ==
  ASSUME TypeOK, BrowserNext
  PROVE  TypeOK'
<1>1. ClientTypeOK /\ s2c \in Queues
  BY PeerQueues
<1>2. ASSUME ClientTypeOK', UNCHANGED peerVars, running' \subseteq Job, heard' \in [Notes -> Nat],
             dead' \subseteq Calls
      PROVE  TypeOK'
  BY <1>2 DEF TypeOK, ClientTypeOK, peerVars
<1>3. CASE PageReloads
  <2>1. dead' \subseteq Calls
    BY <1>3 DEF PageReloads, TypeOK, Job
  <2> QED BY <1>1, <1>2, <1>3, <2>1, ReloadType DEF PageReloads, TypeOK
<1>4. ASSUME NEW e \in Conns, OnNotification(e)
      PROVE  TypeOK'
  <2>1. /\ s2c' \in Queues /\ Head(s2c[e]) \in Message /\ IsNotification(Head(s2c[e]))
        /\ heard' = [heard EXCEPT ![Head(s2c[e]).id] = @ + 1]
        /\ UNCHANGED <<cliEnd, srvEnd, c2s, discarded, clientVars, rpcVars, dbVars,
                       forgotten, peerVars, running, dead>>
    BY <1>1, <1>4, PeerQueues, QueueTypes DEF OnNotification
  <2>2. ClientTypeOK'
    BY <1>1, <2>1
    DEF ClientTypeOK, TransportTypeOK, SocketTypeOK, RpcTypeOK, clientVars, rpcVars, dbVars, Queues
  <2>3. Head(s2c[e]).id \in Notes
    BY <2>1, MessageFields
  <2>4. heard' \in [Notes -> Nat]
    BY <2>1, <2>3 DEF TypeOK
  <2> QED BY <1>2, <2>1, <2>2, <2>4 DEF TypeOK
<1>5. ASSUME NEW e \in Conns, OnAnswer(e)
      PROVE  TypeOK'
  BY <1>1, <1>2, <1>5, SocketType DEF OnAnswer, TypeOK
<1>6. ASSUME NEW e \in Conns, NEW k \in HandlerKinds, OnRequest(e, k)
      PROVE  TypeOK'
  <2>1. PICK r \in Calls : r = Head(s2c[e]).id
    <3>1. Head(s2c[e]) \in Message /\ IsRequest(Head(s2c[e]))
      BY <1>6, PeerQueues DEF OnRequest
    <3> QED BY <3>1, MessageFields
  <2>2. /\ s2c' \in Queues
        /\ IF Async(k)
           THEN /\ running' = running \cup {[id |-> r, kind |-> k]}
                /\ UNCHANGED <<c2s, discarded, txs>>
           ELSE AnswerPeer(Response(r, BodyOf(k))) /\ UNCHANGED running
        /\ UNCHANGED <<cliEnd, srvEnd, clientVars, rpcVars, store, flushed, rollbacks,
                       forgotten, peerVars, heard, dead>>
    BY <1>1, <1>6, <2>1, PeerQueues, QueueTypes DEF OnRequest
  <2>3. CASE Async(k)
    <3>1. [id |-> r, kind |-> k] \in Job
      BY <2>3 DEF Async, Job
    <3>2. ClientTypeOK'
      BY <1>1, <2>2, <2>3
      DEF ClientTypeOK, TransportTypeOK, SocketTypeOK, RpcTypeOK, clientVars, rpcVars, Queues
    <3> QED BY <1>2, <2>2, <2>3, <3>1, <3>2 DEF TypeOK
  <2>4. CASE ~Async(k)
    <3>1. Response(r, BodyOf(k)) \in Responses
      BY <2>4, BodyOfType DEF Response, Responses
    <3>2. ClientTypeOK'
      BY <2>2, <2>4, <3>1, AnswerPeerType
    <3> QED BY <1>2, <2>2, <2>4, <3>2 DEF TypeOK
  <2> QED BY <2>3, <2>4
<1>7. ASSUME NEW j \in running, HandlerResolves(j)
      PROVE  TypeOK'
  <2>1. PICK x \in Responses : AnswerPeer(x)
    <3>1. PICK b \in {"result", "nothing"} : AnswerPeer(Response(j.id, b))
      BY <1>7 DEF HandlerResolves
    <3>2. Response(j.id, b) \in Responses
      BY DEF TypeOK, Job, Response, Responses, Bodies
    <3> QED BY <3>1, <3>2
  <2>2. /\ s2c' \in Queues /\ running' \subseteq running
        /\ UNCHANGED <<cliEnd, srvEnd, clientVars, rpcVars, store, flushed, rollbacks,
                       forgotten, peerVars, heard, dead>>
    BY <1>1, <1>7 DEF HandlerResolves
  <2>3. ClientTypeOK'
    BY <2>1, <2>2, AnswerPeerType
  <2> QED BY <1>2, <2>2, <2>3 DEF TypeOK
<1>8. CASE /\ \/ Call \/ Notify \/ OnAttempt
              \/ AddCommits \/ FlushSends \/ FlushAborts \/ FlushCommits
              \/ \E e \in Conns : OnOpen(e) \/ OnClose(e)
           /\ UNCHANGED <<peerVars, servingVars>>
  <2>1. ClientTypeOK'
    BY <1>1, <1>8, PageType, StoreType, SocketType
  <2> QED BY <1>2, <1>8, <2>1 DEF servingVars, TypeOK
<1> QED BY <1>3, <1>4, <1>5, <1>6, <1>7, <1>8 DEF BrowserNext

LEMMA PeerSendsType ==
  ASSUME TypeOK, NEW e \in Conns, NEW x \in Message, PeerSends(e, x),
         UNCHANGED <<clientVars, rpcVars, dbVars, forgotten>>
  PROVE  ClientTypeOK'
<1>1. s2c' \in Queues
  BY PeerQueues, QueueTypes
<1> QED BY <1>1, PeerQueues
        DEF PeerSends, ClientTypeOK, TransportTypeOK, SocketTypeOK, RpcTypeOK, clientVars, rpcVars,
            dbVars, Queues

LEMMA PeerNextType ==
  ASSUME TypeOK, PeerNext, UNCHANGED <<clientVars, rpcVars, dbVars, forgotten, servingVars>>
  PROVE  TypeOK'
<1>1. UNCHANGED <<running, heard, dead>>
  BY DEF servingVars
<1>2. ASSUME ClientTypeOK', nasked' \in 0..MaxAsked, ntold' \in 0..MaxTold, owed' \subseteq Calls,
             received' \in Seq(Responses)
      PROVE  TypeOK'
  BY <1>1, <1>2 DEF TypeOK, ClientTypeOK
<1>3. /\ MaxAsked \in Nat /\ MaxTold \in Nat /\ MaxCalls \in Nat /\ MaxNotes \in Nat
      /\ MaxAsked <= MaxCalls /\ MaxTold <= MaxNotes
      /\ nasked \in 0..MaxAsked /\ ntold \in 0..MaxTold /\ owed \subseteq Calls
      /\ received \in Seq(Responses)
  BY JsonRpcAssumption, PeerAssumption DEF TypeOK
<1>4. ASSUME NEW e \in Conns, PeerAsks(e)
      PROVE  TypeOK'
  <2>1. nasked + 1 \in Calls /\ nasked' \in 0..MaxAsked
    BY <1>3, <1>4 DEF PeerAsks, Calls
  <2> QED BY <1>2, <1>3, <1>4, <2>1, MessageConstructors, PeerSendsType DEF PeerAsks
<1>5. ASSUME NEW e \in Conns, PeerTells(e)
      PROVE  TypeOK'
  <2>1. ntold + 1 \in Notes /\ ntold' \in 0..MaxTold
    BY <1>3, <1>5 DEF PeerTells, Notes
  <2> QED BY <1>2, <1>3, <1>5, <2>1, MessageConstructors, PeerSendsType DEF PeerTells
<1>6. ASSUME NEW e \in Conns, NEW c \in owed, PeerAnswers(e, c)
      PROVE  TypeOK'
  <2>1. PICK b \in Bodies : PeerSends(e, Response(c, b))
    BY <1>6 DEF PeerAnswers
  <2>2. Response(c, b) \in Message
    BY <1>3, MessageConstructors
  <2> QED BY <1>2, <1>3, <1>6, <2>1, <2>2, PeerSendsType DEF PeerAnswers
<1>7. ASSUME NEW e \in Conns, PeerTakes(e)
      PROVE  TypeOK'
  <2>1. PICK m : m = Head(c2s[e])
    OBVIOUS
  <2>2. /\ c2s' = Taken(c2s, e) /\ c2s[e] # <<>>
        /\ owed' = IF IsRequest(m) THEN owed \cup {m.id} ELSE owed
        /\ received' = IF IsResponse(m) THEN Append(received, m) ELSE received
        /\ UNCHANGED <<cliEnd, srvEnd, s2c, discarded, nasked, ntold>>
    BY <1>7, <2>1 DEF PeerTakes, Taken
  <2>3. c2s' \in Queues /\ m \in Message
    BY <2>1, <2>2, PeerQueues, QueueTypes
  <2>4. IsRequest(m) => m.id \in Calls
    BY <2>3, MessageFields
  <2>5. IsResponse(m) => m \in Responses
    BY <2>3 DEF IsResponse, Message, Requests, Notifications
  <2>6. ClientTypeOK'
    BY <2>2, <2>3, PeerQueues
    DEF ClientTypeOK, TransportTypeOK, SocketTypeOK, RpcTypeOK, clientVars, rpcVars, dbVars, Queues
  <2> QED BY <1>2, <1>3, <2>2, <2>4, <2>5, <2>6
<1>8. ASSUME NEW e \in Conns, AcceptConnection(e) \/ ServerEndCloses(e), UNCHANGED peerVars
      PROVE  TypeOK'
  <2>1. srvEnd' \in [Conns -> SrvStates] /\ UNCHANGED <<cliEnd, c2s, s2c, discarded>>
    BY <1>8 DEF AcceptConnection, ServerEndCloses, TypeOK, TransportTypeOK, SrvStates
  <2>2. ClientTypeOK'
    BY <2>1, PeerQueues
    DEF ClientTypeOK, TransportTypeOK, SocketTypeOK, RpcTypeOK, clientVars, rpcVars, dbVars
  <2> QED BY <1>2, <1>3, <1>8, <2>2 DEF peerVars
<1> QED BY <1>4, <1>5, <1>6, <1>7, <1>8 DEF PeerNext

LEMMA NextPeerType == TypeOK /\ [Next]_vars => TypeOK'
<1> SUFFICES ASSUME TypeOK, [Next]_vars PROVE TypeOK'
  OBVIOUS
<1>1. CASE UNCHANGED vars
  BY <1>1
  DEF vars, TypeOK, TransportTypeOK, SocketTypeOK, RpcTypeOK, transportVars, clientVars, rpcVars,
      dbVars, peerVars, servingVars
<1> QED BY <1>1, BrowserPeerType, PeerNextType DEF Next

(* Whatever the peer asks, tells and answers, and on whatever connection, every
   variable of the page and of the peer keeps its type. *)
THEOREM TypeCorrect == Spec => []TypeOK
<1>1. Init => TypeOK
  <2>1. 0 \in 0..MaxAsked /\ 0 \in 0..MaxTold /\ <<>> \in Seq(Responses)
    BY JsonRpcAssumption, PeerAssumption
  <2> QED BY <2>1, ClientInitType DEF Init, TypeOK, ClientTypeOK
<1>2. TypeOK /\ [Next]_vars => TypeOK'
  BY NextPeerType
<1> QED BY <1>1, <1>2, PTL DEF Spec

-----------------------------------------------------------------------------
(* An answer that exists never vanishes.                                    *)

\* On its way, with the peer, or in one of the two recorded ways of dying.
Gone(m) ==
  \/ Count(c2s, m) > 0
  \/ m \in Range(received) \cup discarded \cup forgotten

Exists(m) == InLine(m) \/ Gone(m)

\* What a running flush has sent is gone.
FlushedGone == \A m \in Responses : m \in Range(flushed) => Gone(m)

NotesFresh == \A n \in Notes : n > nnotes => ~InLine(Notification(n))

LineInv == OnceInLine /\ FlushedGone /\ NotesFresh

\* The answers are the same ones after a step as before it.
SameAnswers == \A m \in Responses : Exists(m)' <=> Exists(m)

LEMMA KindsDiffer ==
  /\ \A m \in Responses : m \in Message /\ ~IsRequest(m) /\ m \notin Requests
  /\ \A m \in Responses : \A n : m # Notification(n) /\ m # Request(n)
  /\ \A n : ~IsRequest(Notification(n)) /\ \A k : Notification(n) = Notification(k) => n = k
BY DEF Responses, Requests, Message, IsRequest, Notification, Request

LEMMA SendingGone ==
  ASSUME TypeOK, NEW x \in Message, SendData(<<x>>), UNCHANGED <<received, forgotten>>
  PROVE  Gone(x)' /\ \A m : (Gone(m) => Gone(m)') /\ (m # x /\ Gone(m)' => Gone(m))
<1>1. /\ c2s \in Queues /\ (\A m : Count(c2s, m) \in Nat) /\ socket \in Conns
      /\ \A m : m # x => Count(c2s', m) = Count(c2s, m)
  BY PeerQueues, CountsAreNat, SendingCopies DEF TypeOK, SocketTypeOK
<1>2. CASE cliEnd[socket] = "OPEN"
  <2>1. c2s' = Sent(c2s, socket, <<x>>) /\ UNCHANGED discarded
    BY <1>2 DEF SendData, Sent
  <2>2. Count(c2s', x) = Count(c2s, x) + 1
    BY <1>1, <2>1, OneSent
  <2>3. Count(c2s', x) > 0
    BY <1>1, <2>2
  <2> QED BY <1>1, <2>1, <2>3 DEF Gone
<1>3. CASE cliEnd[socket] # "OPEN"
  <2>1. discarded' = discarded \cup {x} /\ UNCHANGED c2s
    BY <1>3 DEF SendData
  <2> QED BY <1>1, <2>1 DEF Gone
<1> QED BY <1>2, <1>3

LEMMA FlushGone ==
  ASSUME TypeOK, LineInv, FlushSends, UNCHANGED received
  PROVE  SameAnswers /\ FlushedGone'
<1>1. PICK h : h = Head(store)
  OBVIOUS
<1>2. /\ UNCHANGED txs /\ h \in Message /\ SendData(<<h>>) /\ UNCHANGED <<received, forgotten>>
      /\ Range(store) = {h} \cup Range(store')
      /\ Range(flushed') = Range(flushed) \cup {h}
  BY <1>1, PeerQueues, FlushSendsLine DEF LineInv, FlushSends
<1>3. Gone(h)' /\ \A m : (Gone(m) => Gone(m)') /\ (m # h /\ Gone(m)' => Gone(m))
  BY <1>2, SendingGone
<1>4. \A m : InLine(m)' <=> InLine(m)
  BY <1>2 DEF InLine
<1>5. InLine(h)
  BY <1>2 DEF InLine
<1>6. FlushedGone'
  BY <1>2, <1>3 DEF FlushedGone, LineInv
<1> QED BY <1>3, <1>4, <1>5, <1>6 DEF SameAnswers, Exists

LEMMA RollbackPutsBack ==
  ASSUME ClientTypeOK, OnceInLine, Rollback, AddsOnce(txs'), AddsOf(txs') \subseteq AddsOf(txs)
  PROVE  Range(store') = Range(flushed) \cup Range(store) /\ Range(flushed') = {}
<1>1. Range(store') = Range(flushed) \cup Range(store) /\ flushed' = <<>>
  BY RollbackLine
<1>2. Range(<<>>) = {}
  BY DEF Range
<1> QED BY <1>1, <1>2

LEMMA StoreGone ==
  ASSUME TypeOK, LineInv, StoreSteps, UNCHANGED received
  PROVE  SameAnswers /\ FlushedGone'
<1>1. CASE FlushSends
  BY <1>1, FlushGone
<1>2. CASE AddCommits
  <2>1. UNCHANGED <<c2s, discarded, forgotten, flushed>>
        /\ Range(store') \cup AddsOf(txs') = Range(store) \cup AddsOf(txs)
    BY <1>2, PeerQueues, AddCommitsLine DEF AddCommits, transportVars, LineInv
  <2> QED BY <2>1 DEF SameAnswers, Exists, InLine, Gone, FlushedGone, LineInv
<1>3. CASE FlushAborts
  <2>1. /\ UNCHANGED <<c2s, discarded, forgotten>> /\ AddsOf(txs') = AddsOf(txs)
        /\ Range(store') = Range(flushed) \cup Range(store) /\ Range(flushed') = {}
    <3>1. /\ AddsOnce(txs') /\ AddsOf(txs') = AddsOf(txs) /\ Rollback
          /\ UNCHANGED <<c2s, discarded, forgotten>>
      BY <1>3, PeerQueues, FlushAbortsLine DEF FlushAborts, transportVars, LineInv
    <3> QED BY <3>1, PeerQueues, RollbackPutsBack DEF LineInv
  <2> QED BY <2>1 DEF SameAnswers, Exists, InLine, Gone, FlushedGone
<1>4. CASE FlushCommits
  <2>1. /\ UNCHANGED <<c2s, discarded, forgotten, store>> /\ AddsOf(txs') = AddsOf(txs)
        /\ Range(flushed') = {}
    BY <1>4, PeerQueues, FlushCommitsLine DEF FlushCommits, transportVars, LineInv, Range
  <2> QED BY <2>1 DEF SameAnswers, Exists, InLine, Gone, FlushedGone, LineInv
<1>5. CASE Reload
  <2>1. /\ UNCHANGED <<c2s, discarded>> /\ AddsOf(txs') = {}
        /\ Range(store') = Range(flushed) \cup Range(store) /\ Range(flushed') = {}
    <3>1. /\ AddsOnce(txs') /\ AddsOf(txs') = {} /\ Rollback /\ UNCHANGED <<c2s, discarded>>
      BY <1>5, ReloadLine DEF Reload, PageRestarts
    <3> QED BY <3>1, PeerQueues, RollbackPutsBack DEF LineInv
  <2>2. forgotten' = forgotten \cup Range(buffer) \cup AddsOf(txs)
    BY <1>5 DEF Reload, PageRestarts, QueuedAdds, AddsOf, Range
  <2>3. \A m \in Responses : m \notin Range(buffer)
    <3>1. Range(buffer) \subseteq Requests
      BY RangeType DEF TypeOK, RpcTypeOK
    <3> QED BY <3>1, KindsDiffer
  <2>4. \A m \in Responses : Gone(m)' <=> Gone(m) \/ m \in AddsOf(txs)
    BY <2>1, <2>2, <2>3 DEF Gone
  <2> QED BY <2>1, <2>4 DEF SameAnswers, Exists, InLine, FlushedGone
<1> QED BY <1>1, <1>2, <1>3, <1>4, <1>5 DEF StoreSteps

\* Requests and notifications of the page are not answers.
LEMMA CallsPass ==
  ASSUME TypeOK, LineInv, (\E e \in Conns : OnOpen(e)) \/ Call, UNCHANGED received
  PROVE  SameAnswers /\ LineInv'
<1>1. /\ OnceInLine' /\ UNCHANGED <<store, flushed>> /\ AddsOf(txs') = AddsOf(txs)
      /\ \A m : ~IsRequest(m) => Count(c2s', m) = Count(c2s, m)
  BY PeerQueues, RequestsPass DEF LineInv
<1>2. UNCHANGED <<forgotten, nnotes>> /\ \A m \in Responses : m \in discarded' <=> m \in discarded
  <2>1. CASE \E e \in Conns : OnOpen(e)
    BY <2>1 DEF OnOpen
  <2>2. CASE Call
    <3>1. UNCHANGED <<forgotten, nnotes>> /\ SendOrBuffer(Request(ncalls + 1))
      BY <2>2 DEF Call
    <3> QED BY <3>1, KindsDiffer DEF SendOrBuffer, SendData
  <2> QED BY <2>1, <2>2
<1>3. \A m : InLine(m)' <=> InLine(m)
  BY <1>1 DEF InLine
<1>4. \A m \in Responses : Gone(m)' <=> Gone(m)
  BY <1>1, <1>2, KindsDiffer DEF Gone
<1> QED BY <1>1, <1>2, <1>3, <1>4 DEF SameAnswers, Exists, LineInv, FlushedGone, NotesFresh

\* A message that is sent, or joins the line, for the first time.
LEMMA SendOrStoreGone ==
  ASSUME TypeOK, OnceInLine, FlushedGone, NEW x \in Message, ~InLine(x), SendOrStore(x),
         UNCHANGED <<store, flushed, rollbacks, forgotten, received>>
  PROVE  /\ OnceInLine' /\ FlushedGone' /\ Exists(x)'
         /\ \A m : InLine(m)' => m = x \/ InLine(m)
         /\ \A m : m # x => (Exists(m)' <=> Exists(m))
<1>1. OnceInLine' /\ \A m : InLine(m)' => m = x \/ InLine(m)
  BY PeerQueues, SendOrStoreLine
<1>2. CASE SendData(<<x>>) /\ UNCHANGED txs
  <2>1. Gone(x)' /\ \A m : (Gone(m) => Gone(m)') /\ (m # x /\ Gone(m)' => Gone(m))
    BY <1>2, SendingGone
  <2>2. \A m : InLine(m)' <=> InLine(m)
    BY <1>2 DEF InLine
  <2>3. FlushedGone'
    BY <2>1 DEF FlushedGone
  <2> QED BY <1>1, <2>1, <2>2, <2>3 DEF Exists
<1>3. CASE txs' = Append(txs, AddTx(x)) /\ UNCHANGED <<c2s, discarded>>
  <2>1. txs \in Seq(Transactions) /\ AddTx(x) \in Transactions
        /\ AddTx(x).op = "add" /\ AddTx(x).msg = x
    BY DEF TypeOK, RpcTypeOK, AddTx, Transactions
  <2>2. AddsOf(txs') = AddsOf(txs) \cup {x}
    BY <1>3, <2>1, AppendAddsOnce DEF OnceInLine, InLine
  <2>3. \A m : Gone(m)' <=> Gone(m)
    BY <1>3 DEF Gone
  <2> QED BY <1>1, <2>2, <2>3 DEF Exists, InLine, FlushedGone
<1> QED BY <1>2, <1>3 DEF SendOrStore

LEMMA NotePass ==
  ASSUME TypeOK, LineInv, Notify, UNCHANGED received
  PROVE  SameAnswers /\ LineInv'
<1>1. PICK k, x : k = nnotes + 1 /\ x = Notification(k)
  OBVIOUS
<1>2. /\ k \in Notes /\ nnotes' = k /\ k > nnotes /\ x \in Message /\ SendOrStore(x)
      /\ UNCHANGED <<store, flushed, rollbacks, forgotten>>
  BY <1>1, MessageConstructors DEF Notify, Message, TypeOK, RpcTypeOK
<1>3. ~InLine(x)
  BY <1>1, <1>2 DEF LineInv, NotesFresh
<1>4. /\ OnceInLine' /\ FlushedGone'
      /\ \A m : InLine(m)' => m = x \/ InLine(m)
      /\ \A m : m # x => (Exists(m)' <=> Exists(m))
  BY <1>2, <1>3, SendOrStoreGone DEF LineInv
<1>5. NotesFresh'
  <2>1. \A n \in Notes : n > k => n > nnotes /\ Notification(n) # x
    BY <1>1, KindsDiffer DEF TypeOK, RpcTypeOK, Notes
  <2> QED BY <1>2, <1>4, <2>1 DEF LineInv, NotesFresh
<1> QED BY <1>1, <1>4, <1>5, KindsDiffer DEF SameAnswers, LineInv

LEMMA AnswerGone ==
  ASSUME TypeOK, LineInv, NEW x \in Responses, ~Exists(x), AnswerPeer(x),
         UNCHANGED <<nnotes, store, flushed, rollbacks, forgotten, received>>
  PROVE  LineInv' /\ Exists(x)' /\ \A m : m # x => (Exists(m)' <=> Exists(m))
<1>1. x \in Message /\ ~InLine(x) /\ SendOrStore(x)
  BY KindsDiffer DEF Exists, AnswerPeer
<1>2. /\ OnceInLine' /\ FlushedGone' /\ Exists(x)'
      /\ \A m : InLine(m)' => m = x \/ InLine(m)
      /\ \A m : m # x => (Exists(m)' <=> Exists(m))
  BY <1>1, SendOrStoreGone DEF LineInv
<1>3. NotesFresh'
  BY <1>2, KindsDiffer DEF LineInv, NotesFresh
<1> QED BY <1>2, <1>3 DEF LineInv

\* The peer takes what is on its way.
LEMMA TakesGone ==
  ASSUME TypeOK, LineInv, NEW e \in Conns, PeerTakes(e), UNCHANGED <<dbVars, forgotten, nnotes>>
  PROVE  LineInv' /\ SameAnswers
<1>1. PICK h : h = Head(c2s[e])
  OBVIOUS
<1>2. /\ c2s \in Queues /\ c2s[e] # <<>> /\ c2s' = Taken(c2s, e) /\ UNCHANGED discarded
      /\ received' = IF IsResponse(h) THEN Append(received, h) ELSE received
  BY <1>1, PeerQueues DEF PeerTakes, Taken
<1>3. c2s' \in Queues /\ h \in Message
  BY <1>1, <1>2, QueueTypes
<1>4. \A m : /\ Count(c2s, m) \in Nat /\ Count(c2s', m) \in Nat
             /\ Count(c2s, m) = Count(c2s', m) + IF m = h THEN 1 ELSE 0
  BY <1>1, <1>2, <1>3, SpotsFinite, OneTaken
<1>5. ASSUME NEW m \in Responses
      PROVE  Gone(m)' <=> Gone(m)
  <2>1. CASE m = h
    <3>1. IsResponse(h) /\ h \in Responses
      BY <2>1 DEF Responses, IsResponse
    <3>2. m \in Range(received')
      BY <1>2, <2>1, <3>1, AppendRange DEF TypeOK
    <3>3. Count(c2s, m) > 0
      BY <1>4, <2>1
    <3> QED BY <3>2, <3>3 DEF Gone
  <2>2. CASE m # h
    <3>1. m \in Range(received') <=> m \in Range(received)
      <4>1. CASE IsResponse(h)
        <5>1. h \in Responses
          BY <1>3, <4>1 DEF IsResponse, Message, Requests, Notifications
        <5> QED BY <1>2, <2>2, <4>1, <5>1, AppendRange DEF TypeOK
      <4> QED BY <1>2, <4>1
    <3>2. Count(c2s', m) = Count(c2s, m)
      <4>1. Count(c2s, m) = Count(c2s', m) + 0
        BY <1>4, <2>2
      <4> QED BY <1>4, <4>1
    <3> QED BY <1>2, <3>1, <3>2 DEF Gone
  <2> QED BY <2>1, <2>2
<1>6. UNCHANGED <<store, txs, flushed>>
  BY DEF dbVars
<1>7. \A m : InLine(m)' <=> InLine(m)
  BY <1>6 DEF InLine
<1> QED BY <1>5, <1>6, <1>7
        DEF SameAnswers, Exists, LineInv, OnceInLine, FlushedGone, NotesFresh

-----------------------------------------------------------------------------
(* A request of the peer is at one stage.                                   *)

Waiting(r) == Count(s2c, Request(r)) > 0
Handled(r) == \E j \in running : j.id = r
Answered(r) == \E m \in Responses : m.id = r /\ Exists(m)

NoStage(r) == ~Waiting(r) /\ ~Handled(r) /\ r \notin dead /\ ~Answered(r)

OneStage(r) ==
  /\ Waiting(r) \/ Handled(r) \/ r \in dead \/ Answered(r)
  /\ Waiting(r) => ~Handled(r) /\ r \notin dead /\ ~Answered(r)
  /\ Handled(r) => r \notin dead /\ ~Answered(r)
  /\ r \in dead => ~Answered(r)

\* A request is waiting once, has one handler, and one answer.
WaitsOnce == \A r \in Calls : Count(s2c, Request(r)) <= 1
HandledOnce == \A j, k \in running : j.id = k.id => j = k
Staged == \A r \in Calls : (r <= nasked => OneStage(r)) /\ (r > nasked => NoStage(r))
AnsweredOnce == \A m, o \in Responses : m.id = o.id /\ Exists(m) /\ Exists(o) => m = o

AskedInv == WaitsOnce /\ HandledOnce /\ Staged /\ AnsweredOnce

\* What a step has to leave alone to leave every request where it is.
SameWaiting == \A r \in Calls : Count(s2c', Request(r)) = Count(s2c, Request(r))

LEMMA AskedFrame ==
  ASSUME AskedInv, SameWaiting, SameAnswers, UNCHANGED <<running, dead, nasked>>
  PROVE  AskedInv'
<1>1. \A r : Answered(r)' <=> Answered(r)
  BY DEF Answered, SameAnswers
<1>2. \A r \in Calls : Waiting(r)' <=> Waiting(r)
  BY DEF Waiting, SameWaiting
<1>3. \A r : Handled(r)' <=> Handled(r)
  BY DEF Handled
<1>4. \A r \in Calls : (NoStage(r) => NoStage(r)') /\ (OneStage(r) => OneStage(r)')
  BY <1>1, <1>2, <1>3 DEF NoStage, OneStage
<1> QED BY <1>4 DEF AskedInv, WaitsOnce, HandledOnce, Staged, AnsweredOnce, SameWaiting, SameAnswers

\* The page takes a message: it waits no longer.
LEMMA TakingWaits ==
  ASSUME TypeOK, NEW e \in Conns, ClientTakes(e), NEW h, h = Head(s2c[e])
  PROVE  \A m : /\ Count(s2c, m) \in Nat /\ Count(s2c', m) \in Nat
                /\ Count(s2c, m) = Count(s2c', m) + IF m = h THEN 1 ELSE 0
<1>1. s2c \in Queues /\ s2c[e] # <<>> /\ s2c' = Taken(s2c, e)
  BY PeerQueues
<1>2. s2c' \in Queues
  BY <1>1, QueueTypes
<1> QED BY <1>1, <1>2, SpotsFinite, OneTaken

LEMMA OthersWait ==
  ASSUME TypeOK, NEW e \in Conns, ClientTakes(e), ~IsRequest(Head(s2c[e]))
  PROVE  SameWaiting
<1>1. PICK h : h = Head(s2c[e])
  OBVIOUS
<1>2. ASSUME NEW r
      PROVE  Count(s2c', Request(r)) = Count(s2c, Request(r))
  <2>1. Request(r) # h
    BY <1>1 DEF Request, IsRequest
  <2>2. PICK m : m = Request(r)
    OBVIOUS
  <2>3. Count(s2c, m) \in Nat /\ Count(s2c', m) \in Nat /\ Count(s2c, m) = Count(s2c', m) + 0
    BY <1>1, <2>1, <2>2, TakingWaits
  <2> QED BY <2>2, <2>3
<1> QED BY <1>2 DEF SameWaiting

\* The peer sends something that is not a request.
LEMMA OthersSentToPage ==
  ASSUME TypeOK, NEW e \in Conns, NEW x \in Message, ~IsRequest(x), PeerSends(e, x)
  PROVE  SameWaiting
<1>1. PICK s : s = <<x>>
  OBVIOUS
<1>2. s2c \in Queues /\ s2c' = Sent(s2c, e, s) /\ s \in Seq(Message) /\ Range(s) = {x}
  BY <1>1, PeerQueues DEF Range
<1>3. \A r : Request(r) \notin Range(s)
  BY <1>2 DEF Request, IsRequest
<1> QED BY <1>2, <1>3, OthersSent DEF SameWaiting

\* A handler starts, or answers at once.
LEMMA RequestAsked ==
  ASSUME TypeOK, LineInv, AskedInv, NEW e \in Conns, NEW k \in HandlerKinds, OnRequest(e, k)
  PROVE  LineInv' /\ AskedInv'
<1>1. PICK h : h = Head(s2c[e])
  OBVIOUS
<1>2. h \in Message /\ IsRequest(h) /\ ClientTakes(e)
  BY <1>1, PeerQueues DEF OnRequest
<1>3. PICK r \in Calls : h = Request(r) /\ r = h.id
  BY <1>2, MessageFields
<1>4. \A m : /\ Count(s2c, m) \in Nat /\ Count(s2c', m) \in Nat
             /\ Count(s2c, m) = Count(s2c', m) + IF m = h THEN 1 ELSE 0
  BY <1>1, <1>2, TakingWaits
<1>5. ASSUME NEW c \in Calls
      PROVE  /\ c = r => Count(s2c, Request(c)) = 1 /\ Count(s2c', Request(c)) = 0
             /\ c # r => Count(s2c, Request(c)) = Count(s2c', Request(c))
  <2>1. PICK m : m = Request(c)
    OBVIOUS
  <2>2. Count(s2c, m) <= 1
    BY <2>1 DEF AskedInv, WaitsOnce, HandledOnce, Staged, AnsweredOnce
  <2>3. c = r <=> m = h
    BY <1>3, <2>1 DEF Request
  <2>4. CASE m = h
    <3>1. Count(s2c, m) = Count(s2c', m) + 1 /\ Count(s2c, m) \in Nat /\ Count(s2c', m) \in Nat
      BY <1>4, <2>4
    <3> QED BY <2>1, <2>2, <2>3, <2>4, <3>1
  <2>5. CASE m # h
    <3>1. Count(s2c, m) = Count(s2c', m) + 0 /\ Count(s2c, m) \in Nat /\ Count(s2c', m) \in Nat
      BY <1>4, <2>5
    <3> QED BY <2>1, <2>3, <2>5, <3>1
  <2> QED BY <2>4, <2>5
<1>6. /\ r \in Nat /\ nasked \in Nat /\ Waiting(r)
      /\ r <= nasked /\ ~Handled(r) /\ r \notin dead /\ ~Answered(r)
  <2>1. r \in Nat /\ nasked \in Nat /\ Waiting(r)
    BY <1>5 DEF Waiting, TypeOK, Calls
  <2>2. r <= nasked
    BY <2>1 DEF AskedInv, WaitsOnce, HandledOnce, Staged, AnsweredOnce, NoStage
  <2> QED BY <2>1, <2>2 DEF AskedInv, WaitsOnce, HandledOnce, Staged, AnsweredOnce, OneStage
<1>7. /\ IF Async(k)
         THEN /\ running' = running \cup {[id |-> r, kind |-> k]}
              /\ UNCHANGED <<c2s, discarded, txs>>
         ELSE AnswerPeer(Response(r, BodyOf(k))) /\ UNCHANGED running
      /\ UNCHANGED <<nnotes, store, flushed, rollbacks, forgotten, received, dead, nasked>>
  BY <1>1, <1>3 DEF OnRequest, rpcVars, peerVars
<1>8. /\ ~Waiting(r)' /\ \A c \in Calls : c # r => (Waiting(c)' <=> Waiting(c))
      /\ WaitsOnce'
  BY <1>5 DEF Waiting, AskedInv, WaitsOnce, HandledOnce, Staged, AnsweredOnce
<1>9. CASE Async(k)
  <2>1. SameAnswers /\ LineInv'
    BY <1>7, <1>9
    DEF SameAnswers, Exists, InLine, Gone, LineInv, OnceInLine, FlushedGone, NotesFresh
  <2>2. \A c : Answered(c)' <=> Answered(c)
    BY <2>1 DEF Answered, SameAnswers
  <2>3. /\ Handled(r)' /\ \A c : c # r => (Handled(c)' <=> Handled(c))
        /\ HandledOnce'
    <3>1. PICK j : j = [id |-> r, kind |-> k]
      OBVIOUS
    <3>2. j.id = r /\ running' = running \cup {j}
      BY <1>7, <1>9, <3>1
    <3> QED BY <1>6, <3>2 DEF Handled, AskedInv, HandledOnce
  <2>4. \A c \in Calls : /\ c = r \/ OneStage(c) => OneStage(c)'
                         /\ c # r /\ NoStage(c) => NoStage(c)'
    BY <1>6, <1>7, <1>8, <2>2, <2>3 DEF OneStage, NoStage
  <2>5. AnsweredOnce'
    BY <2>1 DEF AskedInv, AnsweredOnce, SameAnswers
  <2>6. Staged'
    BY <1>6, <1>7, <2>4 DEF AskedInv, Staged
  <2> QED BY <1>8, <2>1, <2>3, <2>5, <2>6 DEF AskedInv
<1>10. CASE ~Async(k)
  <2>1. PICK x : x = Response(r, BodyOf(k))
    OBVIOUS
  <2>2. x \in Responses /\ x.id = r
    BY <1>10, <2>1, BodyOfType DEF Response, Responses
  <2>3. ~Exists(x) /\ AnswerPeer(x) /\ UNCHANGED running
    BY <1>6, <1>7, <1>10, <2>1, <2>2 DEF Answered
  <2>4. LineInv' /\ Exists(x)' /\ \A m : m # x => (Exists(m)' <=> Exists(m))
    BY <1>7, <2>2, <2>3, AnswerGone
  <2>5. Answered(r)' /\ \A c : c # r => (Answered(c)' <=> Answered(c))
    BY <2>2, <2>4 DEF Answered
  <2>6. \A c : Handled(c)' <=> Handled(c)
    BY <2>3 DEF Handled
  <2>7. \A c \in Calls : /\ c = r \/ OneStage(c) => OneStage(c)'
                         /\ c # r /\ NoStage(c) => NoStage(c)'
    BY <1>6, <1>7, <1>8, <2>5, <2>6 DEF OneStage, NoStage
  <2>8. AnsweredOnce'
    BY <1>6, <2>2, <2>4 DEF AskedInv, WaitsOnce, HandledOnce, Staged, AnsweredOnce, Answered
  <2>9. Staged'
    BY <1>6, <1>7, <2>7 DEF AskedInv, Staged
  <2>10. HandledOnce'
    BY <2>3 DEF AskedInv, HandledOnce
  <2> QED BY <1>8, <2>4, <2>8, <2>9, <2>10 DEF AskedInv
<1> QED BY <1>9, <1>10

\* The promise of a handler resolves: it has answered.
LEMMA ResolveAsked ==
  ASSUME TypeOK, LineInv, AskedInv, NEW j \in running, HandlerResolves(j)
  PROVE  LineInv' /\ AskedInv'
<1>1. PICK b, x : b \in {"result", "nothing"} /\ AnswerPeer(x) /\ x = Response(j.id, b)
  BY DEF HandlerResolves
<1>2. PICK r \in Calls : r = j.id
  BY DEF TypeOK, Job
<1>3. /\ running' = running \ {j} /\ x \in Responses /\ x.id = r
      /\ UNCHANGED <<s2c, nnotes, store, flushed, rollbacks, forgotten, received, dead, nasked>>
  BY <1>1, <1>2 DEF HandlerResolves, rpcVars, peerVars, Response, Responses, Bodies
<1>4. r \in Nat /\ nasked \in Nat /\ Handled(r)
  BY <1>2 DEF TypeOK, Handled, Calls
<1>5. r <= nasked /\ ~Waiting(r) /\ r \notin dead /\ ~Answered(r)
  <2>1. r <= nasked
    BY <1>4 DEF AskedInv, WaitsOnce, HandledOnce, Staged, AnsweredOnce, NoStage
  <2> QED BY <1>4, <2>1 DEF AskedInv, WaitsOnce, HandledOnce, Staged, AnsweredOnce, OneStage
<1>6. LineInv' /\ Exists(x)' /\ \A m : m # x => (Exists(m)' <=> Exists(m))
  <2>1. ~Exists(x)
    BY <1>3, <1>5 DEF Answered
  <2> QED BY <1>1, <1>3, <2>1, AnswerGone
<1>7. Answered(r)' /\ \A c : c # r => (Answered(c)' <=> Answered(c))
  BY <1>3, <1>6 DEF Answered
<1>8. /\ ~Handled(r)' /\ \A c : c # r => (Handled(c)' <=> Handled(c))
      /\ HandledOnce'
  BY <1>2, <1>3 DEF Handled, AskedInv, WaitsOnce, HandledOnce, Staged, AnsweredOnce
<1>9. (\A c : Waiting(c)' <=> Waiting(c)) /\ WaitsOnce'
  BY <1>3 DEF Waiting, AskedInv, WaitsOnce, HandledOnce, Staged, AnsweredOnce
<1>10. \A c \in Calls : /\ c = r \/ OneStage(c) => OneStage(c)'
                        /\ c # r /\ NoStage(c) => NoStage(c)'
  BY <1>3, <1>5, <1>7, <1>8, <1>9 DEF OneStage, NoStage
<1>11. AnsweredOnce'
  BY <1>3, <1>5, <1>6 DEF AskedInv, WaitsOnce, HandledOnce, Staged, AnsweredOnce, Answered
<1>12. Staged'
  BY <1>3, <1>4, <1>5, <1>10 DEF AskedInv, Staged
<1> QED BY <1>6, <1>8, <1>9, <1>11, <1>12 DEF AskedInv

\* The page goes away, and its handlers with it.
LEMMA ReloadAsked ==
  ASSUME TypeOK, LineInv, AskedInv, PageReloads
  PROVE  AskedInv'
<1>1. SameAnswers
  BY StoreGone DEF PageReloads, StoreSteps, peerVars
<1>2. /\ running' = {} /\ dead' = dead \cup {j.id : j \in running} /\ UNCHANGED <<nasked, s2c>>
  BY DEF PageReloads, peerVars, Reload, PageRestarts
<1>3. \A r : Answered(r)' <=> Answered(r)
  BY <1>1 DEF Answered, SameAnswers
<1>4. \A r : (Waiting(r)' <=> Waiting(r)) /\ ~Handled(r)'
             /\ (r \in dead' <=> r \in dead \/ Handled(r))
  BY <1>2 DEF Waiting, Handled
<1>5. \A r \in Calls : (OneStage(r) => OneStage(r)') /\ (NoStage(r) => NoStage(r)')
  BY <1>3, <1>4 DEF OneStage, NoStage
<1> QED BY <1>1, <1>2, <1>5 DEF AskedInv, WaitsOnce, HandledOnce, Staged, AnsweredOnce, SameAnswers

\* The peer asks: the request waits.
LEMMA AskAsked ==
  ASSUME TypeOK, AskedInv, NEW e \in Conns, PeerAsks(e),
         UNCHANGED <<dbVars, forgotten, servingVars>>
  PROVE  AskedInv'
<1>1. PICK r, x : r = nasked + 1 /\ x = Request(r)
  OBVIOUS
<1>2. nasked' = r /\ PeerSends(e, x) /\ UNCHANGED <<received, running, dead, c2s, discarded>>
  BY <1>1 DEF PeerAsks, PeerSends, servingVars
<1>3. r \in Calls /\ nasked \in Nat /\ r > nasked
  BY <1>1, JsonRpcAssumption, PeerAssumption DEF PeerAsks, TypeOK, Calls
<1>4. x \in Message
  BY <1>1, <1>3, MessageConstructors
<1>5. SameAnswers
  BY <1>2 DEF SameAnswers, Exists, InLine, Gone, dbVars
<1>6. NoStage(r)
  BY <1>3 DEF AskedInv, WaitsOnce, HandledOnce, Staged, AnsweredOnce
<1>7. /\ s2c \in Queues /\ s2c' = Sent(s2c, e, <<x>>) /\ Count(s2c, x) \in Nat
  BY <1>2, PeerQueues, SpotsFinite
<1>8. Count(s2c, x) = 0
  BY <1>1, <1>6, <1>7 DEF NoStage, Waiting
<1>9. Count(s2c', x) = 1
  <2>1. Count(s2c', x) = Count(s2c, x) + 1
    BY <1>4, <1>7, OneSent
  <2> QED BY <1>8, <2>1
<1>10. ASSUME NEW c \in Calls, c # r
       PROVE  Count(s2c', Request(c)) = Count(s2c, Request(c))
  <2>1. PICK s, m : s = <<x>> /\ m = Request(c)
    OBVIOUS
  <2>2. s \in Seq(Message) /\ Range(s) = {x} /\ s2c' = Sent(s2c, e, s)
    BY <1>4, <1>7, <2>1 DEF Range
  <2>3. m \notin Range(s)
    BY <1>1, <1>10, <2>1, <2>2 DEF Request
  <2>4. Count(s2c', m) = Count(s2c, m)
    BY <1>7, <2>2, <2>3, OthersSent
  <2> QED BY <2>1, <2>4
<1>11. /\ Waiting(r)' /\ \A c \in Calls : c # r => (Waiting(c)' <=> Waiting(c))
       /\ WaitsOnce'
  BY <1>1, <1>9, <1>10 DEF Waiting, AskedInv, WaitsOnce, HandledOnce, Staged, AnsweredOnce
<1>12. \A c : (Answered(c)' <=> Answered(c)) /\ (Handled(c)' <=> Handled(c))
  BY <1>2, <1>5 DEF Answered, SameAnswers, Handled
<1>13. \A c \in Calls : /\ c = r \/ OneStage(c) => OneStage(c)'
                        /\ c # r /\ NoStage(c) => NoStage(c)'
  BY <1>2, <1>6, <1>11, <1>12 DEF OneStage, NoStage
<1>14. \A c \in Calls : (c <= r => c = r \/ c <= nasked) /\ (c > r => c # r /\ c > nasked)
  BY <1>1, <1>3 DEF Calls
<1>15. Staged'
  BY <1>2, <1>13, <1>14 DEF AskedInv, Staged
<1>16. AnsweredOnce' /\ HandledOnce'
  BY <1>2, <1>5 DEF AskedInv, AnsweredOnce, HandledOnce, SameAnswers
<1> QED BY <1>11, <1>15, <1>16 DEF AskedInv

-----------------------------------------------------------------------------
(* Every step.                                                              *)

PeerInv == TypeOK /\ LineInv /\ AskedInv

\* A step that leaves alone what the two invariants are about.
LEMMA LineFrame ==
  ASSUME LineInv,
         UNCHANGED <<c2s, discarded, store, txs, flushed, forgotten, nnotes, received>>
  PROVE  LineInv' /\ SameAnswers
BY DEF LineInv, OnceInLine, FlushedGone, NotesFresh, SameAnswers, Exists, InLine, Gone

LEMMA BrowserAsked ==
  ASSUME PeerInv, BrowserNext
  PROVE  LineInv' /\ AskedInv'
<1> USE DEF PeerInv
<1>1. ASSUME StoreSteps, UNCHANGED <<received, nnotes>>
      PROVE  LineInv'
  BY <1>1, PeerQueues, StoreStepsLine, StoreGone DEF LineInv, NotesFresh
<1>2. ASSUME LineInv', SameAnswers, UNCHANGED <<s2c, running, dead, nasked>>
      PROVE  LineInv' /\ AskedInv'
  BY <1>2, AskedFrame DEF SameWaiting
<1>3. CASE PageReloads
  <2>1. StoreSteps /\ UNCHANGED <<received, nnotes>>
    BY <1>3 DEF PageReloads, StoreSteps, peerVars, Reload, PageRestarts
  <2> QED BY <1>1, <1>3, <2>1, ReloadAsked
<1>4. ASSUME NEW e \in Conns, OnNotification(e) \/ OnAnswer(e)
      PROVE  LineInv' /\ AskedInv'
  <2>1. /\ ClientTakes(e) /\ ~IsRequest(Head(s2c[e]))
        /\ UNCHANGED <<c2s, discarded, store, txs, flushed, forgotten, nnotes, received>>
        /\ UNCHANGED <<running, dead, nasked>>
    BY <1>4
    DEF OnNotification, OnAnswer, OnResponse, IsNotification, IsResponse, IsRequest, rpcVars, dbVars,
        peerVars
  <2> QED BY <2>1, LineFrame, OthersWait, AskedFrame
<1>5. ASSUME NEW e \in Conns, NEW k \in HandlerKinds, OnRequest(e, k)
      PROVE  LineInv' /\ AskedInv'
  BY <1>5, RequestAsked
<1>6. ASSUME NEW j \in running, HandlerResolves(j)
      PROVE  LineInv' /\ AskedInv'
  BY <1>6, ResolveAsked
<1>7. CASE /\ \/ Call \/ Notify \/ OnAttempt
              \/ AddCommits \/ FlushSends \/ FlushAborts \/ FlushCommits
              \/ \E e \in Conns : OnOpen(e) \/ OnClose(e)
           /\ UNCHANGED <<peerVars, servingVars>>
  <2>1. UNCHANGED <<received, running, dead, nasked>>
    BY <1>7 DEF peerVars, servingVars
  <2>2. CASE Call \/ \E e \in Conns : OnOpen(e)
    <3>1. UNCHANGED s2c
      BY <2>2 DEF Call, OnOpen, SocketOpens
    <3> QED BY <1>2, <2>1, <2>2, <3>1, CallsPass
  <2>3. CASE Notify
    BY <1>2, <2>1, <2>3, NotePass DEF Notify
  <2>4. CASE AddCommits \/ FlushSends \/ FlushAborts \/ FlushCommits
    <3>1. StoreSteps /\ UNCHANGED <<s2c, nnotes>>
      BY <2>4
      DEF StoreSteps, AddCommits, FlushSends, FlushAborts, FlushCommits, transportVars, rpcVars
    <3> QED BY <1>1, <1>2, <2>1, <3>1, StoreGone
  <2>5. CASE OnAttempt \/ \E e \in Conns : OnClose(e)
    <3>1. UNCHANGED <<c2s, discarded, store, txs, flushed, forgotten, nnotes, s2c>>
      BY <2>5 DEF OnAttempt, AttemptReconnect, OnClose, SocketCloses, rpcVars, dbVars
    <3> QED BY <1>2, <2>1, <3>1, LineFrame
  <2> QED BY <1>7, <2>2, <2>3, <2>4, <2>5
<1> QED BY <1>3, <1>4, <1>5, <1>6, <1>7 DEF BrowserNext

LEMMA PeerAsked ==
  ASSUME PeerInv, PeerNext, UNCHANGED <<clientVars, rpcVars, dbVars, forgotten, servingVars>>
  PROVE  LineInv' /\ AskedInv'
<1> USE DEF PeerInv
<1>1. UNCHANGED <<store, txs, flushed, forgotten, nnotes, running, dead>>
  BY DEF dbVars, rpcVars, servingVars
<1>2. ASSUME NEW e \in Conns, PeerAsks(e)
      PROVE  LineInv' /\ AskedInv'
  BY <1>1, <1>2, AskAsked, LineFrame DEF PeerAsks, PeerSends
<1>3. ASSUME NEW e \in Conns, NEW x \in Message, ~IsRequest(x), PeerSends(e, x),
             UNCHANGED <<nasked, received>>
      PROVE  LineInv' /\ AskedInv'
  <2>1. UNCHANGED <<c2s, discarded>>
    BY <1>3 DEF PeerSends
  <2> QED BY <1>1, <1>3, <2>1, OthersSentToPage, LineFrame, AskedFrame
<1>4. ASSUME NEW e \in Conns, PeerTells(e)
      PROVE  LineInv' /\ AskedInv'
  <2>1. ntold + 1 \in Notes
    BY <1>4, JsonRpcAssumption, PeerAssumption DEF PeerTells, TypeOK, Notes
  <2>2. Notification(ntold + 1) \in Message /\ ~IsRequest(Notification(ntold + 1))
    BY <2>1, MessageConstructors DEF Notification, IsRequest
  <2> QED BY <1>3, <1>4, <2>2 DEF PeerTells
<1>5. ASSUME NEW e \in Conns, NEW c \in owed, PeerAnswers(e, c)
      PROVE  LineInv' /\ AskedInv'
  <2>1. PICK b \in Bodies : PeerSends(e, Response(c, b))
    BY <1>5 DEF PeerAnswers
  <2>2. Response(c, b) \in Message /\ ~IsRequest(Response(c, b))
    BY MessageConstructors DEF TypeOK, Response, IsRequest
  <2> QED BY <1>3, <1>5, <2>1, <2>2 DEF PeerAnswers
<1>6. ASSUME NEW e \in Conns, PeerTakes(e)
      PROVE  LineInv' /\ AskedInv'
  <2>1. UNCHANGED <<s2c, nasked>> /\ UNCHANGED <<dbVars, forgotten, nnotes>>
    BY <1>1, <1>6 DEF PeerTakes
  <2> QED BY <1>1, <1>6, <2>1, TakesGone, AskedFrame DEF SameWaiting
<1>7. ASSUME NEW e \in Conns, AcceptConnection(e) \/ ServerEndCloses(e), UNCHANGED peerVars
      PROVE  LineInv' /\ AskedInv'
  <2>1. UNCHANGED <<c2s, discarded, s2c, received, nasked>>
    BY <1>7 DEF AcceptConnection, ServerEndCloses, peerVars
  <2> QED BY <1>1, <2>1, LineFrame, AskedFrame DEF SameWaiting
<1> QED BY <1>2, <1>4, <1>5, <1>6, <1>7 DEF PeerNext

LEMMA InitPeerInv == Init => PeerInv
<1> SUFFICES ASSUME Init PROVE PeerInv
  OBVIOUS
<1>1. /\ c2s = [e \in Conns |-> <<>>] /\ s2c = [e \in Conns |-> <<>>] /\ received = <<>>
      /\ store = <<>> /\ txs = <<>> /\ flushed = <<>> /\ discarded = {} /\ forgotten = {}
      /\ nasked = 0 /\ running = {} /\ dead = {}
  BY DEF Init, TransportInit, RpcInit, StoreInit
<1>2. TypeOK
  <2>1. 0 \in 0..MaxAsked /\ 0 \in 0..MaxTold /\ <<>> \in Seq(Responses)
    BY JsonRpcAssumption, PeerAssumption
  <2> QED BY <2>1, ClientInitType DEF Init, TypeOK, ClientTypeOK
<1>3. \A m : Count(c2s, m) = 0 /\ Count(s2c, m) = 0
  <2>1. c2s \in Queues /\ s2c = c2s /\ \A e \in Conns : Range(c2s[e]) = {}
    BY <1>1 DEF Queues, Range
  <2>2. \A m : \A e \in Conns : m \notin Range(c2s[e])
    BY <2>1
  <2> QED BY <2>1, <2>2, NoneThere
<1>4. \A m : ~InLine(m) /\ ~Gone(m)
  BY <1>1, <1>3 DEF InLine, Gone, AddsOf, Range
<1>5. LineInv
  BY <1>1, <1>4 DEF LineInv, OnceInLine, FlushedGone, NotesFresh, IsInjective, AddsOnce, AddsOf, Range
<1>6. \A r \in Calls : NoStage(r) /\ r > 0
  BY <1>1, <1>3, <1>4 DEF NoStage, Waiting, Handled, Answered, Exists, Calls
<1>7. WaitsOnce /\ HandledOnce /\ AnsweredOnce
  BY <1>1, <1>3, <1>4 DEF WaitsOnce, HandledOnce, AnsweredOnce, Exists
<1>8. Staged
  BY <1>1, <1>6 DEF Staged, Calls
<1> QED BY <1>2, <1>5, <1>7, <1>8 DEF PeerInv, AskedInv

LEMMA NextPeerInv == PeerInv /\ [Next]_vars => PeerInv'
<1> SUFFICES ASSUME PeerInv, [Next]_vars PROVE PeerInv'
  OBVIOUS
<1>1. TypeOK'
  BY NextPeerType DEF PeerInv
<1>2. CASE UNCHANGED vars
  <2>1. /\ UNCHANGED <<c2s, discarded, store, txs, flushed, forgotten, nnotes, received>>
        /\ UNCHANGED <<s2c, running, dead, nasked>>
    BY <1>2 DEF vars, transportVars, rpcVars, dbVars, peerVars, servingVars
  <2> QED BY <1>1, <2>1, LineFrame, AskedFrame DEF PeerInv, SameWaiting
<1> QED BY <1>1, <1>2, BrowserAsked, PeerAsked DEF Next, PeerInv

LEMMA PeerInvariant == Spec => []PeerInv
<1> QED BY InitPeerInv, NextPeerInv, PTL DEF Spec

-----------------------------------------------------------------------------
(* What that says of the stages and the answers.                            *)

LEMMA AnswersExist ==
  ASSUME PeerInv, NEW r
  PROVE  Answers(r) = {m \in Responses : m.id = r /\ Exists(m)}
<1>1. ASSUME NEW m \in Responses
      PROVE  Exists(m) <=> \/ Held(m) \/ InTransit(m) > 0
                           \/ m \in Range(received) \cup discarded \cup forgotten
  <2>1. m \in Range(flushed) => Gone(m)
    BY DEF PeerInv, LineInv, FlushedGone
  <2>2. InTransit(m) = Count(c2s, m)
    BY DEF InTransit, Count
  <2> QED BY <2>1, <2>2, HeldMeans DEF Exists, InLine, Gone
<1> QED BY <1>1 DEF Answers

LEMMA StagesAre ==
  ASSUME PeerInv, NEW r \in Calls
  PROVE  /\ "waiting" \in Stages(r) <=> Waiting(r)
         /\ "running" \in Stages(r) <=> Handled(r)
         /\ "dead" \in Stages(r) <=> r \in dead
         /\ "answered" \in Stages(r) <=> Answered(r)
         /\ Stages(r) \subseteq {"waiting", "running", "dead", "answered"}
<1>1. Waiting(r) <=> \E e \in Conns : Request(r) \in Range(s2c[e])
  <2>1. s2c \in Queues
    BY PeerQueues DEF PeerInv
  <2>2. Count(s2c, Request(r)) \in Nat
        /\ (Count(s2c, Request(r)) = 0 <=> \A e \in Conns : Request(r) \notin Range(s2c[e]))
    BY <2>1, SpotsFinite, NoneThere
  <2> QED BY <2>2 DEF Waiting
<1>2. Answered(r) <=> Answers(r) # {}
  BY AnswersExist DEF Answered
<1> QED BY <1>1, <1>2 DEF Stages, Handled

LEMMA AskedMeans == PeerInv => AskedAccounted
<1> SUFFICES ASSUME PeerInv, NEW r \in 1..nasked
             PROVE  Cardinality(Stages(r)) = 1 /\ Cardinality(Answers(r)) <= 1
  BY DEF AskedAccounted
<1>1. r \in Calls /\ r <= nasked
  BY JsonRpcAssumption, PeerAssumption DEF PeerInv, TypeOK, Calls
<1>2. OneStage(r)
  BY <1>1 DEF PeerInv, AskedInv, Staged
<1>3. \E s : Stages(r) = {s}
  <2>1. CASE Waiting(r)
    <3>1. Stages(r) = {"waiting"}
      BY <1>1, <1>2, <2>1, StagesAre DEF OneStage
    <3> QED BY <3>1
  <2>2. CASE Handled(r)
    <3>1. Stages(r) = {"running"}
      BY <1>1, <1>2, <2>2, StagesAre DEF OneStage
    <3> QED BY <3>1
  <2>3. CASE r \in dead
    <3>1. Stages(r) = {"dead"}
      BY <1>1, <1>2, <2>3, StagesAre DEF OneStage
    <3> QED BY <3>1
  <2>4. CASE Answered(r)
    <3>1. Stages(r) = {"answered"}
      BY <1>1, <1>2, <2>4, StagesAre DEF OneStage
    <3> QED BY <3>1
  <2> QED BY <1>2, <2>1, <2>2, <2>3, <2>4 DEF OneStage
<1>4. Answers(r) = {} \/ \E m : Answers(r) = {m}
  BY AnswersExist DEF PeerInv, AskedInv, AnsweredOnce
<1>5. Cardinality(Stages(r)) = 1
  BY <1>3, FS_Singleton
<1>6. Cardinality(Answers(r)) <= 1
  <2>1. CASE Answers(r) = {}
    <3>1. Cardinality(Answers(r)) = 0
      BY <2>1, FS_EmptySet
    <3> QED BY <3>1
  <2>2. CASE \E m : Answers(r) = {m}
    <3>1. Cardinality(Answers(r)) = 1
      BY <2>2, FS_Singleton
    <3> QED BY <3>1
  <2> QED BY <1>4, <2>1, <2>2
<1> QED BY <1>5, <1>6

(* A request of the peer is at one stage at a time and never vanishes between
   them, and what the page answers it says the same wherever it is found:
   through breaks, rolled back flushes and reloads, for every peer. *)
THEOREM AskedCorrect == Spec => []AskedAccounted
<1> QED BY PeerInvariant, AskedMeans, PTL

-----------------------------------------------------------------------------
(* An answer arrives once, or was replayed.                                 *)

LEMMA CopiesMeans ==
  ASSUME NEW S, NEW s \in Seq(S), NEW m
  PROVE  /\ Copies(s, m) \in Nat
         /\ m \notin Range(s) => Copies(s, m) = 0
         /\ \A x \in S : Copies(Append(s, x), m) = Copies(s, m) + IF x = m THEN 1 ELSE 0
<1> DEFINE At(u) == {i \in DOMAIN u : u[i] = m}
<1>1. IsFiniteSet(DOMAIN s)
  <2>1. DOMAIN s = 1..Len(s) /\ 1 \in Int /\ Len(s) \in Int
    OBVIOUS
  <2> QED BY <2>1, FS_Interval
<1>2. IsFiniteSet(At(s))
  BY <1>1, FS_Subset
<1>3. Cardinality(At(s)) \in Nat
  BY <1>2, FS_CardinalityType
<1>4. m \notin Range(s) => At(s) = {}
  BY DEF Range
<1>5. Cardinality({}) = 0
  BY FS_EmptySet
<1>6. ASSUME NEW x \in S
      PROVE  Copies(Append(s, x), m) = Copies(s, m) + IF x = m THEN 1 ELSE 0
  <2>1. At(Append(s, x)) = At(s) \cup (IF x = m THEN {Len(s) + 1} ELSE {})
    BY AppendIndices
  <2>2. Len(s) + 1 \notin At(s)
    OBVIOUS
  <2> HIDE DEF At
  <2>3. CASE x = m
    <3>1. At(Append(s, x)) = At(s) \cup {Len(s) + 1}
      BY <2>1, <2>3
    <3>2. Cardinality(At(Append(s, x))) = Cardinality(At(s)) + 1
      BY <1>2, <2>2, <3>1, FS_AddElement
    <3> QED BY <2>3, <3>2 DEF Copies, At
  <2>4. CASE x # m
    <3>1. At(Append(s, x)) = At(s)
      BY <2>1, <2>4
    <3>2. Cardinality(At(Append(s, x))) = Cardinality(At(s)) + 0
      BY <1>3, <3>1
    <3> QED BY <2>4, <3>2 DEF Copies, At
  <2> QED BY <2>3, <2>4
<1> QED BY <1>3, <1>4, <1>5, <1>6 DEF Copies

ReplayInv == \A m \in Responses : CopiesBounded(m, Copies(received, m))

LEMMA ReplayFrame ==
  ASSUME ReplayInv, UNCHANGED <<store, rollbacks>>, AddsOf(txs') = AddsOf(txs),
         \A m \in Responses : Copies(received', m) + Count(c2s', m)
                              = Copies(received, m) + Count(c2s, m)
  PROVE  ReplayInv'
BY DEF ReplayInv, CopiesBounded

\* An answer that a handler gives is the first to its request.
LEMMA FirstAnswer ==
  ASSUME PeerInv, NEW x \in Responses, Waiting(x.id) \/ Handled(x.id)
  PROVE  ~Exists(x) /\ Unsent(x, Copies(received, x))
<1>1. x.id \in Calls /\ x.id \in Nat /\ nasked \in Nat
  BY DEF Responses, PeerInv, TypeOK, Calls
<1>2. x.id <= nasked
  BY <1>1 DEF PeerInv, AskedInv, Staged, NoStage
<1>3. ~Exists(x)
  BY <1>1, <1>2 DEF PeerInv, AskedInv, Staged, OneStage, Answered
<1>4. Count(c2s, x) \in Nat /\ ~(Count(c2s, x) > 0) /\ x \notin Range(received)
  BY <1>3, PeerQueues, CountsAreNat DEF Exists, Gone, PeerInv
<1>5. Copies(received, x) = 0
  BY <1>4, CopiesMeans DEF PeerInv, TypeOK
<1> QED BY <1>3, <1>4, <1>5 DEF Unsent, Exists

LEMMA AnswerReplays ==
  ASSUME PeerInv, ReplayInv, NEW x \in Message, ~InLine(x), SendOrStore(x),
         x \in Responses => Unsent(x, Copies(received, x)),
         UNCHANGED <<store, flushed, rollbacks, received>>
  PROVE  ReplayInv'
<1>1. /\ \A m, t : m # x => (CopiesBounded(m, t) => CopiesBounded(m, t)')
      /\ \A t \in Nat : Unsent(x, t) => CopiesBounded(x, t)'
  BY PeerQueues, SendOrStoreLine DEF PeerInv, LineInv
<1>2. ASSUME NEW m \in Responses
      PROVE  CopiesBounded(m, Copies(received, m))'
  <2>1. PICK t \in Nat : t = Copies(received, m)
    BY CopiesMeans DEF PeerInv, TypeOK
  <2>2. CASE m = x
    <3>1. CopiesBounded(x, t)'
      BY <1>1, <2>1, <2>2
    <3> QED BY <2>1, <2>2, <3>1 DEF CopiesBounded
  <2>3. CASE m # x
    <3>1. CopiesBounded(m, t)'
      BY <1>1, <2>1, <2>3 DEF ReplayInv
    <3> QED BY <2>1, <3>1 DEF CopiesBounded
  <2> QED BY <2>2, <2>3
<1> QED BY <1>2 DEF ReplayInv

LEMMA StoreReplays ==
  ASSUME PeerInv, ReplayInv, StoreSteps, UNCHANGED received
  PROVE  ReplayInv'
<1>1. ASSUME NEW m \in Responses
      PROVE  CopiesBounded(m, Copies(received, m))'
  <2>1. PICK t \in Nat : t = Copies(received, m)
    BY CopiesMeans DEF PeerInv, TypeOK
  <2>2. CopiesBounded(m, t)'
    BY <2>1, PeerQueues, StoreStepsCopies DEF ReplayInv, PeerInv, LineInv
  <2> QED BY <2>1, <2>2 DEF CopiesBounded
<1> QED BY <1>1 DEF ReplayInv

LEMMA RequestReplays ==
  ASSUME PeerInv, ReplayInv, NEW e \in Conns, NEW k \in HandlerKinds, OnRequest(e, k)
  PROVE  ReplayInv'
<1>1. PICK h : h = Head(s2c[e])
  OBVIOUS
<1>2. h \in Message /\ IsRequest(h) /\ ClientTakes(e)
  BY <1>1, PeerQueues DEF OnRequest, PeerInv
<1>3. PICK r \in Calls : h = Request(r) /\ r = h.id
  BY <1>2, MessageFields
<1>4. Waiting(r)
  <2>1. /\ Count(s2c, h) \in Nat /\ Count(s2c', h) \in Nat
        /\ Count(s2c, h) = Count(s2c', h) + 1
    BY <1>1, <1>2, TakingWaits DEF PeerInv
  <2> QED BY <1>3, <2>1 DEF Waiting
<1>5. UNCHANGED <<store, flushed, rollbacks, received>>
  BY DEF OnRequest, peerVars
<1>6. CASE Async(k)
  <2>1. UNCHANGED <<c2s, txs>>
    BY <1>6 DEF OnRequest
  <2> QED BY <1>5, <2>1, ReplayFrame
<1>7. CASE ~Async(k)
  <2>1. PICK x : x = Response(r, BodyOf(k))
    OBVIOUS
  <2>2. x \in Responses /\ x.id = r /\ SendOrStore(x)
    BY <1>1, <1>3, <1>7, <2>1, BodyOfType DEF Response, Responses, OnRequest, AnswerPeer
  <2>3. x \in Message /\ ~InLine(x) /\ Unsent(x, Copies(received, x))
    BY <1>4, <2>2, FirstAnswer, KindsDiffer DEF Exists
  <2> QED BY <1>5, <2>2, <2>3, AnswerReplays
<1> QED BY <1>6, <1>7

LEMMA ResolveReplays ==
  ASSUME PeerInv, ReplayInv, NEW j \in running, HandlerResolves(j)
  PROVE  ReplayInv'
<1>1. PICK b, x : b \in {"result", "nothing"} /\ SendOrStore(x) /\ x = Response(j.id, b)
  BY DEF HandlerResolves, AnswerPeer
<1>2. x \in Responses /\ x.id = j.id /\ UNCHANGED <<store, flushed, rollbacks, received>>
  BY <1>1 DEF HandlerResolves, peerVars, Response, Responses, Bodies, PeerInv, TypeOK, Job
<1>3. Handled(x.id)
  BY <1>2 DEF Handled
<1>4. x \in Message /\ ~InLine(x) /\ Unsent(x, Copies(received, x))
  BY <1>2, <1>3, FirstAnswer, KindsDiffer DEF Exists
<1> QED BY <1>1, <1>2, <1>4, AnswerReplays

LEMMA BrowserReplays ==
  ASSUME PeerInv, ReplayInv, BrowserNext
  PROVE  ReplayInv'
<1>1. ASSUME UNCHANGED <<c2s, store, rollbacks, txs, received>>
      PROVE  ReplayInv'
  BY <1>1, ReplayFrame
<1>2. CASE PageReloads
  BY <1>2, StoreReplays DEF PageReloads, StoreSteps, peerVars
<1>3. ASSUME NEW e \in Conns, OnNotification(e) \/ OnAnswer(e)
      PROVE  ReplayInv'
  BY <1>1, <1>3 DEF OnNotification, OnAnswer, OnResponse, dbVars, peerVars
<1>4. CASE /\ \/ Call \/ Notify \/ OnAttempt
              \/ AddCommits \/ FlushSends \/ FlushAborts \/ FlushCommits
              \/ \E e \in Conns : OnOpen(e) \/ OnClose(e)
           /\ UNCHANGED <<peerVars, servingVars>>
  <2>1. UNCHANGED received
    BY <1>4 DEF peerVars
  <2>2. CASE Call \/ \E e \in Conns : OnOpen(e)
    <3>1. /\ UNCHANGED <<rollbacks, store>> /\ AddsOf(txs') = AddsOf(txs)
          /\ \A m : ~IsRequest(m) => Count(c2s', m) = Count(c2s, m)
      BY <2>2, PeerQueues, RequestsPass DEF PeerInv, LineInv
    <3> QED BY <2>1, <3>1, KindsDiffer, ReplayFrame
  <2>3. CASE Notify
    <3>1. PICK k, x : k = nnotes + 1 /\ x = Notification(k)
      OBVIOUS
    <3>2. /\ k \in Notes /\ k > nnotes /\ x \in Message /\ SendOrStore(x)
          /\ UNCHANGED <<store, flushed, rollbacks>>
      BY <2>3, <3>1, MessageConstructors DEF Notify, Message, TypeOK, RpcTypeOK, PeerInv
    <3>3. ~InLine(x)
      BY <3>1, <3>2 DEF PeerInv, LineInv, NotesFresh
    <3> QED BY <2>1, <3>1, <3>2, <3>3, KindsDiffer, AnswerReplays
  <2>4. CASE AddCommits \/ FlushSends \/ FlushAborts \/ FlushCommits
    BY <2>1, <2>4, StoreReplays DEF StoreSteps
  <2>5. CASE OnAttempt \/ \E e \in Conns : OnClose(e)
    BY <1>1, <2>1, <2>5 DEF OnAttempt, AttemptReconnect, OnClose, SocketCloses, dbVars
  <2> QED BY <1>4, <2>2, <2>3, <2>4, <2>5
<1> QED BY <1>2, <1>3, <1>4, RequestReplays, ResolveReplays DEF BrowserNext

\* The peer turns a copy on its way into one it has received.
LEMMA TakesReplays ==
  ASSUME PeerInv, ReplayInv, NEW e \in Conns, PeerTakes(e), UNCHANGED dbVars
  PROVE  ReplayInv'
<1>1. PICK h : h = Head(c2s[e])
  OBVIOUS
<1>2. /\ c2s \in Queues /\ c2s[e] # <<>> /\ c2s' = Taken(c2s, e)
      /\ received' = IF IsResponse(h) THEN Append(received, h) ELSE received
      /\ received \in Seq(Responses)
  BY <1>1, PeerQueues DEF PeerTakes, Taken, PeerInv, TypeOK
<1>3. c2s' \in Queues /\ h \in Message
  BY <1>1, <1>2, QueueTypes
<1>4. ASSUME NEW m \in Responses
      PROVE  Copies(received', m) + Count(c2s', m) = Copies(received, m) + Count(c2s, m)
  <2>1. /\ Count(c2s, m) \in Nat /\ Count(c2s', m) \in Nat /\ Copies(received, m) \in Nat
        /\ Count(c2s, m) = Count(c2s', m) + IF m = h THEN 1 ELSE 0
    BY <1>1, <1>2, <1>3, SpotsFinite, OneTaken, CopiesMeans
  <2>2. Copies(received', m) = Copies(received, m) + IF m = h THEN 1 ELSE 0
    <3>1. CASE IsResponse(h)
      <4>1. h \in Responses
        BY <1>3, <3>1 DEF IsResponse, Message, Requests, Notifications
      <4> QED BY <1>2, <3>1, <4>1, CopiesMeans
    <3>2. CASE ~IsResponse(h)
      <4>1. m # h /\ received' = received
        BY <1>2, <3>2 DEF IsResponse, Responses
      <4> QED BY <2>1, <4>1
    <3> QED BY <3>1, <3>2
  <2>3. CASE m = h
    <3>1. Count(c2s, m) = Count(c2s', m) + 1 /\ Copies(received', m) = Copies(received, m) + 1
      BY <2>1, <2>2, <2>3
    <3> QED BY <2>1, <3>1
  <2>4. CASE m # h
    <3>1. Count(c2s, m) = Count(c2s', m) + 0 /\ Copies(received', m) = Copies(received, m) + 0
      BY <2>1, <2>2, <2>4
    <3> QED BY <2>1, <3>1
  <2> QED BY <2>3, <2>4
<1> QED BY <1>4, ReplayFrame DEF dbVars

LEMMA PeerReplays ==
  ASSUME PeerInv, ReplayInv, PeerNext, UNCHANGED dbVars
  PROVE  ReplayInv'
<1>1. ASSUME UNCHANGED <<c2s, received>>
      PROVE  ReplayInv'
  BY <1>1, ReplayFrame DEF dbVars
<1>2. ASSUME NEW e \in Conns, PeerAsks(e) \/ PeerTells(e) \/ \E c \in owed : PeerAnswers(e, c)
      PROVE  ReplayInv'
  BY <1>1, <1>2 DEF PeerAsks, PeerTells, PeerAnswers, PeerSends
<1>3. ASSUME NEW e \in Conns, AcceptConnection(e) \/ ServerEndCloses(e), UNCHANGED peerVars
      PROVE  ReplayInv'
  BY <1>1, <1>3 DEF AcceptConnection, ServerEndCloses, peerVars
<1> QED BY <1>2, <1>3, TakesReplays DEF PeerNext

(* An answer reaches the peer once more than it should only for a flush that
   had sent it and was rolled back. *)
THEOREM ReplaysCorrect == Spec => []AnsweredOnceOrReplayed
<1>1. Init => ReplayInv
  <2> SUFFICES ASSUME Init PROVE ReplayInv
    OBVIOUS
  <2>1. /\ c2s = [e \in Conns |-> <<>>] /\ received = <<>> /\ store = <<>> /\ txs = <<>>
        /\ rollbacks = 0
    BY DEF Init, TransportInit, RpcInit, StoreInit
  <2>2. \A m : Count(c2s, m) = 0 /\ Copies(received, m) = 0
    <3>1. c2s \in Queues /\ received \in Seq(Responses)
          /\ Range(received) = {} /\ \A e \in Conns : Range(c2s[e]) = {}
      BY <2>1 DEF Queues, Range
    <3>2. \A m : m \notin Range(received) /\ \A e \in Conns : m \notin Range(c2s[e])
      BY <3>1
    <3> QED BY <3>1, <3>2, NoneThere, CopiesMeans
  <2>3. Range(store) = {} /\ AddsOf(txs) = {}
    BY <2>1 DEF Range, AddsOf
  <2> QED BY <2>1, <2>2, <2>3 DEF ReplayInv, CopiesBounded
<1>2. PeerInv /\ ReplayInv /\ [Next]_vars => ReplayInv'
  <2> SUFFICES ASSUME PeerInv, ReplayInv, [Next]_vars PROVE ReplayInv'
    OBVIOUS
  <2>1. CASE UNCHANGED vars
    BY <2>1, ReplayFrame DEF vars, transportVars, dbVars, peerVars
  <2> QED BY <2>1, BrowserReplays, PeerReplays DEF Next
<1>3. PeerInv /\ ReplayInv => AnsweredOnceOrReplayed
  <2> SUFFICES ASSUME PeerInv, ReplayInv, NEW r \in 1..nasked, NEW b \in Bodies
               PROVE  Copies(received, Response(r, b)) + InTransit(Response(r, b)) <= 1 + rollbacks
    BY DEF AnsweredOnceOrReplayed
  <2>1. Response(r, b) \in Responses
    BY JsonRpcAssumption, PeerAssumption DEF PeerInv, TypeOK, Calls, Response, Responses
  <2> QED BY <2>1 DEF ReplayInv, CopiesBounded, InTransit, Count
<1> QED BY <1>1, <1>2, <1>3, PeerInvariant, PTL DEF Spec

=============================================================================
