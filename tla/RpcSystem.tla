------------------------------ MODULE RpcSystem ------------------------------
(***************************************************************************)
(* A browser page (WebSocketRpc over WebSocketClient) and a JsonRpcServer, *)
(* over WebSocket connections that break, with page reloads and server     *)
(* restarts: the life of calls and of notifications, the offline ones      *)
(* included.                                                               *)
(***************************************************************************)
EXTENDS WebSocketRpc, JsonRpcServer

vars == <<transportVars, clientVars, rpcVars, dbVars, forgotten, serverVars>>

browserVars == <<clientVars, rpcVars, dbVars, forgotten>>

Init == TransportInit /\ SocketInit /\ RpcInit /\ ServerInit

-----------------------------------------------------------------------------
(* The two sides take turns: every browser event and every server event is  *)
(* one run of an event loop to its end.                                     *)

PageStep == Call \/ Notify \/ OnAttempt \/ Reload

SocketStep(e) == OnOpen(e) \/ OnClose(e) \/ OnResponse(e)

StoreStep == AddCommits \/ FlushSends \/ FlushAborts \/ FlushCommits

BrowserNext == PageStep \/ StoreStep \/ \E e \in Conns : SocketStep(e)

ServerReads(e, k) == ReceiveRequest(e, k) \/ ReceiveNotification(e, k)

ServerDies ==
  \/ "throws" \in HandlerKinds /\ \E e \in Conns : NotificationKillsServer(e)
  \/ \E w \in work : RejectionKillsServer(w)

ServerNext ==
  \/ \E e \in Conns : \/ RegisterClient(e)
                      \/ UnregisterClient(e)
                      \/ \E k \in HandlerKinds : ServerReads(e, k)
  \/ \E w \in work : PromiseResolves(w) \/ PromiseRejects(w)
  \/ ServerDies

Next == \/ BrowserNext /\ UNCHANGED serverVars
        \/ ServerNext /\ UNCHANGED browserVars

Spec == Init /\ [][Next]_vars

(* The interval fires again and again, an event that has happened is
   delivered, IndexedDB runs its transactions, a promise settles.  Breaks,
   reloads, calls and notifications owe nothing. *)
Fairness ==
  /\ WF_vars(OnAttempt /\ UNCHANGED serverVars)
  /\ WF_vars(StoreStep /\ UNCHANGED serverVars)
  /\ \A e \in Conns :
       /\ WF_vars((OnOpen(e) \/ OnResponse(e)) /\ UNCHANGED serverVars)
       /\ WF_vars(srvEnd[e] = "CLOSED" /\ OnClose(e) /\ UNCHANGED serverVars)
       /\ WF_vars(RegisterClient(e) /\ UNCHANGED browserVars)
       /\ WF_vars(/\ \E k \in HandlerKinds : ServerReads(e, k)
                  /\ UNCHANGED browserVars)
  /\ WF_vars(/\ \E w \in work : PromiseResolves(w) \/ PromiseRejects(w)
             /\ UNCHANGED browserVars)

FairSpec == Spec /\ Fairness

-----------------------------------------------------------------------------
(* Types.                                                                   *)

(* The type invariant of the whole system. *)
TypeOK ==
  /\ TransportTypeOK(Message)
  /\ SocketTypeOK
  /\ RpcTypeOK
  /\ ServerTypeOK

-----------------------------------------------------------------------------
(* Calls.                                                                   *)

\* Where call c is.  A place is a stage, a connection and an index; a call that
\* is in two places, or twice in one queue, has two of them.
InBuffer(c) ==
  {<<"buffer", 0, i>> : i \in {j \in DOMAIN buffer : buffer[j] = Request(c)}}

OnItsWay(c) ==
  UNION {{<<"c2s", e, i>> : i \in {j \in DOMAIN c2s[e] : c2s[e][j] = Request(c)}}
           : e \in Conns}

InHandler(c) == {<<"work", w.conn, w.kind>> : w \in {v \in work : v.id = c}}

OnItsWayBack(c) ==
  UNION {{<<"s2c", e, i>> : i \in {j \in DOMAIN s2c[e] : s2c[e][j].id = c}}
           : e \in Conns}

Settled(c) == IF promise[c] \in {"resolved", "rejected"} THEN {<<"settled", 0, 0>>} ELSE {}
NotAnswered(c) == IF c \in unanswered THEN {<<"unanswered", 0, 0>>} ELSE {}
Forgotten(c) == IF Request(c) \in forgotten THEN {<<"forgotten", 0, 0>>} ELSE {}

\* All its places.
Places(c) ==
  InBuffer(c) \cup OnItsWay(c) \cup InHandler(c) \cup OnItsWayBack(c)
    \cup Settled(c) \cup NotAnswered(c) \cup Forgotten(c)

Single(S) == \E p \in S : S = {p}

(* A call that has been made is in exactly one place: it is never duplicated
   by the buffer, the flush or a reconnection, never handled twice, never
   answered twice, and never gone without a trace the code could report. *)
CallInOnePlace ==
  \A c \in Calls :
    IF c <= ncalls THEN Single(Places(c)) ELSE Places(c) = {}

(* The responses a live socket still has to deliver all match an entry of the
   pending table, so the branch of resolve() that reports "Got a response
   with no matching request id" is not reached in this system. *)
NoUnmatchedResponse ==
  \A e \in Conns : cliEnd[e] = "OPEN" =>
    \A i \in DOMAIN s2c[e] : s2c[e][i].id \in pending

(* Calls reach the server in the order they were made: along the current
   connection and then the buffer, no call overtakes another. *)
CallsInOrder ==
  LET s == c2s[socket] \o buffer
  IN  \A i, j \in DOMAIN s :
        i < j /\ IsRequest(s[i]) /\ IsRequest(s[j]) => s[i].id < s[j].id

-----------------------------------------------------------------------------
(* Notifications.                                                           *)

\* Notifications that left the browser, or died in it.
Gone(m) ==
  \/ got[m.id] > 0
  \/ m \in discarded \cup forgotten
  \/ \E e \in Conns : m \in Range(c2s[e])

(* A notification is never lost silently inside the store's machinery: it is
   held, sent, or in one of the two recorded ways of dying (a CLOSED socket
   swallowed it, the page died before the add committed). *)
NoteAccounted ==
  \A n \in 1..nnotes : Held(Notification(n)) \/ Gone(Notification(n))

(* What was notified offline is replayed in the order it was notified: along
   what a running flush has sent, the store and the queued adds, the
   notifications increase, through rollbacks and reloads. *)
OfflineOrderKept ==
  LET s == flushed \o store
      Adds == {k \in DOMAIN txs : txs[k].op = "add"}
  IN  /\ \A i, j \in DOMAIN s : i < j => s[i].id < s[j].id
      /\ \A i, j \in Adds : i < j => txs[i].msg.id < txs[j].msg.id
      /\ \A i \in DOMAIN s, k \in Adds : s[i].id < txs[k].msg.id

SentCopies(n) == got[n] + InTransit(Notification(n))

(* A notification is sent twice only if a flush that had sent it was rolled
   back: the copies in the network and at the server are at most one more
   than the flushes rolled back. *)
DuplicatesOnlyAfterRollback == \A n \in Notes : SentCopies(n) <= 1 + rollbacks

-----------------------------------------------------------------------------
(* Progress.                                                                *)

(* What was called offline is sent by a later connection, or dies with the
   page: flushBuffer() gets its CONNECT. *)
BufferDrains == (buffer # <<>>) ~> (buffer = <<>>)

(* What was notified offline leaves the store sooner or later, whatever breaks,
   rollbacks and reloads come between: after a flush that was cut short there
   is another CONNECT to start one. *)
StoreDrains == (store # <<>>) ~> (store = <<>>)

(* Once breaks, reloads and restarts are over, the interval gets the page
   connected, and it stays connected. *)
Reconnects == <>[]connected

(* A request on a connection that stays up settles its promise, when no
   handler's promise rejects and the server is not restarted. *)
StableCallSettles ==
  \A c \in Calls :
    (cliEnd[MaxConns] = "OPEN" /\ Request(c) \in Range(c2s[MaxConns]))
      ~> (promise[c] \in {"resolved", "rejected"})

-----------------------------------------------------------------------------
(* What the documentation says and the code does not do.                    *)

(* README.md:7-9: "Send a message to the server and return a promise to the
   caller", "Wait for the server to respond", "Resolve the promise with the
   result of that call".  Every call settles, or its page goes away. *)
EveryCallSettles ==
  \A c \in Calls : (promise[c] = "pending") ~> (promise[c] # "pending")

-----------------------------------------------------------------------------
(* What this system implements.                                             *)

\* Calls the server has taken off their connection.
Served ==
  {c \in 1..ncalls : /\ Request(c) \notin Range(buffer) \cup forgotten
                     /\ \A e \in Conns : Request(c) \notin Range(c2s[e])}

Remote == INSTANCE RpcCall WITH CallIds <- Calls, served <- Served

(* The buffer, the reconnections and the server's handlers together implement
   the remote call of RpcCall. *)
ImplementsRpcCall == Remote!Spec

=============================================================================
