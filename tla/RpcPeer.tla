------------------------------- MODULE RpcPeer -------------------------------
(***************************************************************************)
(* WebSocketRpc serving its peer.  The protocol is symmetric in the        *)
(* browser: onMessage() also runs handlers for requests and emits          *)
(* notifications.  The server of this repository never sends a request     *)
(* (see ServerPush), so the peer here is any JSON-RPC server: it asks,     *)
(* notifies, and answers calls on whatever connection it likes.            *)
(***************************************************************************)
EXTENDS WebSocketRpc

CONSTANTS
  MaxAsked,            \* bound: requests of the peer
  MaxTold              \* bound: notifications of the peer

ASSUME PeerAssumption ==
  /\ MaxAsked \in 0..MaxCalls
  /\ MaxTold \in 0..MaxNotes

VARIABLES
  nasked,              \* requests the peer has sent
  ntold,               \* notifications the peer has sent
  owed,                \* calls the peer has taken and not answered
  running,             \* the peer's requests whose handler's promise is open
  heard,               \* copies of each notification the listeners heard
  dead,                \* requests whose handler died with its page
  received             \* answers the peer has received, in order

peerVars == <<nasked, ntold, owed, received>>
servingVars == <<running, heard, dead>>

vars == <<transportVars, clientVars, rpcVars, dbVars, forgotten, peerVars, servingVars>>

Job == [id : Calls, kind : {"promise", "rejection"}]

(* The type invariant. *)
TypeOK ==
  /\ TransportTypeOK(Message) /\ SocketTypeOK /\ RpcTypeOK
  /\ nasked \in 0..MaxAsked
  /\ ntold \in 0..MaxTold
  /\ owed \subseteq Calls
  /\ running \subseteq Job
  /\ heard \in [Notes -> Nat]
  /\ dead \subseteq Calls
  /\ received \in Seq(Responses)

Init ==
  /\ TransportInit /\ SocketInit /\ RpcInit
  /\ nasked = 0 /\ ntold = 0 /\ owed = {} /\ received = <<>>
  /\ running = {} /\ dead = {}
  /\ heard = [n \in Notes |-> 0]

-----------------------------------------------------------------------------
(* Handlers.run() and what onMessage() does with its promise.               *)

\* An answer sent on the socket without asking isConnected(): one that is
\* CONNECTING throws, and the exception ends up in a promise nobody looks at.
AnswerBlindly(m) ==
  /\ UNCHANGED txs
  /\ IF SendThrows THEN UNCHANGED <<c2s, discarded>> ELSE SendData(<<m>>)

\* The answer goes out now, or into the notification store.
AnswerPeer(m) == SendOrStore(m)

\* onMessage() of a request whose handler is of kind k.  A missing handler
\* and one that throws are answered from the catch callback; all callbacks
\* of settled promises run before the next event.
OnRequest(e, k) ==
  /\ ClientTakes(e)
  /\ LET m == Head(s2c[e]) IN
       /\ IsRequest(m)
       /\ IF Async(k)
          THEN /\ running' = running \cup {[id |-> m.id, kind |-> k]}
               /\ UNCHANGED <<c2s, discarded, txs>>
          ELSE AnswerPeer(Response(m.id, BodyOf(k))) /\ UNCHANGED running
  /\ UNCHANGED <<cliEnd, srvEnd, clientVars, rpcVars, store, flushed, rollbacks,
                 forgotten, peerVars, heard, dead>>

\* The promise of a handler resolves, on whatever connection there is then.
HandlerResolves(j) ==
  /\ j \in running
  /\ j.kind = "promise"
  /\ running' = running \ {j}
  /\ \E b \in {"result", "nothing"} : AnswerPeer(Response(j.id, b))
  /\ UNCHANGED <<cliEnd, srvEnd, s2c, clientVars, rpcVars, store, flushed,
                 rollbacks, forgotten, peerVars, heard, dead>>

\* Handlers.run() attaches no callback for a rejection: its own promise, and
\* with it the answer, never comes.  The job stays in running.

\* onMessage() of a notification: emitted under its method's name.
OnNotification(e) ==
  /\ ClientTakes(e)
  /\ LET m == Head(s2c[e]) IN
       IsNotification(m) /\ heard' = [heard EXCEPT ![m.id] = @ + 1]
  /\ UNCHANGED <<cliEnd, srvEnd, c2s, discarded, clientVars, rpcVars, dbVars,
                 forgotten, peerVars, running, dead>>

\* onMessage() of a response, matched or not; for one that is not, raiseError()
\* prints a line: it looks a handler up as this.getHandler["error"], a member
\* of the method itself, and never finds one (JsonRpc2.ts:175).
OnAnswer(e) ==
  /\ OnResponse(e)
  /\ UNCHANGED <<peerVars, running, heard, dead>>

\* The page goes away, and with it the handlers that are running.
PageReloads ==
  /\ Reload
  /\ running' = {}
  /\ dead' = dead \cup {j.id : j \in running}
  /\ UNCHANGED <<peerVars, heard>>

-----------------------------------------------------------------------------
(* The peer (external).                                                     *)

PeerSends(e, m) ==
  /\ srvEnd[e] = "OPEN"
  /\ s2c' = [s2c EXCEPT ![e] = Append(@, m)]
  /\ UNCHANGED <<cliEnd, srvEnd, c2s, discarded>>

PeerAsks(e) ==
  /\ nasked < MaxAsked
  /\ nasked' = nasked + 1
  /\ PeerSends(e, Request(nasked + 1))
  /\ UNCHANGED <<ntold, owed, received>>

PeerTells(e) ==
  /\ ntold < MaxTold
  /\ ntold' = ntold + 1
  /\ PeerSends(e, Notification(ntold + 1))
  /\ UNCHANGED <<nasked, owed, received>>

PeerAnswers(e, c) ==
  /\ c \in owed
  /\ owed' = owed \ {c}
  /\ \E b \in Bodies : PeerSends(e, Response(c, b))
  /\ UNCHANGED <<nasked, ntold, received>>

PeerTakes(e) ==
  /\ srvEnd[e] = "OPEN"
  /\ c2s[e] # <<>>
  /\ LET m == Head(c2s[e]) IN
       /\ owed' = IF IsRequest(m) THEN owed \cup {m.id} ELSE owed
       /\ received' = IF IsResponse(m) THEN Append(received, m) ELSE received
  /\ c2s' = [c2s EXCEPT ![e] = Tail(@)]
  /\ UNCHANGED <<cliEnd, srvEnd, s2c, discarded, nasked, ntold>>

PeerNext ==
  \E e \in Conns :
    \/ PeerAsks(e) \/ PeerTells(e) \/ PeerTakes(e)
    \/ \E c \in owed : PeerAnswers(e, c)
    \/ (AcceptConnection(e) \/ ServerEndCloses(e)) /\ UNCHANGED peerVars

-----------------------------------------------------------------------------
BrowserNext ==
  \/ PageReloads
  \/ \E e \in Conns : \/ OnNotification(e)
                      \/ OnAnswer(e)
                      \/ \E k \in HandlerKinds : OnRequest(e, k)
  \/ \E j \in running : HandlerResolves(j)
  \/ /\ \/ Call \/ Notify \/ OnAttempt
        \/ AddCommits \/ FlushSends \/ FlushAborts \/ FlushCommits
        \/ \E e \in Conns : OnOpen(e) \/ OnClose(e)
     /\ UNCHANGED <<peerVars, servingVars>>

Next ==
  \/ BrowserNext
  \/ PeerNext /\ UNCHANGED <<clientVars, rpcVars, dbVars, forgotten, servingVars>>

Spec == Init /\ [][Next]_vars

-----------------------------------------------------------------------------
\* The answers to request r that exist, wherever they are.
Answers(r) ==
  {m \in Responses : m.id = r
     /\ (Held(m) \/ InTransit(m) > 0 \/ m \in Range(received) \cup discarded \cup forgotten)}

\* The stages request r of the peer is in.
Stages(r) ==
  {s \in {"waiting", "running", "dead", "answered"} :
     CASE s = "waiting" -> \E e \in Conns : Request(r) \in Range(s2c[e])
       [] s = "running" -> \E j \in running : j.id = r
       [] s = "dead" -> r \in dead
       [] s = "answered" -> Answers(r) # {}}

(* A request of the peer is at one stage at a time and never vanishes between
   them: waiting on its connection, with a handler, dead with its page, or
   answered; and all answers to it say the same. *)
AskedAccounted ==
  \A r \in 1..nasked : Cardinality(Stages(r)) = 1 /\ Cardinality(Answers(r)) <= 1

(* An answer that had to wait in the notification store, on a connection the
   request did not come from, arrives once more than it should only for each
   flush that was rolled back. *)
AnsweredOnceOrReplayed ==
  \A r \in 1..nasked, b \in Bodies :
    LET m == Response(r, b)
    IN  Copies(received, m) + InTransit(m) <= 1 + rollbacks

(* A promise that has settled, or died with its page, never changes again,
   though answers may come on another connection and to a later page. *)
PromisesFinal ==
  [][\A c \in Calls : promise[c] \notin {"idle", "pending"} => promise'[c] = promise[c]]_promise

=============================================================================
