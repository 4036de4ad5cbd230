---------------------------- MODULE JsonRpcServer ----------------------------
(***************************************************************************)
(* src/server/JsonRpcServer.ts: the server's side of requests and          *)
(* notifications coming from browsers.  A request is answered on the       *)
(* socket it came from, at once or when the promise of its handler         *)
(* resolves; there is no timer, and nothing waits for a rejection.         *)
(***************************************************************************)
EXTENDS Transport, JsonRpc2

VARIABLES
  clients,             \* this.clients, the registered connections in order
  work,                \* requests whose handler's promise has not settled
  ran,                 \* ran[c]: times a handler was run for call c
  got,                 \* got[n]: copies of notification n handed over by ws
  unanswered           \* requests taken whose answer will never be delivered

serverVars == <<clients, work, ran, got, unanswered>>

Work == [conn : Conns, id : Calls, kind : {"promise", "rejection"}]

ServerTypeOK ==
  /\ clients \in Seq(Conns)
  /\ work \subseteq Work
  /\ ran \in [Calls -> Nat]
  /\ got \in [Notes -> Nat]
  /\ unanswered \subseteq Calls

ServerInit ==
  /\ clients = <<>>
  /\ work = {}
  /\ ran = [c \in Calls |-> 0]
  /\ got = [n \in Notes |-> 0]
  /\ unanswered = {}

-----------------------------------------------------------------------------
(* Connections.                                                             *)

With(e) == Append(clients, e)

\* registerClient: a JsonRpcServerSocket is created and pushed.  Here, as in
\* unregisterClient, the application has no handler for CLIENT_CONNECT or
\* CLIENT_DISCONNECT; one that throws would end the process.
RegisterClient(e) ==
  /\ AcceptConnection(e)
  /\ clients' = With(e)
  /\ UNCHANGED <<work, ran, got, unanswered>>

\* A splice at the wrong index: the client known longest goes.
WithoutFirst(e) == Tail(clients)

\* indexOf and splice; a client that is not in the list changes nothing.
Without(e) ==
  IF \E i \in DOMAIN clients : clients[i] = e
  THEN LET idx == CHOOSE i \in DOMAIN clients : clients[i] = e
       IN  SubSeq(clients, 1, idx - 1) \o SubSeq(clients, idx + 1, Len(clients))
  ELSE clients

\* unregisterClient: the socket is spliced out of the list if it is there.
UnregisterClient(e) ==
  /\ ServerEndCloses(e)
  /\ clients' = Without(e)
  /\ UNCHANGED <<work, ran, got, unanswered>>

-----------------------------------------------------------------------------
(* Requests.                                                                *)

\* A respond() after which the code falls through into the catch clause and
\* responds again.
AnswerTwice(e, c, k) ==
  /\ srvEnd[e] = "OPEN"
  /\ s2c' = [s2c EXCEPT ![e] = @ \o <<Response(c, BodyOf(k)), Response(c, "error")>>]

\* A server that answers on the client it has known longest.
AnswerFirst(e, c, k) == ServerSends(clients[1], Response(c, BodyOf(k)))

\* client.respond() for a handler that has returned or thrown, or is missing:
\* the socket the request was just read from is open.
Answer(e, c, k) == ServerSends(e, Response(c, BodyOf(k)))

\* receiveSocketRequest() of a request, its handler being of kind k.
ReceiveRequest(e, k) ==
  /\ ServerTakes(e)
  /\ LET m == Head(c2s[e]) IN
       /\ IsRequest(m)
       /\ ran' = IF k = "missing" THEN ran ELSE [ran EXCEPT ![m.id] = @ + 1]
       /\ IF Async(k)
          THEN work' = work \cup {[conn |-> e, id |-> m.id, kind |-> k]} /\ UNCHANGED s2c
          ELSE Answer(e, m.id, k) /\ UNCHANGED work
  /\ UNCHANGED <<cliEnd, srvEnd, discarded, clients, got, unanswered>>

\* result.then(r => client.respond(...)): the socket may be closed by now, and
\* then ws drops the answer; r may be undefined.
PromiseResolves(w) ==
  /\ w \in work
  /\ w.kind = "promise"
  /\ work' = work \ {w}
  /\ \E b \in {"result", "nothing"} : ServerSends(w.conn, Response(w.id, b))
  /\ unanswered' = IF srvEnd[w.conn] = "OPEN" THEN unanswered ELSE unanswered \cup {w.id}
  /\ UNCHANGED <<cliEnd, srvEnd, c2s, discarded, clients, ran, got>>

\* The promise of a handler rejects: no callback was attached for that.
PromiseRejects(w) ==
  /\ w \in work
  /\ w.kind = "rejection"
  /\ work' = work \ {w}
  /\ unanswered' = unanswered \cup {w.id}
  /\ UNCHANGED <<transportVars, clients, ran, got>>

-----------------------------------------------------------------------------
(* Notifications.                                                           *)

TakeNotification(e) ==
  /\ ServerTakes(e)
  /\ LET m == Head(c2s[e]) IN
       /\ IsNotification(m)
       /\ got' = [got EXCEPT ![m.id] = @ + 1]

\* receiveSocketNotification() whose handler, of kind k, does not throw: its
\* result or promise is ignored.  (That a promise which rejects ends the process
\* in newer versions of node is left out here, see RejectionKillsServer.)
ReceiveNotification(e, k) ==
  /\ k # "throws"
  /\ TakeNotification(e)
  /\ UNCHANGED <<cliEnd, srvEnd, s2c, discarded, clients, work, ran, unanswered>>

(* Node ends the process and a supervisor starts it again: every socket is
   closed and what was being worked on is gone. *)
ProcessEnds ==
  /\ \A x \in Conns : srvEnd[x] = "OPEN" => MayFail(x)
  /\ srvEnd' = [x \in Conns |-> IF srvEnd[x] = "OPEN" THEN "CLOSED" ELSE srvEnd[x]]
  /\ clients' = <<>>
  /\ work' = {}
  /\ unanswered' = unanswered \cup {w.id : w \in work}

\* Its handler throws: nothing on the way up from ws's "message" event
\* catches it.
NotificationKillsServer(e) ==
  /\ TakeNotification(e)
  /\ ProcessEnds
  /\ UNCHANGED <<cliEnd, s2c, discarded, ran>>

\* From version 15 on node treats the unhandled rejection of a handler's
\* promise the same way; earlier ones only print a warning.
RejectionKillsServer(w) ==
  /\ w \in work
  /\ w.kind = "rejection"
  /\ ProcessEnds
  /\ UNCHANGED <<cliEnd, c2s, s2c, discarded, ran, got>>

-----------------------------------------------------------------------------
(* The list of clients names every open socket once, in the order they came:
   a broadcast would reach each connected browser, and no closed one. *)
ClientsAreOpen ==
  /\ \A e \in Conns : srvEnd[e] = "OPEN" <=> \E i \in DOMAIN clients : clients[i] = e
  /\ \A i, j \in DOMAIN clients : clients[i] = clients[j] => i = j

=============================================================================
