------------------------------ MODULE Transport ------------------------------
(***************************************************************************)
(* EXTERNAL.  The WebSocket connections between a browser and the server,  *)
(* modelled from how src/client/WebSocketClient.ts (browser WebSocket) and *)
(* src/server/JsonRpcServer.ts (the "ws" package) use them.                *)
(*                                                                         *)
(* Connections are numbered in the order the browser constructs its        *)
(* WebSocket objects.  Each has two ends with a state of their own (the    *)
(* two sides learn of a break at different times) and a FIFO queue in      *)
(* each direction.  What an end had not taken out of its queue when it     *)
(* closes is lost; it stays in the queue, where nobody reads it, so that   *)
(* properties can tell where a message went.  A browser socket in state    *)
(* CLOSING accepts and drops data exactly as an OPEN one whose peer is     *)
(* gone does, so CLOSING is part of OPEN here.                             *)
(***************************************************************************)
EXTENDS Naturals, Sequences

CONSTANT MaxConns      \* bound: number of WebSocket objects ever constructed

ASSUME MaxConnsAssumption == MaxConns \in Nat \ {0}

VARIABLES
  cliEnd,              \* cliEnd[e]: readyState of the browser's e-th WebSocket
  srvEnd,              \* srvEnd[e]: state of the ws socket accepted for it
  c2s,                 \* c2s[e]: sent by the browser, not yet taken by the server
  s2c,                 \* s2c[e]: sent by the server, not yet taken by the browser
  discarded            \* messages the browser dropped in send() on a CLOSED socket

transportVars == <<cliEnd, srvEnd, c2s, s2c, discarded>>

Conns == 1..MaxConns

CliStates == {"UNUSED", "CONNECTING", "OPEN", "CLOSED"}
SrvStates == {"UNUSED", "OPEN", "CLOSED"}

TransportTypeOK(Msg) ==
  /\ cliEnd \in [Conns -> CliStates]
  /\ srvEnd \in [Conns -> SrvStates]
  /\ c2s \in [Conns -> Seq(Msg)]
  /\ s2c \in [Conns -> Seq(Msg)]
  /\ discarded \subseteq Msg

\* The page's first WebSocket has just been constructed.
TransportInit ==
  /\ cliEnd = [e \in Conns |-> IF e = 1 THEN "CONNECTING" ELSE "UNUSED"]
  /\ srvEnd = [e \in Conns |-> "UNUSED"]
  /\ c2s = [e \in Conns |-> <<>>]
  /\ s2c = [e \in Conns |-> <<>>]
  /\ discarded = {}

\* Every failure of a connection (a break, a crash, a reload) needs a further
\* connection to recover with, so the last one of the bound does not fail:
\* behaviours with finitely many failures.
MayFail(e) == e < MaxConns

(* The handshake reaches the server: ws emits "connection" there before the
   browser hears of it; the browser may have given up meanwhile. *)
AcceptConnection(e) ==
  /\ cliEnd[e] # "UNUSED"
  /\ srvEnd[e] = "UNUSED"
  /\ srvEnd' = [srvEnd EXCEPT ![e] = "OPEN"]
  /\ UNCHANGED <<cliEnd, c2s, s2c, discarded>>

\* The server's end closes: ws emits "close" there.
ServerEndCloses(e) ==
  /\ srvEnd[e] = "OPEN"
  /\ MayFail(e) \/ cliEnd[e] = "CLOSED"
  /\ srvEnd' = [srvEnd EXCEPT ![e] = "CLOSED"]
  /\ UNCHANGED <<cliEnd, c2s, s2c, discarded>>

\* The server takes the next message of connection e.
ServerTakes(e) ==
  /\ srvEnd[e] = "OPEN"
  /\ c2s[e] # <<>>
  /\ c2s' = [c2s EXCEPT ![e] = Tail(@)]

\* ws.send(m): drops the data silently when the socket is not open.
ServerSends(e, m) ==
  s2c' = IF srvEnd[e] = "OPEN" THEN [s2c EXCEPT ![e] = Append(@, m)] ELSE s2c

\* The browser takes the next message of connection e.
ClientTakes(e) ==
  /\ cliEnd[e] = "OPEN"
  /\ s2c[e] # <<>>
  /\ s2c' = [s2c EXCEPT ![e] = Tail(@)]

=============================================================================
