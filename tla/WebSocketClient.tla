--------------------------- MODULE WebSocketClient ---------------------------
(***************************************************************************)
(* src/client/WebSocketClient.ts: one logical connection kept up over a    *)
(* succession of browser WebSockets.  An interval timer retries for ever;  *)
(* two flags, set by the socket's event handlers, tell the code where the  *)
(* current socket is in its life.                                          *)
(*                                                                         *)
(* The handlers are closures on the client, not on the socket: onopen or   *)
(* onclose of ANY socket writes the same flags.  What keeps an old socket  *)
(* from disturbing a new one is only that connect() refuses to construct a *)
(* second one while the first is alive.                                    *)
(***************************************************************************)
EXTENDS Transport

VARIABLES
  socket,              \* this.socket: the number of the latest WebSocket
  connected,           \* _connected
  connecting,          \* _connecting
  trying               \* reconnectHandler is armed

clientVars == <<socket, connected, connecting, trying>>

SocketTypeOK ==
  /\ socket \in Conns
  /\ connected \in BOOLEAN
  /\ connecting \in BOOLEAN
  /\ trying \in BOOLEAN

\* The constructor: flags false, the interval armed, then connect().
SocketInit ==
  /\ socket = 1
  /\ connected = FALSE
  /\ connecting = TRUE
  /\ trying = TRUE

-----------------------------------------------------------------------------
(* The effects of the methods, without the listeners of the emitter.        *)

\* A connect() that only looks at _connected.
MayConnectWhileConnecting == ~connected

\* The early return of connect().
MayConnect == ~connected /\ ~connecting

\* `new WebSocket(...)` and the flag set before it.
NewWebSocket ==
  /\ socket < MaxConns
  /\ socket' = socket + 1
  /\ connecting' = TRUE
  /\ cliEnd' = [cliEnd EXCEPT ![socket + 1] = "CONNECTING"]

\* An onOpen that forgets to take _connecting down.
FlagsOnOpenStuck == connected' = TRUE /\ UNCHANGED connecting

FlagsOnOpen == connected' = TRUE /\ connecting' = FALSE

\* An onClose that only takes _connected down.
FlagsOnCloseStuck == connected' = FALSE /\ UNCHANGED connecting

FlagsOnClose == connected' = FALSE /\ connecting' = FALSE

\* One tick of the interval: ATTEMPT is emitted, connect() is called.
AttemptReconnect ==
  /\ trying
  /\ MayConnect
  /\ NewWebSocket
  /\ UNCHANGED <<srvEnd, c2s, s2c, discarded, connected, trying>>

\* The browser's open event of socket e, as onOpen handles it.
SocketOpens(e) ==
  /\ cliEnd[e] = "CONNECTING"
  /\ srvEnd[e] # "UNUSED"
  /\ cliEnd' = [cliEnd EXCEPT ![e] = "OPEN"]
  /\ FlagsOnOpen
  /\ UNCHANGED <<srvEnd, s2c, socket, trying>>

\* The browser's close event of socket e, an error event before it or not:
\* a handshake that failed, a break, a close by the server.
SocketCloses(e) ==
  /\ cliEnd[e] \in {"CONNECTING", "OPEN"}
  /\ MayFail(e)
  /\ cliEnd' = [cliEnd EXCEPT ![e] = "CLOSED"]
  /\ FlagsOnClose
  /\ UNCHANGED <<srvEnd, c2s, s2c, discarded, socket, trying>>

\* stopTrying() cancels the interval.
StopTrying ==
  /\ trying
  /\ trying' = FALSE
  /\ UNCHANGED <<transportVars, socket, connected, connecting>>

\* socket.send throws InvalidStateError instead of taking the data.
SendThrows == cliEnd[socket] = "CONNECTING"

(* send() of the messages ms on the current socket when it does not throw:
   an OPEN socket takes them, a CLOSED one drops them without a word. *)
SendData(ms) ==
  /\ ~SendThrows
  /\ IF cliEnd[socket] = "OPEN"
     THEN c2s' = [c2s EXCEPT ![socket] = @ \o ms] /\ UNCHANGED discarded
     ELSE discarded' = discarded \cup {ms[i] : i \in DOMAIN ms} /\ UNCHANGED c2s

-----------------------------------------------------------------------------
(* Safety of the connection's life cycle.                                   *)

(* The two flags say exactly where the current socket is: _connected while it
   is OPEN, _connecting while it is CONNECTING, neither once it is CLOSED.
   Every caller of isConnected() relies on it (WebSocketRpc.ts:74,88,99,126). *)
FlagsTrackSocket ==
  /\ connected <=> cliEnd[socket] = "OPEN"
  /\ connecting <=> cliEnd[socket] = "CONNECTING"

(* The sockets before the current one are CLOSED and those after it do not
   exist: no abandoned socket is left that could still open, close or deliver
   a message into the client's handlers. *)
OneLiveSocket ==
  \A e \in Conns : /\ e < socket => cliEnd[e] = "CLOSED"
                   /\ e > socket => cliEnd[e] = "UNUSED"

=============================================================================
