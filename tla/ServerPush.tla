------------------------------ MODULE ServerPush ------------------------------
(***************************************************************************)
(* The half of src/server/JsonRpcServer.ts that speaks first: broadcast,   *)
(* notify and call, towards several browsers.  Connection e is browser e.  *)
(*                                                                         *)
(* broadcast(), notify(id) and the socket's call() hand a method over as a *)
(* bare function (`ws.send`, `client.send`, `this.socket.send`).  Called   *)
(* without its object it throws a TypeError before it sends anything.      *)
(* Only JsonRpcServerSocket.notify() calls send on its socket.             *)
(***************************************************************************)
EXTENDS JsonRpcServer, FiniteSets, Functions

CONSTANT MaxPushes     \* bound: pushes the server attempts

ASSUME PushAssumption == MaxPushes \in 0..MaxNotes

VARIABLES
  npushes,             \* pushes attempted, each with its number
  audience,            \* audience[n]: the connections push n was meant for
  heard,               \* heard[e]: what browser e was handed, in order
  serverPending,       \* ids in the server's rpc.pending
  serverCalls          \* state of the promise of each server call

pushVars == <<npushes, audience, heard, serverPending, serverCalls>>
vars == <<transportVars, serverVars, pushVars>>

Init ==
  /\ cliEnd = [e \in Conns |-> "UNUSED"]
  /\ srvEnd = [e \in Conns |-> "UNUSED"]
  /\ c2s = [e \in Conns |-> <<>>]
  /\ s2c = [e \in Conns |-> <<>>]
  /\ discarded = {}
  /\ ServerInit
  /\ npushes = 0
  /\ audience = [n \in Notes |-> {}]
  /\ heard = [e \in Conns |-> <<>>]
  /\ serverPending = {}
  /\ serverCalls = [n \in Notes |-> "idle"]

-----------------------------------------------------------------------------
(* The server.                                                              *)

NextPush == npushes < MaxPushes /\ npushes' = npushes + 1

\* broadcast(..., ignore): forEach over the clients, every one but the ignored;
\* the first send throws, out of the forEach and out of broadcast.
Broadcast(ignore) ==
  /\ NextPush
  /\ audience' = [audience EXCEPT ![npushes + 1] = Range(clients) \ ignore]
  /\ UNCHANGED <<transportVars, serverVars, heard, serverPending, serverCalls>>

\* A socket's notify() that goes to every client there is.
NotifyEveryone(e, m) ==
  s2c' = [x \in Conns |-> IF x \in Range(clients) THEN Append(s2c[x], m) ELSE s2c[x]]

\* ws keeps nothing for a socket that is gone: the data is dropped.
NotifyOnly(e, m) == ServerSends(e, m)

\* JsonRpcServerSocket.notify(), from code that kept the socket object: it may
\* have been closed and unregistered by now.
SocketNotify(e) ==
  /\ NextPush
  /\ srvEnd[e] # "UNUSED"
  /\ NotifyOnly(e, Notification(npushes + 1))
  /\ audience' = [audience EXCEPT ![npushes + 1] = {e}]
  /\ UNCHANGED <<cliEnd, srvEnd, c2s, discarded, serverVars, heard, serverPending,
                 serverCalls>>

\* JsonRpcServerSocket.call(): the entry is made, then the pipe throws inside
\* the promise's executor, which rejects it; nobody removes the entry.
SocketCall(e) ==
  /\ NextPush
  /\ srvEnd[e] # "UNUSED"
  /\ serverPending' = serverPending \cup {npushes + 1}
  /\ serverCalls' = [serverCalls EXCEPT ![npushes + 1] = "rejected"]
  /\ UNCHANGED <<transportVars, serverVars, audience, heard>>

(* JsonRpcServer.notify(id): getClient compares the id with a member "id" that
   ws sockets do not have, so it finds nobody and notify returns false: the
   state does not change. *)

-----------------------------------------------------------------------------
(* The browsers (external here; WebSocketRpc has them in detail).           *)

BrowserMoves(e, from, to) ==
  /\ cliEnd[e] \in from
  /\ cliEnd' = [cliEnd EXCEPT ![e] = to]
  /\ UNCHANGED <<srvEnd, c2s, s2c, discarded, serverVars, pushVars>>

BrowserConnects(e) == BrowserMoves(e, {"UNUSED"}, "CONNECTING")
BrowserOpens(e) == srvEnd[e] # "UNUSED" /\ BrowserMoves(e, {"CONNECTING"}, "OPEN")
BrowserLeaves(e) == BrowserMoves(e, {"CONNECTING", "OPEN"}, "CLOSED")

BrowserHears(e) ==
  /\ ClientTakes(e)
  /\ heard' = [heard EXCEPT ![e] = Append(@, Head(s2c[e]).id)]
  /\ UNCHANGED <<cliEnd, srvEnd, c2s, discarded, serverVars, npushes, audience,
                 serverPending, serverCalls>>

Next ==
  \/ \E ignore \in {{}} \cup {{e} : e \in Conns} : Broadcast(ignore)
  \/ \E e \in Conns :
       \/ SocketNotify(e) \/ SocketCall(e)
       \/ BrowserConnects(e) \/ BrowserOpens(e) \/ BrowserLeaves(e)
       \/ BrowserHears(e)
       \/ (RegisterClient(e) \/ UnregisterClient(e)) /\ UNCHANGED pushVars

Spec == Init /\ [][Next]_vars

-----------------------------------------------------------------------------
(* A browser hears only what was meant for it, each push at most once and in
   the order the server made them, though it may miss some. *)
HeardInOrder ==
  \A e \in Conns :
    LET s == heard[e] \o [i \in DOMAIN s2c[e] |-> s2c[e][i].id]
    IN  /\ \A i \in DOMAIN s : e \in audience[s[i]]
        /\ \A i, j \in DOMAIN s : i < j => s[i] < s[j]

(* README.md:14: "a server can send messages to all clients to notify changes".
   A push reaches, or is on its way to, every client it was meant for whose
   connection has not closed since. *)
BroadcastReachesAll ==
  \A n \in 1..npushes, e \in Conns :
    (e \in audience[n] /\ srvEnd[e] = "OPEN" /\ cliEnd[e] = "OPEN") =>
      \/ Notification(n) \in Range(s2c[e])
      \/ n \in Range(heard[e])

=============================================================================
