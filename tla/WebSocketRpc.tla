----------------------------- MODULE WebSocketRpc -----------------------------
(***************************************************************************)
(* src/client/WebSocketRpc.ts over WebSocketClient and the JsonRpc of      *)
(* JsonRpc2.ts: the browser's side of the protocol.                        *)
(*                                                                         *)
(* A call made while disconnected waits in an in-memory buffer that        *)
(* CONNECT empties.  A notification made while disconnected is written to  *)
(* the "notification" object store of IndexedDB, and CONNECT starts a      *)
(* transaction whose cursor sends and deletes the stored ones.  IndexedDB  *)
(* is external (BrowserDb.ts:96,359 are its callers): read-write           *)
(* transactions over one store run one at a time in the order they were    *)
(* created; one whose callback throws is rolled back, and so is the one    *)
(* that is running when the page goes away; the store survives the page.   *)
(***************************************************************************)
EXTENDS WebSocketClient, JsonRpc2, Functions, FiniteSets

VARIABLES
  buffer,              \* requests waiting for CONNECT
  pending,             \* ids in this.rpc.pending
  promise,             \* state of the promise call() returned, per call
  ncalls,              \* calls made so far
  nnotes,              \* notifications sent so far
  store,               \* the "notification" store, in key order
  txs,                 \* its transactions, the running one first
  flushed,             \* what the running flush has sent and deleted so far
  rollbacks,           \* flushes rolled back after they had sent something
  forgotten            \* messages that died in memory with a page

rpcVars == <<buffer, pending, promise, ncalls, nnotes>>
dbVars == <<store, txs, flushed, rollbacks>>

\* An add that is not given its record.
AddTxEmpty(m) == [op |-> "add"]

AddTx(m) == [op |-> "add", msg |-> m]
FlushTx == [op |-> "flush"]
Transactions == [op : {"add"}, msg : Message] \cup {FlushTx}

PromiseStates == {"idle", "pending", "resolved", "rejected", "gone"}

RpcTypeOK ==
  /\ buffer \in Seq(Requests)
  /\ pending \subseteq Calls
  /\ promise \in [Calls -> PromiseStates]
  /\ ncalls \in 0..MaxCalls
  /\ nnotes \in 0..MaxNotes
  /\ store \in Seq(Message)
  /\ txs \in Seq(Transactions)
  /\ flushed \in Seq(Message)
  /\ rollbacks \in Nat
  /\ forgotten \subseteq Message

StoreInit ==
  /\ nnotes = 0
  /\ store = <<>>
  /\ txs = <<>>
  /\ flushed = <<>>
  /\ rollbacks = 0
  /\ forgotten = {}

RpcInit ==
  /\ buffer = <<>>
  /\ pending = {}
  /\ promise = [c \in Calls |-> "idle"]
  /\ ncalls = 0
  /\ StoreInit

-----------------------------------------------------------------------------
(* Sending.                                                                 *)

\* send(): to the socket when connected, else to the buffer.
SendOrBuffer(m) ==
  IF connected THEN SendData(<<m>>) /\ UNCHANGED buffer
               ELSE buffer' = Append(buffer, m) /\ UNCHANGED <<c2s, discarded>>

\* A notify() that does nothing while disconnected.
SendOrDrop(m) ==
  IF connected THEN SendData(<<m>>) /\ UNCHANGED txs
               ELSE UNCHANGED <<c2s, discarded, txs>>

\* The same test where the other branch is notificationDb.add: notify() and
\* the responses to the peer's requests.
SendOrStore(m) ==
  IF connected THEN SendData(<<m>>) /\ UNCHANGED txs
               ELSE txs' = Append(txs, AddTx(m)) /\ UNCHANGED <<c2s, discarded>>

\* The table's entry for call c, and its promise.
NewEntry(c) ==
  /\ c \in Calls
  /\ ncalls' = c
  /\ pending' = pending \cup {c}
  /\ promise' = [promise EXCEPT ![c] = "pending"]

\* call(): the request is in the table before it is sent.
Call ==
  /\ NewEntry(ncalls + 1)
  /\ SendOrBuffer(Request(ncalls + 1))
  /\ UNCHANGED <<cliEnd, srvEnd, s2c, clientVars, nnotes, dbVars, forgotten>>

\* notify()
Notify ==
  LET n == nnotes + 1 IN
  /\ n \in Notes
  /\ nnotes' = n
  /\ SendOrStore(Notification(n))
  /\ UNCHANGED <<cliEnd, srvEnd, s2c, clientVars, buffer, pending, promise,
                 ncalls, store, flushed, rollbacks, forgotten>>

-----------------------------------------------------------------------------
(* CONNECT and DISCONNECT.                                                  *)

\* flushBuffer() run before the flag is up: every message is buffered again.
FlushBufferBeforeFlag ==
  IF connected
  THEN c2s' = [c2s EXCEPT ![socket] = @ \o buffer] /\ buffer' = <<>>
  ELSE UNCHANGED <<c2s, buffer>>

\* flushBuffer() that does not take a fresh array for the buffer.
FlushBufferKeeps ==
  c2s' = [c2s EXCEPT ![socket] = @ \o buffer] /\ UNCHANGED buffer

\* flushBuffer() that sends the latest call first.
FlushBufferReversed ==
  /\ c2s' = [c2s EXCEPT ![socket] =
               @ \o [i \in DOMAIN buffer |-> buffer[Len(buffer) + 1 - i]]]
  /\ buffer' = <<>>

(* flushBuffer(): the array is replaced, then each message goes through
   send() again, which looks at the flag onOpen has just put up. *)
FlushBuffer ==
  IF connected'
  THEN c2s' = [c2s EXCEPT ![socket] = @ \o buffer] /\ buffer' = <<>>
  ELSE UNCHANGED <<c2s, buffer>>

\* A flush for the first connection only.
StartFlushOnce == txs' = IF socket = 1 THEN Append(txs, FlushTx) ELSE txs

\* flushNotifications() opens its transaction and returns.
StartFlush == txs' = Append(txs, FlushTx)

\* onOpen emits CONNECT, whose first listener is onSocketConnect.
OnOpen(e) ==
  /\ SocketOpens(e)
  /\ FlushBuffer
  /\ StartFlush
  /\ UNCHANGED <<discarded, pending, promise, ncalls, nnotes, store, flushed,
                 rollbacks, forgotten>>

\* Nothing of WebSocketRpc listens to DISCONNECT or ATTEMPT.
OnClose(e) == SocketCloses(e) /\ UNCHANGED <<rpcVars, dbVars, forgotten>>

OnAttempt == AttemptReconnect /\ UNCHANGED <<rpcVars, dbVars, forgotten>>

-----------------------------------------------------------------------------
(* The notification store.                                                  *)

Running(op) == txs # <<>> /\ Head(txs).op = op

\* A queued notificationDb.add stores its message and commits.
AddCommits ==
  /\ Running("add")
  /\ store' = Append(store, Head(txs).msg)
  /\ txs' = Tail(txs)
  /\ UNCHANGED <<transportVars, clientVars, rpcVars, flushed, rollbacks, forgotten>>

\* A cursor callback that forgets cursor.delete(): the record is still there
\* when the transaction commits.
CursorKeeps == store' = Tail(store) \o <<Head(store)>> /\ flushed' = flushed

CursorDeletes == store' = Tail(store) /\ flushed' = Append(flushed, Head(store))

\* The cursor of a flush is on the first record: send it, delete it, go on.
\* The socket is whichever is current now; isConnected() is not asked.
FlushSends ==
  /\ Running("flush")
  /\ store # <<>>
  /\ SendData(<<Head(store)>>)
  /\ CursorDeletes
  /\ UNCHANGED <<cliEnd, srvEnd, s2c, clientVars, rpcVars, txs, rollbacks, forgotten>>

\* A rollback that puts the deleted records back behind the others.
RollbackReorders ==
  /\ store' = store \o flushed
  /\ flushed' = <<>>
  /\ rollbacks' = IF flushed = <<>> THEN rollbacks ELSE rollbacks + 1

\* The deletes of the running flush are undone; what it sent stays sent.
Rollback ==
  /\ store' = flushed \o store
  /\ flushed' = <<>>
  /\ rollbacks' = IF flushed = <<>> THEN rollbacks ELSE rollbacks + 1

\* Same, but a newer socket is still CONNECTING: send throws inside the
\* cursor's success handler and IndexedDB aborts the transaction.
FlushAborts ==
  /\ Running("flush")
  /\ store # <<>>
  /\ SendThrows
  /\ Rollback
  /\ txs' = Tail(txs)
  /\ UNCHANGED <<transportVars, clientVars, rpcVars, forgotten>>

\* The cursor is past the last record: forEach resolves, the flush commits.
FlushCommits ==
  /\ Running("flush")
  /\ store = <<>>
  /\ flushed' = <<>>
  /\ txs' = Tail(txs)
  /\ UNCHANGED <<transportVars, clientVars, rpcVars, store, rollbacks, forgotten>>

-----------------------------------------------------------------------------
(* Receiving.                                                               *)

\* A resolve() that leaves the entry in the table.
SettleKeepsEntry(c, b) ==
  IF c \in pending
  THEN promise' = [promise EXCEPT ![c] = Outcome(b)] /\ UNCHANGED pending
  ELSE UNCHANGED <<pending, promise>>

\* A resolve() that trusts every response to have an entry.
SettleUnchecked(c, b) ==
  /\ pending' = pending \ {c}
  /\ promise' = [promise EXCEPT ![c] = Outcome(b)]

\* JsonRpc.resolve(): an entry is deleted, then its promise settled; a
\* response without an entry is only reported to raiseError.
Settle(c, b) ==
  IF c \in pending
  THEN /\ pending' = pending \ {c}
       /\ promise' = [promise EXCEPT ![c] = Outcome(b)]
  ELSE UNCHANGED <<pending, promise>>

\* onMessage() of a response.
OnResponse(e) ==
  /\ ClientTakes(e)
  /\ LET m == Head(s2c[e]) IN IsResponse(m) /\ Settle(m.id, m.body)
  /\ UNCHANGED <<cliEnd, srvEnd, c2s, discarded, clientVars, buffer, ncalls,
                 nnotes, dbVars, forgotten>>

-----------------------------------------------------------------------------
(* The user reloads the page.                                               *)

QueuedAdds == {t.msg : t \in {u \in Range(txs) : u.op = "add"}}

(* Memory is gone, the adds IndexedDB had not committed included.  The browser
   closes the socket.  The constructors run again and connect; the
   notification store is what was committed. *)
PageRestarts ==
  /\ MayFail(socket)
  /\ cliEnd' = [cliEnd EXCEPT ![socket] = "CLOSED", ![socket + 1] = "CONNECTING"]
  /\ socket' = socket + 1
  /\ connected' = FALSE
  /\ connecting' = TRUE
  /\ trying' = TRUE
  /\ Rollback
  /\ txs' = <<>>
  /\ forgotten' = forgotten \cup Range(buffer) \cup QueuedAdds
  /\ UNCHANGED <<srvEnd, c2s, s2c, discarded, nnotes>>

\* The promises that were unsettled are never heard of again.
PromisesGone == [c \in Calls |-> IF promise[c] = "pending" THEN "gone" ELSE promise[c]]

Reload ==
  /\ PageRestarts
  /\ buffer' = <<>>
  /\ pending' = {}
  /\ promise' = PromisesGone
  /\ UNCHANGED ncalls

-----------------------------------------------------------------------------
(* What the browser holds.                                                  *)

Copies(s, m) == Cardinality({i \in DOMAIN s : s[i] = m})

\* Held for a later flush.
Held(m) == m \in Range(store) \cup QueuedAdds

\* Where m is in the queues q.
Spots(q, m) == UNION {{<<e, i>> : i \in {j \in DOMAIN q[e] : q[e][j] = m}} : e \in Conns}

\* The copies of m on their way to the server.
InTransit(m) == Cardinality(Spots(c2s, m))

(* The pending table and the promises given out agree: an entry exists
   exactly while its promise is unsettled. *)
PendingTracksPromises == pending = {c \in Calls : promise[c] = "pending"}

(* Nothing is buffered while connected: a call made after the reconnection
   cannot overtake one made before it. *)
NothingBufferedWhileConnected == connected => buffer = <<>>

=============================================================================
