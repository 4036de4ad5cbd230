------------------------------ MODULE RemoteSync ------------------------------
(***************************************************************************)
(* The synchronised database: WsDbClient (src/client/RemoteDbs.ts) with    *)
(* its ObservableDb, over the WebSocketRpc of a page, and RemoteDbServer   *)
(* with a MemoryDb, over JsonRpcServer.  One database of one collection.   *)
(*                                                                         *)
(* The page announces every write of its database to the server, the       *)
(* writes it makes because the server said so included, and asks for what  *)
(* it misses with a SYNC on every connection.  Notification n of the page  *)
(* says said[n]; the n-th notification of the server puts pushed[n].       *)
(* The keys of the collection are createId()'s, or, with the schema's      *)
(* option autoIncrement, IndexedDB's.                                      *)
(*                                                                         *)
(* Other browsers are external: broadcast() to any of them throws (see     *)
(* ServerPush), inside a promise nobody looks at, so they hear nothing and *)
(* all they can do to this page is to end the process.                     *)
(***************************************************************************)
EXTENDS WebSocketRpc, JsonRpcServer

CONSTANTS
  MaxWrites,           \* bound: writes of the application
  AppOps               \* the kinds of write it makes

ASSUME SyncAssumption ==
  /\ MaxCalls > 0      \* the constructor's
  /\ MaxWrites \in Nat
  /\ AppOps \subseteq {"add", "put", "delete"}

VARIABLES
  autoIncrement,       \* the schema's option: IndexedDB makes the keys
  db,                  \* the page's collection, as its transactions see it
  disk,                \* what of it IndexedDB has committed
  boot,                \* the SCHEMA call this.dbs waits for, 0 when resolved
  saved,               \* localStorage has the schema
  incoming,            \* remote records whose put has not been executed
  reading,             \* getAll requests of callSync under way
  said,                \* what the page's notifications say
  writes,              \* writes the application has made
  table,               \* the records of the server's MemoryDb
  pushed,              \* the records of the server's notifications
  log,                 \* what this server process has handled, in order
  refused              \* some SYNC was not answered

pageVars == <<autoIncrement, db, disk, boot, saved, incoming, reading, said, writes>>
remoteVars == <<table, pushed, log, refused>>
browserVars == <<clientVars, rpcVars, dbVars, forgotten, pageVars>>
vars == <<transportVars, browserVars, serverVars, remoteVars>>

\* Record 0 is there from the start; write n makes or changes a record, whose
\* value it makes n.
Keys == Nat
Values == 0..MaxWrites

\* undefined, where a record has no key.
NoKey == -1

\* stamped: the record has an updated_at, which only put() writes.
Record == [key : Keys \cup {NoKey}, val : Values, stamped : BOOLEAN]
Event == [op : {"ADD", "PUT"}, record : Record]
         \cup [op : {"DELETE"}, key : Keys]
         \cup [op : {"SYNC"}, since : BOOLEAN]

(* The type invariant. *)
TypeOK ==
  /\ TransportTypeOK(Message) /\ SocketTypeOK /\ RpcTypeOK /\ ServerTypeOK
  /\ autoIncrement \in BOOLEAN
  /\ db \subseteq Record /\ disk \subseteq Record
  /\ \A r \in db \cup disk : r.key # NoKey
  /\ boot \in {0} \cup Calls
  /\ saved \in BOOLEAN
  /\ incoming \in Seq(Record)
  /\ reading \in 0..MaxConns
  /\ said \in Seq(Event) /\ Len(said) = nnotes
  /\ writes \in Values
  /\ table \in Seq(Record)
  /\ pushed \in Seq(Record)
  /\ log \in Seq(Notes)
  /\ refused \in BOOLEAN

\* A first visit: no schema in localStorage, so the constructor calls SCHEMA.
Init ==
  /\ TransportInit /\ SocketInit /\ StoreInit /\ ServerInit
  /\ buffer = <<Request(1)>> /\ pending = {1} /\ ncalls = 1
  /\ promise = [c \in Calls |-> IF c = 1 THEN "pending" ELSE "idle"]
  /\ autoIncrement \in BOOLEAN
  /\ db = {} /\ disk = {} /\ boot = 1 /\ saved = FALSE
  /\ incoming = <<>> /\ reading = 0 /\ said = <<>> /\ writes = 0
  /\ table = <<[key |-> 0, val |-> 0, stamped |-> TRUE]>>
  /\ pushed = <<>> /\ log = <<>> /\ refused = FALSE

-----------------------------------------------------------------------------
(* The page's database.                                                     *)

WithoutKey(records, k) == {r \in records : r.key # k}

Put(records, r) == WithoutKey(records, r.key) \cup {r}

\* A transaction starts when the one before it has committed.
Idle == boot = 0 /\ disk = db

\* The event of a write reaches the server through notify().
Announces(e) == Notify /\ said' = Append(said, e)

(* What IndexedDB stores for the record it is given.  The key it makes, one no
   record has had, goes into its own copy: what it was given, and what the
   event has, stays without. *)
Stored(r) == IF r.key = NoKey THEN [r EXCEPT !.key = nnotes + 1] ELSE r

\* A new record gets a key by createId(), or waits for IndexedDB's.
Created(n) == IF autoIncrement THEN NoKey ELSE n

\* ObservableDb.add(): a new record, no updated_at.
Adds(n) ==
  LET r == [key |-> Created(n), val |-> n, stamped |-> FALSE]
  IN  db' = Put(db, Stored(r)) /\ Announces([op |-> "ADD", record |-> r])

\* ObservableDb.put(), on a record there is or on a new one.
Puts(k, n) ==
  LET r == [key |-> k, val |-> n, stamped |-> TRUE]
  IN  db' = Put(db, Stored(r)) /\ Announces([op |-> "PUT", record |-> r])

Deletes(k) ==
  db' = WithoutKey(db, k) /\ Announces([op |-> "DELETE", key |-> k])

AppWrites ==
  LET n == writes + 1
      present == {r.key : r \in db}
  IN  /\ Idle
      /\ n <= MaxWrites
      /\ writes' = n
      /\ \/ "add" \in AppOps /\ Adds(n)
         \/ "put" \in AppOps /\ \E k \in present \cup {Created(n)} : Puts(k, n)
         \/ "delete" \in AppOps /\ \E k \in present : Deletes(k)
      /\ UNCHANGED <<autoIncrement, disk, boot, saved, incoming, reading>>

\* A put of a remote record that does not tell the listeners.
PutsQuietly(r) ==
  /\ db' = Put(db, Stored(r))
  /\ UNCHANGED <<transportVars, clientVars, rpcVars, dbVars, forgotten, said>>

\* The put of a remote record is a put like any other: it stamps the record,
\* and is announced to the server.
PutsRemote(r) == Puts(r.key, r.val)

RemotePut ==
  /\ Idle
  /\ incoming # <<>>
  /\ incoming' = Tail(incoming)
  /\ PutsRemote(Head(incoming))
  /\ UNCHANGED <<autoIncrement, disk, boot, saved, reading, writes>>

\* The transaction of a write commits after its success event was handled.
WriteCommits ==
  /\ disk # db
  /\ disk' = db
  /\ UNCHANGED <<transportVars, clientVars, rpcVars, dbVars, forgotten,
                 autoIncrement, db, boot, saved, incoming, reading, said, writes>>

(* callSync(): sorted newest first, the last record gives lastUpdatedAt, or
   undefined if it was never put.  Comparing with undefined makes the order
   the engine's choice. *)
LastUpdatedKnown == IF db = {} THEN {FALSE} ELSE {r.stamped : r \in db}

SyncReads ==
  /\ reading > 0
  /\ disk = db
  /\ reading' = reading - 1
  /\ \E since \in LastUpdatedKnown : Announces([op |-> "SYNC", since |-> since])
  /\ UNCHANGED <<autoIncrement, db, disk, boot, saved, incoming, writes>>

-----------------------------------------------------------------------------
(* The page and its connection.                                             *)

\* A flushBuffer() that iterates over the fresh array.
FlushNothing(c) == <<Request(c)>>

\* flushBuffer(), and then the call of onRemoteConnect.
FlushThenAsk(c) == Append(buffer, Request(c))

\* CONNECT has a second listener, onRemoteConnect: after the two flushes the
\* schema is asked for.
RemoteConnect(e) ==
  LET c == ncalls + 1 IN
  /\ SocketOpens(e)
  /\ NewEntry(c)
  /\ c2s' = [c2s EXCEPT ![socket] = @ \o FlushThenAsk(c)]
  /\ buffer' = <<>>
  /\ StartFlush
  /\ UNCHANGED <<discarded, nnotes, store, flushed, rollbacks, forgotten, pageVars>>

\* The schema arrives: the databases of this page, or those of callSync.
OnSchema(e) ==
  /\ OnResponse(e)
  /\ saved' = TRUE
  /\ IF Head(s2c[e]).id = boot
     THEN boot' = 0 /\ UNCHANGED reading
     ELSE reading' = reading + 1 /\ UNCHANGED boot
  /\ UNCHANGED <<autoIncrement, db, disk, incoming, said, writes>>

\* onRemoteRecordPut(): the put waits for this.dbs.
OnRemotePut(e) ==
  /\ ClientTakes(e)
  /\ LET m == Head(s2c[e]) IN
       IsNotification(m) /\ incoming' = Append(incoming, pushed[m.id])
  /\ UNCHANGED <<cliEnd, srvEnd, c2s, discarded, clientVars, rpcVars, dbVars, forgotten,
                 autoIncrement, db, disk, boot, saved, reading, said, writes>>

\* The constructor: the databases of the schema in localStorage, or a call.
Boots ==
  IF saved
  THEN /\ boot' = 0 /\ buffer' = <<>> /\ pending' = {} /\ promise' = PromisesGone
       /\ UNCHANGED ncalls
  ELSE LET c == ncalls + 1 IN
       /\ c \in Calls
       /\ boot' = c /\ ncalls' = c
       /\ buffer' = <<Request(c)>> /\ pending' = {c}
       /\ promise' = [PromisesGone EXCEPT ![c] = "pending"]

\* A write whose transaction had not committed is undone.
PageReloads ==
  /\ PageRestarts
  /\ Boots
  /\ db' = disk
  /\ incoming' = <<>>
  /\ reading' = 0
  /\ UNCHANGED <<autoIncrement, disk, saved, said, writes>>

StoreStep == AddCommits \/ FlushSends \/ FlushAborts \/ FlushCommits

BrowserNext ==
  \/ AppWrites \/ RemotePut \/ WriteCommits \/ SyncReads
  \/ PageReloads
  \/ \E e \in Conns : RemoteConnect(e) \/ OnSchema(e) \/ OnRemotePut(e)
  \/ /\ \/ OnAttempt \/ StoreStep
        \/ \E e \in Conns : OnClose(e)
     /\ UNCHANGED pageVars

-----------------------------------------------------------------------------
(* The server.                                                              *)

\* MemoryDb.put(): the first record of that key is replaced.  Two records
\* without a key have the same: undefined === undefined.
MemoryPut(r) ==
  IF \E i \in DOMAIN table : table[i].key = r.key
  THEN LET first == CHOOSE i \in DOMAIN table :
                      /\ table[i].key = r.key
                      /\ \A j \in 1..(i - 1) : table[j].key # r.key
       IN  [table EXCEPT ![first] = r]
  ELSE Append(table, r)

\* MemoryDb.add() looks for nothing.
MemoryAdd(r) == Append(table, r)

\* A notification of the kinds ops is handed to its handler.
Handles(e, ops) ==
  /\ TakeNotification(e)
  /\ said[Head(c2s[e]).id].op \in ops

Heard(e) == said[Head(c2s[e]).id]

\* An onPut that answers its sender.
ToldOnSaveSender(e, r) ==
  /\ s2c' = [s2c EXCEPT ![e] = Append(@, Notification(Len(pushed) + 1))]
  /\ pushed' = Append(pushed, r)

\* Who is told of a saved record: nobody.
ToldOnSave(e, r) == UNCHANGED <<s2c, pushed>>

\* onAdd() and onPut(), whose broadcast found no other client, or threw in a
\* process that survives it.
Saves(e) ==
  /\ Handles(e, {"ADD", "PUT"})
  /\ LET r == Heard(e).record
     IN  /\ table' = IF Heard(e).op = "ADD" THEN MemoryAdd(r) ELSE MemoryPut(r)
         /\ ToldOnSave(e, r)
  /\ log' = Append(log, Head(c2s[e]).id)
  /\ UNCHANGED <<cliEnd, srvEnd, discarded, clients, work, ran, unanswered, refused>>

\* onSync() selects with a where clause whose filterRecord is called without
\* its object and throws, if there is a record to filter.
SelectThrows(e) == Heard(e).since /\ table # <<>>

\* onSync() that selects everything.  MaxNotes bounds what the server tells, too.
Syncs(e) ==
  /\ Handles(e, {"SYNC"})
  /\ ~SelectThrows(e)
  /\ Len(pushed) + Len(table) <= MaxNotes
  /\ s2c' = [s2c EXCEPT ![e] =
               @ \o [i \in DOMAIN table |-> Notification(Len(pushed) + i)]]
  /\ pushed' = pushed \o table
  /\ log' = Append(log, Head(c2s[e]).id)
  /\ UNCHANGED <<cliEnd, srvEnd, discarded, clients, work, ran, unanswered, table, refused>>

SyncFails(e) ==
  /\ Handles(e, {"SYNC"})
  /\ SelectThrows(e)
  /\ refused' = TRUE
  /\ log' = Append(log, Head(c2s[e]).id)
  /\ UNCHANGED <<cliEnd, srvEnd, s2c, discarded, clients, work, ran, unanswered,
                 table, pushed>>

(* The process ends, and the MemoryDb with it: by the unhandled rejection of a
   broadcast or of a select, or because delete(), not implemented, throws in
   the notification handler. *)
HandlerEndsProcess(e) ==
  /\ Handles(e, {"ADD", "PUT", "DELETE", "SYNC"})
  /\ Heard(e).op = "SYNC" => SelectThrows(e)
  /\ ProcessEnds
  /\ table' = <<>>
  /\ log' = <<>>
  /\ UNCHANGED <<cliEnd, s2c, discarded, ran, pushed, refused>>

ServerNext ==
  \E e \in Conns :
    \/ Saves(e) \/ Syncs(e) \/ SyncFails(e) \/ HandlerEndsProcess(e)
    \/ /\ RegisterClient(e) \/ UnregisterClient(e) \/ ReceiveRequest(e, "value")
       /\ UNCHANGED remoteVars

Next ==
  \/ BrowserNext /\ UNCHANGED <<serverVars, remoteVars>>
  \/ ServerNext /\ UNCHANGED browserVars

Spec == Init /\ [][Next]_vars

(* The platforms do their part, as in RpcSystem; the application and the
   failures owe nothing. *)
Fairness ==
  /\ WF_vars(OnAttempt /\ UNCHANGED <<serverVars, pageVars, remoteVars>>)
  /\ WF_vars(StoreStep /\ UNCHANGED <<serverVars, pageVars, remoteVars>>)
  /\ WF_vars((RemotePut \/ WriteCommits \/ SyncReads) /\ UNCHANGED <<serverVars, remoteVars>>)
  /\ \A e \in Conns :
       /\ WF_vars(/\ RemoteConnect(e) \/ OnSchema(e) \/ OnRemotePut(e)
                  /\ UNCHANGED <<serverVars, remoteVars>>)
       /\ WF_vars(/\ srvEnd[e] = "CLOSED" /\ OnClose(e)
                  /\ UNCHANGED <<serverVars, pageVars, remoteVars>>)
       /\ WF_vars(RegisterClient(e) /\ UNCHANGED <<browserVars, remoteVars>>)
       /\ WF_vars(/\ \/ Saves(e) \/ Syncs(e) \/ SyncFails(e)
                     \/ ReceiveRequest(e, "value") /\ UNCHANGED remoteVars
                  /\ UNCHANGED browserVars)

FairSpec == Spec /\ Fairness

-----------------------------------------------------------------------------
\* Nothing is on its way between the page and the server.
Quiet ==
  /\ cliEnd[socket] = "OPEN" /\ srvEnd[socket] = "OPEN"
  /\ c2s[socket] = <<>> /\ s2c[socket] = <<>>
  /\ incoming = <<>> /\ reading = 0

\* This server process has handled all the page ever announced, in order.
HandledInOrder == log = [n \in 1..nnotes |-> n]

\* Some record was announced as the record of key k.
SaidOf(k) ==
  \E n \in DOMAIN said : said[n].op \in {"ADD", "PUT"} /\ said[n].record.key = k

Agree ==
  /\ {table[i] : i \in DOMAIN table} = db
  /\ Len(table) = Cardinality(db)

\* The same of the records the server can tell from each other.
AgreeOnKeys ==
  LET keyed == {i \in DOMAIN table : table[i].key # NoKey}
  IN  /\ \A i \in keyed : table[i] \in db
      /\ \A i, j \in keyed : table[i].key = table[j].key => i = j
      /\ \A r \in db : SaidOf(r.key) => \E i \in keyed : table[i] = r

(* The two databases are equal when all is quiet, provided that the server
   handled the page's announcements once each and in order, and that no SYNC
   failed: the server's first record has reached the page, through
   connections lost before, during and after the SYNC; a SYNC that brought an
   old value back has had its echo; no record is stored twice.
   A collection whose keys IndexedDB makes announces new records without them,
   and no two such records can be told apart by the server, nor by the page
   that is sent them back: what the page has put under a key and announced is
   equal, still, and the rest need not be. *)
Converges ==
  (Quiet /\ HandledInOrder /\ ~refused) =>
    /\ AgreeOnKeys
    /\ ~(autoIncrement /\ SaidOf(NoKey)) => Agree

(* The announcement of a remote put is not answered with another: what the
   two sides have to tell each other comes to an end.  (Puts that wait for a
   schema that was lost with its connection wait for ever.) *)
EchoesEnd ==
  <>[](/\ c2s[socket] = <<>> /\ s2c[socket] = <<>>
       /\ boot = 0 => incoming = <<>>)

(* A page that asks for its first schema on the connection that lasts gets its
   databases, and then puts all that the server sends. *)
BootSettles ==
  (boot # 0 /\ Request(boot) \in Range(buffer \o c2s[MaxConns]) /\ socket = MaxConns)
    ~> (boot = 0 /\ incoming = <<>>)

=============================================================================
