# A verification project for ws-remoting

ws-remoting (`src/`) is a TypeScript library that gives a browser page and a
node server JSON-RPC 2.0 over one WebSocket kept up across breaks, an IndexedDB
wrapper, and a database that a server keeps in step between browsers. It has no
tests. `src/dist` is compiler output of `src/src`; every source line quoted here
and in `PROJECT.json` is under `src/src` (`src/README.md` for the doc).

This directory holds TLA+ specifications of it, TLC configurations that check
them on small instances, and proofs that TLAPS checks for every instance.
`tlc -config X.cfg M` runs a configuration, `tlapm M.tla` checks the proofs of a
module; these are the eight modules whose names end in `Proofs`.

## 1. Inventory

| component | state | operations | talks to |
|---|---|---|---|
| `WebSocketClient` | current socket, `_connected`, `_connecting`, the interval | `connect`, the events open / close / error / message, the retry tick, `stopTrying`, `send` | the browser's WebSocket; emits `CONNECT`, `DISCONNECT`, `ATTEMPT`, `DATA` |
| `JsonRpc` (`JsonRpc2.ts`), `Handlers` | table of pending requests; registered handlers | `call`, `resolve`, `notify`, `raiseError`; `run` | a `pipe` given by its owner |
| `WebSocketRpc` | buffer of requests; the `json_rpc` IndexedDB database with its `notification` store | `call`, `notify`, `onSocketConnect` (`flushBuffer`, `flushNotifications`), `onMessage` for the four kinds of message | `WebSocketClient`, `JsonRpc`, `Handlers`, `BrowserDb` |
| `JsonRpcServer`, `JsonRpcServerSocket` | list of clients, pending table of server calls | register / unregister, request, notification, `respond`, `broadcast`, `notify`, `call` | the `ws` package, `Handlers` |
| `EventEmitter` | live arrays of listeners | `on`, `off`, `emit`, `clear` | everybody |
| `BrowserDb`, `BrowserDbSelect` | one promise of an open database; IndexedDB | open / upgrade, `add`, `put`, `delete`, `clear`, reads, `forEach`, selects | IndexedDB |
| `ObservableDb`, `DbEvents` | an emitter per database | the writes of its database, each followed by an event | `BrowserDb` |
| `WsDbClient` (`RemoteDbs.ts`) | promise of the schema, local databases, the last sync | schema bootstrap, record events in both directions, `callSync` | `WebSocketRpc`, `ObservableDb` |
| `RemoteDbServer` | databases per user | `onAdd` / `onPut` / `onDelete` with broadcast, `SCHEMA`, `QUERY`, `SCALAR`, `SYNC` | `JsonRpcServer`, a `Db` |
| `MemoryDb` | collections as arrays | `add`, `put`, `delete`, `clear`, selects | none |
| queries (`DbFilters`, `DbSelect`, `DbSort`) | builders | compose filters, order, page | the databases |

### What is hard here

* **Two ends, two truths.** A break is seen by the two sides at different
  times, and everything between the last `isConnected()` and the next event is
  decided on a flag. Flags are written by the handlers of *every* socket ever
  constructed; only `connect()`'s early return keeps an old one quiet.
* **Two stores for what was said offline.** Requests wait in memory, die with
  the page and are flushed synchronously; notifications wait in IndexedDB,
  survive the page, and are flushed by a cursor whose callbacks are events of
  their own, over whatever socket is current then, with a rollback if one
  throws.
* **Promises without an owner.** A handler's promise outlives the connection
  its request came on; one that rejects has no callback at all, on either side.
* **Process and page die.** A throwing notification handler ends the server; a
  reload ends the page in the middle of a flush.
* **Echo and staleness** in the synchronised database: a record written because
  the server said so is announced to the server again.
* **Listeners that change what is being walked.** `emit` runs over the live array
  of its event, and listeners remove, add, throw and emit.
* **Databases that are never closed.** Every SCHEMA answer opens the database
  again; two pages share its stores, and a newer schema waits for connections
  that nobody closes.

`PROJECT.json` lists each of these at the line where it bites, with the
properties that watch it.

### What makes each component correct

* *WebSocketClient*: flags and socket agree; one socket is alive at a time; as
  long as nobody stops it the page gets connected again.
* *WebSocketRpc / JsonRpc*: a call is never duplicated, never overtakes an
  earlier one, settles at most once with an answer to itself; a stored
  notification is kept in order, and sent again only after a rollback.
* *JsonRpcServer*: the client list is exactly the open sockets; a request is
  handled and answered at most once, on its own socket; what is addressed to a
  browser is heard by it alone and in order.
* *EventEmitter*: an emission reaches every listener of its event except for what
  removals during it cost, and none twice, unless it was removed meanwhile.
* *BrowserDb*: a database that was opened stays usable whatever schemas come;
  an open waits for ever only behind a connection that stays open; what two pages
  take from one store they take once.
* *The replicas*: they agree once all is quiet, and what they say to each other
  comes to an end.
* *Queries*: sorting, paging and joining filters do what their definitions say,
  and the two back ends agree, as far as the code lets them.

## 2. Modules

| module | models | lines of code |
|---|---|---|
| `Transport` | external: WebSocket connections with two ends and a queue each way | - |
| `WebSocketClient` | flags, socket, retry, `send` | `client/WebSocketClient.ts` |
| `JsonRpc2` | messages, what a response carries after `JSON.stringify`, handlers by kind | `common/JsonRpc2.ts`, `common/Handlers.ts` |
| `WebSocketRpc` | the browser's side: call, notify, flushes, store, answers, reload | `client/WebSocketRpc.ts`, parts of `JsonRpc2.ts`, `BrowserDb.ts` |
| `JsonRpcServer` | the server's side: clients, requests, notifications | `server/JsonRpcServer.ts` |
| `RpcSystem` | the composition of the two | |
| `RpcCall` | abstract: what a remote call promises | `README.md`, comments of `JsonRpc2.ts` |
| `EventEmitter` | `on`, `off`, `emit` over the live array | `common/EventEmitter.ts` |
| `ReconnectingSocket` | the composition of `WebSocketClient`, `EventEmitter` and an application | `client/WebSocketClient.ts` |
| `RpcPeer` | `WebSocketRpc` serving a peer that asks, tells, and answers anywhere | `onMessage`, `Handlers.run`, `raiseError` |
| `ServerPush` | `broadcast`, `notify`, `call` towards several browsers | `server/JsonRpcServer.ts` |
| `RemoteSync` | the synchronised database on both sides | `client/RemoteDbs.ts`, `client/ObservableDb.ts`, writes of `client/BrowserDb.ts`, `server/RemoteDbServer.ts`, `common/MemoryDb.ts` |
| `BrowserDatabase` | the instances of `BrowserDb` that the pages of an origin make, opening, upgrades, operations in transactions | `client/BrowserDb.ts`, `client/ObservableDb.ts`, schemas of `client/RemoteDbs.ts` |
| `Queries`, `MCQueries` | the builder, filters, sorting, paging, against both databases | `common/DbSelect.ts`, `DbFilters.ts`, `DbSort.ts`, `MemoryDb.ts`, `client/BrowserDbSelect.ts` |
| `WebSocketRpcProofs` | lemmas about the browser's side, for the modules that extend it | |
| `RpcSystemProofs`, `RpcPeerProofs`, `ServerPushProofs`, `ReconnectingSocketProofs`, `BrowserDatabaseProofs`, `RemoteSyncProofs`, `QueriesProofs` | theorems about the modules they are named for | |

`WebSocketRpc` extends `WebSocketClient` and `JsonRpc2`, which stand on
`Transport`; `RpcSystem` and `RemoteSync` extend `WebSocketRpc` and
`JsonRpcServer`. The components' actions leave the other side's variables to the
composition. `EventEmitter`, `BrowserDatabase` and `Queries` depend on none of
these; `ReconnectingSocket` extends `WebSocketClient` and `EventEmitter`.

### How state and actions correspond

*One action is one run of an event loop*, with everything the code does before
it returns. `OnOpen` is the browser's open event: the flags (`onOpen`), then the
CONNECT listener, which empties the buffer and opens the flush transaction.
`Call` puts the entry in the table and then sends or buffers. `OnResponse`
removes the entry and settles the promise. `ReceiveRequest` runs the handler
and answers at once when its result is no promise; `PromiseResolves` is the
continuation of one that is. `Reload` is the page going away and its
constructors running again.

*Connections are numbered* in the order the browser constructs its sockets, so
`socket` is `this.socket`. A connection has `cliEnd` (the browser's
`readyState`) and `srvEnd` (the server's), because the code on each side acts on
its own. Messages a closing end had not read stay in their queue, where nobody
reads them, so that properties can say where a message ended.

*The notification store* is a sequence in key order and a queue `txs` of
transactions. IndexedDB runs read-write transactions over one store one at a
time, in the order they were created. `AddCommits` is a queued
`notificationDb.add`; a flush sends and deletes one record per cursor callback
(`FlushSends`), which does not ask `isConnected()`: a CLOSED socket swallows the
record (`discarded`), a CONNECTING one throws, and the transaction is rolled
back (`FlushAborts`) while what it sent stays sent.

*Handlers* are a choice of kind per request: missing, returns a value, returns
nothing, throws, returns a promise that resolves or one that rejects. What
the response is left with after `JSON.stringify` is its `body`: a member whose
value is `undefined` is dropped, an `Error` becomes `{}`.

*The synchronised database* adds to a page its collection as its transactions
see it (`db`) and as IndexedDB has committed it (`disk`): a write is announced at
its success event, before its transaction commits, so a reload can undo a write
the server was told of. `incoming` holds the remote puts that wait for `this.dbs`
or for IndexedDB, `reading` the `getAll` of a `callSync`. Keys are made by `createId()`
or, with the schema's `autoIncrement`, by IndexedDB: then the key of a new record is
in IndexedDB's copy alone (`Stored`), what is announced has none (`NoKey`), and the
server, which compares `undefined` with `undefined`, takes all such records for one
(`MemoryPut`). Both kinds of collection are initial states. The notifications are
those of `WebSocketRpc`, so they are lost, stored and replayed as there; `said`
and `pushed` have what they say. Of `updated_at` only whether a record has one is
kept, because the server never compares it: `MemoryDbSelect.all` hands
`filterRecord` over without its object and throws for the first record.
Other browsers are not modelled: they hear nothing (`broadcast` throws), and what
they can do to this page is to make a broadcast throw in a node that then ends,
which `HandlerEndsProcess` allows at any save.

*The emitter* keeps the walk of each `emit` on a stack, because a listener may
emit too: the index it has come to, and the length the array had when it began,
which is what `forEach` goes by. The array is not in the walk: it is read where
`on` and `off` change it. In `ReconnectingSocket` a browser event or a tick of
the interval is a job: its emission has returned before the next job begins,
and `connect()` of a tick comes after the listeners of ATTEMPT (`TickEnds`).

*The browser's database* (`BrowserDatabase`) is one IndexedDB database with one
store and a list `dbs` of the `BrowserDb` instances ever made, in the order of
their open requests, which is the order IndexedDB takes them in. An instance has
its `promise` (`this.open`) and its `link`, the request or connection IndexedDB
has for it: the two part when a request is blocked, because `onblocked` rejects
and the request stays. Operations wait for the promise, then stand in `txs`, the
queue of transactions over the store, which is that of all pages. A record is
named by the operation that added it, so `sent` can count how often one was
handed on by a cursor that deletes (the notification flush is one). A request's
success and its transaction's commit are two actions.

*Queries* are built by the calls of `DbSelect` and its filters and run against
a `MemoryDb` and a `BrowserDb` that hold the same records. A filter expression
is a list of nodes with the operation that links each to the next; an order is
the list of its keys. A missing offset or limit is `Undefined`, and 0 counts as
missing wherever the code tests it. `MemoryDbSelect` without a filter sorts the
collection itself, so a select is an action.

*History variables* (`log`, `refused`, `ran`, `got`, `unanswered`, `forgotten`, `discarded`,
`rollbacks`, `audience`, `heard`, `received`, `sent`, `undone`, and `called`,
`removed` and `removals` of an emission) only let properties follow what happened; no guard
reads one.

## 3. What is checked

Passing runs:

| run | bounds | shows |
|---|---|---|
| `calls` | 3 connections, 2 calls, all kinds that answer, and rejections | `CallInOnePlace`: a call is in exactly one of buffer, connection, handler, answer, settled, or one of two recorded ways to be lost, through breaks, reloads and restarts. `NoUnmatchedResponse`, `CallsInOrder`, `PendingTracksPromises`, `NothingBufferedWhileConnected`, the flags, the client list, and `ImplementsRpcCall`, the refinement of `RpcCall`. |
| `notes` | 3 connections, 3 notifications, handlers that may kill the server | `NoteAccounted`, `OfflineOrderKept` through rollbacks and reloads, and `DuplicatesOnlyAfterRollback`: the copies sent exceed one only by the flushes rolled back. |
| `progress` | 3 connections, 1 call, 1 notification, fairness | `Reconnects`, `BufferDrains`, `StoreDrains`, `StableCallSettles`. |
| `socket` | 3 connections, 3 listeners, 2 acts of the application, fairness | `MissesAtMostRemovals`: an emission misses no more listeners than were removed during it, whoever throws or emits; `HeardTwiceOnlyIfRemoved`: it calls none twice unless that one was removed meanwhile; `ConnectedUnlessStopped`, with `stopTrying` at any moment, also from a listener. |
| `serving` | 3 connections, a request, a call and a notification each way | `AskedAccounted`, `AnsweredOnceOrReplayed`, `PromisesFinal` against a peer that answers on any connection, to a later page too. |
| `push` | 2 browsers, 3 pushes | `HeardInOrder`. |
| `sync` | 2 connections, 2 writes of any kind, a server that has a record | `Converges`: quiet means equal, if the server handled the page's announcements once each and in order and no SYNC failed; with keys made by IndexedDB, equal in what was announced under a key. Both kinds of collection. |
| `echoes` | 2 connections, 1 write, fairness | `EchoesEnd`, `BootSettles`. |
| `database` | 2 pages, 2 schema versions, 3 instances, 2 operations, fairness | `OpenedStaysUsable`, `ConsumedOnce`, `OpensUnlessHeldUp`, `OperationsSettle`, for a first visit and a later one. |
| `queries` | tables of up to 3 records with two fields, 3 calls of the builder or the databases, 2 terms and what one `and` or `or` makes of them | `OrderedByLastKeyFirst`, `MemoryPagesPartition`, `BackEndsAgree`, `AndNarrowsOrWidens`. |

Runs that find the code at odds with what is written about it:

| run | says | the code |
|---|---|---|
| `doc_call_settles` | README.md:7-9: wait for the server, resolve the promise | a request is forgotten once the socket has it; a break before the answer leaves the promise pending for ever |
| `doc_broadcast` | README.md:14: the server can send messages to all clients | `broadcast` calls `ws.send` without its object and throws |

`Converges` says under which conditions the two databases agree, and each one is
there because the code needs it. Without `HandledInOrder`: a write announced on
a connection that breaks is lost and never announced again, one announced
offline can be overtaken by a later one, one replayed after a rollback can be
added twice. Without `~refused`: a page that has put a record asks for what is
newer than it and gets nothing, so what it missed stays missing. And where IndexedDB
makes the keys, a new record announced without one is all it takes: the server keeps
it without a key, the next such `put` replaces it, and a SYNC brings it back to the page,
which stores it a second time, under a key of its own. Of such a collection `Converges`
promises only what was announced under a key (`AgreeOnKeys`). The echo of a
remote put looks superfluous and is not: the SYNC of a page that has just written
can bring its own older value back, and it is the echo that takes that value to
the server too (the mutant without it violates `Converges`). The later write is
then lost on both sides. And `EchoesEnd` holds because `broadcast` does not work:
two pages that heard of each other's announcements would put the same record for
ever.

`OpensUnlessHeldUp` has its condition because a page can hold itself up: a later
connection's SCHEMA answer opens the database in the new version while the page's
own older connection is open, and nothing closes that (`RemoteDbs.ts:56`, no
listener of `versionchange`). `OperationsSettle` does not cover a `forEach` whose
callback throws; its promise is never settled. `AndNarrowsOrWidens` speaks of
expressions and `BackEndsAgree` of first pages from offset 0, because of a single
term, of a second page and of a limit without an offset neither is true (below).

Also seen while modelling, each built into the module named, without a run of its
own:

* *JsonRpc, server*: the browser must be answered (`JsonRpc2.ts:51`), but a
  handler's rejected promise has no callback and nothing is sent (`JsonRpcServer`);
  `respond` puts an `Error` into the response, which `JSON.stringify` writes as
  `{}`, where `JsonRpc2.ts:29` asks for an object with code and message; a request
  handler gets the whole request, a notification handler its parameters
  (`JsonRpcServer.ts:147`); `raiseError` looks for the error handler as a member of
  the method `getHandler` and never finds one (`JsonRpc2.ts:171-175`).
* *EventEmitter*: a listener removed during an emission makes the walk skip the
  next one, where `EventEmitter.ts:50` says all (`EventEmitter`).
* *BrowserDb*: a blocked request whose promise was rejected upgrades the database
  later and leaves a connection no code can reach (`BrowserDb.ts:34`); a SCHEMA
  answer that was on its way while the schema changed puts the older one back, and
  the next page is refused with a VersionError; `ObservableDb.getAllKeys` does not
  pass its count on (`BrowserDatabase`).
* *WsDbClient*: a new record of a collection with `autoIncrement` is announced without
  its key (`BrowserDb.ts:105`, `:142`), so that the server cannot tell it from another
  (`RemoteSync`).
* *Queries*: a `limit()` without `offset()` is ignored by a `MemoryDb`, whose end is then
  `NaN` (`MemoryDb.ts:85`), and honoured by a `BrowserDb`; `BrowserDbSelect.ts:39` takes the limit for an end index, so that a
  page past the first is short; `andWhere` and `orWhere` on a single term drop it
  (`DbSelect.ts:34`); the order given last decides (`DbSort.ts:37`);
  `clear()` of a `MemoryDb` leaves an object where the array was, and every later
  `add` throws (`Queries`).

### Bounds

`MaxConns` bounds the sockets ever constructed. Every failure (a break, a
refused handshake, a reload, a restart) uses one up, so three connections are two
failures in every position relative to two calls or three notifications: enough
for a message to be flushed on one connection, rolled back by the failure of the
next attempt, and replayed on a third. `MayFail` keeps the last connection of
the bound from failing: these are the behaviours with finitely many failures,
which is what the liveness properties are about; the safety properties lose only
failures beyond the bound. Three notifications are what an order needs to be
broken by a partial flush; two calls are what it takes to overtake. `MaxCalls`,
`MaxNotes`, `MaxWrites`, `MaxPushes`, `MaxAsked` and `MaxTold` bound what each side says.
In `socket` two acts of the application are a removal and a second thing inside
one walk, or an emission from a listener and what happens in it; with three
listeners a walk has one before and one after the one removed. In `database`
three instances are those of both pages and one that a reload or a later SCHEMA
answer makes, so that an old connection, a newer request and one behind it can
wait for each other; two operations are two pages in one store. In `queries` three
steps reach expressions of expressions, two orders with a page, and a change of
the table between two reads; `Values` has two members, so records tie in every way.
The runs of `RemoteSync` have one failure, which can fall anywhere in the
bootstrap, in a SYNC or between an announcement and its commit, and two writes,
so that the second can be overwritten by the first. Their `MaxCalls` (two SCHEMA
calls per connection, the constructor's and that of `onRemoteConnect`) and
`MaxNotes`, which bounds what the server tells the page as well, are above what their
behaviours use, so that these two bounds cut nothing off: larger ones reach the same
number of states.
`CHECK_DEADLOCK FALSE` is said in every configuration because a system whose
bounded calls and failures are used up has nothing left to do.

### Fairness

`FairSpec` assumes what the platforms give: the interval keeps firing
(`OnAttempt`), the server accepts a handshake (`RegisterClient`) and the browser
hears of it (`OnOpen`), a close by the server reaches the browser (`OnClose`
when `srvEnd` is CLOSED), a message in the queue of an open end is delivered
(`ServerReads`, `OnResponse`), IndexedDB runs its transactions, a handler's
promise settles; in `RemoteSync` also that writes are executed and committed. Weak fairness is enough: each of these stays enabled until it
happens or its connection dies. Nothing is assumed of breaks, reloads, calls
or notifications.

In `ReconnectingSocket` a socket's event waits while another job runs, so it is
not continuously enabled; an event loop takes each queued event sooner or later,
and its delivery is strongly fair. In `BrowserDatabase` only IndexedDB is fair:
its open requests and its transactions go on. Reloads, schemas and operations are
not, and a connection that stays open for ever is a behaviour of its own.

`StableCallSettles` holds in its run for handlers without rejections: the promise
of a call whose handler rejects stays pending on any connection.

## 4. What is proved

Every invariant and every action property that a run checks is also a theorem of
its module's `Spec`, and so is the refinement of `RpcCall`: for every value of the
bounds, every set of handler kinds, terms or kinds of write, every number of browsers
and every finite set of listeners and pages. What is used of the constants are the
assumptions the modules state of them, which TLC evaluates in the runs: `MaxConnsAssumption`, `JsonRpcAssumption`, `PushAssumption`,
`PeerAssumption`, `SocketAssumption`, `SyncAssumption`, `BoundsAssumption` and
`QueriesAssumption`. The proofs speak of the bounded modules: a bound that no
behaviour reaches is no restriction, one that is (`MaxConns` and failures) is said
under Bounds.

In the proofs, a step `PICK x : x = e` names an expression so that the provers see a
constant where its structure does not matter.

Hardly any of the properties is inductive. What follows names, for each module, the
invariant that is, and what it adds and why.

`WebSocketRpcProofs` holds no theorem listed in `PROJECT.json`. It has the lemmas
about the browser's side that `RpcSystem`, `RpcPeer` and `RemoteSync` share, because
each of them runs the same actions beside different others: what each action does
to the types, what it does to a queue that gains messages at its end or loses its
first, how many copies of a message are on their way (`Count`), and what can be in
the notification store, its transactions and a running flush taken as one line
(`InLine`, `OnceInLine`, `CopiesBounded`).

`RpcSystemProofs`:

* `TypeCorrect`: `Spec => []TypeOK`.
* `SocketCorrect`, `OneSocketCorrect`: `Spec => []FlagsTrackSocket` and
  `Spec => []OneLiveSocket`. Neither is inductive: an open event of an abandoned
  socket would break the flags, and a flag that is down while a socket is alive
  would let `connect()` abandon it. `SocketInv` holds the two together, with the
  fact that the current socket has been constructed: then the only socket whose
  events can happen is the current one.
* `BufferCorrect`, `PendingCorrect`: `[]NothingBufferedWhileConnected`,
  `[]PendingTracksPromises`. The flag goes up only in `OnOpen`, which empties the
  buffer in the same event; a call is buffered only with the flag down.
* `ClientsCorrect`: `[]ClientsAreOpen`, inductive with the types; the splice by index
  is where the proof has work to do.
* `NotesAccounted`: `[]NoteAccounted`. What is gone (on its way, at the server, or
  dead in a recorded way) stays gone, and what the browser holds it holds until it
  is gone; a flush lets go of a record only by sending it.
* `OfflineOrderCorrect`: `[]OfflineOrderKept`. `NoteOrder` puts what the running flush
  has sent, the store, the adds in `txs` and the next number in one line; a rollback
  puts the front of the line back where it was.
* `DuplicatesCorrect`: `[]DuplicatesOnlyAfterRollback`. The property bounds the copies
  ever sent of a notification by one more than the rollbacks; that alone does not
  survive the next flush. `CopyInv` adds that nothing is in the line twice, and
  that while a notification waits to be sent its copies are at most the rollbacks:
  whichever copies there are, a flush that was undone made them.
* `OnePlaceCorrect`: `[]CallInOnePlace`. That a call is in one place says nothing of
  what else could put it in a second one, so `CallInv` adds what each queue can
  hold: the notification store, its transactions and what a flush has sent hold no
  request (a rollback cannot bring one back), the server sends answers only,
  connections not yet made are empty, and a call that is with the current page is
  pending. Each action then moves a call along at most one step of the way, which
  the lemmas on places (`StagesMove` and those after it) say once for queues that
  lose their head, are joined or cleared.
* `ResponsesMatch`: `[]NoUnmatchedResponse`, a consequence of `CallInv`: an answer on a
  live socket is one to a call of this page, which is pending.
* `CallOrderCorrect`: `[]CallsInOrder`, from `CallInv`: what is buffered has a smaller
  number than the next call and a larger one than what the socket has.
* `SystemImplementsRpcCall`: `Spec => ImplementsRpcCall`. The refinement mapping is
  the identity on `promise` and `ran`; the abstract set `served` is read off the
  queues: the calls that are neither buffered, forgotten nor on their way to the
  server (`Served`). Each action maps to one abstract action or to a stutter. That a
  call moves into `Served` only when the server takes its request, and only once,
  is where `CallInv` is needed; that a promise resolves only if its handler ran once
  is `RanInv`: it has not run for what is not served, has run once for what a
  handler is working on and for every answer on its way that is not an error.

`RpcPeerProofs`:

* `TypeCorrect`; `FinalCorrect`: `Spec => PromisesFinal`. `PromiseInv`: the table is
  exactly the pending promises and the next call's promise has had no owner.
* `AskedCorrect`: `[]AskedAccounted`. `AskedInv` says that a request of the peer is at
  one stage (waiting, with a handler, dead with its page, answered), that each stage
  holds it once, and that no second answer to it exists anywhere. Answers go
  through the notification store like announcements, so `LineInv` is needed: nothing
  is in line twice, and what a running flush has sent is on its way or gone, so that
  neither the commit nor the abort of a flush makes an answer vanish or appear.
* `ReplaysCorrect`: `[]AnsweredOnceOrReplayed`, by `ReplayInv`, which is to answers
  what `CopyInv` is to notifications.

`ServerPushProofs`:

* `HeardCorrect`: `[]HeardInOrder`. `PushInv` says of each browser's line, what it has
  heard followed by what is in its queue, what the property says of what it heard.

`ReconnectingSocketProofs`:

* `TypeCorrect`; `EmissionsReach`: `[]MissesAtMostRemovals`. A walk of `emit` counts
  its removals, but what it misses it misses later, when the index passes over the
  listener that moved into a place already visited. `LossesAreRemovals` counts them
  when they happen: the listeners a walk began with, has not called, and will not
  come to any more are at most the removals. A removal costs at most one, because
  the splice moves only one listener over the index; `on` and emissions from
  inside cost nothing; at the end of the walk nobody is still to come, so that is
  the property.
* `RepeatsAreOfRemoved`: `[]HeardTwiceOnlyIfRemoved`. The array is live, so who is called
  is decided where the walk meets it later: `WalksInv` says that no array holds a
  listener twice, that a listener which was called and not removed since is registered
  behind the index, and so is not met again.

`BrowserDatabaseProofs`:

* `TypeCorrect`; `OpenedCorrect`: `[]OpenedStaysUsable`. `DbInv` adds that an
  operation's instance exists and that a page uses an instance of its own, made
  since it was loaded: the only way to begin a transaction on a connection that is
  gone would be through another page's, or an earlier one's.
* `ConsumedCorrect`: `[]ConsumedOnce`. `StoreInv` adds that a transaction is in line
  once, that only the first of the line can have begun and sees what was committed
  less what it took, and `Covered`: the times a record was handed on, plus one if
  the store still holds it, are covered by writes and undone cursors, for the store
  as the transaction sees it and as it would be if the transaction failed now.

`RemoteSyncProofs`:

* `TypeCorrect`. The bound of `reading` is not a type but a count: `AskInv` says that
  on a connection at most one SCHEMA call or answer is under way besides the one
  `this.dbs` waits for (`Asks`), so that every connection adds at most one `getAll`.
* `ConvergesCorrect`: `[]Converges`. `Converges` speaks of quiet states only; the
  invariants say what holds on the way there.
  - `BaseInv`, `QueueInv`: types, and that every message on its way or in line says
    something that was said. `KeysInv`, `FirstInv`, `DbInv`: records have keys that
    were made (none is above `Newest`, which counts them as `createId()` or IndexedDB
    does), an ADD with a key is the first that is said of it, and what is in the
    collection has a key of its own and was announced, under it or, if anything ever
    was announced without a key (`Keyless`), perhaps so. Only a collection whose
    keys IndexedDB makes can be `Keyless`.
  - `TableInv`: as long as this server process handled announcements in the order
    they were said, its table has each key once, with the record last told, and all
    that was told; it says nothing of the records that have none.
  - `CycleInv`: while the connection is up and nothing went wrong (`Works`), of each
    key one of four things is true (`InHand`): the page has the record as it last told
    it, or neither side has one (`Stands`); a SYNC of this connection is still to be
    asked (`WillAsk`); a SYNC is on its way behind all that was said of the key
    (`SyncAhead`); or the server's record is on its way to the page or waits there
    for its put (`Coming`). Each step of the protocol takes a key from one to the
    next: the answer to SCHEMA leads to `getAll`, that to a SYNC, the SYNC to the
    server's records, and the put of one to an announcement after which the key
    stands: the echo. A break ends `Works`, and `onRemoteConnect` begins again with
    `WillAsk`. When all is quiet only `Stands` is left, and with `TableInv` it makes
    the two sides equal: in all the keys that were announced, and in everything if
    nothing is `Keyless`, because then every record of either side was.

`QueriesProofs`:

* `TypeCorrect`; `JoiningCorrect`: `Spec => AndNarrowsOrWidens`; `OrderedCorrect`:
  `[]OrderedByLastKeyFirst`; `BackEndsCorrect`: `[]BackEndsAgree`; `PagesCorrect`:
  `[]MemoryPagesPartition`. The inductive invariant, `QueriesInv`, is about the state
  (what a builder can have made; that the two databases hold the same records while
  the array is one). The work is in the operators, which are defined by recursive
  functions over an expression's nodes, an order's keys or a table's records. The
  induction theorems of the library take a predicate, which the provers cannot
  instantiate; each induction here is over the set of the numbers for which the
  statement holds, which `Upwards` shows to be all of them by the least number that
  is not in it.

Only model-checked are the properties with fairness: `Reconnects`, `BufferDrains`,
`StoreDrains`, `StableCallSettles`, `ConnectedUnlessStopped`, `EchoesEnd`,
`BootSettles`, `OpensUnlessHeldUp` and `OperationsSettle`. They are about `ENABLED`
and `WF_` or `SF_` of the actions, outside what the prover supports.

## 5. What is not modelled

* *In modelled components*: message contents, the console, `Blob` data (a message
  is taken as text), the HTTP handler, indexes and key ranges of `BrowserDb` (they
  choose records and change nothing), storage quota errors of IndexedDB,
  `stopTrying` together with RPC (nothing calls it), `clear()` of the emitter
  (nothing calls it and no owner exposes it), the event of `ObservableDb.clear`
  (nobody listens), remote ADD and DELETE in a page (this server never sends
  them), and the removal of handlers between a request and its run (a request
  picks its handler's kind when it is run, which covers it). A pattern of LIKE is
  the set of what it matches: that `exec` of an expression with the global flag
  starts where its last match ended is left out.
* *Handlers whose failure ends the server*: those of CLIENT_CONNECT
  (`JsonRpcServer.ts:110`) and CLIENT_DISCONNECT (`:118`), which `JsonRpcServer` takes
  to be absent, and a notification handler whose promise rejects (`:172`), which newer
  versions of node answer as they do a request's. What their end of the process
  comes to is in the model (`ProcessEnds`), through other handlers.
* *Filters that are shared*: `and` and `or` change the last node of the expression they
  are called on (`DbFilters.ts:137-149`), and a select keeps the object it was given
  (`DbSelect.ts:25`), so that another select, or the application, may be changing
  it, and `e.and(e)` makes a chain without an end. `Queries` has values.
* *Two pages and the network at once*: `BrowserDatabase` has two pages over one
  store, and says what a flush of each hands on; `RpcSystem` has one page and says
  what becomes of it. Their product is out of TLC's reach.
* *More than one failure in the runs of `RemoteSync`*: a second one is beyond what the
  check of the whole system can enumerate. `ConvergesCorrect` covers any number; what
  is left to one failure is `EchoesEnd` and `BootSettles`.
* `MethodHandler` is a type nothing uses; `dist` is compiler output.
