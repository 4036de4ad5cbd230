---------------------------- MODULE BrowserDatabase ----------------------------
(***************************************************************************)
(* src/client/BrowserDb.ts: one IndexedDB database of an origin, opened by *)
(* the BrowserDb instances that the WsDbClient of each page makes: one in  *)
(* its constructor for the schema kept in localStorage, or for the first   *)
(* SCHEMA answer, and one more for every later connection's SCHEMA answer  *)
(* (RemoteDbs.ts:56), none of which is ever closed.                        *)
(*                                                                         *)
(* IndexedDB is external: open requests for one database are processed one *)
(* at a time in the order they were made; one for a newer version waits    *)
(* until no connection is open, and is told "blocked" meanwhile; read-     *)
(* write transactions over a store run one at a time in the order they     *)
(* were created, whichever page created them; a page that goes away closes *)
(* its connections, drops its requests and aborts its transactions.        *)
(* A schema is its version; a record is its key.                           *)
(***************************************************************************)
EXTENDS SequencesExt

CONSTANTS
  Pages,
  MaxVersion,          \* bound: schema versions the server goes through
  MaxDbs,              \* bound: BrowserDb instances ever constructed
  MaxOps               \* bound: operations of the applications

ASSUME BoundsAssumption ==
  /\ MaxVersion \in Nat \ {0} /\ MaxDbs \in Nat /\ MaxOps \in Nat
  /\ IsFiniteSet(Pages) /\ Cardinality(Pages) <= MaxDbs

VARIABLES
  diskVersion,         \* version of the database, 0 while there is none
  committed,           \* keys of its store, as committed, in key order
  store,               \* the same as the running transaction sees it
  txs,                 \* transactions, each named by its operation, in order
  saved,               \* WS_DB_SCHEMA in localStorage, 0 while there is none
  serverVersion,       \* schema the server answers with
  dbs,                 \* the BrowserDb instances, in order of construction
  current,             \* current[p]: what getDb() of page p yields, 0: not yet
  ops,                 \* operations, in the order they were issued
  sent,                \* history: sent[k], times a cursor handed key k on
  undone               \* history: cursors rolled back after handing one on

diskVars == <<diskVersion, committed, store, txs>>
historyVars == <<sent, undone>>
vars == <<diskVars, saved, serverVersion, dbs, current, ops, historyVars>>

Versions == 1..MaxVersion
DbIds == 1..MaxDbs
OpIds == 1..(MaxOps + MaxDbs)

\* A record is named by the operation that added it; 0 is one from before.
Keys == {0} \cup OpIds

Writers == {"add", "put", "delete", "clear"}

\* get, getAll, getAllKeys and count: one request that changes nothing.
Readers == {"read"}

(* forEach and forEachKey, by what their callback does: "consume" sends and
   deletes the record and goes on (WebSocketRpc.ts:51-56), "walk" filters it and
   goes on (BrowserDbSelect.ts:18-23). *)
Cursors == {"consume", "walk"}

Kinds == Writers \cup Readers \cup Cursors

Db == [page : Pages, version : Versions,
       promise : {"pending", "resolved", "rejected", "gone"},
       link : {"asked", "open", "refused", "gone"}]

\* "stuck": nothing will ever settle the promise of the operation.
Op == [db : DbIds, kind : Kinds, key : Keys,
       state : {"waiting", "queued", "done", "failed", "stuck", "gone"}]

InstancesTypeOK ==
  /\ saved \in 0..MaxVersion /\ serverVersion \in Versions
  /\ dbs \in Seq(Db)
  /\ current \in [Pages -> 0..MaxDbs]
  /\ ops \in Seq(Op)

TypeOK ==
  /\ InstancesTypeOK
  /\ diskVersion \in 0..MaxVersion
  /\ committed \in Seq(Keys) /\ store \in Seq(Keys) /\ txs \in Seq(OpIds)
  /\ sent \in [Keys -> Nat] /\ undone \in Nat

-----------------------------------------------------------------------------
(* Opening.                                                                 *)

\* The constructor: the request is made, the promise is pending.
NewDb(p, v) == [page |-> p, version |-> v, promise |-> "pending", link |-> "asked"]

\* The pages in the order they were loaded.
LoadOrders ==
  {s \in [1..Cardinality(Pages) -> Pages] : \A p \in Pages : \E i \in DOMAIN s : s[i] = p}

(* The pages have just been loaded, by a visitor who was never here, and wait
   for SCHEMA; or by one who was, and who left a record: localStorage has a
   schema, and each constructor has opened its database. *)
Init ==
  /\ \/ /\ saved = 0 /\ diskVersion = 0 /\ committed = <<>>
        /\ dbs = <<>>
        /\ current = [p \in Pages |-> 0]
     \/ /\ saved = 1 /\ diskVersion = 1 /\ committed = <<0>>
        /\ \E s \in LoadOrders :
           /\ dbs = [i \in DOMAIN s |-> NewDb(s[i], 1)]
           /\ current = [p \in Pages |-> CHOOSE i \in DOMAIN s : s[i] = p]
  /\ store = committed /\ txs = <<>>
  /\ serverVersion = 1
  /\ ops = <<>>
  /\ sent = [k \in Keys |-> 0] /\ undone = 0

IsOpen(d) == d.link = "open"

\* The oldest open request: the ones behind it wait for it.
Asks(i) == dbs[i].link = "asked" /\ \A j \in 1..(i - 1) : dbs[j].link # "asked"

\* The numbers of K in increasing order, and the entries of s at them.
InOrder(K) ==
  [n \in 1..Cardinality(K) |-> CHOOSE i \in K : Cardinality({j \in K : j <= i}) = n]

EntriesAt(s, K) == [n \in 1..Cardinality(K) |-> s[InOrder(K)[n]]]

WaitingOps(i) == InOrder({o \in DOMAIN ops : ops[o].db = i /\ ops[o].state = "waiting"})

\* The `this.open.then(...)` of the operations issued so far are run, in order.
RunContinuations(i) ==
  /\ ops' = [o \in DOMAIN ops |->
               IF ops[o].db = i /\ ops[o].state = "waiting"
               THEN [ops[o] EXCEPT !.state = "queued"] ELSE ops[o]]
  /\ txs' = txs \o WaitingOps(i)

FailContinuations(i) ==
  /\ ops' = [o \in DOMAIN ops |->
               IF ops[o].db = i /\ ops[o].state = "waiting"
               THEN [ops[o] EXCEPT !.state = "failed"] ELSE ops[o]]
  /\ UNCHANGED txs

\* An open without its onsuccess.
OpenedQuietly(d) == [d EXCEPT !.link = "open"]

\* One whose promise ends in a state there is not.
ResolvedOddly(d) == [d EXCEPT !.link = "open", !.promise = "opened"]

\* A promise is settled once; a later resolve or reject does nothing.
Resolved(d) == [d EXCEPT !.link = "open",
                         !.promise = IF @ = "pending" THEN "resolved" ELSE @]

Succeeds(i, ds) ==
  /\ dbs' = [ds EXCEPT ![i] = Resolved(ds[i])]
  /\ RunContinuations(i)

\* onsuccess: the database has the version asked for.
OpenSame(i) ==
  /\ Asks(i)
  /\ dbs[i].version = diskVersion
  /\ Succeeds(i, dbs)
  /\ UNCHANGED <<diskVersion, committed, store>>

\* onerror: VersionError, the database is newer.
OpenStale(i) ==
  /\ Asks(i)
  /\ dbs[i].version < diskVersion
  /\ dbs' = [dbs EXCEPT ![i].link = "refused", ![i].promise = "rejected"]
  /\ FailContinuations(i)
  /\ UNCHANGED <<diskVersion, committed, store>>

\* A listener that closes the connection and tells nobody.
VersionChangeCloses(d) == [d EXCEPT !.link = "refused"]

\* Nobody listens to versionchange: the connection stays open.
OnVersionChange(d) == d

AfterVersionChange ==
  [j \in DOMAIN dbs |-> IF IsOpen(dbs[j]) THEN OnVersionChange(dbs[j]) ELSE dbs[j]]

\* onblocked: the promise is rejected, the request stays.
OpenBlocked(i) ==
  /\ Asks(i)
  /\ dbs[i].version > diskVersion
  /\ dbs[i].promise = "pending"
  /\ \E j \in DOMAIN dbs : IsOpen(AfterVersionChange[j])
  /\ dbs' = [AfterVersionChange EXCEPT ![i].promise = "rejected"]
  /\ FailContinuations(i)
  /\ UNCHANGED <<diskVersion, committed, store>>

(* onupgradeneeded deletes every store and creates those of the schema, then
   onsuccess.  So does a request that was blocked, once the connections that
   blocked it are gone, although its promise is rejected. *)
OpenUpgrades(i) ==
  /\ Asks(i)
  /\ dbs[i].version > diskVersion
  /\ \A j \in DOMAIN dbs : ~IsOpen(AfterVersionChange[j])
  /\ diskVersion' = dbs[i].version
  /\ committed' = <<>> /\ store' = <<>>
  /\ Succeeds(i, AfterVersionChange)

Opening ==
  /\ \E i \in DOMAIN dbs : OpenSame(i) \/ OpenStale(i) \/ OpenBlocked(i) \/ OpenUpgrades(i)
  /\ UNCHANGED <<saved, serverVersion, current, historyVars>>

-----------------------------------------------------------------------------
(* Operations.                                                              *)

\* What `this.open.then` does with an operation issued now.
StateOf(d) == CASE d.promise = "pending"  -> "waiting"
                [] d.promise = "resolved" -> "queued"
                [] OTHER                  -> "failed"

\* The application of page p uses its database.  put is put on the record
\* there was before; on a new one it is an add.
Issue(p, kind) ==
  LET o == Len(ops) + 1
      d == current[p]
      key == IF kind \in {"put", "delete"} THEN 0 ELSE o IN
  /\ o <= MaxOps
  /\ d # 0
  /\ ops' = Append(ops, [db |-> d, kind |-> kind, key |-> key, state |-> StateOf(dbs[d])])
  /\ txs' = IF dbs[d].promise = "resolved" THEN Append(txs, o) ELSE txs
  /\ UNCHANGED <<diskVersion, committed, store, saved, serverVersion, dbs, current, historyVars>>

Running(kinds) == txs # <<>> /\ ops[Head(txs)].kind \in kinds /\ ops[Head(txs)].state = "queued"

Ends(state) == ops' = [ops EXCEPT ![Head(txs)].state = state]

Effect(op) ==
  CASE op.kind \in {"add", "put"} -> IF Contains(store, op.key) THEN store ELSE Append(store, op.key)
    [] op.kind = "delete"         -> EntriesAt(store, {n \in DOMAIN store : store[n] # op.key})
    [] op.kind = "clear"          -> <<>>
    [] OTHER                      -> store

\* The success event of the one request of the transaction.
RequestSucceeds ==
  /\ Running(Kinds \ Cursors)
  /\ store' = Effect(ops[Head(txs)])
  /\ Ends("done")
  /\ UNCHANGED <<diskVersion, committed, txs, historyVars>>

\* A consuming callback without its cursor.delete().
TakesOnly == store' = Tail(store) \o <<Head(store)>>

Takes == store' = Tail(store)

CursorTakes ==
  /\ Running({"consume"})
  /\ store # <<>>
  /\ Takes
  /\ sent' = [sent EXCEPT ![Head(store)] = @ + 1]
  /\ UNCHANGED <<diskVersion, committed, txs, ops, undone>>

\* A forEach() without its `else resolve()`.
EndsUnresolved == UNCHANGED ops

\* Past the last record: forEach resolves.
CursorResolves == Ends("done")

CursorEnds ==
  /\ Running(Cursors)
  /\ Running({"consume"}) => store = <<>>
  /\ CursorResolves
  /\ committed' = store
  /\ txs' = Tail(txs)
  /\ UNCHANGED <<diskVersion, store, historyVars>>

Rollback ==
  /\ store' = committed
  /\ undone' = IF Running({"consume"}) /\ store # committed THEN undone + 1 ELSE undone

(* The callback throws: send() on a CONNECTING socket, a filter that meets a
   record it cannot read.  The transaction is aborted, and nothing settles the
   promise of forEach: its request had succeeded. *)
CursorThrows ==
  /\ Running(Cursors)
  /\ store # <<>>
  /\ Rollback
  /\ Ends("stuck")
  /\ txs' = Tail(txs)
  /\ UNCHANGED <<diskVersion, committed, sent>>

\* The transaction has no request left.
Commits ==
  /\ txs # <<>>
  /\ ops[Head(txs)].state = "done"
  /\ committed' = store
  /\ txs' = Tail(txs)
  /\ UNCHANGED <<diskVersion, store, ops, historyVars>>

Transactions ==
  /\ RequestSucceeds \/ CursorTakes \/ CursorEnds \/ CursorThrows \/ Commits
  /\ UNCHANGED <<saved, serverVersion, dbs, current>>

-----------------------------------------------------------------------------
(* Pages and schemas.                                                       *)

OfPage(p, o) == dbs[ops[o].db].page = p

\* The memory and the connections of page p are gone.
Unloaded(p) ==
  [i \in DOMAIN dbs |->
     IF dbs[i].page = p
     THEN [dbs[i] EXCEPT !.link = "gone", !.promise = IF @ = "pending" THEN "gone" ELSE @]
     ELSE dbs[i]]

\* The page is reloaded: the constructor opens what localStorage names.  While
\* that is nothing, a page has nothing to lose.
Reload(p) ==
  /\ saved # 0
  /\ Len(dbs) < MaxDbs
  /\ dbs' = Append(Unloaded(p), NewDb(p, saved))
  /\ current' = [current EXCEPT ![p] = Len(dbs) + 1]
  /\ ops' = [o \in DOMAIN ops |->
               IF OfPage(p, o) /\ ops[o].state \in {"waiting", "queued"}
               THEN [ops[o] EXCEPT !.state = "gone"] ELSE ops[o]]
  /\ txs' = EntriesAt(txs, {n \in DOMAIN txs : ~OfPage(p, txs[n])})
  /\ IF txs # <<>> /\ OfPage(p, Head(txs)) THEN Rollback ELSE UNCHANGED <<store, undone>>
  /\ UNCHANGED <<diskVersion, committed, saved, serverVersion, sent>>

\* The answer to the constructor's own SCHEMA call becomes this.dbs.  It may
\* have been on its way while the server changed its schema.
FirstSchema(p, v) ==
  /\ current[p] = 0
  /\ Len(dbs) < MaxDbs
  /\ saved' = v
  /\ dbs' = Append(dbs, NewDb(p, v))
  /\ current' = [current EXCEPT ![p] = Len(dbs) + 1]
  /\ UNCHANGED <<diskVars, serverVersion, ops, historyVars>>

(* The answer to the SCHEMA call of a connection: new instances, from which
   callSync reads; this.dbs stays what it was. *)
LaterSchema(p, v) ==
  /\ Len(dbs) < MaxDbs
  /\ Len(ops) < MaxOps + MaxDbs
  /\ saved' = v
  /\ dbs' = Append(dbs, NewDb(p, v))
  /\ ops' = Append(ops, [db |-> Len(dbs) + 1, kind |-> "read", key |-> Len(ops) + 1,
                         state |-> "waiting"])
  /\ UNCHANGED <<diskVars, serverVersion, current, historyVars>>

\* The server is started again with a newer schema.
SchemaChanges ==
  /\ serverVersion < MaxVersion
  /\ serverVersion' = serverVersion + 1
  /\ UNCHANGED <<diskVars, saved, dbs, current, ops, historyVars>>

Next ==
  \/ Opening \/ Transactions \/ SchemaChanges
  \/ \E p \in Pages : \/ Reload(p)
                      \/ \E v \in 1..serverVersion : FirstSchema(p, v) \/ LaterSchema(p, v)
                      \/ \E kind \in Kinds : Issue(p, kind)

\* IndexedDB delivers the events of its requests.
Fairness == WF_vars(Opening) /\ WF_vars(Transactions)

Spec == Init /\ [][Next]_vars

FairSpec == Spec /\ Fairness

-----------------------------------------------------------------------------

(* A page keeps the database it was given: as long as the page is there, an
   instance that opened has an open connection to a database of its own
   version, whatever schemas arrive here or in other pages; so the stores that
   an operation names in its transaction exist. *)
OpenedStaysUsable ==
  /\ \A i \in DOMAIN dbs :
       /\ dbs[i].promise = "resolved" => dbs[i].link \in {"open", "gone"}
       /\ IsOpen(dbs[i]) => dbs[i].version = diskVersion
  /\ \A o \in DOMAIN ops : ops[o].state = "queued" => IsOpen(dbs[ops[o].db])

\* Times record k was written.
Writes(k) ==
  (IF k = 0 THEN 1 ELSE 0)
  + Cardinality({o \in DOMAIN ops : /\ ops[o].kind \in {"add", "put"}
                                    /\ ops[o].key = k /\ ops[o].state = "done"})

(* Two pages that empty one store, as the notification store of an origin with
   two tabs, do not hand on a record twice, unless a transaction that had
   handed it on was rolled back. *)
ConsumedOnce == \A k \in Keys : sent[k] <= Writes(k) + undone

\* Connections of an older version hold a request up.
HeldUp == \E i, j \in DOMAIN dbs :
            dbs[i].link = "asked" /\ IsOpen(dbs[j]) /\ dbs[j].version < dbs[i].version

(* An instance waits for its database for ever only if an older connection,
   which may be one of its own page, stays open for ever. *)
OpensUnlessHeldUp ==
  \A i \in DbIds :
    <>[](\E j \in DOMAIN dbs : j = i /\ dbs[j].promise = "pending") => <>[]HeldUp

InTransaction(o) == \E n \in DOMAIN ops : n = o /\ ops[n].state = "queued"

(* An operation on an open database settles, or its callback threw, or its
   page goes away. *)
OperationsSettle ==
  \A o \in OpIds : InTransaction(o) ~> ~InTransaction(o)

=============================================================================
