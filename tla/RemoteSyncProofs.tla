--------------------------- MODULE RemoteSyncProofs ---------------------------
(***************************************************************************)
(* RemoteSync: types, and that the databases of the page and the server    *)
(* are equal when all is quiet (Converges), for every number of            *)
(* connections, writes and notifications and every kind of write.          *)
(***************************************************************************)
EXTENDS RemoteSync, WebSocketRpcProofs, FiniteSetTheorems

-----------------------------------------------------------------------------
(* What the page and the server know of each other.                         *)

\* The types, without the bound of reading.
PageTypeOK ==
  /\ autoIncrement \in BOOLEAN
  /\ db \subseteq Record /\ disk \subseteq Record
  /\ \A r \in db \cup disk : r.key # NoKey
  /\ boot \in {0} \cup Calls
  /\ saved \in BOOLEAN
  /\ incoming \in Seq(Record)
  /\ reading \in Nat
  /\ said \in Seq(Event) /\ Len(said) = nnotes
  /\ writes \in 0..MaxWrites

RemoteTypeOK ==
  /\ table \in Seq(Record)
  /\ pushed \in Seq(Record)
  /\ log \in Seq(Notes)
  /\ refused \in BOOLEAN

SyncTypeOK == ClientTypeOK /\ ServerTypeOK /\ PageTypeOK /\ RemoteTypeOK

\* What waits in the notification store are notifications that were made.
LineKnown == \A m : InLine(m) => IsNotification(m) /\ m.id <= nnotes

\* So are those on their way to the server, and every notification on its way
\* to the page puts a record.
QueuesKnown ==
  \A e \in Conns :
    /\ \A m \in Range(c2s[e]) : IsNotification(m) => m.id <= nnotes
    /\ \A m \in Range(s2c[e]) : IsNotification(m) => m.id <= Len(pushed)

\* What this server process has handled was said, and was not a delete.
LogKnown == \A i \in DOMAIN log : log[i] <= nnotes /\ said[log[i]].op # "DELETE"

\* As in RpcSystem.
SocketInv ==
  /\ FlagsTrackSocket
  /\ OneLiveSocket
  /\ cliEnd[socket] # "UNUSED"

BaseInv == SyncTypeOK /\ LineKnown /\ QueuesKnown /\ LogKnown /\ SocketInv

\* The next message the page sends, if the socket is OPEN, is a notification:
\* an announcement, or one out of the store.
PageTells ==
  /\ \/ UNCHANGED c2s
     \/ \E m \in Message : /\ IsNotification(m) /\ m.id <= nnotes' /\ cliEnd[socket] = "OPEN"
                           /\ c2s' = Sent(c2s, socket, <<m>>)
  /\ UNCHANGED <<cliEnd, srvEnd, s2c, clientVars, buffer, ncalls>>

LEMMA EventFields ==
  ASSUME NEW v \in Event
  PROVE  /\ v.op \in {"ADD", "PUT", "DELETE", "SYNC"}
         /\ v.op \in {"ADD", "PUT"} => v.record \in Record
         /\ v.op = "DELETE" => v.key \in Keys
         /\ v.op = "SYNC" => v.since \in BOOLEAN
BY DEF Event

LEMMA RecordFields ==
  ASSUME NEW r \in Record
  PROVE  /\ r.key \in Keys \cup {NoKey} /\ r.val \in Values /\ r.stamped \in BOOLEAN
         /\ r.key # NoKey <=> r.key \in Keys
BY DEF Record, Keys, NoKey

\* A queue that gains messages at its end, or loses its first.
LEMMA SentHere ==
  ASSUME NEW q \in Queues, NEW d \in Conns, NEW s \in Seq(Message)
  PROVE  Sent(q, d, s) \in Queues /\ Sent(q, d, s)[d] = q[d] \o s
<1>1. q[d] \o s \in Seq(Message)
  BY DEF Queues
<1> QED BY <1>1 DEF Sent, Queues

LEMMA SentRange ==
  ASSUME NEW q \in Queues, NEW d \in Conns, NEW s \in Seq(Message)
  PROVE  Range(Sent(q, d, s)[d]) = Range(q[d]) \cup Range(s)
<1>1. Sent(q, d, s)[d] = q[d] \o s /\ q[d] \in Seq(Message)
  BY SentHere DEF Queues
<1> QED BY <1>1, JoinRange

LEMMA SentElsewhere ==
  ASSUME NEW q \in Queues, NEW d, NEW s, NEW f \in Conns, f # d
  PROVE  Sent(q, d, s)[f] = q[f]
BY DEF Sent, Queues

LEMMA TakenHere ==
  ASSUME NEW q \in Queues, NEW d \in Conns, q[d] # <<>>
  PROVE  /\ Taken(q, d) \in Queues /\ Taken(q, d)[d] = Tail(q[d])
         /\ Head(q[d]) \in Message
<1>1. Tail(q[d]) \in Seq(Message) /\ Head(q[d]) \in Message
  BY DEF Queues
<1> QED BY <1>1 DEF Taken, Queues

LEMMA TakenRange ==
  ASSUME NEW q \in Queues, NEW d \in Conns, q[d] # <<>>
  PROVE  Range(q[d]) = {Head(q[d])} \cup Range(Taken(q, d)[d])
<1>1. Taken(q, d)[d] = Tail(q[d]) /\ q[d] \in Seq(Message)
  BY TakenHere DEF Queues
<1> QED BY <1>1, TailRange

LEMMA TakenElsewhere ==
  ASSUME NEW q \in Queues, NEW d, NEW f \in Conns, f # d
  PROVE  Taken(q, d)[f] = q[f]
BY DEF Taken, Queues

LEMMA SentOne ==
  ASSUME NEW q \in Queues, NEW d \in Conns, NEW m \in Message, NEW f \in Conns
  PROVE  Range(Sent(q, d, <<m>>)[f]) = IF f = d THEN Range(q[f]) \cup {m} ELSE Range(q[f])
<1>1. PICK s : s = <<m>>
  OBVIOUS
<1>2. s \in Seq(Message)
  BY <1>1
<1>3. Range(s) = {m}
  BY <1>1 DEF Range
<1>4. CASE f = d
  <2>1. Range(Sent(q, d, s)[d]) = Range(q[d]) \cup Range(s)
    BY <1>2, SentRange
  <2> QED BY <1>1, <1>3, <1>4, <2>1, Zenon
<1>5. CASE f # d
  <2>1. Sent(q, d, s)[f] = q[f]
    BY <1>5, SentElsewhere
  <2> QED BY <1>1, <1>5, <2>1, Zenon
<1> QED BY <1>4, <1>5

\* send() of one message that does not throw.
LEMMA SendsOne ==
  ASSUME NEW m, SendData(<<m>>)
  PROVE  IF cliEnd[socket] = "OPEN" THEN c2s' = Sent(c2s, socket, <<m>>) ELSE UNCHANGED c2s
BY DEF SendData, Sent

-----------------------------------------------------------------------------
(* The notification store and announcements.                                *)

LEMMA AppendAdds ==
  ASSUME NEW ts \in Seq(Transactions), NEW t \in Transactions
  PROVE  AddsOf(Append(ts, t)) \subseteq AddsOf(ts) \cup {x \in Message : t = AddTx(x)}
<1>1. \A k \in DOMAIN Append(ts, t) :
        \/ k \in DOMAIN ts /\ Append(ts, t)[k] = ts[k]
        \/ Append(ts, t)[k] = t
  OBVIOUS
<1>2. t.op = "add" => t.msg \in Message /\ t = AddTx(t.msg)
  BY DEF Transactions, FlushTx, AddTx
<1> QED BY <1>1, <1>2 DEF AddsOf

LEMMA TailAdds ==
  ASSUME NEW ts \in Seq(Transactions), ts # <<>>
  PROVE  /\ AddsOf(Tail(ts)) \subseteq AddsOf(ts)
         /\ Head(ts).op = "add" => Head(ts).msg \in AddsOf(ts)
BY TailIndices DEF AddsOf

\* A step of the store sends at most what is in line, and adds nothing to it.
LEMMA StoreStepTells ==
  ASSUME ClientTypeOK, LineKnown, StoreStep
  PROVE  /\ PageTells
         /\ \A m : InLine(m)' => InLine(m)
         /\ UNCHANGED <<nnotes, pending, promise>>
<1>1. store \in Seq(Message) /\ flushed \in Seq(Message) /\ txs \in Seq(Transactions)
  BY DEF ClientTypeOK, RpcTypeOK
<1>2. Rollback => Range(store') = Range(flushed) \cup Range(store) /\ Range(flushed') = {}
  <2>1. Range(flushed \o store) = Range(flushed) \cup Range(store)
    BY <1>1, JoinRange
  <2>2. Range(<<>>) = {}
    BY DEF Range
  <2> QED BY <2>1, <2>2 DEF Rollback
<1>3. CASE AddCommits
  <2>1. /\ Head(txs).op = "add" /\ txs # <<>> /\ store' = Append(store, Head(txs).msg)
        /\ txs' = Tail(txs) /\ flushed' = flushed
        /\ UNCHANGED <<nnotes, pending, promise, c2s, cliEnd, srvEnd, s2c, clientVars, buffer, ncalls>>
    BY <1>3 DEF AddCommits, Running, transportVars, rpcVars
  <2>2. Head(txs).msg \in AddsOf(txs) /\ AddsOf(txs') \subseteq AddsOf(txs)
    BY <1>1, <2>1, TailAdds
  <2>3. Head(txs).msg \in Message
    BY <1>1, <2>2, AddsOfType
  <2>4. Range(store') = Range(store) \cup {Head(txs).msg}
    BY <1>1, <2>1, <2>3, AppendRange
  <2> QED BY <2>1, <2>2, <2>4 DEF InLine, PageTells
<1>4. CASE FlushSends
  <2>1. /\ store # <<>> /\ SendData(<<Head(store)>>) /\ store' = Tail(store)
        /\ flushed' = Append(flushed, Head(store)) /\ txs' = txs
        /\ UNCHANGED <<nnotes, pending, promise, cliEnd, srvEnd, s2c, clientVars, buffer, ncalls>>
    BY <1>4 DEF FlushSends, CursorDeletes, rpcVars
  <2>2. Head(store) \in Message /\ Range(store) = {Head(store)} \cup Range(store')
    BY <1>1, <2>1, TailRange
  <2>3. Range(flushed') = Range(flushed) \cup {Head(store)}
    BY <1>1, <2>1, <2>2, AppendRange
  <2>4. \/ UNCHANGED c2s
        \/ c2s' = Sent(c2s, socket, <<Head(store)>>) /\ cliEnd[socket] = "OPEN"
    BY <2>1, SendsOne
  <2>5. IsNotification(Head(store)) /\ Head(store).id <= nnotes'
    BY <2>1, <2>2 DEF LineKnown, InLine
  <2> QED BY <2>1, <2>2, <2>3, <2>4, <2>5 DEF InLine, PageTells
<1>5. CASE FlushAborts
  <2>1. /\ txs # <<>> /\ Rollback /\ txs' = Tail(txs)
        /\ UNCHANGED <<nnotes, pending, promise, c2s, cliEnd, srvEnd, s2c, clientVars, buffer, ncalls>>
    BY <1>5 DEF FlushAborts, Running, transportVars, rpcVars
  <2>2. AddsOf(txs') \subseteq AddsOf(txs)
    BY <1>1, <2>1, TailAdds
  <2> QED BY <1>2, <2>1, <2>2 DEF InLine, PageTells
<1>6. CASE FlushCommits
  <2>1. /\ txs # <<>> /\ flushed' = <<>> /\ store' = store /\ txs' = Tail(txs)
        /\ UNCHANGED <<nnotes, pending, promise, c2s, cliEnd, srvEnd, s2c, clientVars, buffer, ncalls>>
    BY <1>6 DEF FlushCommits, Running, transportVars, rpcVars
  <2>2. AddsOf(txs') \subseteq AddsOf(txs) /\ Range(flushed') = {}
    BY <1>1, <2>1, TailAdds DEF Range
  <2> QED BY <2>1, <2>2 DEF InLine, PageTells
<1> QED BY <1>3, <1>4, <1>5, <1>6 DEF StoreStep

\* An announcement gets the next number; what it says is known from then on.
LEMMA AnnouncesTells ==
  ASSUME ClientTypeOK, PageTypeOK, SocketInv, NEW v \in Event, Announces(v)
  PROVE  /\ PageTells
         /\ nnotes' = nnotes + 1 /\ nnotes + 1 \in Notes
         /\ \A m : InLine(m)' => InLine(m) \/ m = Notification(nnotes + 1)
         /\ IF cliEnd[socket] = "OPEN" THEN c2s' = Sent(c2s, socket, <<Notification(nnotes + 1)>>)
                                       ELSE UNCHANGED c2s
         /\ said' \in Seq(Event) /\ Len(said') = nnotes + 1
         /\ said'[nnotes + 1] = v
         /\ \A i \in 1..nnotes : said'[i] = said[i]
<1> DEFINE n == nnotes + 1
           x == Notification(n)
<1>1. /\ n \in Notes /\ nnotes' = n /\ SendOrStore(x) /\ said' = Append(said, v)
      /\ UNCHANGED <<cliEnd, srvEnd, s2c, clientVars, buffer, ncalls, store, flushed>>
  BY DEF Announces, Notify
<1>2. x \in Message /\ IsNotification(x) /\ x.id = n
  BY <1>1, MessageConstructors DEF Notification, IsNotification
<1>3. connected <=> cliEnd[socket] = "OPEN"
  BY DEF SocketInv, FlagsTrackSocket
<1>4. IF cliEnd[socket] = "OPEN" THEN c2s' = Sent(c2s, socket, <<x>>) /\ txs' = txs
                                 ELSE UNCHANGED c2s /\ txs' = Append(txs, AddTx(x))
  BY <1>1, <1>3, SendsOne DEF SendOrStore
<1>5. AddsOf(txs') \subseteq AddsOf(txs) \cup {x}
  <2>1. txs \in Seq(Transactions) /\ AddTx(x) \in Transactions
    BY <1>2 DEF ClientTypeOK, RpcTypeOK, AddTx, Transactions
  <2>2. \A y : AddTx(x) = AddTx(y) => x = y
    BY DEF AddTx
  <2> QED BY <1>4, <2>1, <2>2, AppendAdds
<1>6. n <= n
  BY <1>1 DEF Notes
<1>7. PageTells
  BY <1>1, <1>2, <1>4, <1>6 DEF PageTells
<1>8. \A m : InLine(m)' => InLine(m) \/ m = x
  BY <1>1, <1>5 DEF InLine
<1>9. /\ said' \in Seq(Event) /\ Len(said') = n /\ said'[n] = v
      /\ \A i \in 1..nnotes : said'[i] = said[i]
  <2>1. said \in Seq(Event) /\ Len(said) = nnotes
    BY DEF PageTypeOK
  <2> QED BY <1>1, <2>1
<1> QED BY <1>1, <1>4, <1>7, <1>8, <1>9

-----------------------------------------------------------------------------
(* The page's database.                                                     *)

\* The events the page makes.
LEMMA EventTypes ==
  /\ \A r \in Record : /\ [op |-> "ADD", record |-> r] \in Event
                       /\ [op |-> "PUT", record |-> r] \in Event
  /\ \A k \in Keys : [op |-> "DELETE", key |-> k] \in Event
  /\ \A b \in BOOLEAN : [op |-> "SYNC", since |-> b] \in Event
BY DEF Event

LEMMA RecordTypes ==
  \A k \in Keys \cup {NoKey}, v \in Values, b \in BOOLEAN :
    [key |-> k, val |-> v, stamped |-> b] \in Record
BY DEF Record

\* What IndexedDB stores has a key: the record's own, or the next number.
LEMMA StoredMeans ==
  ASSUME NEW r \in Record, nnotes \in Nat
  PROVE  /\ Stored(r) \in Record /\ Stored(r).key \in Keys
         /\ r.key # NoKey => Stored(r) = r
         /\ r.key = NoKey => Stored(r).key = nnotes + 1
<1>1. CASE r.key # NoKey
  BY <1>1, RecordFields DEF Stored
<1>2. CASE r.key = NoKey
  <2>1. nnotes + 1 \in Keys
    BY DEF Keys
  <2>2. PICK s : s = [r EXCEPT !.key = nnotes + 1]
    OBVIOUS
  <2>3. s \in Record /\ s.key = nnotes + 1
    BY <2>1, <2>2 DEF Record
  <2> QED BY <1>2, <2>1, <2>2, <2>3 DEF Stored
<1> QED BY <1>1, <1>2

\* A write of the application, of a remote record, or a SYNC: one event, and
\* what becomes of the collection.
Written(v) ==
  CASE v.op \in {"ADD", "PUT"} -> Put(db, Stored(v.record))
    [] v.op = "DELETE" -> WithoutKey(db, v.key)
    [] v.op = "SYNC" -> db

\* What the application can write: a new key, or a present one.
AppEvent(v) ==
  /\ v.op = "ADD" => v.record.key = Created(writes + 1)
  /\ v.op = "PUT" => v.record.key = Created(writes + 1) \/ \E r \in db : r.key = v.record.key

LEMMA AppWritesAnnounces ==
  ASSUME PageTypeOK, AppWrites
  PROVE  /\ \E v \in Event : /\ Announces(v) /\ db' = Written(v) /\ AppEvent(v)
                             /\ v.op # "SYNC"
         /\ writes' = writes + 1 /\ writes + 1 \in Values
         /\ UNCHANGED <<autoIncrement, disk, boot, saved, incoming, reading>>
<1> DEFINE n == writes + 1
<1>1. /\ n \in Values /\ Created(n) \in Keys \cup {NoKey} /\ writes' = n
      /\ UNCHANGED <<autoIncrement, disk, boot, saved, incoming, reading>>
  BY SyncAssumption DEF AppWrites, PageTypeOK, Values, Created, Keys
<1>2. CASE Adds(n)
  <2>1. PICK r : r = [key |-> Created(n), val |-> n, stamped |-> FALSE]
    OBVIOUS
  <2>2. PICK v : v = [op |-> "ADD", record |-> r]
    OBVIOUS
  <2>3. r \in Record /\ v \in Event /\ v.op = "ADD" /\ v.record = r /\ r.key = Created(n)
    BY <1>1, <2>1, <2>2, EventTypes, RecordTypes
  <2>4. db' = Put(db, Stored(r)) /\ Announces(v)
    BY <1>2, <2>1, <2>2 DEF Adds
  <2>5. db' = Written(v) /\ AppEvent(v)
    BY <2>3, <2>4 DEF Written, AppEvent
  <2> QED BY <1>1, <2>3, <2>4, <2>5
<1>3. ASSUME NEW k \in {r.key : r \in db} \cup {Created(n)}, Puts(k, n)
      PROVE  \E v \in Event : Announces(v) /\ db' = Written(v) /\ AppEvent(v) /\ v.op # "SYNC"
  <2>1. PICK r : r = [key |-> k, val |-> n, stamped |-> TRUE]
    OBVIOUS
  <2>2. PICK v : v = [op |-> "PUT", record |-> r]
    OBVIOUS
  <2>3. k \in Keys \cup {NoKey}
    BY <1>1, RecordFields DEF PageTypeOK
  <2>4. r \in Record /\ v \in Event /\ v.op = "PUT" /\ v.record = r /\ r.key = k
    BY <1>1, <2>1, <2>2, <2>3, EventTypes, RecordTypes
  <2>5. db' = Put(db, Stored(r)) /\ Announces(v)
    BY <1>3, <2>1, <2>2 DEF Puts
  <2>6. db' = Written(v) /\ AppEvent(v)
    BY <1>3, <2>4, <2>5 DEF Written, AppEvent
  <2> QED BY <2>4, <2>5, <2>6
<1>4. ASSUME NEW k \in {r.key : r \in db}, Deletes(k)
      PROVE  \E v \in Event : Announces(v) /\ db' = Written(v) /\ AppEvent(v) /\ v.op # "SYNC"
  <2>1. PICK v : v = [op |-> "DELETE", key |-> k]
    OBVIOUS
  <2>2. k \in Keys
    BY RecordFields DEF PageTypeOK
  <2>3. v \in Event /\ v.op = "DELETE" /\ v.key = k
    BY <2>1, <2>2, EventTypes
  <2>4. db' = WithoutKey(db, k) /\ Announces(v)
    BY <1>4, <2>1 DEF Deletes
  <2>5. db' = Written(v) /\ AppEvent(v)
    BY <2>3, <2>4 DEF Written, AppEvent
  <2> QED BY <2>3, <2>4, <2>5
<1> QED BY <1>1, <1>2, <1>3, <1>4 DEF AppWrites

LEMMA RemotePutAnnounces ==
  ASSUME PageTypeOK, RemotePut
  PROVE  /\ incoming # <<>> /\ incoming' = Tail(incoming) /\ Head(incoming) \in Record
         /\ \E v \in Event : /\ Announces(v) /\ db' = Written(v) /\ v.op = "PUT"
                             /\ v.record.key = Head(incoming).key
         /\ UNCHANGED <<autoIncrement, disk, boot, saved, reading, writes>>
<1>1. incoming # <<>> /\ incoming' = Tail(incoming) /\ UNCHANGED <<autoIncrement, disk, boot, saved, reading, writes>>
  BY DEF RemotePut
<1>2. PICK h : h = Head(incoming)
  OBVIOUS
<1>3. h \in Record
  BY <1>1, <1>2 DEF PageTypeOK
<1>4. PICK r : r = [key |-> h.key, val |-> h.val, stamped |-> TRUE]
  OBVIOUS
<1>5. PICK v : v = [op |-> "PUT", record |-> r]
  OBVIOUS
<1>6. r \in Record /\ v \in Event /\ v.op = "PUT" /\ v.record = r /\ r.key = h.key
  BY <1>3, <1>4, <1>5, EventTypes, RecordTypes, RecordFields
<1>7. db' = Put(db, Stored(r)) /\ Announces(v)
  BY <1>2, <1>4, <1>5 DEF RemotePut, PutsRemote, Puts
<1>8. db' = Written(v)
  BY <1>6, <1>7 DEF Written
<1> QED BY <1>1, <1>2, <1>3, <1>6, <1>7, <1>8

LEMMA SyncReadsAnnounces ==
  ASSUME PageTypeOK, SyncReads
  PROVE  /\ \E v \in Event : Announces(v) /\ v.op = "SYNC" /\ db' = Written(v)
         /\ reading > 0 /\ reading' = reading - 1
         /\ UNCHANGED <<autoIncrement, disk, boot, saved, incoming, writes>>
<1>1. PICK since \in LastUpdatedKnown : Announces([op |-> "SYNC", since |-> since])
  BY DEF SyncReads
<1>2. since \in BOOLEAN
  BY RecordFields DEF LastUpdatedKnown, PageTypeOK
<1>3. PICK v : v = [op |-> "SYNC", since |-> since]
  OBVIOUS
<1>4. v \in Event /\ v.op = "SYNC"
  BY <1>2, <1>3, EventTypes
<1>5. db' = Written(v)
  BY <1>4 DEF SyncReads, Written
<1> QED BY <1>1, <1>3, <1>4, <1>5 DEF SyncReads

\* Whatever is announced, the collection stays one of records.
LEMMA WrittenType ==
  ASSUME PageTypeOK, NEW v \in Event
  PROVE  Written(v) \subseteq Record /\ \A r \in Written(v) : r.key # NoKey
<1>1. nnotes \in Nat
  BY DEF PageTypeOK
<1>2. v.op \in {"ADD", "PUT"} => Stored(v.record) \in Record /\ Stored(v.record).key \in Keys
  BY <1>1, EventFields, StoredMeans
<1>3. \A k \in Keys : k # NoKey
  BY DEF Keys, NoKey
<1> QED BY <1>2, <1>3, EventFields DEF Written, Put, WithoutKey, PageTypeOK

-----------------------------------------------------------------------------
(* Every step keeps the types and what is known.                            *)

\* The three steps of the page that announce something.
AnnounceStep == AppWrites \/ RemotePut \/ SyncReads

LEMMA AnnounceStepMeans ==
  ASSUME PageTypeOK, AnnounceStep
  PROVE  /\ \E v \in Event : Announces(v) /\ db' = Written(v)
         /\ UNCHANGED <<autoIncrement, disk, boot, saved>>
         /\ incoming' \in Seq(Record) /\ reading' \in Nat /\ writes' \in 0..MaxWrites
         /\ reading' <= reading
<1>1. incoming \in Seq(Record) /\ reading \in Nat /\ writes \in 0..MaxWrites
  BY DEF PageTypeOK
<1>2. CASE AppWrites
  <2>1. writes' \in Values /\ UNCHANGED <<incoming, reading>>
    BY <1>2, AppWritesAnnounces
  <2> QED BY <1>1, <1>2, <2>1, AppWritesAnnounces DEF Values
<1>3. CASE RemotePut
  BY <1>1, <1>3, RemotePutAnnounces
<1>4. CASE SyncReads
  <2>1. reading' = reading - 1 /\ reading > 0 /\ UNCHANGED <<incoming, writes>>
    BY <1>4, SyncReadsAnnounces
  <2>2. reading' \in Nat /\ reading' <= reading
    BY <1>1, <2>1
  <2> QED BY <1>1, <1>4, <2>1, <2>2, SyncReadsAnnounces
<1> QED BY <1>2, <1>3, <1>4 DEF AnnounceStep

LEMMA SocketFrame ==
  ASSUME SocketInv, UNCHANGED <<cliEnd, clientVars>>
  PROVE  SocketInv'
BY DEF SocketInv, FlagsTrackSocket, OneLiveSocket, clientVars

\* What the page tells is known.
LEMMA TellsQueuesKnown ==
  ASSUME SyncTypeOK, QueuesKnown, PageTells, nnotes' \in Nat, nnotes <= nnotes', UNCHANGED pushed
  PROVE  QueuesKnown'
<1>1. c2s \in Queues /\ socket \in Conns /\ s2c' = s2c /\ nnotes \in Nat
  BY JsonRpcAssumption DEF Queues, SyncTypeOK, ClientTypeOK, TransportTypeOK, SocketTypeOK, RpcTypeOK, PageTells
<1>2. ASSUME NEW e \in Conns, NEW m \in Range(c2s'[e]), IsNotification(m)
      PROVE  m.id <= nnotes'
  <2>1. CASE m \in Range(c2s[e])
    <3>1. m \in Message
      BY <1>1, <2>1, RangeType DEF Queues
    <3>2. m.id \in Nat /\ m.id <= nnotes
      BY <1>2, <2>1, <3>1, MessageFields DEF QueuesKnown, Notes
    <3> QED BY <1>1, <3>2
  <2>2. CASE m \notin Range(c2s[e])
    <3>1. PICK x \in Message : x.id <= nnotes' /\ c2s' = Sent(c2s, socket, <<x>>)
      BY <1>2, <2>2 DEF PageTells
    <3>2. Range(Sent(c2s, socket, <<x>>)[e])
          = IF e = socket THEN Range(c2s[e]) \cup {x} ELSE Range(c2s[e])
      BY <1>1, <3>1, SentOne
    <3>3. Range(c2s'[e]) \subseteq Range(c2s[e]) \cup {x}
      BY <1>1, <3>1, <3>2, Zenon
    <3> QED BY <1>2, <2>2, <3>1, <3>3
  <2> QED BY <2>1, <2>2
<1> QED BY <1>1, <1>2 DEF QueuesKnown

LEMMA AnnounceBase ==
  ASSUME BaseInv, AnnounceStep, UNCHANGED <<serverVars, remoteVars>>
  PROVE  BaseInv'
<1> USE DEF BaseInv, SyncTypeOK
<1>1. PICK v \in Event : Announces(v) /\ db' = Written(v)
  BY AnnounceStepMeans
<1>2. ClientTypeOK'
  BY <1>1, PageType DEF Announces
<1>3. /\ PageTells /\ nnotes' = nnotes + 1
      /\ \A m : InLine(m)' => InLine(m) \/ m = Notification(nnotes + 1)
      /\ said' \in Seq(Event) /\ Len(said') = nnotes'
      /\ \A i \in 1..nnotes : said'[i] = said[i]
  BY <1>1, AnnouncesTells
<1>4. nnotes \in Nat /\ nnotes' \in Nat /\ nnotes <= nnotes'
  <2>1. nnotes \in Nat
    BY JsonRpcAssumption DEF ClientTypeOK, RpcTypeOK
  <2> QED BY <1>3, <2>1
<1>5. PageTypeOK'
  BY <1>1, <1>3, AnnounceStepMeans, WrittenType DEF PageTypeOK
<1>6. ServerTypeOK' /\ RemoteTypeOK'
  BY DEF ServerTypeOK, RemoteTypeOK, serverVars, remoteVars
<1>7. LineKnown'
  <2> SUFFICES ASSUME NEW m, InLine(m)'
               PROVE  IsNotification(m) /\ m.id <= nnotes'
    BY DEF LineKnown
  <2>1. CASE m = Notification(nnotes + 1)
    BY <1>3, <1>4, <2>1 DEF IsNotification, Notification
  <2>2. CASE InLine(m)
    <3>1. m \in Message
      BY <2>2, AddsOfType, RangeType DEF InLine, ClientTypeOK, RpcTypeOK
    <3>2. IsNotification(m) /\ m.id <= nnotes /\ m.id \in Nat
      BY <2>2, <3>1, MessageFields DEF LineKnown, Notes
    <3> QED BY <1>4, <3>2
  <2> QED BY <1>3, <2>1, <2>2
<1>8. QueuesKnown'
  BY <1>3, <1>4, TellsQueuesKnown DEF remoteVars
<1>9. LogKnown'
  <2> SUFFICES ASSUME NEW i \in DOMAIN log
               PROVE  log[i] <= nnotes' /\ said'[log[i]].op # "DELETE"
    BY DEF LogKnown, remoteVars
  <2>1. log[i] \in Notes /\ log[i] <= nnotes /\ said[log[i]].op # "DELETE"
    BY DEF LogKnown, RemoteTypeOK
  <2>2. log[i] \in 1..nnotes
    BY <1>4, <2>1 DEF Notes
  <2> QED BY <1>3, <1>4, <2>1, <2>2
<1>10. SocketInv'
  BY <1>3, SocketFrame DEF PageTells
<1> QED BY <1>2, <1>5, <1>6, <1>7, <1>8, <1>9, <1>10

\* What a step leaves alone stays as it is.
LEMMA PageFrame ==
  ASSUME PageTypeOK, UNCHANGED <<pageVars, nnotes>>
  PROVE  PageTypeOK'
BY DEF PageTypeOK, pageVars

LEMMA ServerFrame ==
  ASSUME ServerTypeOK, RemoteTypeOK, UNCHANGED <<serverVars, remoteVars>>
  PROVE  ServerTypeOK' /\ RemoteTypeOK'
BY DEF ServerTypeOK, RemoteTypeOK, serverVars, remoteVars

LEMMA LineFrame ==
  ASSUME LineKnown, \A m : InLine(m)' => InLine(m), UNCHANGED nnotes
  PROVE  LineKnown'
BY DEF LineKnown

LEMMA LogFrame ==
  ASSUME LogKnown, UNCHANGED <<log, nnotes, said>>
  PROVE  LogKnown'
BY DEF LogKnown

\* Queues that lose messages, or gain ones that are no notifications.
LEMMA QueuesFrame ==
  ASSUME QueuesKnown, UNCHANGED <<nnotes, pushed>>,
         \A e \in Conns : \A m \in Range(c2s'[e]) : IsNotification(m) => m \in Range(c2s[e]),
         \A e \in Conns : \A m \in Range(s2c'[e]) : IsNotification(m) => m \in Range(s2c[e])
  PROVE  QueuesKnown'
BY DEF QueuesKnown

LEMMA StoreBase ==
  ASSUME BaseInv, StoreStep, UNCHANGED <<pageVars, serverVars, remoteVars>>
  PROVE  BaseInv'
<1> USE DEF BaseInv, SyncTypeOK
<1>1. PageTells /\ UNCHANGED nnotes /\ \A m : InLine(m)' => InLine(m)
  BY StoreStepTells
<1>2. ClientTypeOK'
  BY StoreType DEF StoreStep
<1>3. QueuesKnown'
  <2>1. nnotes' \in Nat /\ nnotes <= nnotes'
    BY <1>1, JsonRpcAssumption DEF ClientTypeOK, RpcTypeOK
  <2> QED BY <1>1, <2>1, TellsQueuesKnown DEF remoteVars
<1>4. SocketInv'
  BY <1>1, SocketFrame DEF PageTells
<1> QED BY <1>1, <1>2, <1>3, <1>4, PageFrame, ServerFrame, LineFrame, LogFrame DEF pageVars, remoteVars

LEMMA CommitBase ==
  ASSUME BaseInv, WriteCommits, UNCHANGED <<serverVars, remoteVars>>
  PROVE  BaseInv'
<1> USE DEF BaseInv, SyncTypeOK
<1>1. /\ UNCHANGED <<transportVars, clientVars, rpcVars, dbVars, forgotten>>
      /\ UNCHANGED <<autoIncrement, db, boot, saved, incoming, reading, said, writes>> /\ disk' = db
  BY DEF WriteCommits
<1>2. ClientTypeOK'
  BY <1>1 DEF ClientTypeOK, TransportTypeOK, SocketTypeOK, RpcTypeOK, transportVars, clientVars,
     rpcVars, dbVars
<1>3. PageTypeOK'
  BY <1>1 DEF PageTypeOK, rpcVars
<1>4. LineKnown' /\ QueuesKnown' /\ LogKnown' /\ SocketInv'
  BY <1>1, SocketFrame DEF LineKnown, InLine, QueuesKnown, LogKnown, transportVars, rpcVars, dbVars,
     remoteVars
<1> QED BY <1>2, <1>3, <1>4, ServerFrame

\* A socket that is not closed, of those that exist, is the current one.
LEMMA LiveIsCurrent ==
  ASSUME ClientTypeOK, SocketInv, NEW e \in Conns, cliEnd[e] \in {"CONNECTING", "OPEN"}
  PROVE  e = socket
BY DEF ClientTypeOK, SocketTypeOK, SocketInv, OneLiveSocket, Conns

\* The interval and the reload construct the next socket; the one before is CLOSED.
NextSocket ==
  /\ socket' = socket + 1 /\ socket + 1 \in Conns
  /\ cliEnd' = [cliEnd EXCEPT ![socket] = "CLOSED", ![socket + 1] = "CONNECTING"]
  /\ UNCHANGED <<srvEnd, c2s, s2c, nnotes>>

LEMMA AttemptBase ==
  ASSUME BaseInv, OnAttempt, UNCHANGED <<pageVars, serverVars, remoteVars>>
  PROVE  BaseInv' /\ NextSocket /\ UNCHANGED <<buffer, ncalls>>
<1> USE DEF BaseInv, SyncTypeOK
<1>1. /\ socket \in Conns /\ socket + 1 \in Conns /\ socket' = socket + 1
      /\ cliEnd \in [Conns -> CliStates]
  BY NextConn DEF OnAttempt, AttemptReconnect, NewWebSocket, ClientTypeOK, SocketTypeOK,
    TransportTypeOK, MayFail
<1>2. /\ cliEnd' = [cliEnd EXCEPT ![socket + 1] = "CONNECTING"] /\ connecting' = TRUE
      /\ connected' = FALSE
      /\ UNCHANGED <<srvEnd, c2s, s2c, rpcVars, dbVars, forgotten>>
  BY DEF OnAttempt, AttemptReconnect, NewWebSocket, MayConnect, ClientTypeOK, SocketTypeOK
<1>3. cliEnd[socket] = "CLOSED"
  BY <1>1 DEF SocketInv, FlagsTrackSocket, CliStates, OnAttempt, AttemptReconnect, MayConnect
<1>4. SocketInv'
  <2>1. FlagsTrackSocket'
    BY <1>1, <1>2 DEF FlagsTrackSocket
  <2>2. OneLiveSocket'
    BY <1>1, <1>2, <1>3 DEF SocketInv, OneLiveSocket, Conns
  <2> QED BY <1>1, <1>2, <2>1, <2>2 DEF SocketInv
<1>5. NextSocket
  <2>1. cliEnd' = [cliEnd EXCEPT ![socket] = "CLOSED", ![socket + 1] = "CONNECTING"]
    BY <1>1, <1>2, <1>3
  <2> QED BY <1>1, <1>2, <2>1 DEF NextSocket, rpcVars
<1>6. ClientTypeOK'
  BY PageType
<1>7. LineKnown' /\ QueuesKnown' /\ LogKnown'
  BY <1>2 DEF LineKnown, InLine, QueuesKnown, LogKnown, rpcVars, dbVars, remoteVars, pageVars
<1> QED BY <1>2, <1>4, <1>5, <1>6, <1>7, PageFrame, ServerFrame DEF rpcVars

LEMMA CloseBase ==
  ASSUME BaseInv, NEW e \in Conns, OnClose(e), UNCHANGED <<pageVars, serverVars, remoteVars>>
  PROVE  /\ BaseInv' /\ e = socket /\ cliEnd'[socket] = "CLOSED"
         /\ UNCHANGED <<srvEnd, c2s, s2c, socket, rpcVars>>
<1> USE DEF BaseInv, SyncTypeOK
<1>1. /\ cliEnd[e] \in {"CONNECTING", "OPEN"} /\ cliEnd' = [cliEnd EXCEPT ![e] = "CLOSED"]
      /\ socket' = socket /\ connected' = FALSE /\ connecting' = FALSE
      /\ UNCHANGED <<srvEnd, c2s, s2c, rpcVars, dbVars>>
  BY DEF OnClose, SocketCloses, FlagsOnClose
<1>2. e = socket /\ cliEnd \in [Conns -> CliStates]
  BY <1>1, LiveIsCurrent DEF ClientTypeOK, TransportTypeOK
<1>3. SocketInv'
  <2>1. FlagsTrackSocket'
    BY <1>1, <1>2 DEF FlagsTrackSocket
  <2>2. OneLiveSocket'
    BY <1>1, <1>2 DEF SocketInv, OneLiveSocket, Conns
  <2> QED BY <1>1, <1>2, <2>1, <2>2 DEF SocketInv
<1>4. ClientTypeOK'
  BY SocketType
<1>5. LineKnown' /\ QueuesKnown' /\ LogKnown'
  BY <1>1 DEF LineKnown, InLine, QueuesKnown, LogKnown, rpcVars, dbVars, remoteVars, pageVars
<1> QED BY <1>1, <1>2, <1>3, <1>4, <1>5, PageFrame, ServerFrame DEF rpcVars

\* What the constructor leaves of calls.
LEMMA BootsType ==
  ASSUME ClientTypeOK, Boots
  PROVE  /\ buffer' \in Seq(Requests) /\ pending' \subseteq Calls /\ ncalls' \in 0..MaxCalls
         /\ promise' \in [Calls -> PromiseStates]
         /\ \/ boot' = 0 /\ buffer' = <<>> /\ ncalls' = ncalls
            \/ boot' = ncalls' /\ ncalls' \in Calls /\ buffer' = <<Request(boot')>>
<1>1. PromisesGone \in [Calls -> PromiseStates]
  BY DEF PromisesGone, ClientTypeOK, RpcTypeOK, PromiseStates
<1>2. ncalls \in 0..MaxCalls /\ MaxCalls \in Nat
  BY JsonRpcAssumption DEF ClientTypeOK, RpcTypeOK
<1>3. CASE saved
  <2>1. boot' = 0 /\ buffer' = <<>> /\ pending' = {} /\ promise' = PromisesGone /\ ncalls' = ncalls
    BY <1>3 DEF Boots
  <2>2. <<>> \in Seq(Requests)
    OBVIOUS
  <2> QED BY <1>1, <1>2, <2>1, <2>2
<1>4. CASE ~saved
  <2>1. PICK c : c = ncalls + 1
    OBVIOUS
  <2>2. /\ c \in Calls /\ boot' = c /\ ncalls' = c /\ buffer' = <<Request(c)>> /\ pending' = {c}
        /\ promise' = [PromisesGone EXCEPT ![c] = "pending"]
    BY <1>4, <2>1 DEF Boots
  <2>3. Request(c) \in Requests
    BY <2>2, MessageConstructors
  <2>4. <<Request(c)>> \in Seq(Requests)
    BY <2>3
  <2>5. promise' \in [Calls -> PromiseStates]
    BY <1>1, <2>2 DEF PromiseStates
  <2>6. c \in 0..MaxCalls
    BY <1>2, <2>2 DEF Calls
  <2> QED BY <2>2, <2>4, <2>5, <2>6
<1> QED BY <1>3, <1>4

LEMMA ReloadBase ==
  ASSUME BaseInv, PageReloads, UNCHANGED <<serverVars, remoteVars>>
  PROVE  /\ BaseInv' /\ NextSocket /\ db' = disk /\ incoming' = <<>> /\ reading' = 0
         /\ UNCHANGED <<autoIncrement, disk, said, writes>>
         /\ \/ boot' = 0 /\ buffer' = <<>> /\ ncalls' = ncalls
            \/ boot' = ncalls' /\ ncalls' \in Calls /\ buffer' = <<Request(boot')>>
<1> USE DEF BaseInv, SyncTypeOK
<1>1. /\ socket \in Conns /\ socket + 1 \in Conns /\ socket' = socket + 1
      /\ cliEnd \in [Conns -> CliStates]
  BY NextConn DEF PageReloads, PageRestarts, ClientTypeOK, SocketTypeOK, TransportTypeOK
<1>2. /\ cliEnd' = [cliEnd EXCEPT ![socket] = "CLOSED", ![socket + 1] = "CONNECTING"]
      /\ connected' = FALSE /\ connecting' = TRUE /\ trying' = TRUE
      /\ UNCHANGED <<srvEnd, c2s, s2c, discarded, nnotes>>
      /\ Rollback /\ txs' = <<>> /\ forgotten' = forgotten \cup Range(buffer) \cup QueuedAdds
  BY DEF PageReloads, PageRestarts
<1>3. SocketInv'
  <2>1. FlagsTrackSocket'
    BY <1>1, <1>2 DEF FlagsTrackSocket
  <2>2. OneLiveSocket'
    BY <1>1, <1>2 DEF SocketInv, OneLiveSocket, Conns
  <2> QED BY <1>1, <1>2, <2>1, <2>2 DEF SocketInv
<1>4. NextSocket
  BY <1>1, <1>2 DEF NextSocket
<1>5. Boots /\ db' = disk /\ incoming' = <<>> /\ reading' = 0
      /\ UNCHANGED <<autoIncrement, disk, saved, said, writes>>
  BY DEF PageReloads
<1>6. ClientTypeOK'
  <2>1. cliEnd' \in [Conns -> CliStates]
    BY <1>1, <1>2 DEF CliStates
  <2>2. forgotten' \subseteq Message
    <3>1. Range(buffer) \subseteq Message
      BY DEF Range, ClientTypeOK, RpcTypeOK, Message
    <3>2. QueuedAdds \subseteq Message
      BY DEF QueuedAdds, Range, ClientTypeOK, RpcTypeOK, Transactions, FlushTx
    <3> QED BY <1>2, <3>1, <3>2 DEF ClientTypeOK, RpcTypeOK
  <2>3. store' \in Seq(Message) /\ flushed' \in Seq(Message) /\ rollbacks' \in Nat
    BY <1>2, RollbackType
  <2>4. TransportTypeOK(Message)' /\ SocketTypeOK'
    BY <1>1, <1>2, <2>1 DEF ClientTypeOK, TransportTypeOK, SocketTypeOK
  <2>5. txs' \in Seq(Transactions)
    BY <1>2
  <2>6. RpcTypeOK'
    BY <1>2, <1>5, <2>2, <2>3, <2>5, BootsType DEF ClientTypeOK, RpcTypeOK
  <2> QED BY <2>4, <2>6 DEF ClientTypeOK
<1>7. PageTypeOK'
  <2>1. boot' \in {0} \cup Calls
    BY <1>5, BootsType
  <2>2. <<>> \in Seq(Record)
    OBVIOUS
  <2> QED BY <1>2, <1>5, <2>1, <2>2 DEF PageTypeOK
<1>8. LineKnown'
  <2>1. Range(store') = Range(flushed) \cup Range(store) /\ Range(flushed') = {}
    <3>1. Range(flushed \o store) = Range(flushed) \cup Range(store)
      BY JoinRange DEF ClientTypeOK, RpcTypeOK
    <3>2. Range(<<>>) = {}
      BY DEF Range
    <3> QED BY <1>2, <3>1, <3>2 DEF Rollback
  <2>2. AddsOf(txs') = {}
    BY <1>2 DEF AddsOf
  <2> QED BY <1>2, <2>1, <2>2, LineFrame DEF InLine
<1>9. QueuesKnown' /\ LogKnown'
  BY <1>2, <1>5 DEF QueuesKnown, LogKnown, remoteVars
<1> QED BY <1>3, <1>4, <1>5, <1>6, <1>7, <1>8, <1>9, BootsType, ServerFrame

LEMMA ConnectBase ==
  ASSUME BaseInv, NEW e \in Conns, RemoteConnect(e), UNCHANGED <<serverVars, remoteVars>>
  PROVE  /\ BaseInv' /\ e = socket /\ cliEnd[e] = "CONNECTING" /\ cliEnd'[socket] = "OPEN"
         /\ srvEnd[socket] # "UNUSED"
         /\ ncalls' = ncalls + 1 /\ ncalls + 1 \in Calls
         /\ c2s' = Sent(c2s, socket, Append(buffer, Request(ncalls + 1))) /\ buffer' = <<>>
         /\ UNCHANGED <<srvEnd, s2c, socket, nnotes, pageVars>>
         /\ \A f \in Conns : f # socket => cliEnd'[f] = cliEnd[f]
<1> USE DEF BaseInv, SyncTypeOK
<1>1. PICK c : c = ncalls + 1
  OBVIOUS
<1>2. /\ cliEnd[e] = "CONNECTING" /\ cliEnd' = [cliEnd EXCEPT ![e] = "OPEN"]
      /\ srvEnd[e] # "UNUSED"
      /\ socket' = socket /\ connected' = TRUE /\ connecting' = FALSE
      /\ buffer' = <<>> /\ c \in Calls /\ ncalls' = c /\ pending' = pending \cup {c}
      /\ promise' = [promise EXCEPT ![c] = "pending"]
      /\ txs' = Append(txs, FlushTx)
      /\ UNCHANGED <<srvEnd, s2c, trying, discarded, nnotes, store, flushed, rollbacks, forgotten,
                     pageVars>>
  BY <1>1 DEF RemoteConnect, SocketOpens, FlagsOnOpen, NewEntry, StartFlush
<1>3. c2s' = [c2s EXCEPT ![socket] = @ \o Append(buffer, Request(c))]
  BY <1>1 DEF RemoteConnect, FlushThenAsk
<1>4. e = socket /\ cliEnd \in [Conns -> CliStates] /\ c2s \in Queues
  BY <1>2, LiveIsCurrent DEF ClientTypeOK, TransportTypeOK, Queues
<1>5. PICK s : s = Append(buffer, Request(c))
  OBVIOUS
<1>6. s \in Seq(Message) /\ Range(s) = Range(buffer) \cup {Request(c)}
  <2>1. Request(c) \in Requests /\ buffer \in Seq(Requests)
    BY <1>2, MessageConstructors DEF ClientTypeOK, RpcTypeOK
  <2>2. s \in Seq(Requests)
    BY <1>5, <2>1
  <2> QED BY <1>5, <2>1, <2>2, AppendRange DEF Message
<1>7. c2s' = Sent(c2s, socket, s)
  BY <1>3, <1>5 DEF Sent
<1>8. SocketInv'
  <2>1. FlagsTrackSocket'
    BY <1>2, <1>4 DEF FlagsTrackSocket
  <2>2. OneLiveSocket'
    BY <1>2, <1>4 DEF SocketInv, OneLiveSocket, Conns
  <2> QED BY <1>2, <1>4, <2>1, <2>2 DEF SocketInv
<1>9. ClientTypeOK'
  <2>1. cliEnd' \in [Conns -> CliStates]
    BY <1>2, <1>4 DEF CliStates
  <2>2. c2s' \in [Conns -> Seq(Message)]
    <3>1. c2s' \in Queues
      BY <1>4, <1>6, <1>7, SentHere
    <3> QED BY <3>1 DEF Queues
  <2>3. TransportTypeOK(Message)' /\ SocketTypeOK'
    BY <1>2, <2>1, <2>2 DEF ClientTypeOK, TransportTypeOK, SocketTypeOK
  <2>4. txs' \in Seq(Transactions)
    <3>1. FlushTx \in Transactions
      BY DEF Transactions
    <3>2. Append(txs, FlushTx) \in Seq(Transactions)
      BY <3>1 DEF ClientTypeOK, RpcTypeOK
    <3> QED BY <1>2, <3>2
  <2>5. ncalls' \in 0..MaxCalls /\ <<>> \in Seq(Requests)
    BY <1>2 DEF Calls
  <2>6. promise' \in [Calls -> PromiseStates]
    BY <1>2 DEF ClientTypeOK, RpcTypeOK, PromiseStates
  <2>7. RpcTypeOK'
    BY <1>2, <2>4, <2>5, <2>6 DEF ClientTypeOK, RpcTypeOK
  <2> QED BY <2>3, <2>7 DEF ClientTypeOK
<1>10. PageTypeOK'
  BY <1>2, PageFrame
<1>11. LineKnown'
  <2>1. AddsOf(txs') \subseteq AddsOf(txs)
    <3>1. FlushTx \in Transactions /\ txs \in Seq(Transactions) /\ \A x : FlushTx # AddTx(x)
      <4>1. FlushTx.op # "add"
        BY DEF FlushTx
      <4>2. \A x : AddTx(x).op = "add"
        BY DEF AddTx
      <4> QED BY <4>1, <4>2 DEF Transactions, ClientTypeOK, RpcTypeOK
    <3> QED BY <1>2, <3>1, AppendAdds
  <2> QED BY <1>2, <2>1, LineFrame DEF InLine
<1>12. QueuesKnown'
  <2>1. ASSUME NEW f \in Conns, NEW m \in Range(c2s'[f]), IsNotification(m)
        PROVE  m \in Range(c2s[f])
    <3>1. CASE f = socket
      <4>1. Range(Sent(c2s, socket, s)[socket]) = Range(c2s[socket]) \cup Range(s)
        BY <1>4, <1>6, SentRange
      <4>2. m \in Range(c2s[f]) \cup Range(buffer) \cup {Request(c)}
        BY <1>6, <1>7, <2>1, <3>1, <4>1, Zenon
      <4>3. Range(buffer) \subseteq Requests
        BY RangeType DEF ClientTypeOK, RpcTypeOK
      <4> QED BY <2>1, <4>2, <4>3 DEF IsNotification, Requests, Request
    <3>2. CASE f # socket
      BY <1>4, <1>7, <2>1, <3>2, SentElsewhere
    <3> QED BY <3>1, <3>2
  <2> QED BY <1>2, <2>1, QueuesFrame DEF remoteVars
<1>13. LogKnown'
  BY <1>2, LogFrame DEF pageVars, remoteVars
<1>14. \A f \in Conns : f # socket => cliEnd'[f] = cliEnd[f]
  BY <1>2, <1>4
<1>15. cliEnd'[socket] = "OPEN"
  BY <1>2, <1>4
<1>16. c2s' = Sent(c2s, socket, Append(buffer, Request(ncalls + 1)))
  BY <1>1, <1>3 DEF Sent
<1> QED
  BY <1>1, <1>2, <1>4, <1>8, <1>9, <1>10, <1>11, <1>12, <1>13, <1>14, <1>15, <1>16, ServerFrame

\* What the page takes out of a queue is gone from it.
LEMMA PageTakes ==
  ASSUME BaseInv, NEW e \in Conns, ClientTakes(e)
  PROVE  /\ e = socket /\ s2c' = Taken(s2c, socket) /\ s2c[socket] # <<>> /\ s2c \in Queues
         /\ s2c' \in Queues /\ Head(s2c[socket]) \in Message
         /\ Range(s2c[socket]) = {Head(s2c[socket])} \cup Range(s2c'[socket])
         /\ \A f \in Conns : f # socket => s2c'[f] = s2c[f]
<1>1. e = socket
  BY LiveIsCurrent DEF ClientTakes, BaseInv, SyncTypeOK
<1>2. s2c[socket] # <<>> /\ s2c' = Taken(s2c, socket) /\ s2c \in Queues /\ socket \in Conns
  BY <1>1 DEF ClientTakes, BaseInv, SyncTypeOK, ClientTypeOK, TransportTypeOK, Queues, Taken
<1>3. /\ Taken(s2c, socket) \in Queues /\ Head(s2c[socket]) \in Message
      /\ Range(s2c[socket]) = {Head(s2c[socket])} \cup Range(Taken(s2c, socket)[socket])
  BY <1>2, TakenHere, TakenRange
<1>4. \A f \in Conns : f # socket => s2c'[f] = s2c[f]
  BY <1>2, TakenElsewhere
<1> QED BY <1>1, <1>2, <1>3, <1>4

LEMMA SchemaBase ==
  ASSUME BaseInv, NEW e \in Conns, OnSchema(e), UNCHANGED <<serverVars, remoteVars>>
  PROVE  /\ BaseInv' /\ ClientTakes(e) /\ Head(s2c[socket]).id \in Calls
         /\ IsResponse(Head(s2c[socket]))
         /\ IF Head(s2c[socket]).id = boot THEN boot' = 0 /\ reading' = reading
                                           ELSE reading' = reading + 1 /\ boot' = boot
         /\ UNCHANGED <<cliEnd, srvEnd, c2s, socket, buffer, ncalls, nnotes,
                        autoIncrement, db, disk, incoming, said, writes>>
<1> USE DEF BaseInv, SyncTypeOK
<1>1. /\ ClientTakes(e) /\ IsResponse(Head(s2c[e])) /\ OnResponse(e)
      /\ UNCHANGED <<cliEnd, srvEnd, c2s, clientVars, buffer, ncalls, nnotes, dbVars,
                     autoIncrement, db, disk, incoming, said, writes>>
      /\ saved' = TRUE
      /\ IF Head(s2c[e]).id = boot THEN boot' = 0 /\ reading' = reading
                                   ELSE reading' = reading + 1 /\ boot' = boot
  BY DEF OnSchema, OnResponse
<1>2. /\ e = socket /\ Head(s2c[socket]) \in Message
      /\ \A f \in Conns : Range(s2c'[f]) \subseteq Range(s2c[f])
  <2>1. socket \in Conns
    BY DEF ClientTypeOK, SocketTypeOK
  <2> QED BY <1>1, <2>1, PageTakes
<1>3. Head(s2c[socket]).id \in Calls
  BY <1>1, <1>2, MessageFields
<1>4. ClientTypeOK'
  BY <1>1, SocketType
<1>5. PageTypeOK'
  <2>1. reading \in Nat /\ boot \in {0} \cup Calls
    BY DEF PageTypeOK
  <2>2. reading' \in Nat /\ boot' \in {0} \cup Calls
    BY <1>1, <2>1
  <2> QED BY <1>1, <2>2 DEF PageTypeOK
<1>6. LineKnown' /\ SocketInv' /\ LogKnown'
  BY <1>1, SocketFrame, LogFrame DEF LineKnown, InLine, dbVars, remoteVars
<1>7. QueuesKnown'
  BY <1>1, <1>2, QueuesFrame DEF remoteVars
<1> QED BY <1>1, <1>2, <1>3, <1>4, <1>5, <1>6, <1>7, ServerFrame DEF clientVars

\* The record of a notification of the server.
LEMMA RemotePutBase ==
  ASSUME BaseInv, NEW e \in Conns, OnRemotePut(e), UNCHANGED <<serverVars, remoteVars>>
  PROVE  /\ BaseInv' /\ ClientTakes(e) /\ IsNotification(Head(s2c[socket]))
         /\ Head(s2c[socket]).id \in DOMAIN pushed
         /\ incoming' = Append(incoming, pushed[Head(s2c[socket]).id])
         /\ UNCHANGED <<cliEnd, srvEnd, c2s, socket, buffer, ncalls, nnotes,
                        autoIncrement, db, disk, boot, reading, said, writes>>
<1> USE DEF BaseInv, SyncTypeOK
<1>1. /\ ClientTakes(e) /\ IsNotification(Head(s2c[e]))
      /\ incoming' = Append(incoming, pushed[Head(s2c[e]).id])
      /\ UNCHANGED <<cliEnd, srvEnd, c2s, discarded, clientVars, rpcVars, dbVars, forgotten,
                     autoIncrement, db, disk, boot, saved, reading, said, writes>>
  BY DEF OnRemotePut
<1>2. /\ e = socket /\ Head(s2c[socket]) \in Message /\ Head(s2c[socket]) \in Range(s2c[socket])
      /\ \A f \in Conns : Range(s2c'[f]) \subseteq Range(s2c[f])
      /\ s2c' \in Queues /\ socket \in Conns
  <2>1. socket \in Conns
    BY DEF ClientTypeOK, SocketTypeOK
  <2> QED BY <1>1, <2>1, PageTakes
<1>3. Head(s2c[socket]).id \in DOMAIN pushed
  <2>1. Head(s2c[socket]).id \in Notes /\ Head(s2c[socket]).id <= Len(pushed)
    BY <1>1, <1>2, MessageFields DEF QueuesKnown
  <2>2. pushed \in Seq(Record)
    BY DEF RemoteTypeOK
  <2> QED BY <2>1, <2>2 DEF Notes
<1>4. ClientTypeOK'
  BY <1>1, <1>2 DEF ClientTypeOK, TransportTypeOK, SocketTypeOK, RpcTypeOK, clientVars, rpcVars,
     dbVars, Queues
<1>5. PageTypeOK'
  <2>1. PICK r : r = pushed[Head(s2c[socket]).id]
    OBVIOUS
  <2>2. r \in Record /\ incoming \in Seq(Record)
    BY <1>3, <2>1 DEF RemoteTypeOK, PageTypeOK
  <2>3. incoming' \in Seq(Record)
    BY <1>1, <1>2, <2>1, <2>2
  <2> QED BY <1>1, <2>3 DEF PageTypeOK, rpcVars
<1>6. LineKnown' /\ SocketInv' /\ LogKnown'
  BY <1>1, SocketFrame, LogFrame DEF LineKnown, InLine, dbVars, rpcVars, remoteVars
<1>7. QueuesKnown'
  BY <1>1, <1>2, QueuesFrame DEF rpcVars, remoteVars
<1> QED BY <1>1, <1>2, <1>3, <1>4, <1>5, <1>6, <1>7, ServerFrame DEF clientVars, rpcVars

-----------------------------------------------------------------------------
(* The server keeps them too.                                               *)

\* A notification taken by the server was said.
LEMMA HeardNote ==
  ASSUME BaseInv, NEW e \in Conns, TakeNotification(e)
  PROVE  /\ Head(c2s[e]).id \in Notes /\ Head(c2s[e]).id \in 1..nnotes
         /\ Heard(e) \in Event
         /\ Head(c2s[e]) = Notification(Head(c2s[e]).id)
         /\ srvEnd[e] = "OPEN" /\ c2s[e] # <<>> /\ c2s' = Taken(c2s, e)
         /\ c2s \in Queues /\ c2s' \in Queues
         /\ Range(c2s[e]) = {Head(c2s[e])} \cup Range(c2s'[e])
         /\ \A f \in Conns : f # e => c2s'[f] = c2s[f]
         /\ got' \in [Notes -> Nat]
<1> USE DEF BaseInv, SyncTypeOK
<1>1. srvEnd[e] = "OPEN" /\ c2s[e] # <<>> /\ c2s' = Taken(c2s, e) /\ c2s \in Queues
  BY DEF TakeNotification, ServerTakes, Taken, ClientTypeOK, TransportTypeOK, Queues
<1>2. /\ Taken(c2s, e) \in Queues /\ Head(c2s[e]) \in Message
      /\ Range(c2s[e]) = {Head(c2s[e])} \cup Range(Taken(c2s, e)[e])
  BY <1>1, TakenHere, TakenRange
<1>3. IsNotification(Head(c2s[e])) /\ got' = [got EXCEPT ![Head(c2s[e]).id] = @ + 1]
  BY DEF TakeNotification
<1>4. Head(c2s[e]).id \in Notes /\ Head(c2s[e]) = Notification(Head(c2s[e]).id)
  BY <1>2, <1>3, MessageFields
<1>5. Head(c2s[e]).id <= nnotes /\ nnotes \in Nat /\ said \in Seq(Event) /\ Len(said) = nnotes
  BY <1>2, <1>3, JsonRpcAssumption DEF QueuesKnown, ClientTypeOK, RpcTypeOK, PageTypeOK
<1>6. Head(c2s[e]).id \in 1..nnotes
  BY <1>4, <1>5 DEF Notes
<1>7. Heard(e) \in Event
  BY <1>5, <1>6 DEF Heard
<1>8. got' \in [Notes -> Nat]
  BY <1>3, <1>4 DEF ServerTypeOK
<1>9. \A f \in Conns : f # e => c2s'[f] = c2s[f]
  BY <1>1, TakenElsewhere
<1> QED BY <1>1, <1>2, <1>4, <1>6, <1>7, <1>8, <1>9

\* Every set of numbers that has a member has a least one.
LEMMA Least ==
  ASSUME NEW T \in SUBSET Nat, T # {}
  PROVE  \E x \in T : \A y \in T : x <= y
<1> DEFINE R == OpToRel(<, Nat)
<1>1. IsWellFoundedOn(R, Nat)
  BY NatLessThanWellFounded
<1>2. \A x, y \in Nat : <<y, x>> \in R <=> y < x
  BY DEF OpToRel
<1>3. \E x \in T : \A y \in T : ~ (<<y, x>> \in R)
  <2> HIDE DEF R
  <2> QED BY <1>1, WFMin
<1>4. PICK x \in T : \A y \in T : ~ (<<y, x>> \in R)
  BY <1>3
<1> HIDE DEF R
<1>5. \A y \in T : ~ (y < x)
  BY <1>2, <1>4
<1> QED BY <1>5

\* put() replaces the first record of its key, or adds one.
LEMMA PutMeans ==
  ASSUME RemoteTypeOK, NEW r \in Record
  PROVE  \/ \E i \in DOMAIN table : /\ table[i].key = r.key
                                    /\ MemoryPut(r) = [table EXCEPT ![i] = r]
         \/ /\ \A i \in DOMAIN table : table[i].key # r.key
            /\ MemoryPut(r) = Append(table, r)
<1>1. CASE \E i \in DOMAIN table : table[i].key = r.key
  <2> DEFINE T == {i \in DOMAIN table : table[i].key = r.key}
  <2>1. DOMAIN table = 1..Len(table) /\ Len(table) \in Nat
    BY DEF RemoteTypeOK
  <2>2. T \in SUBSET Nat /\ T # {}
    BY <1>1, <2>1
  <2> HIDE DEF T
  <2>3. PICK x \in T : \A y \in T : x <= y
    BY <2>2, Least
  <2>4. x \in DOMAIN table /\ table[x].key = r.key /\ \A j \in 1..(x - 1) : table[j].key # r.key
    BY <2>1, <2>3 DEF T
  <2> DEFINE first == CHOOSE i \in DOMAIN table : /\ table[i].key = r.key
                                                  /\ \A j \in 1..(i - 1) : table[j].key # r.key
  <2>5. first \in DOMAIN table /\ table[first].key = r.key
    BY <2>4
  <2>6. MemoryPut(r) = [table EXCEPT ![first] = r]
    BY <1>1 DEF MemoryPut
  <2> QED BY <2>5, <2>6
<1>2. CASE ~\E i \in DOMAIN table : table[i].key = r.key
  BY <1>2 DEF MemoryPut
<1> QED BY <1>1, <1>2

LEMMA SavedType ==
  ASSUME RemoteTypeOK, NEW r \in Record
  PROVE  MemoryPut(r) \in Seq(Record) /\ MemoryAdd(r) \in Seq(Record)
<1>1. table \in Seq(Record)
  BY DEF RemoteTypeOK
<1>2. Append(table, r) \in Seq(Record)
  BY <1>1
<1>3. \A i \in DOMAIN table : [table EXCEPT ![i] = r] \in Seq(Record)
  BY <1>1
<1>4. \/ \E i \in DOMAIN table : MemoryPut(r) = [table EXCEPT ![i] = r]
      \/ MemoryPut(r) = Append(table, r)
  BY PutMeans
<1>5. MemoryPut(r) \in Seq(Record)
  BY <1>2, <1>3, <1>4, Zenon
<1> QED BY <1>2, <1>5 DEF MemoryAdd

\* A notification that was handled joins the log.
LEMMA LogGrows ==
  ASSUME LogKnown, RemoteTypeOK, NEW n \in Notes, n <= nnotes, said[n].op # "DELETE",
         log' = Append(log, n), UNCHANGED <<nnotes, said>>
  PROVE  LogKnown' /\ log' \in Seq(Notes)
<1>1. log \in Seq(Notes)
  BY DEF RemoteTypeOK
<1>2. \A i \in DOMAIN log' : (i \in DOMAIN log /\ log'[i] = log[i]) \/ log'[i] = n
  BY <1>1
<1>3. \A i \in DOMAIN log' : log'[i] <= nnotes /\ said[log'[i]].op # "DELETE"
  BY <1>2 DEF LogKnown
<1> QED BY <1>1, <1>3 DEF LogKnown

\* What the browser keeps while the server takes a message.
LEMMA BrowserFrame ==
  ASSUME BaseInv, UNCHANGED <<cliEnd, discarded, browserVars>>,
         srvEnd' \in [Conns -> SrvStates], c2s' \in Queues, s2c' \in Queues
  PROVE  ClientTypeOK' /\ PageTypeOK' /\ LineKnown' /\ SocketInv'
<1> USE DEF BaseInv, SyncTypeOK
<1>1. ClientTypeOK'
  BY DEF ClientTypeOK, TransportTypeOK, SocketTypeOK, RpcTypeOK, Queues, browserVars, clientVars,
     rpcVars, dbVars
<1>2. PageTypeOK' /\ LineKnown' /\ SocketInv'
  BY PageFrame, SocketFrame DEF LineKnown, InLine, browserVars, rpcVars, dbVars
<1> QED BY <1>1, <1>2

LEMMA SavesBase ==
  ASSUME BaseInv, NEW e \in Conns, Saves(e), UNCHANGED browserVars
  PROVE  /\ BaseInv' /\ TakeNotification(e) /\ log' = Append(log, Head(c2s[e]).id)
         /\ Heard(e).op \in {"ADD", "PUT"} /\ Heard(e).record \in Record
         /\ table' = IF Heard(e).op = "ADD" THEN MemoryAdd(Heard(e).record)
                                            ELSE MemoryPut(Heard(e).record)
         /\ UNCHANGED <<cliEnd, srvEnd, s2c, pushed, refused>>
<1> USE DEF BaseInv, SyncTypeOK
<1>1. /\ TakeNotification(e) /\ Heard(e).op \in {"ADD", "PUT"}
      /\ table' = IF Heard(e).op = "ADD" THEN MemoryAdd(Heard(e).record)
                                         ELSE MemoryPut(Heard(e).record)
      /\ log' = Append(log, Head(c2s[e]).id)
      /\ UNCHANGED <<cliEnd, srvEnd, s2c, discarded, clients, work, ran, unanswered, pushed, refused>>
  BY DEF Saves, Handles, Heard, ToldOnSave
<1>2. PICK n : n = Head(c2s[e]).id
  OBVIOUS
<1>3. /\ n \in Notes /\ n \in 1..nnotes /\ Heard(e) \in Event /\ Heard(e) = said[n]
      /\ c2s' \in Queues /\ got' \in [Notes -> Nat]
      /\ \A f \in Conns : Range(c2s'[f]) \subseteq Range(c2s[f])
  <2>1. \A f \in Conns : Range(c2s'[f]) \subseteq Range(c2s[f])
    BY <1>1, HeardNote
  <2> QED BY <1>1, <1>2, <2>1, HeardNote DEF Heard
<1>4. PICK r : r = Heard(e).record
  OBVIOUS
<1>5. r \in Record
  BY <1>1, <1>3, <1>4, EventFields
<1>6. table' \in Seq(Record)
  BY <1>1, <1>4, <1>5, SavedType
<1>7. UNCHANGED <<nnotes, said>>
  BY DEF browserVars, rpcVars, pageVars
<1>8. LogKnown' /\ log' \in Seq(Notes)
  <2>1. n <= nnotes
    BY <1>3, JsonRpcAssumption DEF ClientTypeOK, RpcTypeOK
  <2>2. said[n].op # "DELETE"
    BY <1>1, <1>3
  <2> QED BY <1>1, <1>2, <1>3, <1>7, <2>1, <2>2, LogGrows
<1>9. s2c' \in Queues /\ srvEnd' \in [Conns -> SrvStates]
  BY <1>1 DEF ClientTypeOK, TransportTypeOK, Queues
<1>10. ClientTypeOK' /\ PageTypeOK' /\ LineKnown' /\ SocketInv'
  BY <1>1, <1>3, <1>9, BrowserFrame
<1>11. ServerTypeOK' /\ RemoteTypeOK'
  BY <1>1, <1>3, <1>6, <1>8 DEF ServerTypeOK, RemoteTypeOK
<1>12. QueuesKnown'
  BY <1>1, <1>3, <1>7, QueuesFrame
<1> QED BY <1>1, <1>4, <1>5, <1>8, <1>10, <1>11, <1>12

\* What a SYNC tells: each record of the table, under the next numbers.
Told == [i \in DOMAIN table |-> Notification(Len(pushed) + i)]

LEMMA ToldMeans ==
  ASSUME RemoteTypeOK, Len(pushed) + Len(table) <= MaxNotes
  PROVE  /\ Told \in Seq(Message)
         /\ \A m \in Range(Told) : IsNotification(m) /\ m.id <= Len(pushed \o table)
         /\ pushed \o table \in Seq(Record) /\ Len(pushed) <= Len(pushed \o table)
         /\ \A i \in DOMAIN pushed : (pushed \o table)[i] = pushed[i]
         /\ \A i \in DOMAIN table : \E m \in Range(Told) : /\ IsNotification(m)
                                                           /\ (pushed \o table)[m.id] = table[i]
<1>1. table \in Seq(Record) /\ pushed \in Seq(Record)
  BY DEF RemoteTypeOK
<1>2. /\ pushed \o table \in Seq(Record) /\ Len(pushed \o table) = Len(pushed) + Len(table)
      /\ \A i \in DOMAIN pushed : (pushed \o table)[i] = pushed[i]
      /\ \A i \in DOMAIN table : (pushed \o table)[Len(pushed) + i] = table[i]
      /\ DOMAIN table = 1..Len(table) /\ Len(table) \in Nat /\ Len(pushed) \in Nat
  BY <1>1
<1>3. ASSUME NEW i \in DOMAIN table
      PROVE  /\ Notification(Len(pushed) + i) \in Message
             /\ IsNotification(Notification(Len(pushed) + i))
             /\ Notification(Len(pushed) + i).id = Len(pushed) + i
             /\ Len(pushed) + i <= Len(pushed \o table)
  <2>1. Len(pushed) + i \in Notes /\ Len(pushed) + i <= Len(pushed \o table)
    BY <1>2, JsonRpcAssumption DEF Notes
  <2>2. Notification(Len(pushed) + i) \in Message
    BY <2>1, MessageConstructors
  <2> QED BY <2>1, <2>2 DEF Notification, IsNotification
<1>4. Told \in Seq(Message)
  BY <1>2, <1>3 DEF Told
<1>5. \A m \in Range(Told) : \E i \in DOMAIN table : m = Notification(Len(pushed) + i)
  BY DEF Told, Range
<1>6. \A i \in DOMAIN table : Notification(Len(pushed) + i) \in Range(Told)
  BY DEF Told, Range
<1>7. \A m \in Range(Told) : IsNotification(m) /\ m.id <= Len(pushed \o table)
  BY <1>3, <1>5
<1>8. \A i \in DOMAIN table : \E m \in Range(Told) : IsNotification(m) /\ (pushed \o table)[m.id] = table[i]
  BY <1>2, <1>3, <1>6
<1>9. Len(pushed) <= Len(pushed \o table)
  BY <1>2
<1> QED BY <1>2, <1>4, <1>7, <1>8, <1>9, Zenon

LEMMA SyncsBase ==
  ASSUME BaseInv, NEW e \in Conns, Syncs(e), UNCHANGED browserVars
  PROVE  /\ BaseInv' /\ TakeNotification(e) /\ log' = Append(log, Head(c2s[e]).id)
         /\ Heard(e).op = "SYNC" /\ s2c' = Sent(s2c, e, Told) /\ pushed' = pushed \o table
         /\ Len(pushed) + Len(table) <= MaxNotes
         /\ UNCHANGED <<cliEnd, srvEnd, table, refused>>
<1> USE DEF BaseInv, SyncTypeOK
<1>1. /\ TakeNotification(e) /\ Heard(e).op = "SYNC"
      /\ Len(pushed) + Len(table) <= MaxNotes
      /\ s2c' = Sent(s2c, e, Told) /\ pushed' = pushed \o table
      /\ log' = Append(log, Head(c2s[e]).id)
      /\ UNCHANGED <<cliEnd, srvEnd, discarded, clients, work, ran, unanswered, table, refused>>
  BY DEF Syncs, Handles, Heard, Sent, Told
<1>2. PICK n : n = Head(c2s[e]).id
  OBVIOUS
<1>3. /\ n \in Notes /\ n \in 1..nnotes /\ Heard(e) \in Event /\ Heard(e) = said[n]
      /\ c2s' \in Queues /\ got' \in [Notes -> Nat]
      /\ \A f \in Conns : Range(c2s'[f]) \subseteq Range(c2s[f])
  <2>1. \A f \in Conns : Range(c2s'[f]) \subseteq Range(c2s[f])
    BY <1>1, HeardNote
  <2> QED BY <1>1, <1>2, <2>1, HeardNote DEF Heard
<1>4. /\ Told \in Seq(Message) /\ \A m \in Range(Told) : IsNotification(m) /\ m.id <= Len(pushed')
      /\ pushed' \in Seq(Record) /\ Len(pushed) <= Len(pushed')
  BY <1>1, ToldMeans
<1>5. s2c \in Queues /\ s2c' \in Queues /\ srvEnd' \in [Conns -> SrvStates]
  <2>1. s2c \in Queues /\ srvEnd' \in [Conns -> SrvStates]
    BY <1>1 DEF ClientTypeOK, TransportTypeOK, Queues
  <2> QED BY <1>1, <1>4, <2>1, SentHere
<1>6. UNCHANGED <<nnotes, said>>
  BY DEF browserVars, rpcVars, pageVars
<1>7. LogKnown' /\ log' \in Seq(Notes)
  <2>1. n <= nnotes
    BY <1>3, JsonRpcAssumption DEF ClientTypeOK, RpcTypeOK
  <2>2. said[n].op # "DELETE"
    BY <1>1, <1>3
  <2> QED BY <1>1, <1>2, <1>3, <1>6, <2>1, <2>2, LogGrows
<1>8. ClientTypeOK' /\ PageTypeOK' /\ LineKnown' /\ SocketInv'
  BY <1>1, <1>3, <1>5, BrowserFrame
<1>9. ServerTypeOK' /\ RemoteTypeOK'
  BY <1>1, <1>3, <1>4, <1>7 DEF ServerTypeOK, RemoteTypeOK
<1>10. QueuesKnown'
  <2>1. ASSUME NEW f \in Conns, NEW m \in Range(s2c'[f]), IsNotification(m)
        PROVE  m.id <= Len(pushed')
    <3>1. m \in Range(s2c[f]) \cup Range(Told)
      <4>1. Range(Sent(s2c, e, Told)[e]) = Range(s2c[e]) \cup Range(Told)
        BY <1>4, <1>5, SentRange
      <4>2. f # e => Sent(s2c, e, Told)[f] = s2c[f]
        BY <1>5, SentElsewhere
      <4> QED BY <1>1, <2>1, <4>1, <4>2
    <3>2. CASE m \in Range(s2c[f])
      <4>1. m \in Message
        BY <1>5, <3>2, RangeType DEF Queues
      <4>2. m.id \in Nat /\ m.id <= Len(pushed)
        BY <2>1, <3>2, <4>1, MessageFields DEF QueuesKnown, Notes
      <4>3. Len(pushed) \in Nat /\ Len(pushed') \in Nat
        BY <1>4 DEF RemoteTypeOK
      <4> QED BY <1>4, <4>2, <4>3
    <3> QED BY <1>4, <3>1, <3>2
  <2>2. ASSUME NEW f \in Conns, NEW m \in Range(c2s'[f]), IsNotification(m)
        PROVE  m.id <= nnotes'
    BY <1>3, <1>6, <2>2 DEF QueuesKnown
  <2> QED BY <2>1, <2>2 DEF QueuesKnown
<1> QED BY <1>1, <1>7, <1>8, <1>9, <1>10

LEMMA SyncFailsBase ==
  ASSUME BaseInv, NEW e \in Conns, SyncFails(e), UNCHANGED browserVars
  PROVE  /\ BaseInv' /\ TakeNotification(e) /\ log' = Append(log, Head(c2s[e]).id) /\ refused'
         /\ Heard(e).op = "SYNC"
         /\ UNCHANGED <<cliEnd, srvEnd, s2c, table, pushed>>
<1> USE DEF BaseInv, SyncTypeOK
<1>1. /\ TakeNotification(e) /\ Heard(e).op = "SYNC" /\ refused' = TRUE
      /\ log' = Append(log, Head(c2s[e]).id)
      /\ UNCHANGED <<cliEnd, srvEnd, s2c, discarded, clients, work, ran, unanswered, table, pushed>>
  BY DEF SyncFails, Handles, Heard
<1>2. PICK n : n = Head(c2s[e]).id
  OBVIOUS
<1>3. /\ n \in Notes /\ n \in 1..nnotes /\ Heard(e) \in Event /\ Heard(e) = said[n]
      /\ c2s' \in Queues /\ got' \in [Notes -> Nat]
      /\ \A f \in Conns : Range(c2s'[f]) \subseteq Range(c2s[f])
  <2>1. \A f \in Conns : Range(c2s'[f]) \subseteq Range(c2s[f])
    BY <1>1, HeardNote
  <2> QED BY <1>1, <1>2, <2>1, HeardNote DEF Heard
<1>4. UNCHANGED <<nnotes, said>>
  BY DEF browserVars, rpcVars, pageVars
<1>5. LogKnown' /\ log' \in Seq(Notes)
  <2>1. n <= nnotes
    BY <1>3, JsonRpcAssumption DEF ClientTypeOK, RpcTypeOK
  <2>2. said[n].op # "DELETE"
    BY <1>1, <1>3
  <2> QED BY <1>1, <1>2, <1>3, <1>4, <2>1, <2>2, LogGrows
<1>6. s2c' \in Queues /\ srvEnd' \in [Conns -> SrvStates]
  BY <1>1 DEF ClientTypeOK, TransportTypeOK, Queues
<1>7. ClientTypeOK' /\ PageTypeOK' /\ LineKnown' /\ SocketInv'
  BY <1>1, <1>3, <1>6, BrowserFrame
<1>8. ServerTypeOK' /\ RemoteTypeOK'
  BY <1>1, <1>3, <1>5 DEF ServerTypeOK, RemoteTypeOK
<1>9. QueuesKnown'
  BY <1>1, <1>3, <1>4, QueuesFrame
<1> QED BY <1>1, <1>5, <1>7, <1>8, <1>9

\* The process that ends closes its connections.
LEMMA EndsBase ==
  ASSUME BaseInv, NEW e \in Conns, HandlerEndsProcess(e), UNCHANGED browserVars
  PROVE  /\ BaseInv' /\ TakeNotification(e) /\ table' = <<>> /\ log' = <<>>
         /\ \A f \in Conns : srvEnd'[f] # "OPEN" /\ (srvEnd[f] = "UNUSED" <=> srvEnd'[f] = "UNUSED")
         /\ UNCHANGED <<cliEnd, s2c, pushed, refused>>
<1> USE DEF BaseInv, SyncTypeOK
<1>1. /\ TakeNotification(e) /\ table' = <<>> /\ log' = <<>>
      /\ srvEnd' = [x \in Conns |-> IF srvEnd[x] = "OPEN" THEN "CLOSED" ELSE srvEnd[x]]
      /\ clients' = <<>> /\ work' = {} /\ unanswered' = unanswered \cup {w.id : w \in work}
      /\ UNCHANGED <<cliEnd, s2c, discarded, ran, pushed, refused>>
  BY DEF HandlerEndsProcess, Handles, ProcessEnds
<1>2. /\ c2s' \in Queues /\ got' \in [Notes -> Nat]
      /\ \A f \in Conns : Range(c2s'[f]) \subseteq Range(c2s[f])
  <2>1. \A f \in Conns : Range(c2s'[f]) \subseteq Range(c2s[f])
    BY <1>1, HeardNote
  <2> QED BY <1>1, <2>1, HeardNote
<1>3. UNCHANGED <<nnotes, said>>
  BY DEF browserVars, rpcVars, pageVars
<1>4. LogKnown'
  BY <1>1 DEF LogKnown
<1>5. /\ s2c' \in Queues /\ srvEnd' \in [Conns -> SrvStates]
      /\ \A f \in Conns : srvEnd'[f] # "OPEN" /\ (srvEnd[f] = "UNUSED" <=> srvEnd'[f] = "UNUSED")
  BY <1>1 DEF ClientTypeOK, TransportTypeOK, SrvStates, Queues
<1>6. ClientTypeOK' /\ PageTypeOK' /\ LineKnown' /\ SocketInv'
  BY <1>1, <1>2, <1>5, BrowserFrame
<1>7. ServerTypeOK' /\ RemoteTypeOK'
  <2>1. unanswered' \subseteq Calls
    BY <1>1 DEF ServerTypeOK, Work
  <2>2. <<>> \in Seq(Conns) /\ <<>> \in Seq(Record) /\ <<>> \in Seq(Notes)
    OBVIOUS
  <2> QED BY <1>1, <1>2, <2>1, <2>2 DEF ServerTypeOK, RemoteTypeOK
<1>8. QueuesKnown'
  BY <1>1, <1>2, <1>3, QueuesFrame
<1> QED BY <1>1, <1>4, <1>5, <1>6, <1>7, <1>8

LEMMA RegisterBase ==
  ASSUME BaseInv, NEW e \in Conns, RegisterClient(e) \/ UnregisterClient(e),
         UNCHANGED <<browserVars, remoteVars>>
  PROVE  /\ BaseInv'
         /\ UNCHANGED <<cliEnd, c2s, s2c>>
         /\ \A f \in Conns : /\ srvEnd[f] # "UNUSED" => srvEnd'[f] # "UNUSED"
                             /\ srvEnd'[f] = "OPEN" => srvEnd[f] = "OPEN" \/ srvEnd[f] = "UNUSED"
                             /\ cliEnd[f] = "UNUSED" /\ srvEnd[f] = "UNUSED" => srvEnd'[f] = "UNUSED"
<1> USE DEF BaseInv, SyncTypeOK
<1>1. /\ UNCHANGED <<cliEnd, c2s, s2c, discarded, work, ran, got, unanswered>>
      /\ srvEnd' \in [Conns -> SrvStates]
      /\ \/ cliEnd[e] # "UNUSED" /\ srvEnd[e] = "UNUSED" /\ srvEnd' = [srvEnd EXCEPT ![e] = "OPEN"]
         \/ srvEnd[e] = "OPEN" /\ srvEnd' = [srvEnd EXCEPT ![e] = "CLOSED"]
  BY DEF RegisterClient, UnregisterClient, AcceptConnection, ServerEndCloses, ClientTypeOK,
    TransportTypeOK, SrvStates
<1>2. clients' \in Seq(Conns)
  <2>1. Append(clients, e) \in Seq(Conns)
    BY DEF ServerTypeOK
  <2>2. Without(e) \in Seq(Conns)
    <3> DEFINE idx == CHOOSE i \in DOMAIN clients : clients[i] = e
    <3>1. CASE \E i \in DOMAIN clients : clients[i] = e
      <4>1. idx \in DOMAIN clients
        BY <3>1
      <4>2. clients \in Seq(Conns) /\ DOMAIN clients = 1..Len(clients) /\ Len(clients) \in Nat
        BY DEF ServerTypeOK
      <4> HIDE DEF idx
      <4>3. SubSeq(clients, 1, idx - 1) \in Seq(Conns)
        BY <4>1, <4>2
      <4>4. SubSeq(clients, idx + 1, Len(clients)) \in Seq(Conns)
        BY <4>1, <4>2
      <4>5. SubSeq(clients, 1, idx - 1) \o SubSeq(clients, idx + 1, Len(clients)) \in Seq(Conns)
        BY <4>3, <4>4
      <4> QED BY <3>1, <4>5 DEF Without, idx
    <3>2. CASE ~\E i \in DOMAIN clients : clients[i] = e
      BY <3>2 DEF Without, ServerTypeOK
    <3> QED BY <3>1, <3>2
  <2> QED BY <2>1, <2>2 DEF RegisterClient, UnregisterClient, With
<1>3. ServerTypeOK' /\ RemoteTypeOK'
  BY <1>1, <1>2 DEF ServerTypeOK, RemoteTypeOK, remoteVars
<1>4. ClientTypeOK' /\ PageTypeOK' /\ LineKnown' /\ SocketInv'
  <2>1. c2s' \in Queues /\ s2c' \in Queues
    BY <1>1 DEF ClientTypeOK, TransportTypeOK, Queues
  <2> QED BY <1>1, <2>1, BrowserFrame
<1>5. QueuesKnown' /\ LogKnown'
  BY <1>1 DEF QueuesKnown, LogKnown, browserVars, rpcVars, pageVars, remoteVars
<1>6. \A f \in Conns : /\ srvEnd[f] # "UNUSED" => srvEnd'[f] # "UNUSED"
                       /\ srvEnd'[f] = "OPEN" => srvEnd[f] = "OPEN" \/ srvEnd[f] = "UNUSED"
                       /\ cliEnd[f] = "UNUSED" /\ srvEnd[f] = "UNUSED" => srvEnd'[f] = "UNUSED"
  BY <1>1 DEF ClientTypeOK, TransportTypeOK
<1> QED BY <1>1, <1>3, <1>4, <1>5, <1>6

\* SCHEMA is answered at once.
LEMMA RequestBase ==
  ASSUME BaseInv, NEW e \in Conns, ReceiveRequest(e, "value"), UNCHANGED <<browserVars, remoteVars>>
  PROVE  /\ BaseInv' /\ srvEnd[e] = "OPEN" /\ c2s[e] # <<>> /\ c2s' = Taken(c2s, e)
         /\ Head(c2s[e]).id \in Calls /\ IsRequest(Head(c2s[e]))
         /\ s2c' = Sent(s2c, e, <<Response(Head(c2s[e]).id, "result")>>)
         /\ Response(Head(c2s[e]).id, "result") \in Message
         /\ UNCHANGED <<cliEnd, srvEnd>>
<1> USE DEF BaseInv, SyncTypeOK
<1>1. PICK h : h = Head(c2s[e])
  OBVIOUS
<1>2. PICK m : m = Response(h.id, "result")
  OBVIOUS
<1>3. BodyOf("value") = "result" /\ ~Async("value")
  BY DEF BodyOf, Async
<1>4. /\ srvEnd[e] = "OPEN" /\ c2s[e] # <<>> /\ c2s' = Taken(c2s, e) /\ IsRequest(h)
      /\ s2c' = [s2c EXCEPT ![e] = Append(@, m)]
      /\ ran' = [ran EXCEPT ![h.id] = @ + 1] /\ work' = work
      /\ UNCHANGED <<cliEnd, srvEnd, discarded, clients, got, unanswered>>
  BY <1>1, <1>2, <1>3 DEF ReceiveRequest, Answer, ServerSends, ServerTakes, Taken
<1>5. c2s \in Queues /\ s2c \in Queues
  BY DEF ClientTypeOK, TransportTypeOK, Queues
<1>6. h \in Message /\ c2s' \in Queues /\ Range(c2s[e]) = {h} \cup Range(c2s'[e])
  BY <1>1, <1>4, <1>5, TakenHere, TakenRange
<1>7. h.id \in Calls
  BY <1>4, <1>6, MessageFields
<1>8. m \in Message /\ ~IsNotification(m)
  BY <1>2, <1>7, MessageConstructors DEF Bodies, Response, IsNotification
<1>9. PICK s : s = <<m>>
  OBVIOUS
<1>10. s \in Seq(Message) /\ Range(s) = {m}
  BY <1>8, <1>9 DEF Range
<1>11. s2c' = Sent(s2c, e, s)
  <2>1. s2c[e] \o s = Append(s2c[e], m)
    BY <1>5, <1>8, <1>9 DEF Queues
  <2> QED BY <1>4, <2>1 DEF Sent
<1>12. s2c' \in Queues /\ Range(s2c'[e]) = Range(s2c[e]) \cup {m}
  <2>1. Sent(s2c, e, s) \in Queues /\ Range(Sent(s2c, e, s)[e]) = Range(s2c[e]) \cup Range(s)
    BY <1>5, <1>10, SentHere, SentRange
  <2> QED BY <1>10, <1>11, <2>1, Zenon
<1>13. ServerTypeOK' /\ RemoteTypeOK'
  BY <1>4, <1>7 DEF ServerTypeOK, RemoteTypeOK, remoteVars
<1>14. ClientTypeOK' /\ PageTypeOK' /\ LineKnown' /\ SocketInv'
  <2>1. srvEnd' \in [Conns -> SrvStates]
    BY <1>4 DEF ClientTypeOK, TransportTypeOK
  <2> QED BY <1>4, <1>6, <1>12, <2>1, BrowserFrame
<1>15. QueuesKnown'
  <2>1. \A f \in Conns : \A x \in Range(c2s'[f]) : IsNotification(x) => x \in Range(c2s[f])
    <3>1. \A f \in Conns : f # e => c2s'[f] = c2s[f]
      BY <1>4, <1>5, TakenElsewhere
    <3> QED BY <1>6, <3>1
  <2>2. \A f \in Conns : \A x \in Range(s2c'[f]) : IsNotification(x) => x \in Range(s2c[f])
    <3>1. \A f \in Conns : f # e => s2c'[f] = s2c[f]
      BY <1>5, <1>11, SentElsewhere
    <3> QED BY <1>8, <1>12, <3>1
  <2> QED BY <2>1, <2>2, QueuesFrame DEF browserVars, rpcVars, remoteVars
<1>16. LogKnown'
  BY LogFrame DEF browserVars, rpcVars, pageVars, remoteVars
<1>17. s2c' = Sent(s2c, e, <<Response(Head(c2s[e]).id, "result")>>)
  BY <1>1, <1>2, <1>9, <1>11
<1> QED BY <1>1, <1>2, <1>4, <1>7, <1>8, <1>13, <1>14, <1>15, <1>16, <1>17

-----------------------------------------------------------------------------
(* What is always so.                                                       *)

LEMMA InitBase == Init => BaseInv
<1> SUFFICES ASSUME Init PROVE BaseInv
  OBVIOUS
<1>1. 1 \in Conns /\ 1 \in Calls
  BY MaxConnsAssumption, JsonRpcAssumption, SyncAssumption DEF Conns, Calls
<1>2. /\ socket = 1 /\ connected = FALSE /\ connecting = TRUE /\ trying = TRUE
      /\ cliEnd = [e \in Conns |-> IF e = 1 THEN "CONNECTING" ELSE "UNUSED"]
      /\ srvEnd = [e \in Conns |-> "UNUSED"]
      /\ c2s = [e \in Conns |-> <<>>] /\ s2c = [e \in Conns |-> <<>>] /\ discarded = {}
  BY DEF Init, SocketInit, TransportInit
<1>3. /\ nnotes = 0 /\ store = <<>> /\ txs = <<>> /\ flushed = <<>> /\ rollbacks = 0
      /\ forgotten = {} /\ buffer = <<Request(1)>> /\ pending = {1} /\ ncalls = 1
      /\ promise = [c \in Calls |-> IF c = 1 THEN "pending" ELSE "idle"]
  BY DEF Init, StoreInit
<1>4. /\ autoIncrement \in BOOLEAN /\ db = {} /\ disk = {} /\ boot = 1 /\ saved = FALSE
      /\ incoming = <<>> /\ reading = 0 /\ said = <<>> /\ writes = 0
      /\ table = <<[key |-> 0, val |-> 0, stamped |-> TRUE]>>
      /\ pushed = <<>> /\ log = <<>> /\ refused = FALSE
  BY DEF Init
<1>5. ClientTypeOK
  <2>1. TransportTypeOK(Message) /\ SocketTypeOK
    <3>1. TransportTypeOK(Message)
      BY DEF Init, TransportInit, TransportTypeOK, CliStates, SrvStates
    <3>2. SocketTypeOK
      BY <1>1, <1>2 DEF SocketTypeOK
    <3> QED BY <3>1, <3>2
  <2>2. <<Request(1)>> \in Seq(Requests)
    BY <1>1, MessageConstructors
  <2>3. 1 \in 0..MaxCalls /\ 0 \in 0..MaxNotes
    BY JsonRpcAssumption, SyncAssumption
  <2>4. promise \in [Calls -> PromiseStates]
    BY <1>3 DEF PromiseStates
  <2>5. /\ <<>> \in Seq(Message) /\ <<>> \in Seq(Transactions) /\ 0 \in Nat
        /\ {} \subseteq Message /\ {1} \subseteq Calls
    BY <1>1
  <2>6. RpcTypeOK
    BY <1>3, <2>2, <2>3, <2>4, <2>5 DEF RpcTypeOK
  <2> QED BY <2>1, <2>6 DEF ClientTypeOK
<1>6. ServerTypeOK
  <2>1. <<>> \in Seq(Conns) /\ 0 \in Nat
    OBVIOUS
  <2> QED BY <2>1 DEF Init, ServerInit, ServerTypeOK
<1>7. PageTypeOK
  <2>1. <<>> \in Seq(Record) /\ <<>> \in Seq(Event) /\ Len(<<>>) = 0 /\ 0 \in Nat
    OBVIOUS
  <2>2. 0 \in 0..MaxWrites
    BY SyncAssumption
  <2> QED BY <1>1, <1>3, <1>4, <2>1, <2>2 DEF PageTypeOK
<1>8. RemoteTypeOK
  <2>1. 0 \in Keys /\ 0 \in Values
    BY SyncAssumption DEF Keys, Values
  <2>2. PICK r : r = [key |-> 0, val |-> 0, stamped |-> TRUE]
    OBVIOUS
  <2>3. r \in Record
    BY <2>1, <2>2, RecordTypes
  <2>4. <<r>> \in Seq(Record) /\ <<>> \in Seq(Record) /\ <<>> \in Seq(Notes)
    BY <2>3
  <2> QED BY <1>4, <2>2, <2>4 DEF RemoteTypeOK
<1>9. LineKnown /\ QueuesKnown /\ LogKnown
  <2>1. Range(<<>>) = {} /\ AddsOf(<<>>) = {} /\ DOMAIN <<>> = {}
    BY DEF Range, AddsOf
  <2> QED BY <1>2, <1>3, <1>4, <2>1 DEF LineKnown, InLine, QueuesKnown, LogKnown
<1>10. SocketInv
  BY <1>1, <1>2 DEF SocketInv, FlagsTrackSocket, OneLiveSocket, Conns
<1> QED BY <1>5, <1>6, <1>7, <1>8, <1>9, <1>10 DEF BaseInv, SyncTypeOK

\* A step of the browser, one of the server, or none.
LEMMA NextBase ==
  ASSUME BaseInv, [Next]_vars
  PROVE  BaseInv'
<1>1. CASE BrowserNext /\ UNCHANGED <<serverVars, remoteVars>>
  <2>1. CASE AnnounceStep
    BY <1>1, <2>1, AnnounceBase
  <2>2. CASE WriteCommits
    BY <1>1, <2>2, CommitBase
  <2>3. CASE PageReloads
    BY <1>1, <2>3, ReloadBase
  <2>4. ASSUME NEW e \in Conns, RemoteConnect(e) \/ OnSchema(e) \/ OnRemotePut(e)
        PROVE  BaseInv'
    BY <1>1, <2>4, ConnectBase, SchemaBase, RemotePutBase
  <2>5. CASE OnAttempt /\ UNCHANGED pageVars
    BY <1>1, <2>5, AttemptBase
  <2>6. CASE StoreStep /\ UNCHANGED pageVars
    BY <1>1, <2>6, StoreBase
  <2>7. ASSUME NEW e \in Conns, OnClose(e), UNCHANGED pageVars
        PROVE  BaseInv'
    BY <1>1, <2>7, CloseBase
  <2> QED BY <1>1, <2>1, <2>2, <2>3, <2>4, <2>5, <2>6, <2>7 DEF BrowserNext, AnnounceStep
<1>2. CASE ServerNext /\ UNCHANGED browserVars
  BY <1>2, SavesBase, SyncsBase, SyncFailsBase, EndsBase, RegisterBase, RequestBase DEF ServerNext
<1>3. CASE UNCHANGED vars
  <2>1. ClientTypeOK' /\ PageTypeOK' /\ LineKnown' /\ SocketInv'
    <3>1. c2s' \in Queues /\ s2c' \in Queues /\ srvEnd' \in [Conns -> SrvStates]
      BY <1>3 DEF vars, transportVars, BaseInv, SyncTypeOK, ClientTypeOK, TransportTypeOK, Queues
    <3> QED BY <1>3, <3>1, BrowserFrame DEF vars, transportVars
  <2>2. ServerTypeOK' /\ RemoteTypeOK'
    BY <1>3, ServerFrame DEF vars, BaseInv, SyncTypeOK
  <2>3. QueuesKnown' /\ LogKnown'
    BY <1>3 DEF vars, transportVars, browserVars, rpcVars, pageVars, remoteVars, BaseInv, QueuesKnown,
       LogKnown
  <2> QED BY <2>1, <2>2, <2>3 DEF BaseInv, SyncTypeOK
<1> QED BY <1>1, <1>2, <1>3 DEF Next

-----------------------------------------------------------------------------
(* The SCHEMA calls under way on a connection, and their answers: at most   *)
(* the constructor's and onRemoteConnect's, so that there are at most as    *)
(* many getAll requests as connections.                                     *)

\* A socket that is not there yet has been told nothing.
QueueInv ==
  \A e \in Conns :
    /\ cliEnd[e] = "UNUSED" => c2s[e] = <<>> /\ s2c[e] = <<>> /\ srvEnd[e] = "UNUSED"
    /\ cliEnd[e] = "CONNECTING" => c2s[e] = <<>> /\ s2c[e] = <<>>
    /\ cliEnd[e] = "OPEN" => srvEnd[e] # "UNUSED"

Ask(m) == ~IsNotification(m)

\* Both of the call b, or neither.
Twins(m, n, b) == (m.id = b) <=> (n.id = b)

\* No two of q are twins.
OneEach(q, b) ==
  \A i, j \in DOMAIN q : i # j /\ Ask(q[i]) /\ Ask(q[j]) => ~Twins(q[i], q[j], b)

Apart(q, r, b) ==
  \A m \in Range(q), n \in Range(r) : Ask(m) /\ Ask(n) => ~Twins(m, n, b)

Asks(q, r, b) == OneEach(q, b) /\ OneEach(r, b) /\ Apart(q, r, b)

\* Something other than this.dbs waits for an answer.
Asked ==
  \E m \in Range(c2s[socket]) \cup Range(s2c[socket]) : Ask(m) /\ m.id # boot

AskInv ==
  /\ boot <= ncalls
  /\ buffer = <<>> \/ (boot # 0 /\ buffer = <<Request(boot)>>)
  /\ cliEnd[socket] = "OPEN" => buffer = <<>>
  /\ Asks(c2s[socket], s2c[socket], boot)
  /\ reading <= socket
  /\ Asked \/ cliEnd[socket] = "CONNECTING" => reading < socket

LEMMA AsksSwap ==
  ASSUME NEW q, NEW r, NEW b, Asks(q, r, b)
  PROVE  Asks(r, q, b)
BY DEF Asks, Apart, Twins

LEMMA AsksTail ==
  ASSUME NEW q \in Seq(Message), q # <<>>, NEW r, NEW b, Asks(q, r, b)
  PROVE  /\ Asks(Tail(q), r, b)
         /\ Ask(Head(q)) => \A n \in Range(Tail(q)) \cup Range(r) : Ask(n) => ~Twins(Head(q), n, b)
<1>1. OneEach(Tail(q), b)
  <2> SUFFICES ASSUME NEW i \in DOMAIN Tail(q), NEW j \in DOMAIN Tail(q), i # j, Ask(Tail(q)[i]),
                      Ask(Tail(q)[j])
               PROVE  ~Twins(Tail(q)[i], Tail(q)[j], b)
    BY DEF OneEach
  <2>1. /\ i + 1 \in DOMAIN q /\ Tail(q)[i] = q[i + 1] /\ j + 1 \in DOMAIN q /\ Tail(q)[j] = q[j + 1]
        /\ i + 1 # j + 1
    BY TailIndices
  <2> QED BY <2>1 DEF Asks, OneEach
<1>2. Range(q) = {Head(q)} \cup Range(Tail(q))
  BY TailRange
<1>3. Apart(Tail(q), r, b)
  BY <1>2 DEF Asks, Apart
<1>4. ASSUME Ask(Head(q)), NEW n \in Range(Tail(q)), Ask(n)
      PROVE  ~Twins(Head(q), n, b)
  <2>1. PICK i \in DOMAIN Tail(q) : n = Tail(q)[i]
    BY DEF Range
  <2>2. /\ i + 1 \in DOMAIN q /\ Tail(q)[i] = q[i + 1] /\ 1 \in DOMAIN q /\ Head(q) = q[1]
        /\ i + 1 # 1
    <3>1. /\ i + 1 \in DOMAIN q /\ Tail(q)[i] = q[i + 1] /\ 1 \in DOMAIN q /\ Head(q) = q[1]
      BY TailIndices
    <3>2. i + 1 # 1
      OBVIOUS
    <3> QED BY <3>1, <3>2
  <2> QED BY <1>4, <2>1, <2>2 DEF Asks, OneEach
<1> QED BY <1>1, <1>2, <1>3, <1>4 DEF Asks, Apart

LEMMA AsksJoin ==
  ASSUME NEW q \in Seq(Message), NEW s \in Seq(Message), NEW r, NEW b,
         Asks(q, r, b), OneEach(s, b), Apart(s, q, b), Apart(s, r, b)
  PROVE  Asks(q \o s, r, b)
<1>1. OneEach(q \o s, b)
  <2> SUFFICES ASSUME NEW i \in DOMAIN (q \o s), NEW j \in DOMAIN (q \o s), i # j,
                      Ask((q \o s)[i]), Ask((q \o s)[j])
               PROVE  ~Twins((q \o s)[i], (q \o s)[j], b)
    BY DEF OneEach
  <2>1. \A k \in DOMAIN (q \o s) : \/ k \in DOMAIN q /\ (q \o s)[k] = q[k]
                                   \/ /\ k - Len(q) \in DOMAIN s /\ (q \o s)[k] = s[k - Len(q)]
    OBVIOUS
  <2>2. CASE i \in DOMAIN q /\ (q \o s)[i] = q[i] /\ j \in DOMAIN q /\ (q \o s)[j] = q[j]
    BY <2>2 DEF Asks, OneEach
  <2>3. CASE /\ i - Len(q) \in DOMAIN s /\ (q \o s)[i] = s[i - Len(q)]
             /\ j - Len(q) \in DOMAIN s /\ (q \o s)[j] = s[j - Len(q)]
    <3>1. i - Len(q) # j - Len(q)
      OBVIOUS
    <3> QED BY <2>3, <3>1 DEF OneEach
  <2>4. CASE i \in DOMAIN q /\ (q \o s)[i] = q[i] /\ j - Len(q) \in DOMAIN s /\ (q \o s)[j] = s[j - Len(q)]
    <3>1. (q \o s)[i] \in Range(q) /\ (q \o s)[j] \in Range(s)
      BY <2>4 DEF Range
    <3> QED BY <3>1 DEF Apart, Twins
  <2>5. CASE j \in DOMAIN q /\ (q \o s)[j] = q[j] /\ i - Len(q) \in DOMAIN s /\ (q \o s)[i] = s[i - Len(q)]
    <3>1. (q \o s)[j] \in Range(q) /\ (q \o s)[i] \in Range(s)
      BY <2>5 DEF Range
    <3> QED BY <3>1 DEF Apart
  <2> QED BY <2>1, <2>2, <2>3, <2>4, <2>5
<1>2. Range(q \o s) = Range(q) \cup Range(s)
  BY JoinRange
<1> QED BY <1>1, <1>2 DEF Asks, Apart

\* Notifications are nobody's twins.
LEMMA AsksNotes ==
  ASSUME NEW q \in Seq(Message), NEW s \in Seq(Message), NEW r, NEW b, Asks(q, r, b),
         \A m \in Range(s) : IsNotification(m)
  PROVE  Asks(q \o s, r, b)
<1>1. OneEach(s, b) /\ Apart(s, q, b) /\ Apart(s, r, b)
  BY DEF OneEach, Apart, Ask, Range
<1> QED BY <1>1, AsksJoin

LEMMA OneIsAlone ==
  ASSUME NEW m \in Message
  PROVE  <<m>> \in Seq(Message) /\ Range(<<m>>) = {m} /\ \A b : OneEach(<<m>>, b)
BY DEF OneEach, Range

\* The answer to the first of q takes its place in r.
LEMMA AsksMove ==
  ASSUME NEW q \in Seq(Message), q # <<>>, NEW r \in Seq(Message), NEW b, Asks(q, r, b),
         NEW m \in Message, Ask(Head(q)), m.id = Head(q).id
  PROVE  Asks(Tail(q), r \o <<m>>, b)
<1>1. Asks(r, Tail(q), b) /\ \A n \in Range(Tail(q)) \cup Range(r) : Ask(n) => ~Twins(Head(q), n, b)
  BY AsksTail, AsksSwap
<1>2. PICK s : s = <<m>>
  OBVIOUS
<1>3. s \in Seq(Message) /\ Range(s) = {m} /\ OneEach(s, b)
  BY <1>2, OneIsAlone
<1>4. Apart(s, r, b) /\ Apart(s, Tail(q), b)
  BY <1>1, <1>3 DEF Apart, Twins
<1>5. Asks(r \o s, Tail(q), b)
  BY <1>1, <1>3, <1>4, AsksJoin
<1> QED BY <1>2, <1>5, AsksSwap

\* The answer this.dbs waits for is taken: what is left is one call at most.
LEMMA AsksAnswered ==
  ASSUME NEW q \in Seq(Message), NEW r \in Seq(Message), r # <<>>, NEW b, Asks(q, r, b),
         Ask(Head(r)), Head(r).id = b
  PROVE  Asks(q, Tail(r), 0)
<1>1. Asks(Tail(r), q, b) /\ \A n \in Range(Tail(r)) \cup Range(q) : Ask(n) => ~Twins(Head(r), n, b)
  BY AsksSwap, AsksTail
<1>2. \A n \in Range(Tail(r)) \cup Range(q) : Ask(n) => n.id # b
  BY <1>1 DEF Twins
<1>3. OneEach(Tail(r), 0)
  BY <1>1, <1>2 DEF Asks, OneEach, Twins, Range
<1>4. OneEach(q, 0)
  BY <1>1, <1>2 DEF Asks, OneEach, Twins, Range
<1>5. Apart(q, Tail(r), 0)
  BY <1>1, <1>2 DEF Asks, Apart, Twins
<1> QED BY <1>3, <1>4, <1>5 DEF Asks

-----------------------------------------------------------------------------
(* What steps do to the queues.                                             *)

\* A notification that is handled is taken, and SYNC alone tells anything.
LEMMA HandlerMeans ==
  ASSUME BaseInv, NEW e \in Conns, Saves(e) \/ Syncs(e) \/ SyncFails(e) \/ HandlerEndsProcess(e),
         UNCHANGED browserVars
  PROVE  /\ TakeNotification(e)
         /\ \/ UNCHANGED s2c
            \/ s2c' = Sent(s2c, e, Told) /\ Len(pushed) + Len(table) <= MaxNotes
         /\ UNCHANGED cliEnd
         /\ \A f \in Conns : srvEnd[f] = "UNUSED" <=> srvEnd'[f] = "UNUSED"
BY SavesBase, SyncsBase, SyncFailsBase, EndsBase

\* The server touches one connection, on which it has been sent something.
LEMMA ServerQueues ==
  ASSUME BaseInv, ServerNext, UNCHANGED browserVars
  PROVE  /\ UNCHANGED cliEnd
         /\ \A f \in Conns : c2s[f] = <<>> => c2s'[f] = c2s[f] /\ s2c'[f] = s2c[f]
         /\ \A f \in Conns : srvEnd[f] # "UNUSED" => srvEnd'[f] # "UNUSED"
         /\ \A f \in Conns : cliEnd[f] = "UNUSED" /\ srvEnd[f] = "UNUSED" => srvEnd'[f] = "UNUSED"
<1>1. s2c \in Queues /\ c2s \in Queues
  BY DEF BaseInv, SyncTypeOK, ClientTypeOK, TransportTypeOK, Queues
<1>2. ASSUME NEW e \in Conns, Saves(e) \/ Syncs(e) \/ SyncFails(e) \/ HandlerEndsProcess(e),
             NEW f \in Conns, c2s[f] = <<>>
      PROVE  c2s'[f] = c2s[f] /\ s2c'[f] = s2c[f]
  <2>1. TakeNotification(e) /\ (UNCHANGED s2c \/ s2c' = Sent(s2c, e, Told))
    BY <1>2, HandlerMeans
  <2>2. c2s[e] # <<>> /\ \A g \in Conns : g # e => c2s'[g] = c2s[g]
    BY <2>1, HeardNote
  <2>3. f # e
    BY <1>2, <2>2
  <2>4. s2c'[f] = s2c[f]
    BY <1>1, <2>1, <2>3, SentElsewhere
  <2> QED BY <2>2, <2>3, <2>4
<1>3. ASSUME NEW e \in Conns, ReceiveRequest(e, "value"), UNCHANGED remoteVars,
             NEW f \in Conns, c2s[f] = <<>>
      PROVE  c2s'[f] = c2s[f] /\ s2c'[f] = s2c[f]
  <2>1. PICK m : m = Response(Head(c2s[e]).id, "result")
    OBVIOUS
  <2>2. c2s[e] # <<>> /\ c2s' = Taken(c2s, e) /\ s2c' = Sent(s2c, e, <<m>>)
    BY <1>3, <2>1, RequestBase
  <2>3. f # e
    BY <1>3, <2>2
  <2> QED BY <1>1, <2>2, <2>3, SentElsewhere, TakenElsewhere
<1>4. ASSUME NEW e \in Conns, ReceiveRequest(e, "value"), UNCHANGED remoteVars
      PROVE  UNCHANGED <<cliEnd, srvEnd>>
  BY <1>4, RequestBase
<1>5. ASSUME NEW e \in Conns, RegisterClient(e) \/ UnregisterClient(e), UNCHANGED remoteVars
      PROVE  /\ UNCHANGED <<cliEnd, c2s, s2c>>
             /\ \A f \in Conns : srvEnd[f] # "UNUSED" => srvEnd'[f] # "UNUSED"
             /\ \A f \in Conns : cliEnd[f] = "UNUSED" /\ srvEnd[f] = "UNUSED" => srvEnd'[f] = "UNUSED"
  BY <1>5, RegisterBase
<1>6. ASSUME NEW e \in Conns, Saves(e) \/ Syncs(e) \/ SyncFails(e) \/ HandlerEndsProcess(e)
      PROVE  UNCHANGED cliEnd /\ \A f \in Conns : srvEnd[f] = "UNUSED" <=> srvEnd'[f] = "UNUSED"
  BY <1>6, HandlerMeans
<1> QED BY <1>2, <1>3, <1>4, <1>5, <1>6 DEF ServerNext

LEMMA QueueFrame ==
  ASSUME QueueInv, UNCHANGED cliEnd,
         \A f \in Conns : cliEnd[f] # "OPEN" /\ c2s[f] = <<>> => c2s'[f] = c2s[f],
         \A f \in Conns : cliEnd[f] # "OPEN" /\ c2s[f] = <<>> => s2c'[f] = s2c[f],
         \A f \in Conns : srvEnd[f] # "UNUSED" => srvEnd'[f] # "UNUSED",
         \A f \in Conns : cliEnd[f] = "UNUSED" /\ srvEnd[f] = "UNUSED" => srvEnd'[f] = "UNUSED"
  PROVE  QueueInv'
BY DEF QueueInv

LEMMA TellsQueues ==
  ASSUME BaseInv, QueueInv, PageTells
  PROVE  QueueInv'
<1>1. c2s \in Queues /\ socket \in Conns
  BY DEF BaseInv, SyncTypeOK, ClientTypeOK, TransportTypeOK, SocketTypeOK, Queues
<1>2. ASSUME NEW f \in Conns, cliEnd[f] # "OPEN"
      PROVE  c2s'[f] = c2s[f]
  <2>1. CASE UNCHANGED c2s
    BY <2>1
  <2>2. ASSUME NEW m \in Message, c2s' = Sent(c2s, socket, <<m>>), cliEnd[socket] = "OPEN"
        PROVE  c2s'[f] = c2s[f]
    <3>1. f # socket
      BY <1>2, <2>2
    <3> QED BY <1>1, <2>2, <3>1, SentElsewhere
  <2> QED BY <2>1, <2>2 DEF PageTells
<1> QED BY <1>2, QueueFrame DEF PageTells

LEMMA TakesQueues ==
  ASSUME BaseInv, QueueInv, NEW e \in Conns, ClientTakes(e), UNCHANGED <<cliEnd, srvEnd, c2s>>
  PROVE  QueueInv'
<1>1. e = socket /\ cliEnd[e] = "OPEN" /\ \A f \in Conns : f # socket => s2c'[f] = s2c[f]
  BY PageTakes DEF ClientTakes
<1> QED BY <1>1, QueueFrame

LEMMA NextSocketQueues ==
  ASSUME BaseInv, QueueInv, NextSocket
  PROVE  /\ QueueInv' /\ c2s'[socket'] = <<>> /\ s2c'[socket'] = <<>>
         /\ cliEnd'[socket'] = "CONNECTING"
<1>1. socket \in Conns /\ socket + 1 \in Conns /\ cliEnd \in [Conns -> CliStates] /\ socket' = socket + 1
  BY DEF BaseInv, SyncTypeOK, ClientTypeOK, TransportTypeOK, SocketTypeOK, NextSocket
<1>2. cliEnd[socket + 1] = "UNUSED"
  BY <1>1 DEF BaseInv, SocketInv, OneLiveSocket, Conns
<1>3. c2s[socket + 1] = <<>> /\ s2c[socket + 1] = <<>>
  BY <1>1, <1>2 DEF QueueInv
<1>4. QueueInv'
  BY <1>1, <1>2, <1>3 DEF QueueInv, NextSocket
<1>5. cliEnd'[socket + 1] = "CONNECTING"
  BY <1>1 DEF NextSocket
<1> QED BY <1>1, <1>3, <1>4, <1>5 DEF NextSocket

LEMMA NextQueues ==
  ASSUME BaseInv, QueueInv, [Next]_vars
  PROVE  QueueInv'
<1>1. CASE BrowserNext /\ UNCHANGED <<serverVars, remoteVars>>
  <2>1. CASE AnnounceStep
    BY <2>1, AnnounceStepMeans, AnnouncesTells, TellsQueues DEF BaseInv, SyncTypeOK
  <2>2. CASE WriteCommits
    BY <2>2, QueueFrame DEF WriteCommits, transportVars
  <2>3. CASE PageReloads
    BY <1>1, <2>3, ReloadBase, NextSocketQueues
  <2>4. ASSUME NEW e \in Conns, RemoteConnect(e)
        PROVE  QueueInv'
    <3>1. PICK s : s = Append(buffer, Request(ncalls + 1))
      OBVIOUS
    <3>2. /\ e = socket /\ cliEnd'[socket] = "OPEN" /\ srvEnd[socket] # "UNUSED"
          /\ c2s' = Sent(c2s, socket, s) /\ UNCHANGED <<srvEnd, s2c>>
          /\ \A f \in Conns : f # socket => cliEnd'[f] = cliEnd[f]
      BY <1>1, <2>4, <3>1, ConnectBase
    <3>3. \A f \in Conns : f # socket => c2s'[f] = c2s[f]
      <4>1. c2s \in Queues
        BY DEF BaseInv, SyncTypeOK, ClientTypeOK, TransportTypeOK, Queues
      <4> QED BY <3>2, <4>1, SentElsewhere
    <3> QED BY <3>2, <3>3 DEF QueueInv
  <2>5. ASSUME NEW e \in Conns, OnSchema(e)
        PROVE  QueueInv'
    BY <1>1, <2>5, SchemaBase, TakesQueues
  <2>6. ASSUME NEW e \in Conns, OnRemotePut(e)
        PROVE  QueueInv'
    BY <1>1, <2>6, RemotePutBase, TakesQueues
  <2>7. CASE OnAttempt /\ UNCHANGED pageVars
    BY <1>1, <2>7, AttemptBase, NextSocketQueues
  <2>8. CASE StoreStep /\ UNCHANGED pageVars
    BY <2>8, StoreStepTells, TellsQueues DEF BaseInv, SyncTypeOK
  <2>9. ASSUME NEW e \in Conns, OnClose(e), UNCHANGED pageVars
        PROVE  QueueInv'
    <3>1. cliEnd' = [cliEnd EXCEPT ![e] = "CLOSED"] /\ UNCHANGED <<srvEnd, c2s, s2c>>
      BY <2>9 DEF OnClose, SocketCloses
    <3>2. cliEnd \in [Conns -> CliStates]
      BY DEF BaseInv, SyncTypeOK, ClientTypeOK, TransportTypeOK
    <3> QED BY <3>1, <3>2 DEF QueueInv
  <2> QED BY <1>1, <2>1, <2>2, <2>3, <2>4, <2>5, <2>6, <2>7, <2>8, <2>9 DEF BrowserNext, AnnounceStep
<1>2. CASE ServerNext /\ UNCHANGED browserVars
  BY <1>2, ServerQueues, QueueFrame
<1>3. CASE UNCHANGED vars
  BY <1>3, QueueFrame DEF vars, transportVars
<1> QED BY <1>1, <1>2, <1>3 DEF Next

\* Steps that leave the page's calls alone.
LEMMA AskFrame ==
  ASSUME BaseInv, AskInv, UNCHANGED <<boot, ncalls, buffer, socket>>,
         cliEnd'[socket] \in {cliEnd[socket], "CLOSED"}, reading' \in Nat, reading' <= reading,
         Asks(c2s'[socket], s2c'[socket], boot),
         \A m \in Range(c2s'[socket]) \cup Range(s2c'[socket]) :
           Ask(m) => \E n \in Range(c2s[socket]) \cup Range(s2c[socket]) : Ask(n) /\ n.id = m.id
  PROVE  AskInv'
<1>1. Asked' => Asked
  BY DEF Asked
<1>2. socket \in Nat /\ reading \in Nat
  BY DEF BaseInv, SyncTypeOK, ClientTypeOK, SocketTypeOK, PageTypeOK, Conns
<1> QED BY <1>1, <1>2 DEF AskInv

LEMMA NoAsks == \A b : Asks(<<>>, <<>>, b)
BY DEF Asks, OneEach, Apart, Range

\* A new connection has nothing under way.
LEMMA NextSocketAsks ==
  ASSUME BaseInv, QueueInv, AskInv, NextSocket, reading' \in {0, reading},
         boot' <= ncalls', buffer' = <<>> \/ (boot' # 0 /\ buffer' = <<Request(boot')>>)
  PROVE  AskInv'
<1>1. c2s'[socket'] = <<>> /\ s2c'[socket'] = <<>> /\ cliEnd'[socket'] = "CONNECTING"
  BY NextSocketQueues
<1>2. Asks(c2s'[socket'], s2c'[socket'], boot')
  BY <1>1, NoAsks
<1>3. reading' <= socket' /\ reading' < socket'
  BY DEF AskInv, NextSocket, BaseInv, SyncTypeOK, ClientTypeOK, SocketTypeOK, PageTypeOK, Conns
<1> QED BY <1>1, <1>2, <1>3 DEF AskInv

LEMMA TellsAsks ==
  ASSUME BaseInv, AskInv, PageTells, UNCHANGED boot, reading' \in Nat, reading' <= reading
  PROVE  AskInv'
<1>1. /\ c2s \in Queues /\ s2c \in Queues /\ socket \in Conns
      /\ UNCHANGED <<ncalls, buffer, socket, cliEnd, s2c>>
  BY DEF BaseInv, SyncTypeOK, ClientTypeOK, TransportTypeOK, SocketTypeOK, Queues, PageTells, clientVars
<1>2. CASE UNCHANGED c2s
  BY <1>1, <1>2, AskFrame DEF AskInv
<1>3. ASSUME NEW m \in Message, IsNotification(m), c2s' = Sent(c2s, socket, <<m>>)
      PROVE  AskInv'
  <2>1. PICK s : s = <<m>>
    OBVIOUS
  <2>2. s \in Seq(Message) /\ Range(s) = {m} /\ c2s' = Sent(c2s, socket, s)
    BY <1>3, <2>1, OneIsAlone
  <2>3. c2s'[socket] = c2s[socket] \o s /\ Range(c2s'[socket]) = Range(c2s[socket]) \cup {m}
    <3>1. /\ Sent(c2s, socket, s)[socket] = c2s[socket] \o s
          /\ Range(Sent(c2s, socket, s)[socket]) = Range(c2s[socket]) \cup Range(s)
      BY <1>1, <2>2, SentHere, SentRange
    <3> QED BY <2>2, <3>1, Zenon
  <2>4. Asks(c2s[socket] \o s, s2c[socket], boot)
    <3>1. c2s[socket] \in Seq(Message) /\ Asks(c2s[socket], s2c[socket], boot)
      BY <1>1 DEF Queues, AskInv
    <3> QED BY <1>3, <2>2, <3>1, AsksNotes
  <2>5. \A x \in Range(c2s'[socket]) \cup Range(s2c'[socket]) :
          Ask(x) => x \in Range(c2s[socket]) \cup Range(s2c[socket])
    BY <1>1, <1>3, <2>3 DEF Ask
  <2> QED BY <1>1, <2>3, <2>4, <2>5, AskFrame
<1> QED BY <1>2, <1>3 DEF PageTells

LEMMA ConnectAsks ==
  ASSUME BaseInv, QueueInv, AskInv, NEW e \in Conns, RemoteConnect(e), UNCHANGED <<serverVars, remoteVars>>
  PROVE  AskInv'
<1>1. PICK c : c = ncalls + 1
  OBVIOUS
<1>2. PICK s : s = Append(buffer, Request(c))
  OBVIOUS
<1>3. /\ cliEnd[socket] = "CONNECTING" /\ cliEnd'[socket] = "OPEN" /\ ncalls' = c /\ c \in Calls
      /\ c2s' = Sent(c2s, socket, s) /\ buffer' = <<>>
      /\ UNCHANGED <<s2c, socket, boot, reading>>
  BY <1>1, <1>2, ConnectBase DEF pageVars
<1>4. /\ c2s \in Queues /\ socket \in Conns /\ boot \in Nat /\ ncalls \in Nat /\ buffer \in Seq(Requests)
  BY JsonRpcAssumption DEF BaseInv, SyncTypeOK, ClientTypeOK, TransportTypeOK, SocketTypeOK, RpcTypeOK,
    PageTypeOK, Queues, Calls
<1>5. c2s[socket] = <<>> /\ s2c[socket] = <<>>
  BY <1>3, <1>4 DEF QueueInv
<1>6. boot < c /\ boot <= ncalls'
  BY <1>1, <1>3, <1>4 DEF AskInv
<1>7. Request(c).id = c /\ Request(boot).id = boot /\ boot # c
  BY <1>4, <1>6 DEF Request
<1>8. c2s'[socket] = s
  <2>1. s \in Seq(Message)
    <3>1. Request(c) \in Requests
      BY <1>3, MessageConstructors
    <3> QED BY <1>2, <1>4, <3>1 DEF Message
  <2>2. Sent(c2s, socket, s)[socket] = c2s[socket] \o s
    BY <1>4, <2>1, SentHere
  <2> QED BY <1>3, <1>5, <2>1, <2>2
<1>9. Asks(s, <<>>, boot)
  <2>1. OneEach(s, boot)
    <3>1. CASE buffer = <<>>
      <4>1. s = <<Request(c)>>
        BY <1>2, <3>1
      <4> QED BY <4>1 DEF OneEach
    <3>2. CASE buffer = <<Request(boot)>>
      <4>1. PICK x, y : x = Request(boot) /\ y = Request(c)
        OBVIOUS
      <4>2. y \in Requests
        BY <1>3, <4>1, MessageConstructors
      <4>3. buffer = <<x>> /\ s = Append(buffer, y) /\ Len(buffer) = 1 /\ buffer[1] = x
        BY <1>2, <3>2, <4>1
      <4>4. \A i, j \in DOMAIN s : i # j => \/ s[i] = x /\ s[j] = y
                                            \/ s[j] = x /\ s[i] = y
        BY <1>4, <4>2, <4>3
      <4> QED BY <1>7, <4>1, <4>4 DEF OneEach, Twins
    <3> QED BY <3>1, <3>2 DEF AskInv
  <2>2. Range(<<>>) = {} /\ OneEach(<<>>, boot)
    BY DEF Range, OneEach
  <2> QED BY <2>1, <2>2 DEF Asks, Apart
<1>10. reading' < socket'
  BY <1>3 DEF AskInv
<1>11. reading' <= socket'
  BY <1>3 DEF AskInv
<1> QED BY <1>3, <1>5, <1>6, <1>8, <1>9, <1>10, <1>11 DEF AskInv

LEMMA SchemaAsks ==
  ASSUME BaseInv, AskInv, NEW e \in Conns, OnSchema(e), UNCHANGED <<serverVars, remoteVars>>
  PROVE  AskInv'
<1> DEFINE q == c2s[socket]
           r == s2c[socket]
<1>1. /\ ClientTakes(e) /\ IsResponse(Head(r)) /\ Head(r).id \in Calls
      /\ IF Head(r).id = boot THEN boot' = 0 /\ reading' = reading
                              ELSE reading' = reading + 1 /\ boot' = boot
      /\ UNCHANGED <<cliEnd, c2s, socket, buffer, ncalls>>
  BY SchemaBase
<1>2. /\ e = socket /\ s2c' = Taken(s2c, socket) /\ r # <<>> /\ s2c \in Queues
      /\ Range(r) = {Head(r)} \cup Range(s2c'[socket])
  BY <1>1, PageTakes
<1>3. c2s \in Queues /\ socket \in Conns /\ boot \in Nat /\ ncalls \in Nat /\ reading \in Nat
  BY JsonRpcAssumption DEF BaseInv, SyncTypeOK, ClientTypeOK, TransportTypeOK, SocketTypeOK, RpcTypeOK,
    PageTypeOK, Queues, Calls
<1>4. q \in Seq(Message) /\ r \in Seq(Message) /\ s2c'[socket] = Tail(r) /\ c2s'[socket] = q
  <2>1. Taken(s2c, socket)[socket] = Tail(r)
    BY <1>2, <1>3, TakenHere
  <2> QED BY <1>1, <1>2, <1>3, <2>1 DEF Queues
<1>5. Ask(Head(r)) /\ Asks(q, r, boot) /\ cliEnd[socket] = "OPEN" /\ buffer = <<>>
  BY <1>1, <1>2 DEF Ask, IsResponse, IsNotification, AskInv, ClientTakes
<1>6. Asks(Tail(r), q, boot) /\ \A n \in Range(Tail(r)) \cup Range(q) : Ask(n) => ~Twins(Head(r), n, boot)
  BY <1>2, <1>4, <1>5, AsksSwap, AsksTail
<1>7. Asked' <=> \E m \in Range(q) \cup Range(Tail(r)) : Ask(m) /\ m.id # boot'
  BY <1>1, <1>4 DEF Asked
<1>8. socket \in Nat
  BY <1>3 DEF Conns
<1> HIDE DEF q, r
<1>9. CASE Head(r).id = boot
  <2>1. boot' = 0 /\ reading' = reading /\ Asks(q, Tail(r), 0)
    BY <1>1, <1>2, <1>4, <1>5, <1>9, AsksAnswered
  <2>2. \A n \in Range(q) \cup Range(Tail(r)) : Ask(n) => n.id # boot
    BY <1>6, <1>9 DEF Twins
  <2>3. Asked' => Asked
    <3>1. Range(q) \cup Range(Tail(r)) \subseteq Range(c2s[socket]) \cup Range(s2c[socket])
      BY <1>2, <1>4 DEF q, r
    <3> QED BY <1>7, <2>2, <3>1 DEF Asked
  <2>4. reading <= socket /\ (Asked' => reading < socket) /\ 0 <= ncalls
    BY <1>3, <2>3 DEF AskInv
  <2> QED BY <1>1, <1>4, <1>5, <2>1, <2>4 DEF AskInv
<1>10. CASE Head(r).id # boot
  <2>1. boot' = boot /\ reading' = reading + 1 /\ Asks(q, Tail(r), boot)
    BY <1>1, <1>6, <1>10, AsksSwap
  <2>2. \A n \in Range(q) \cup Range(Tail(r)) : Ask(n) => n.id = boot
    BY <1>6, <1>10 DEF Twins
  <2>3. ~Asked'
    BY <1>7, <2>1, <2>2
  <2>4. Asked
    <3>1. Head(r) \in Range(s2c[socket])
      BY <1>2 DEF r
    <3> QED BY <1>5, <1>10, <3>1 DEF Asked
  <2>5. reading + 1 <= socket
    BY <1>3, <1>8, <2>4 DEF AskInv
  <2> QED BY <1>1, <1>4, <1>5, <2>1, <2>3, <2>5 DEF AskInv
<1> QED BY <1>9, <1>10

LEMMA RemotePutAsks ==
  ASSUME BaseInv, AskInv, NEW e \in Conns, OnRemotePut(e), UNCHANGED <<serverVars, remoteVars>>
  PROVE  AskInv'
<1>1. /\ ClientTakes(e) /\ IsNotification(Head(s2c[socket]))
      /\ UNCHANGED <<cliEnd, c2s, socket, buffer, ncalls, boot, reading>>
  BY RemotePutBase
<1>2. /\ s2c' = Taken(s2c, socket) /\ s2c[socket] # <<>> /\ s2c \in Queues
      /\ Range(s2c[socket]) = {Head(s2c[socket])} \cup Range(s2c'[socket])
  BY <1>1, PageTakes
<1>3. socket \in Conns /\ reading \in Nat
  BY DEF BaseInv, SyncTypeOK, ClientTypeOK, SocketTypeOK, PageTypeOK
<1>4. s2c[socket] \in Seq(Message) /\ s2c'[socket] = Tail(s2c[socket])
  <2>1. Taken(s2c, socket)[socket] = Tail(s2c[socket])
    BY <1>2, <1>3, TakenHere
  <2> QED BY <1>2, <1>3, <2>1 DEF Queues
<1>5. Asks(c2s[socket], Tail(s2c[socket]), boot)
  <2>1. Asks(s2c[socket], c2s[socket], boot)
    BY AsksSwap DEF AskInv
  <2>2. Asks(Tail(s2c[socket]), c2s[socket], boot)
    BY <1>2, <1>4, <2>1, AsksTail
  <2> QED BY <2>2, AsksSwap
<1> QED BY <1>1, <1>2, <1>3, <1>4, <1>5, AskFrame

\* What the server takes from a connection and what it sends on it.
LEMMA ServerAsks ==
  ASSUME BaseInv, QueueInv, AskInv, ServerNext, UNCHANGED browserVars
  PROVE  AskInv'
<1> DEFINE q == c2s[socket]
           r == s2c[socket]
<1>1. /\ UNCHANGED <<boot, ncalls, buffer, socket, reading>>
      /\ socket \in Conns /\ c2s \in Queues /\ s2c \in Queues /\ reading \in Nat
      /\ q \in Seq(Message) /\ r \in Seq(Message)
  BY DEF browserVars, clientVars, rpcVars, pageVars, BaseInv, SyncTypeOK, ClientTypeOK, TransportTypeOK,
     SocketTypeOK, PageTypeOK, Queues
<1>2. UNCHANGED cliEnd
  BY ServerQueues
<1>3. Asks(q, r, boot) /\ Asks(r, q, boot)
  BY AsksSwap DEF AskInv
<1>4. ASSUME c2s'[socket] = q, s2c'[socket] = r
      PROVE  AskInv'
  BY <1>1, <1>2, <1>3, <1>4, AskFrame
<1> HIDE DEF q, r
<1>5. ASSUME NEW e \in Conns, Saves(e) \/ Syncs(e) \/ SyncFails(e) \/ HandlerEndsProcess(e)
      PROVE  AskInv'
  <2>1. /\ TakeNotification(e)
        /\ \/ UNCHANGED s2c
           \/ s2c' = Sent(s2c, e, Told) /\ Len(pushed) + Len(table) <= MaxNotes
    BY <1>5, HandlerMeans
  <2>2. /\ c2s[e] # <<>> /\ c2s' = Taken(c2s, e) /\ Head(c2s[e]) = Notification(Head(c2s[e]).id)
        /\ Range(c2s[e]) = {Head(c2s[e])} \cup Range(c2s'[e])
        /\ \A f \in Conns : f # e => c2s'[f] = c2s[f]
    BY <2>1, HeardNote
  <2>3. CASE e # socket
    <3>1. c2s'[socket] = q /\ s2c'[socket] = r
      BY <1>1, <2>1, <2>2, <2>3, SentElsewhere DEF q, r
    <3> QED BY <1>4, <3>1
  <2>4. CASE e = socket
    <3>1. c2s'[socket] = Tail(q) /\ q # <<>> /\ Range(Tail(q)) \subseteq Range(q)
      <4>1. Taken(c2s, socket)[socket] = Tail(q)
        BY <1>1, <2>2, <2>4, TakenHere DEF q
      <4> QED BY <2>2, <2>4, <4>1 DEF q
    <3>2. Asks(Tail(q), r, boot)
      BY <1>1, <1>3, <3>1, AsksTail
    <3>3. CASE UNCHANGED s2c
      <4>1. s2c'[socket] = r
        BY <3>3 DEF r
      <4> QED BY <1>1, <1>2, <3>1, <3>2, <4>1, AskFrame DEF q, r
    <3>4. CASE s2c' = Sent(s2c, e, Told) /\ Len(pushed) + Len(table) <= MaxNotes
      <4>1. Told \in Seq(Message) /\ \A m \in Range(Told) : IsNotification(m)
        BY <3>4, ToldMeans DEF BaseInv, SyncTypeOK
      <4>2. s2c'[socket] = r \o Told /\ Range(s2c'[socket]) = Range(r) \cup Range(Told)
        <5>1. /\ Sent(s2c, socket, Told)[socket] = r \o Told
              /\ Range(Sent(s2c, socket, Told)[socket]) = Range(r) \cup Range(Told)
          BY <1>1, <4>1, SentHere, SentRange DEF r
        <5> QED BY <2>4, <3>4, <5>1, Zenon
      <4>3. Asks(Tail(q), r \o Told, boot)
        BY <1>1, <3>2, <4>1, AsksSwap, AsksNotes
      <4>4. \A m \in Range(c2s'[socket]) \cup Range(s2c'[socket]) : Ask(m) => m \in Range(q) \cup Range(r)
        BY <3>1, <4>1, <4>2 DEF Ask
      <4> QED BY <1>1, <1>2, <3>1, <4>2, <4>3, <4>4, AskFrame DEF q, r
    <3> QED BY <2>1, <3>3, <3>4
  <2> QED BY <2>3, <2>4
<1>6. ASSUME NEW e \in Conns, ReceiveRequest(e, "value"), UNCHANGED remoteVars
      PROVE  AskInv'
  <2>1. PICK m : m = Response(Head(c2s[e]).id, "result")
    OBVIOUS
  <2>2. /\ c2s[e] # <<>> /\ c2s' = Taken(c2s, e) /\ IsRequest(Head(c2s[e]))
        /\ s2c' = Sent(s2c, e, <<m>>) /\ m \in Message
    BY <1>6, <2>1, RequestBase
  <2>3. CASE e # socket
    <3>1. c2s'[socket] = q /\ s2c'[socket] = r
      BY <1>1, <2>2, <2>3, SentElsewhere, TakenElsewhere DEF q, r
    <3> QED BY <1>4, <3>1
  <2>4. CASE e = socket
    <3>1. /\ c2s'[socket] = Tail(q) /\ q # <<>> /\ Range(q) = {Head(q)} \cup Range(Tail(q))
          /\ Ask(Head(q)) /\ m.id = Head(q).id
      <4>1. /\ Taken(c2s, socket)[socket] = Tail(q)
            /\ Range(q) = {Head(q)} \cup Range(Taken(c2s, socket)[socket])
        BY <1>1, <2>2, <2>4, TakenHere, TakenRange DEF q
      <4>2. Ask(Head(q)) /\ m.id = Head(q).id
        BY <2>1, <2>2, <2>4 DEF q, Ask, IsRequest, IsNotification, Response
      <4> QED BY <2>2, <2>4, <4>1, <4>2 DEF q
    <3>2. PICK s : s = <<m>>
      OBVIOUS
    <3>3. s \in Seq(Message) /\ Range(s) = {m}
      BY <2>2, <3>2, OneIsAlone
    <3>4. s2c'[socket] = r \o s /\ Range(s2c'[socket]) = Range(r) \cup {m}
      <4>1. /\ Sent(s2c, socket, s)[socket] = r \o s
            /\ Range(Sent(s2c, socket, s)[socket]) = Range(r) \cup Range(s)
        BY <1>1, <3>3, SentHere, SentRange DEF r
      <4> QED BY <2>2, <2>4, <3>2, <3>3, <4>1, Zenon
    <3>5. Asks(Tail(q), r \o s, boot)
      BY <1>1, <1>3, <2>2, <3>1, <3>2, AsksMove
    <3>6. \A x \in Range(c2s'[socket]) \cup Range(s2c'[socket]) :
            Ask(x) => \E n \in Range(q) \cup Range(r) : Ask(n) /\ n.id = x.id
      BY <3>1, <3>4
    <3> QED BY <1>1, <1>2, <3>1, <3>4, <3>5, <3>6, AskFrame DEF q, r
  <2> QED BY <2>3, <2>4
<1>7. ASSUME NEW e \in Conns, RegisterClient(e) \/ UnregisterClient(e), UNCHANGED remoteVars
      PROVE  AskInv'
  <2>1. c2s'[socket] = q /\ s2c'[socket] = r
    BY <1>7, RegisterBase DEF q, r
  <2> QED BY <1>4, <2>1
<1> QED BY <1>5, <1>6, <1>7 DEF ServerNext

LEMMA NextAsks ==
  ASSUME BaseInv, QueueInv, AskInv, [Next]_vars
  PROVE  AskInv'
<1>1. /\ Asks(c2s[socket], s2c[socket], boot) /\ reading \in Nat
  BY DEF AskInv, BaseInv, SyncTypeOK, PageTypeOK
<1>2. CASE BrowserNext /\ UNCHANGED <<serverVars, remoteVars>>
  <2>1. CASE AnnounceStep
    BY <2>1, AnnounceStepMeans, AnnouncesTells, TellsAsks DEF BaseInv, SyncTypeOK
  <2>2. CASE WriteCommits
    <3>1. UNCHANGED <<boot, ncalls, buffer, socket, cliEnd, c2s, s2c, reading>>
      BY <2>2 DEF WriteCommits, transportVars, clientVars, rpcVars
    <3> QED BY <1>1, <3>1, AskFrame
  <2>3. CASE PageReloads
    <3>1. /\ NextSocket /\ reading' = 0
          /\ \/ boot' = 0 /\ buffer' = <<>> /\ ncalls' = ncalls
             \/ boot' = ncalls' /\ ncalls' \in Calls /\ buffer' = <<Request(boot')>>
      BY <1>2, <2>3, ReloadBase
    <3>2. boot' <= ncalls' /\ (boot' # 0 \/ buffer' = <<>>)
      <4>1. ncalls \in Nat /\ \A c \in Calls : c \in Nat /\ c # 0
        BY JsonRpcAssumption DEF BaseInv, SyncTypeOK, ClientTypeOK, RpcTypeOK, Calls
      <4> QED BY <3>1, <4>1
    <3> QED BY <3>1, <3>2, NextSocketAsks
  <2>4. ASSUME NEW e \in Conns, RemoteConnect(e) \/ OnSchema(e) \/ OnRemotePut(e)
        PROVE  AskInv'
    BY <1>2, <2>4, ConnectAsks, SchemaAsks, RemotePutAsks
  <2>5. CASE OnAttempt /\ UNCHANGED pageVars
    <3>1. NextSocket /\ UNCHANGED <<buffer, ncalls, boot, reading>>
      BY <1>2, <2>5, AttemptBase DEF pageVars
    <3> QED BY <3>1, NextSocketAsks DEF AskInv
  <2>6. CASE StoreStep /\ UNCHANGED pageVars
    <3>1. PageTells /\ UNCHANGED <<boot, reading>>
      BY <2>6, StoreStepTells DEF BaseInv, SyncTypeOK, pageVars
    <3> QED BY <1>1, <3>1, TellsAsks
  <2>7. ASSUME NEW e \in Conns, OnClose(e), UNCHANGED pageVars
        PROVE  AskInv'
    <3>1. /\ cliEnd'[socket] = "CLOSED"
          /\ UNCHANGED <<c2s, s2c, socket, buffer, ncalls, boot, reading>>
      BY <1>2, <2>7, CloseBase DEF rpcVars, pageVars
    <3> QED BY <1>1, <3>1, AskFrame
  <2> QED BY <1>2, <2>1, <2>2, <2>3, <2>4, <2>5, <2>6, <2>7 DEF BrowserNext, AnnounceStep
<1>3. CASE ServerNext /\ UNCHANGED browserVars
  BY <1>3, ServerAsks
<1>4. CASE UNCHANGED vars
  <2>1. UNCHANGED <<boot, ncalls, buffer, socket, cliEnd, c2s, s2c, reading>>
    BY <1>4 DEF vars, browserVars, transportVars, clientVars, rpcVars, pageVars
  <2> QED BY <1>1, <2>1, AskFrame
<1> QED BY <1>2, <1>3, <1>4 DEF Next

\* At the start the constructor's call waits for the first connection.
LEMMA InitAsks == Init => QueueInv /\ AskInv
<1> SUFFICES ASSUME Init PROVE QueueInv /\ AskInv
  OBVIOUS
<1>1. 1 \in Conns
  BY MaxConnsAssumption DEF Conns
<1>2. /\ socket = 1 /\ cliEnd = [e \in Conns |-> IF e = 1 THEN "CONNECTING" ELSE "UNUSED"]
      /\ srvEnd = [e \in Conns |-> "UNUSED"]
      /\ c2s = [e \in Conns |-> <<>>] /\ s2c = [e \in Conns |-> <<>>]
      /\ buffer = <<Request(1)>> /\ ncalls = 1 /\ boot = 1 /\ reading = 0
  BY DEF Init, SocketInit, TransportInit
<1>3. QueueInv
  BY <1>2 DEF QueueInv
<1>4. c2s[socket] = <<>> /\ s2c[socket] = <<>> /\ cliEnd[socket] = "CONNECTING"
  BY <1>1, <1>2
<1>5. AskInv
  BY <1>2, <1>4, NoAsks DEF AskInv
<1> QED BY <1>3, <1>5

(* In every reachable state the page, the two queues of every connection and
   the server hold what the code puts there, and there are at most as many
   getAll requests of callSync under way as there were connections. *)
THEOREM TypeCorrect == Spec => []TypeOK
<1>1. Init => BaseInv /\ QueueInv /\ AskInv
  BY InitBase, InitAsks
<1>2. BaseInv /\ QueueInv /\ AskInv /\ [Next]_vars => BaseInv' /\ QueueInv' /\ AskInv'
  BY NextBase, NextQueues, NextAsks
<1>3. BaseInv /\ AskInv => TypeOK
  <2> SUFFICES ASSUME BaseInv, AskInv PROVE TypeOK
    OBVIOUS
  <2> USE DEF BaseInv, SyncTypeOK
  <2>1. reading \in 0..MaxConns
    BY MaxConnsAssumption DEF AskInv, PageTypeOK, ClientTypeOK, SocketTypeOK, Conns
  <2> QED BY <2>1 DEF TypeOK, ClientTypeOK, PageTypeOK, RemoteTypeOK, Values
<1> QED BY <1>1, <1>2, <1>3, PTL DEF Spec

-----------------------------------------------------------------------------
(* What was said of which record.                                           *)

\* Announcement n is about the record of key k.
Tells(n, k) == said[n].op \in {"ADD", "PUT"} /\ said[n].record.key = k

\* The last key that was made, by createId() or by IndexedDB.
Newest == IF autoIncrement THEN nnotes ELSE writes

\* Something was announced without its key.
Keyless == \E n \in 1..nnotes : Tells(n, NoKey)

\* Only keys that were made are anywhere; a record without one was announced so.
KeysInv ==
  /\ \A r \in db \cup disk : r.key <= Newest
  /\ \A r \in Range(incoming) \cup Range(table) \cup Range(pushed) :
       r.key <= Newest /\ (r.key = NoKey => Keyless)
  /\ \A n \in 1..nnotes, k \in Keys : Tells(n, k) => k <= Newest
  /\ Keyless => autoIncrement

\* An ADD is the first that is said of its key.
FirstInv ==
  \A n \in 1..nnotes : said[n].op = "ADD" /\ said[n].record.key # NoKey =>
    /\ said[n].record.key # 0
    /\ \A m \in 1..nnotes : m < n => ~Tells(m, said[n].record.key)

\* What is in the collection was announced, and has a key of its own.
Collection(records) ==
  /\ \A r \in records : Keyless \/ \E n \in 1..nnotes : Tells(n, r.key)
  /\ \A r, s \in records : r.key = s.key => r = s

DbInv == Collection(db) /\ Collection(disk)

\* The announcement of v.
Says(v) ==
  /\ nnotes \in Nat /\ nnotes' = nnotes + 1
  /\ said'[nnotes + 1] = v
  /\ \A n \in 1..nnotes : said'[n] = said[n]

LEMMA SaysMeans ==
  ASSUME NEW v \in Event, Says(v)
  PROVE  /\ \A n \in 1..nnotes : \A k : Tells(n, k)' <=> Tells(n, k)
         /\ \A n : n = nnotes + 1 => \A k : Tells(n, k)' <=> v.op \in {"ADD", "PUT"} /\ v.record.key = k
         /\ \A n \in 1..nnotes' : n \in 1..nnotes \/ n = nnotes + 1
         /\ \A n \in 1..nnotes : n \in 1..nnotes' /\ n # nnotes + 1
<1>1. \A n \in 1..nnotes : \A k : Tells(n, k)' <=> Tells(n, k)
  BY DEF Says, Tells
<1>2. \A n : n = nnotes + 1 => \A k : Tells(n, k)' <=> v.op \in {"ADD", "PUT"} /\ v.record.key = k
  BY DEF Says, Tells
<1>3. /\ \A n \in 1..nnotes' : n \in 1..nnotes \/ n = nnotes + 1
      /\ \A n \in 1..nnotes : n \in 1..nnotes' /\ n # nnotes + 1
  BY DEF Says
<1> QED BY <1>1, <1>2, <1>3

\* The announcement of v, and what else its step does.
SayStep(v) ==
  /\ Says(v)
  /\ db' = Written(v)
  /\ v.op \in {"ADD", "PUT"} => /\ Stored(v.record).key <= Newest'
                                /\ v.record.key = NoKey => autoIncrement
  /\ v.op = "ADD" => v.record.key = NoKey \/ v.record.key > Newest
  /\ v.op # "SYNC" => reading' = reading
  /\ v.op # "PUT" => incoming' = incoming
  /\ \A r \in Range(incoming) : r \in Range(incoming') \/ v.record.key = r.key

\* A key that is made is a new one.
LEMMA NewestGrows ==
  ASSUME PageTypeOK, nnotes' = nnotes + 1, writes' \in {writes, writes + 1}, UNCHANGED autoIncrement
  PROVE  /\ nnotes \in Nat /\ writes \in Nat /\ Newest \in Nat /\ Newest' \in Nat /\ Newest <= Newest'
         /\ autoIncrement => Newest = nnotes /\ Newest' = nnotes + 1
         /\ ~autoIncrement => Newest = writes /\ Newest' = writes'
<1>1. nnotes \in Nat /\ writes \in Nat
  BY SyncAssumption DEF PageTypeOK
<1>2. CASE autoIncrement
  <2>1. Newest = nnotes /\ Newest' = nnotes + 1
    BY <1>2 DEF Newest
  <2> QED BY <1>1, <1>2, <2>1
<1>3. CASE ~autoIncrement
  <2>1. Newest = writes /\ Newest' = writes'
    BY <1>3 DEF Newest
  <2> QED BY <1>1, <1>3, <2>1
<1> QED BY <1>2, <1>3

LEMMA AnnounceSays ==
  ASSUME BaseInv, KeysInv, AnnounceStep, UNCHANGED <<serverVars, remoteVars>>
  PROVE  /\ \E v \in Event : SayStep(v)
         /\ Newest \in Nat /\ Newest' \in Nat /\ Newest <= Newest'
         /\ Range(incoming') \subseteq Range(incoming)
         /\ PageTells /\ UNCHANGED <<autoIncrement, disk, boot>>
<1> USE DEF BaseInv, SyncTypeOK
<1>1. /\ writes \in Nat /\ nnotes \in Nat /\ incoming \in Seq(Record)
  BY JsonRpcAssumption, SyncAssumption DEF PageTypeOK, ClientTypeOK, RpcTypeOK
<1>2. ASSUME NEW v \in Event, Announces(v)
      PROVE  Says(v) /\ PageTells /\ nnotes' = nnotes + 1
  BY <1>1, <1>2, AnnouncesTells DEF Says
<1>3. ASSUME NEW v \in Event, v.op \in {"ADD", "PUT"}
      PROVE  /\ v.record \in Record
             /\ v.record.key # NoKey => v.record.key \in Nat /\ Stored(v.record) = v.record
             /\ v.record.key = NoKey => Stored(v.record).key = nnotes + 1
  BY <1>1, <1>3, EventFields, RecordFields, StoredMeans DEF Keys
<1>4. UNCHANGED <<autoIncrement, disk, boot>>
  BY AnnounceStepMeans
<1>5. ASSUME nnotes' = nnotes + 1, writes' \in {writes, writes + 1}
      PROVE  /\ Newest \in Nat /\ Newest' \in Nat /\ Newest <= Newest'
             /\ autoIncrement => Newest = nnotes /\ Newest' = nnotes + 1
             /\ ~autoIncrement => Newest = writes /\ Newest' = writes'
  BY <1>4, <1>5, NewestGrows
\* The key IndexedDB makes, and a key that is known.
<1>6. ASSUME NEW v \in Event, v.op \in {"ADD", "PUT"}, v.record.key = NoKey, autoIncrement,
             nnotes' = nnotes + 1, writes' \in {writes, writes + 1}
      PROVE  Stored(v.record).key <= Newest'
  <2>1. Stored(v.record).key = nnotes + 1 /\ Newest' = nnotes + 1
    BY <1>3, <1>5, <1>6
  <2> QED BY <1>1, <2>1
<1>7. ASSUME NEW v \in Event, v.op \in {"ADD", "PUT"}, v.record.key # NoKey, v.record.key <= Newest,
             nnotes' = nnotes + 1, writes' \in {writes, writes + 1}
      PROVE  Stored(v.record).key <= Newest'
  <2>1. Stored(v.record).key = v.record.key /\ v.record.key \in Nat
    BY <1>3, <1>7
  <2> QED BY <1>5, <1>7, <2>1
<1>8. CASE AppWrites
  <2>1. PICK v \in Event : Announces(v) /\ db' = Written(v) /\ AppEvent(v) /\ v.op # "SYNC"
    BY <1>8, AppWritesAnnounces
  <2>2. writes' = writes + 1 /\ UNCHANGED <<incoming, reading>> /\ nnotes' = nnotes + 1
    BY <1>2, <1>8, <2>1, AppWritesAnnounces
  <2>3. ASSUME v.op \in {"ADD", "PUT"}, v.record.key = Created(writes + 1)
        PROVE  /\ Stored(v.record).key <= Newest' /\ (v.record.key = NoKey => autoIncrement)
               /\ v.record.key = NoKey \/ v.record.key > Newest
    <3>1. CASE autoIncrement
      <4>1. v.record.key = NoKey
        BY <2>3, <3>1 DEF Created
      <4> QED BY <1>6, <2>2, <2>3, <3>1, <4>1
    <3>2. CASE ~autoIncrement
      <4>1. v.record.key = writes + 1 /\ v.record.key # NoKey
        BY <1>1, <2>3, <3>2 DEF Created, NoKey
      <4>2. Newest = writes /\ Newest' = writes + 1
        BY <1>5, <2>2, <3>2
      <4>3. Stored(v.record) = v.record
        BY <1>3, <2>3, <4>1
      <4> QED BY <1>1, <4>1, <4>2, <4>3
    <3> QED BY <3>1, <3>2
  <2>4. ASSUME v.op = "PUT", NEW r \in db, r.key = v.record.key
        PROVE  Stored(v.record).key <= Newest' /\ v.record.key # NoKey
    <3>1. v.record.key # NoKey /\ v.record.key <= Newest
      BY <2>4 DEF KeysInv, PageTypeOK
    <3> QED BY <1>7, <2>2, <2>4, <3>1
  <2>5. SayStep(v) /\ PageTells
    BY <1>2, <2>1, <2>2, <2>3, <2>4 DEF SayStep, AppEvent
  <2>6. Newest \in Nat /\ Newest' \in Nat /\ Newest <= Newest'
    BY <1>5, <2>2
  <2> QED BY <1>4, <2>2, <2>5, <2>6
<1>9. CASE RemotePut
  <2>1. /\ incoming # <<>> /\ incoming' = Tail(incoming) /\ Head(incoming) \in Record
        /\ UNCHANGED <<reading, writes>>
    BY <1>9, RemotePutAnnounces
  <2>2. PICK v \in Event : /\ Announces(v) /\ db' = Written(v) /\ v.op = "PUT"
                           /\ v.record.key = Head(incoming).key
    BY <1>9, RemotePutAnnounces
  <2>3. Range(incoming) = {Head(incoming)} \cup Range(incoming') /\ nnotes' = nnotes + 1
    BY <1>1, <1>2, <2>1, <2>2, TailRange
  <2>4. v.record.key <= Newest /\ (v.record.key = NoKey => autoIncrement)
    BY <2>2, <2>3 DEF KeysInv
  <2>5. Stored(v.record).key <= Newest'
    BY <1>6, <1>7, <2>1, <2>2, <2>3, <2>4
  <2>6. SayStep(v) /\ PageTells
    BY <1>2, <2>1, <2>2, <2>3, <2>4, <2>5 DEF SayStep
  <2>7. Newest \in Nat /\ Newest' \in Nat /\ Newest <= Newest'
    BY <1>5, <2>1, <2>3
  <2> QED BY <1>4, <2>3, <2>6, <2>7
<1>10. CASE SyncReads
  <2>1. PICK v \in Event : Announces(v) /\ v.op = "SYNC" /\ db' = Written(v)
    BY <1>10, SyncReadsAnnounces
  <2>2. UNCHANGED <<incoming, writes>> /\ nnotes' = nnotes + 1
    BY <1>2, <1>10, <2>1, SyncReadsAnnounces
  <2>3. SayStep(v) /\ PageTells
    BY <1>2, <2>1, <2>2 DEF SayStep
  <2>4. Newest \in Nat /\ Newest' \in Nat /\ Newest <= Newest'
    BY <1>5, <2>2
  <2> QED BY <1>4, <2>2, <2>3, <2>4
<1> QED BY <1>8, <1>9, <1>10 DEF AnnounceStep

\* What steps that say nothing, and move records only along, keep.
LEMMA KeysFrame ==
  ASSUME KeysInv, UNCHANGED <<autoIncrement, nnotes, said, writes>>,
         db' \cup disk' \subseteq db \cup disk,
         \A r \in Range(incoming') \cup Range(table') \cup Range(pushed') :
           r.key <= Newest /\ (r.key = NoKey => Keyless)
  PROVE  KeysInv'
<1>1. \A n, k : Tells(n, k)' <=> Tells(n, k)
  BY DEF Tells
<1>2. (Keyless' <=> Keyless) /\ Newest' = Newest
  BY <1>1 DEF Keyless, Newest
<1> QED BY <1>1, <1>2 DEF KeysInv

LEMMA FirstFrame ==
  ASSUME FirstInv, UNCHANGED <<nnotes, said>>
  PROVE  FirstInv'
BY DEF FirstInv, Tells

LEMMA DbFrame ==
  ASSUME DbInv, UNCHANGED <<nnotes, said>>, db' \in {db, disk}, disk' \in {db, disk}
  PROVE  DbInv'
BY DEF DbInv, Collection, Keyless, Tells

LEMMA AnnounceKeys ==
  ASSUME BaseInv, KeysInv, FirstInv, DbInv, AnnounceStep, UNCHANGED <<serverVars, remoteVars>>
  PROVE  KeysInv' /\ FirstInv' /\ DbInv'
<1> USE DEF BaseInv, SyncTypeOK
<1>1. PICK v \in Event : SayStep(v)
  BY AnnounceSays
<1>2. /\ Newest \in Nat /\ Newest' \in Nat /\ Newest <= Newest'
      /\ Range(incoming') \subseteq Range(incoming) /\ disk' = disk /\ autoIncrement' = autoIncrement
  BY AnnounceSays
<1>3. UNCHANGED <<table, pushed>>
  BY DEF remoteVars
<1>4. Says(v) /\ db' = Written(v)
  BY <1>1 DEF SayStep
<1>5. nnotes \in Nat
  BY <1>4 DEF Says
<1>6. PICK n : n = nnotes + 1
  OBVIOUS
<1>7. /\ \A m \in 1..nnotes : \A k : Tells(m, k)' <=> Tells(m, k)
      /\ \A k : Tells(n, k)' <=> v.op \in {"ADD", "PUT"} /\ v.record.key = k
      /\ \A m \in 1..nnotes' : m \in 1..nnotes \/ m = n
      /\ \A m \in 1..nnotes : m \in 1..nnotes' /\ m # n
      /\ n \in 1..nnotes' /\ said'[n] = v /\ \A m \in 1..nnotes : said'[m] = said[m]
  <2>1. n \in 1..nnotes' /\ said'[n] = v /\ \A m \in 1..nnotes : said'[m] = said[m]
    BY <1>4, <1>6 DEF Says
  <2> QED BY <1>4, <1>6, <2>1, SaysMeans
<1>8. \A r \in Record : r.key \in Keys \cup {NoKey} /\ r.key \in Int
  BY RecordFields DEF Keys, NoKey
<1>9. PICK s : s = Stored(v.record)
  OBVIOUS
<1>10. ASSUME v.op \in {"ADD", "PUT"}
       PROVE  /\ v.record \in Record /\ s \in Record /\ s.key <= Newest'
              /\ v.record.key = NoKey => autoIncrement
              /\ v.record.key # NoKey => s = v.record /\ v.record.key \in Nat
              /\ v.op = "ADD" => v.record.key = NoKey \/ v.record.key > Newest
  BY <1>1, <1>5, <1>9, <1>10, EventFields, RecordFields, StoredMeans DEF SayStep, Keys
<1>11. /\ v.op \in {"ADD", "PUT"} => db' = WithoutKey(db, s.key) \cup {s}
       /\ v.op \notin {"ADD", "PUT"} => db' \subseteq db
  BY <1>4, <1>9, EventFields DEF Written, Put, WithoutKey
<1>12. /\ Keyless => Keyless'
       /\ v.op \in {"ADD", "PUT"} /\ v.record.key = NoKey => Keyless'
       /\ Keyless' => autoIncrement'
  <2>1. Keyless => Keyless'
    BY <1>7 DEF Keyless
  <2>2. v.op \in {"ADD", "PUT"} /\ v.record.key = NoKey => Keyless'
    BY <1>7 DEF Keyless
  <2>3. ASSUME NEW m \in 1..nnotes', Tells(m, NoKey)'
        PROVE  autoIncrement'
    <3>1. CASE m = n
      BY <1>2, <1>7, <1>10, <2>3, <3>1
    <3>2. CASE m \in 1..nnotes
      BY <1>2, <1>7, <2>3, <3>2 DEF KeysInv, Keyless
    <3> QED BY <1>7, <3>1, <3>2
  <2> QED BY <2>1, <2>2, <2>3 DEF Keyless
<1>13. KeysInv'
  <2>1. \A r \in db' \cup disk' : r.key <= Newest'
    <3>1. \A r \in db \cup disk : r.key <= Newest'
      BY <1>2, <1>8 DEF KeysInv, PageTypeOK
    <3> QED BY <1>2, <1>10, <1>11, <3>1 DEF WithoutKey
  <2>2. \A r \in Range(incoming') \cup Range(table') \cup Range(pushed') :
          r.key <= Newest' /\ (r.key = NoKey => Keyless')
    <3>1. \A r \in Range(incoming) \cup Range(table) \cup Range(pushed) : r \in Record
      BY RangeType DEF PageTypeOK, RemoteTypeOK
    <3>2. \A r \in Range(incoming) \cup Range(table) \cup Range(pushed) :
            r.key <= Newest' /\ (r.key = NoKey => Keyless')
      BY <1>2, <1>8, <1>12, <3>1 DEF KeysInv
    <3> QED BY <1>2, <1>3, <3>2
  <2>3. ASSUME NEW m \in 1..nnotes', NEW k \in Keys, Tells(m, k)'
        PROVE  k <= Newest'
    <3>1. CASE m = n
      <4>1. k # NoKey
        BY DEF Keys, NoKey
      <4> QED BY <1>7, <1>10, <2>3, <3>1, <4>1
    <3>2. CASE m \in 1..nnotes
      <4>1. k \in Nat /\ k <= Newest
        BY <1>7, <2>3, <3>2 DEF KeysInv, Keys
      <4> QED BY <1>2, <4>1
    <3> QED BY <1>7, <3>1, <3>2
  <2> QED BY <1>12, <2>1, <2>2, <2>3 DEF KeysInv
<1>14. FirstInv'
  <2> SUFFICES ASSUME NEW i \in 1..nnotes', said'[i].op = "ADD", said'[i].record.key # NoKey
               PROVE  /\ said'[i].record.key # 0
                      /\ \A m \in 1..nnotes' : m < i => ~Tells(m, said[i].record.key)'
    BY DEF FirstInv
  <2>1. CASE i = n
    <3>1. v.op = "ADD" /\ v.record.key > Newest /\ v.record.key \in Nat /\ said'[i] = v
      BY <1>7, <1>10, <2>1
    <3>2. v.record.key # 0 /\ v.record.key \in Keys /\ ~(v.record.key <= Newest)
      BY <1>2, <3>1 DEF Keys
    <3>3. \A m \in 1..nnotes' : m < i => m \in 1..nnotes
      BY <1>4, <1>6, <2>1 DEF Says
    <3> QED BY <1>7, <3>1, <3>2, <3>3 DEF KeysInv
  <2>2. CASE i \in 1..nnotes
    <3>1. said'[i] = said[i]
      BY <1>7, <2>2
    <3>2. \A m \in 1..nnotes' : m < i => m \in 1..nnotes
      BY <1>4, <2>2 DEF Says
    <3> QED BY <1>7, <2>2, <3>1, <3>2 DEF FirstInv
  <2> QED BY <1>7, <2>1, <2>2
<1>15. Collection(disk)'
  BY <1>2, <1>7, <1>12 DEF DbInv, Collection
<1>16. Collection(db)'
  <2>1. CASE v.op \in {"ADD", "PUT"}
    <3>1. Keyless' \/ \E m \in 1..nnotes' : Tells(m, s.key)'
      BY <1>7, <1>10, <1>12, <2>1
    <3> QED BY <1>7, <1>11, <1>12, <2>1, <3>1 DEF DbInv, Collection, WithoutKey
  <2>2. CASE v.op \notin {"ADD", "PUT"}
    BY <1>7, <1>11, <1>12, <2>2 DEF DbInv, Collection
  <2> QED BY <2>1, <2>2
<1> QED BY <1>13, <1>14, <1>15, <1>16 DEF DbInv

\* The record that is put or added is in the table, and the others stay, but
\* for one of its key.
LEMMA SavedRange ==
  ASSUME RemoteTypeOK, NEW r \in Record, NEW t, t = MemoryPut(r) \/ t = MemoryAdd(r)
  PROVE  Range(t) \subseteq Range(table) \cup {r}
<1>1. table \in Seq(Record)
  BY DEF RemoteTypeOK
<1>2. Range(Append(table, r)) = Range(table) \cup {r}
  BY <1>1, AppendRange
<1>3. ASSUME NEW i \in DOMAIN table
      PROVE  Range([table EXCEPT ![i] = r]) \subseteq Range(table) \cup {r}
  BY DEF Range
<1> QED BY <1>2, <1>3, PutMeans DEF MemoryAdd

LEMMA NextKeys ==
  ASSUME BaseInv, KeysInv, FirstInv, DbInv, [Next]_vars
  PROVE  KeysInv' /\ FirstInv' /\ DbInv'
<1> USE DEF BaseInv, SyncTypeOK
<1>1. CASE BrowserNext /\ UNCHANGED <<serverVars, remoteVars>>
  <2>1. CASE AnnounceStep
    BY <1>1, <2>1, AnnounceKeys
  <2>2. CASE WriteCommits
    <3>1. disk' = db /\ UNCHANGED <<autoIncrement, db, incoming, said, writes, table, pushed, nnotes>>
      BY <1>1, <2>2 DEF WriteCommits, rpcVars, remoteVars
    <3>2. db' \cup disk' \subseteq db \cup disk
      BY <3>1
    <3>3. KeysInv'
      BY <3>1, <3>2, KeysFrame DEF KeysInv
    <3> QED BY <3>1, <3>3, FirstFrame, DbFrame
  <2>3. CASE PageReloads
    <3>1. /\ db' = disk /\ incoming' = <<>>
          /\ UNCHANGED <<autoIncrement, disk, said, writes, table, pushed, nnotes>>
      BY <1>1, <2>3, ReloadBase DEF NextSocket, remoteVars
    <3>2. Range(incoming') = {}
      BY <3>1 DEF Range
    <3>3. db' \cup disk' \subseteq db \cup disk
      BY <3>1
    <3>4. KeysInv'
      BY <3>1, <3>2, <3>3, KeysFrame DEF KeysInv
    <3> QED BY <3>1, <3>4, FirstFrame, DbFrame
  <2>4. ASSUME NEW e \in Conns, OnRemotePut(e)
        PROVE  KeysInv' /\ FirstInv' /\ DbInv'
    <3>1. PICK r : r = pushed[Head(s2c[socket]).id]
      OBVIOUS
    <3>2. /\ incoming' = Append(incoming, r) /\ Head(s2c[socket]).id \in DOMAIN pushed
          /\ UNCHANGED <<autoIncrement, db, disk, said, writes, nnotes>>
      BY <1>1, <2>4, <3>1, RemotePutBase
    <3>3. r \in Range(pushed) /\ r \in Record /\ incoming \in Seq(Record)
      BY <3>1, <3>2, RangeType DEF Range, RemoteTypeOK, PageTypeOK
    <3>4. Range(incoming') = Range(incoming) \cup {r}
      BY <3>2, <3>3, AppendRange
    <3>5. KeysInv'
      BY <1>1, <3>2, <3>3, <3>4, KeysFrame DEF KeysInv, remoteVars
    <3> QED BY <3>2, <3>5, FirstFrame, DbFrame
  <2>5. ASSUME UNCHANGED <<autoIncrement, db, disk, incoming, said, writes, nnotes>>
        PROVE  KeysInv' /\ FirstInv' /\ DbInv'
    <3>1. UNCHANGED <<table, pushed>>
      BY <1>1 DEF remoteVars
    <3>2. KeysInv'
      BY <2>5, <3>1, KeysFrame DEF KeysInv
    <3> QED BY <2>5, <3>2, FirstFrame, DbFrame
  <2>6. ASSUME NEW e \in Conns, RemoteConnect(e)
        PROVE  KeysInv' /\ FirstInv' /\ DbInv'
    <3>1. UNCHANGED <<nnotes, pageVars>>
      BY <1>1, <2>6, ConnectBase
    <3> QED BY <2>5, <3>1 DEF pageVars
  <2>7. ASSUME NEW e \in Conns, OnSchema(e)
        PROVE  KeysInv' /\ FirstInv' /\ DbInv'
    BY <1>1, <2>5, <2>7, SchemaBase
  <2>8. CASE OnAttempt /\ UNCHANGED pageVars
    <3>1. NextSocket
      BY <1>1, <2>8, AttemptBase
    <3> QED BY <2>5, <2>8, <3>1 DEF NextSocket, pageVars
  <2>9. CASE StoreStep /\ UNCHANGED pageVars
    BY <1>1, <2>5, <2>9, StoreStepTells DEF pageVars
  <2>10. ASSUME NEW e \in Conns, OnClose(e), UNCHANGED pageVars
         PROVE  KeysInv' /\ FirstInv' /\ DbInv'
    BY <1>1, <2>5, <2>10, CloseBase DEF rpcVars, pageVars
  <2> QED BY <1>1, <2>1, <2>2, <2>3, <2>4, <2>6, <2>7, <2>8, <2>9, <2>10 DEF BrowserNext, AnnounceStep
<1>2. CASE ServerNext /\ UNCHANGED browserVars
  <2>1. UNCHANGED <<autoIncrement, db, disk, incoming, said, writes, nnotes>>
    BY <1>2 DEF browserVars, rpcVars, pageVars
  <2>2. FirstInv' /\ DbInv'
    BY <2>1, FirstFrame, DbFrame
  <2>3. ASSUME Range(table') \cup Range(pushed') \subseteq Range(table) \cup Range(pushed)
        PROVE  KeysInv'
    BY <2>1, <2>3, KeysFrame DEF KeysInv
  <2>4. ASSUME NEW e \in Conns, Saves(e)
        PROVE  KeysInv'
    <3>1. PICK r : r = Heard(e).record
      OBVIOUS
    <3>2. /\ TakeNotification(e) /\ Heard(e).op \in {"ADD", "PUT"} /\ r \in Record /\ pushed' = pushed
          /\ table' = MemoryPut(r) \/ table' = MemoryAdd(r)
      BY <1>2, <2>4, <3>1, SavesBase
    <3>3. r.key <= Newest /\ (r.key = NoKey => Keyless)
      <4>1. PICK n : n = Head(c2s[e]).id
        OBVIOUS
      <4>2. n \in 1..nnotes /\ (r.key # NoKey => r.key \in Keys)
        BY <3>2, <4>1, HeardNote, RecordFields
      <4>3. Tells(n, r.key)
        BY <3>1, <3>2, <4>1 DEF Tells, Heard
      <4>4. CASE r.key # NoKey
        BY <4>2, <4>3, <4>4 DEF KeysInv
      <4>5. CASE r.key = NoKey
        <5>1. Keyless /\ autoIncrement
          BY <4>2, <4>3, <4>5 DEF KeysInv, Keyless
        <5>2. Newest \in Nat
          BY <5>1 DEF Newest, PageTypeOK
        <5> QED BY <4>5, <5>1, <5>2 DEF NoKey
      <4> QED BY <4>4, <4>5
    <3>4. Range(table') \subseteq Range(table) \cup {r}
      BY <3>2, SavedRange
    <3> QED BY <2>1, <3>2, <3>3, <3>4, KeysFrame DEF KeysInv
  <2>5. ASSUME NEW e \in Conns, Syncs(e)
        PROVE  KeysInv'
    <3>1. pushed' = pushed \o table /\ table' = table
      BY <1>2, <2>5, SyncsBase
    <3>2. Range(pushed \o table) = Range(pushed) \cup Range(table)
      BY JoinRange DEF RemoteTypeOK
    <3> QED BY <2>3, <3>1, <3>2
  <2>6. ASSUME NEW e \in Conns, SyncFails(e)
        PROVE  KeysInv'
    BY <1>2, <2>3, <2>6, SyncFailsBase
  <2>7. ASSUME NEW e \in Conns, HandlerEndsProcess(e)
        PROVE  KeysInv'
    <3>1. Range(table') = {} /\ pushed' = pushed
      BY <1>2, <2>7, EndsBase DEF Range
    <3> QED BY <2>3, <3>1
  <2>8. ASSUME UNCHANGED remoteVars
        PROVE  KeysInv'
    <3>1. Range(table') \cup Range(pushed') \subseteq Range(table) \cup Range(pushed)
      BY <2>8 DEF remoteVars
    <3> QED BY <2>3, <3>1
  <2>9. PICK e \in Conns : \/ Saves(e) \/ Syncs(e) \/ SyncFails(e) \/ HandlerEndsProcess(e)
                           \/ UNCHANGED remoteVars
    BY <1>2 DEF ServerNext
  <2> QED BY <2>2, <2>4, <2>5, <2>6, <2>7, <2>8, <2>9
<1>3. CASE UNCHANGED vars
  <2>1. UNCHANGED <<autoIncrement, db, disk, incoming, said, writes, nnotes, table, pushed>>
    BY <1>3 DEF vars, browserVars, rpcVars, pageVars, remoteVars
  <2> QED BY <2>1, KeysFrame, FirstFrame, DbFrame DEF KeysInv
<1> QED BY <1>1, <1>2, <1>3 DEF Next

-----------------------------------------------------------------------------
(* The server's table, as long as this process handled what was said in the *)
(* order it was said.                                                       *)

InOrder == \A i \in DOMAIN log : log[i] = i

\* Of the first N announcements, n is the last about k.
LastTells(n, k, N) == Tells(n, k) /\ \A m \in 1..N : m > n => ~Tells(m, k)

\* Record r is as it was last told to the server, or the one it started with.
Accounted(r, N) ==
  \/ \E n \in 1..N : LastTells(n, r.key, N) /\ r = said[n].record
  \/ r.key = 0 /\ \A n \in 1..N : ~Tells(n, 0)

\* Of the records the server can tell from each other.
TableInv ==
  InOrder =>
    /\ \A i, j \in DOMAIN table : table[i].key # NoKey /\ table[i].key = table[j].key => i = j
    /\ \A i \in DOMAIN table : table[i].key # NoKey => Accounted(table[i], Len(log))
    /\ \A n \in 1..Len(log), k \in Keys : Tells(n, k) => \E i \in DOMAIN table : table[i].key = k

LEMMA LogOrder ==
  ASSUME BaseInv, InOrder
  PROVE  Len(log) \in Nat /\ Len(log) <= nnotes /\ nnotes \in Nat /\ DOMAIN log = 1..Len(log)
<1>1. log \in Seq(Notes) /\ nnotes \in Nat
  BY JsonRpcAssumption DEF BaseInv, SyncTypeOK, RemoteTypeOK, ClientTypeOK, RpcTypeOK
<1>2. Len(log) \in Nat /\ DOMAIN log = 1..Len(log)
  BY <1>1
<1>3. Len(log) # 0 => Len(log) \in DOMAIN log
  BY <1>2
<1>4. Len(log) # 0 => Len(log) <= nnotes
  BY <1>3 DEF BaseInv, LogKnown, InOrder
<1> QED BY <1>1, <1>2, <1>4

\* What is handled in order has the next number.
LEMMA LogStep ==
  ASSUME BaseInv, NEW n \in 1..nnotes, log' = Append(log, n), InOrder'
  PROVE  /\ InOrder /\ n = Len(log) + 1 /\ Len(log') = Len(log) + 1 /\ Len(log) \in Nat
<1>1. log \in Seq(Notes) /\ nnotes \in Nat /\ n \in Nat
  BY JsonRpcAssumption DEF BaseInv, SyncTypeOK, RemoteTypeOK, ClientTypeOK, RpcTypeOK
<1>2. /\ \A i \in DOMAIN log : i \in DOMAIN log' /\ log'[i] = log[i]
      /\ Len(log) + 1 \in DOMAIN log' /\ log'[Len(log) + 1] = n
      /\ Len(log') = Len(log) + 1 /\ Len(log) \in Nat
  BY <1>1
<1> QED BY <1>2 DEF InOrder

\* Announcements to come do not change what the first ones tell.
LEMMA TableFrame ==
  ASSUME TableInv, UNCHANGED <<table, log>>,
         InOrder => \A n \in 1..Len(log) : said'[n] = said[n]
  PROVE  TableInv'
<1> SUFFICES ASSUME InOrder
             PROVE  TableInv'
  BY DEF TableInv, InOrder
<1>1. \A n \in 1..Len(log) : \A k : Tells(n, k)' <=> Tells(n, k)
  BY DEF Tells
<1>2. ASSUME NEW r, Accounted(r, Len(log))
      PROVE  Accounted(r, Len(log))'
  <2>1. CASE r.key = 0 /\ \A n \in 1..Len(log) : ~Tells(n, 0)
    BY <1>1, <2>1 DEF Accounted
  <2>2. ASSUME NEW n \in 1..Len(log), LastTells(n, r.key, Len(log)), r = said[n].record
        PROVE  Accounted(r, Len(log))'
    <3>1. LastTells(n, r.key, Len(log))'
      BY <1>1, <2>2 DEF LastTells
    <3> QED BY <2>2, <3>1 DEF Accounted
  <2> QED BY <1>2, <2>1, <2>2 DEF Accounted
<1> QED BY <1>1, <1>2 DEF TableInv

\* The next announcement in order: one that is about no record, or one whose
\* record is put where its key is, if it is anywhere.
LEMMA NextTable ==
  ASSUME BaseInv, TableInv, InOrder, NEW n, n = Len(log) + 1, Len(log') = n, UNCHANGED said,
         NEW k, \A x \in Keys : Tells(n, x) <=> x = k,
         NEW t \in Seq(Record), table' = t,
         \/ t = table /\ k \notin Keys
         \/ /\ said[n].record \in Record /\ said[n].record.key = k
            /\ \/ \E i \in DOMAIN table : table[i].key = k /\ t = [table EXCEPT ![i] = said[n].record]
               \/ /\ k # NoKey => \A i \in DOMAIN table : table[i].key # k
                  /\ t = Append(table, said[n].record)
  PROVE  TableInv'
<1> DEFINE N == Len(log)
           r == said[n].record
<1>1. N \in Nat /\ n \in 1..n /\ \A m \in 1..n : m \in 1..N \/ m = n
  BY LogOrder
<1>2. \A m \in 1..N : m \in 1..n /\ m < n
  BY <1>1
<1>3. /\ table \in Seq(Record) /\ \A i \in DOMAIN table : table[i] \in Record
      /\ k = NoKey => k \notin Keys
  BY DEF BaseInv, SyncTypeOK, RemoteTypeOK, Keys, NoKey
<1>4. \A m, x : Tells(m, x)' <=> Tells(m, x)
  BY DEF Tells
<1>5. ASSUME NEW s \in Record, s.key # NoKey, s.key # k, Accounted(s, N)
      PROVE  Accounted(s, Len(log))'
  <2>1. ~Tells(n, s.key)
    BY <1>5, RecordFields
  <2>2. CASE s.key = 0 /\ \A m \in 1..N : ~Tells(m, 0)
    BY <1>1, <1>4, <2>1, <2>2 DEF Accounted
  <2>3. ASSUME NEW m \in 1..N, LastTells(m, s.key, N), s = said[m].record
        PROVE  Accounted(s, Len(log))'
    <3>1. LastTells(m, s.key, n)
      BY <1>1, <2>1, <2>3 DEF LastTells
    <3>2. LastTells(m, s.key, Len(log))'
      BY <1>4, <3>1 DEF LastTells
    <3> QED BY <1>2, <2>3, <3>2 DEF Accounted
  <2> QED BY <1>5, <2>2, <2>3 DEF Accounted
<1>6. CASE t = table /\ k \notin Keys
  <2>1. \A i \in DOMAIN table : table[i].key # NoKey => Accounted(table[i], Len(log))'
    BY <1>3, <1>5, <1>6, RecordFields DEF TableInv
  <2>2. \A i \in DOMAIN table' : table[i].key # NoKey => Accounted(table[i], Len(log))'
    BY <1>6, <2>1 DEF Accounted, LastTells, Tells
  <2>3. \A m \in 1..n, x \in Keys : Tells(m, x) => \E i \in DOMAIN table : table[i].key = x
    BY <1>1, <1>6 DEF TableInv
  <2> QED BY <1>4, <1>6, <2>2, <2>3 DEF TableInv
<1>7. ASSUME r \in Record, r.key = k, k # NoKey
      PROVE  Accounted(r, Len(log))'
  <2>1. Tells(n, r.key)
    BY <1>7, RecordFields
  <2>2. LastTells(n, r.key, Len(log))'
    BY <1>1, <1>4, <2>1 DEF LastTells
  <2> QED BY <1>1, <2>2 DEF Accounted
<1>8. ASSUME NEW i \in DOMAIN table, table[i].key = k, t = [table EXCEPT ![i] = r], r \in Record, r.key = k
      PROVE  TableInv'
  <2>1. DOMAIN t = DOMAIN table /\ t[i] = r /\ \A j \in DOMAIN table : j # i => t[j] = table[j]
    BY <1>3, <1>8
  <2>2. \A j \in DOMAIN table : t[j].key = table[j].key
    BY <1>8, <2>1
  <2>3. ASSUME NEW j \in DOMAIN t, t[j].key # NoKey
        PROVE  Accounted(t[j], Len(log))'
    <3>1. CASE j = i
      BY <1>7, <1>8, <2>1, <2>3, <3>1
    <3>2. CASE j # i
      <4>1. table[j].key # k
        BY <1>8, <2>1, <2>3, <3>2 DEF TableInv
      <4> QED BY <1>3, <1>5, <2>1, <2>3, <3>2, <4>1 DEF TableInv
    <3> QED BY <3>1, <3>2
  <2>4. \A m \in 1..n, x \in Keys : Tells(m, x) => \E j \in DOMAIN t : t[j].key = x
    BY <1>1, <1>8, <2>1, <2>2 DEF TableInv
  <2>5. \A j, l \in DOMAIN t : t[j].key # NoKey /\ t[j].key = t[l].key => j = l
    BY <2>1, <2>2 DEF TableInv
  <2> QED BY <1>4, <2>3, <2>4, <2>5 DEF TableInv
<1>9. ASSUME k # NoKey => \A i \in DOMAIN table : table[i].key # k,
             t = Append(table, r), r \in Record, r.key = k
      PROVE  TableInv'
  <2>1. /\ \A j \in DOMAIN t : (j \in DOMAIN table /\ t[j] = table[j]) \/ (j = Len(table) + 1 /\ t[j] = r)
        /\ \A j \in DOMAIN table : j \in DOMAIN t /\ t[j] = table[j] /\ j # Len(table) + 1
        /\ Len(table) + 1 \in DOMAIN t /\ t[Len(table) + 1] = r
    BY <1>3, <1>9
  <2>2. \A j \in DOMAIN t : t[j].key # NoKey => Accounted(t[j], Len(log))'
    BY <1>3, <1>5, <1>7, <1>9, <2>1 DEF TableInv
  <2>3. \A m \in 1..n, x \in Keys : Tells(m, x) => \E j \in DOMAIN t : t[j].key = x
    BY <1>1, <1>9, <2>1 DEF TableInv
  <2>4. \A j, l \in DOMAIN t : t[j].key # NoKey /\ t[j].key = t[l].key => j = l
    BY <1>9, <2>1 DEF TableInv
  <2> QED BY <1>4, <2>2, <2>3, <2>4 DEF TableInv
<1> QED BY <1>6, <1>8, <1>9

\* A notification that the server logs in order.
LEMMA LogsNext ==
  ASSUME BaseInv, NEW e \in Conns, TakeNotification(e), log' = Append(log, Head(c2s[e]).id), InOrder'
  PROVE  /\ InOrder /\ Len(log') = Len(log) + 1 /\ Len(log) \in Nat
         /\ Head(c2s[e]).id = Len(log) + 1 /\ Len(log) + 1 \in 1..nnotes
         /\ Heard(e) = said[Len(log) + 1] /\ Heard(e) \in Event
<1>1. PICK n : n = Head(c2s[e]).id
  OBVIOUS
<1>2. n \in 1..nnotes /\ Heard(e) \in Event /\ log' = Append(log, n)
  BY <1>1, HeardNote
<1>3. InOrder /\ n = Len(log) + 1 /\ Len(log') = Len(log) + 1 /\ Len(log) \in Nat
  BY <1>2, LogStep
<1> QED BY <1>1, <1>2, <1>3 DEF Heard

LEMMA SavesTable ==
  ASSUME BaseInv, FirstInv, TableInv, NEW e \in Conns, Saves(e), UNCHANGED browserVars, InOrder'
  PROVE  TableInv'
<1>1. PICK n : n = Len(log) + 1
  OBVIOUS
<1>2. PICK r : r = Heard(e).record
  OBVIOUS
<1>3. /\ TakeNotification(e) /\ log' = Append(log, Head(c2s[e]).id)
      /\ Heard(e).op \in {"ADD", "PUT"} /\ r \in Record
      /\ table' = IF Heard(e).op = "ADD" THEN MemoryAdd(r) ELSE MemoryPut(r)
  BY <1>2, SavesBase
<1>4. InOrder /\ Len(log') = n /\ Len(log) \in Nat /\ n \in 1..nnotes /\ Heard(e) = said[n]
  BY <1>1, <1>3, LogsNext
<1>5. PICK k : k = r.key
  OBVIOUS
<1>6. /\ said[n].record = r /\ said[n].record.key = k
      /\ \A x \in Keys : Tells(n, x) <=> x = k
  BY <1>2, <1>3, <1>4, <1>5, RecordFields DEF Tells
<1>7. \/ \E i \in DOMAIN table : table[i].key = k /\ table' = [table EXCEPT ![i] = r]
      \/ (k # NoKey => \A i \in DOMAIN table : table[i].key # k) /\ table' = Append(table, r)
  <2>1. CASE Heard(e).op = "ADD"
    <3>1. table' = Append(table, r)
      BY <1>3, <2>1 DEF MemoryAdd
    <3>2. k # NoKey => k # 0 /\ \A m \in 1..nnotes : m < n => ~Tells(m, k)
      BY <1>4, <1>6, <2>1 DEF FirstInv
    <3>3. \A m \in 1..Len(log) : m \in 1..nnotes /\ m < n
      BY <1>1, <1>4, LogOrder
    <3>4. \A i \in DOMAIN table : table[i].key # NoKey => Accounted(table[i], Len(log))
      BY <1>4 DEF TableInv
    <3>5. k # NoKey => \A i \in DOMAIN table : table[i].key # k
      BY <3>2, <3>3, <3>4 DEF Accounted, LastTells
    <3> QED BY <3>1, <3>5
  <2>2. CASE Heard(e).op # "ADD"
    <3>1. table' = MemoryPut(r)
      BY <1>3, <2>2
    <3> QED BY <1>3, <1>5, <3>1, PutMeans DEF BaseInv, SyncTypeOK
  <2> QED BY <2>1, <2>2
<1>8. UNCHANGED said
  BY DEF browserVars, pageVars
<1>9. PICK t : t = table'
  OBVIOUS
<1>10. t \in Seq(Record)
  BY <1>9, SavesBase DEF BaseInv, SyncTypeOK, RemoteTypeOK
<1>11. /\ said[n].record \in Record /\ said[n].record.key = k
       /\ \/ \E i \in DOMAIN table : table[i].key = k /\ t = [table EXCEPT ![i] = said[n].record]
          \/ /\ k # NoKey => \A i \in DOMAIN table : table[i].key # k
             /\ t = Append(table, said[n].record)
  BY <1>3, <1>6, <1>7, <1>9
<1> QED BY <1>1, <1>4, <1>6, <1>8, <1>9, <1>10, <1>11, NextTable

\* A SYNC that is handled is about no record.
LEMMA SyncTable ==
  ASSUME BaseInv, TableInv, NEW e \in Conns, Syncs(e) \/ SyncFails(e), UNCHANGED browserVars, InOrder'
  PROVE  TableInv'
<1>1. PICK n : n = Len(log) + 1
  OBVIOUS
<1>2. /\ TakeNotification(e) /\ log' = Append(log, Head(c2s[e]).id) /\ Heard(e).op = "SYNC"
      /\ table' = table
  BY SyncsBase, SyncFailsBase
<1>3. InOrder /\ Len(log') = n /\ Heard(e) = said[n]
  BY <1>1, <1>2, LogsNext
<1>4. PICK k : k \notin Keys
  <2>1. NoKey \notin Keys
    BY DEF Keys, NoKey
  <2> QED BY <2>1
<1>5. \A x \in Keys : Tells(n, x) <=> x = k
  BY <1>2, <1>3, <1>4 DEF Tells
<1>6. UNCHANGED said
  BY DEF browserVars, pageVars
<1>7. PICK t : t = table
  OBVIOUS
<1>8. t \in Seq(Record)
  BY <1>7 DEF BaseInv, SyncTypeOK, RemoteTypeOK
<1> QED BY <1>1, <1>2, <1>3, <1>4, <1>5, <1>6, <1>7, <1>8, NextTable

\* Every step says at most more than was said.
LEMMA BrowserSays ==
  ASSUME BaseInv, KeysInv, BrowserNext, UNCHANGED <<serverVars, remoteVars>>
  PROVE  \/ AnnounceStep
         \/ UNCHANGED <<nnotes, said>>
<1>1. CASE WriteCommits \/ PageReloads \/ \E e \in Conns : OnSchema(e) \/ OnRemotePut(e)
  BY <1>1 DEF WriteCommits, PageReloads, PageRestarts, OnSchema, OnResponse, OnRemotePut, rpcVars
<1>2. CASE \E e \in Conns : RemoteConnect(e)
  BY <1>2 DEF RemoteConnect, pageVars
<1>3. CASE StoreStep /\ UNCHANGED pageVars
  BY <1>3, StoreStepTells DEF BaseInv, SyncTypeOK, pageVars
<1>4. CASE (OnAttempt \/ \E e \in Conns : OnClose(e)) /\ UNCHANGED pageVars
  BY <1>4 DEF OnAttempt, OnClose, rpcVars, pageVars
<1> QED BY <1>1, <1>2, <1>3, <1>4 DEF BrowserNext, AnnounceStep

LEMMA NextTables ==
  ASSUME BaseInv, KeysInv, FirstInv, TableInv, [Next]_vars
  PROVE  TableInv'
<1> SUFFICES ASSUME InOrder'
             PROVE  TableInv'
  BY DEF TableInv
<1>1. ASSUME UNCHANGED <<table, log, said>>
      PROVE  TableInv'
  BY <1>1, TableFrame
<1>2. CASE BrowserNext /\ UNCHANGED <<serverVars, remoteVars>>
  <2>1. UNCHANGED <<table, log>>
    BY <1>2 DEF remoteVars
  <2>2. CASE AnnounceStep
    <3>1. PICK v \in Event : SayStep(v)
      BY <1>2, <2>2, AnnounceSays
    <3>2. \A n \in 1..nnotes : said'[n] = said[n]
      BY <3>1 DEF SayStep, Says
    <3>3. InOrder => \A n \in 1..Len(log) : n \in 1..nnotes
      BY LogOrder
    <3> QED BY <2>1, <3>2, <3>3, TableFrame
  <2> QED BY <1>1, <1>2, <2>1, <2>2, BrowserSays
<1>3. CASE ServerNext /\ UNCHANGED browserVars
  <2>1. UNCHANGED said
    BY <1>3 DEF browserVars, pageVars
  <2>2. ASSUME NEW e \in Conns, HandlerEndsProcess(e)
        PROVE  TableInv'
    <3>1. table' = <<>> /\ log' = <<>>
      BY <1>3, <2>2, EndsBase
    <3> QED BY <3>1 DEF TableInv
  <2>3. PICK e \in Conns : \/ Saves(e) \/ Syncs(e) \/ SyncFails(e) \/ HandlerEndsProcess(e)
                           \/ UNCHANGED remoteVars
    BY <1>3 DEF ServerNext
  <2> QED BY <1>1, <1>3, <2>1, <2>2, <2>3, SavesTable, SyncTable DEF remoteVars
<1>4. CASE UNCHANGED vars
  BY <1>1, <1>4 DEF vars, browserVars, pageVars, remoteVars
<1> QED BY <1>2, <1>3, <1>4 DEF Next

-----------------------------------------------------------------------------
(* Where a difference between the databases is about to be made good.       *)

\* The page has record k as it last told it; or never had it, nor the server.
Stands(k) ==
  \/ \E n \in 1..nnotes : LastTells(n, k, nnotes) /\ said[n].record \in db
  \/ (\A n \in 1..nnotes : ~Tells(n, k)) /\ \A i \in DOMAIN table : table[i].key # k

\* A SYNC is to come, of this connection.
WillAsk == reading > 0 \/ Asked

\* A SYNC is on its way, on this connection, behind all that was said of k.
SyncAhead(k) ==
  \E s \in 1..nnotes :
    /\ said[s].op = "SYNC" /\ s > Len(log)
    /\ \A m \in 1..nnotes : m >= s => ~Tells(m, k)
    /\ \A e \in Conns : e # socket => Notification(s) \notin Range(c2s[e])

\* The server's record k is on its way to the page, or waits there for its put.
Coming(k) ==
  \/ \E r \in Range(incoming) : r.key = k
  \/ \E m \in Range(s2c[socket]) : IsNotification(m) /\ pushed[m.id].key = k

InHand(k) == Stands(k) \/ WillAsk \/ SyncAhead(k) \/ Coming(k)

\* The connection is up, and all was done so far as it should be.
Works ==
  /\ cliEnd[socket] = "OPEN" /\ srvEnd[socket] = "OPEN"
  /\ InOrder /\ ~refused
  /\ \A n \in 1..nnotes : said[n].op # "DELETE"

CycleInv == Works => \A k \in Keys : InHand(k)

LEMMA StandsFrame ==
  ASSUME NEW k, Stands(k), UNCHANGED <<nnotes, said, db>>,
         \A i \in DOMAIN table' : table'[i].key = k => \/ \E n \in 1..nnotes : Tells(n, k)
                                                       \/ \E j \in DOMAIN table : table[j].key = k
  PROVE  Stands(k)'
<1>1. \A n, x : Tells(n, x)' <=> Tells(n, x)
  BY DEF Tells
<1>2. \A n, x : LastTells(n, x, nnotes)' <=> LastTells(n, x, nnotes)
  BY <1>1 DEF LastTells
<1> QED BY <1>1, <1>2 DEF Stands

LEMMA SyncAheadFrame ==
  ASSUME NEW k, SyncAhead(k), UNCHANGED <<nnotes, said, socket>>,
         \A s \in 1..nnotes : said[s].op = "SYNC" /\ s > Len(log) => s > Len(log'),
         \A e \in Conns : e # socket => Range(c2s'[e]) \subseteq Range(c2s[e])
  PROVE  SyncAhead(k)'
<1>1. \A n, x : Tells(n, x)' <=> Tells(n, x)
  BY DEF Tells
<1> QED BY <1>1 DEF SyncAhead

LEMMA AskedFrame ==
  ASSUME Asked, UNCHANGED boot,
         \A m \in Range(c2s[socket]) \cup Range(s2c[socket]) :
           Ask(m) => \E n \in Range(c2s'[socket']) \cup Range(s2c'[socket']) : Ask(n) /\ n.id = m.id
  PROVE  Asked'
BY DEF Asked

\* What the page sends leaves the other connections alone.
LEMMA TellsElsewhere ==
  ASSUME BaseInv, PageTells
  PROVE  /\ \A e \in Conns : e # socket => c2s'[e] = c2s[e]
         /\ Range(c2s[socket]) \subseteq Range(c2s'[socket])
         /\ UNCHANGED <<cliEnd, srvEnd, s2c, socket>>
<1>1. c2s \in Queues /\ socket \in Conns /\ UNCHANGED <<cliEnd, srvEnd, s2c, socket>>
  BY DEF BaseInv, SyncTypeOK, ClientTypeOK, TransportTypeOK, SocketTypeOK, Queues, PageTells, clientVars
<1>2. ASSUME NEW m \in Message, c2s' = Sent(c2s, socket, <<m>>)
      PROVE  /\ \A e \in Conns : e # socket => c2s'[e] = c2s[e]
             /\ Range(c2s[socket]) \subseteq Range(c2s'[socket])
  <2>1. Range(Sent(c2s, socket, <<m>>)[socket]) = Range(c2s[socket]) \cup {m}
    <3>1. PICK s : s = <<m>>
      OBVIOUS
    <3>2. s \in Seq(Message) /\ Range(s) = {m}
      BY <3>1, OneIsAlone
    <3>3. Range(Sent(c2s, socket, s)[socket]) = Range(c2s[socket]) \cup Range(s)
      BY <1>1, <3>2, SentRange
    <3> QED BY <3>1, <3>2, <3>3, Zenon
  <2>2. \A e \in Conns : e # socket => Sent(c2s, socket, <<m>>)[e] = c2s[e]
    BY <1>1, SentElsewhere
  <2> QED BY <1>2, <2>1, <2>2, Zenon
<1> QED BY <1>1, <1>2 DEF PageTells

LEMMA AnnounceInHand ==
  ASSUME BaseInv, KeysInv, DbInv, AnnounceStep, UNCHANGED <<serverVars, remoteVars>>,
         NEW v \in Event, SayStep(v), v.op # "DELETE", InOrder,
         NEW k \in Keys, InHand(k)
  PROVE  InHand(k)'
<1> USE DEF BaseInv, SyncTypeOK
<1>1. PICK n : n = nnotes + 1
  OBVIOUS
<1>2. Says(v) /\ db' = Written(v) /\ nnotes \in Nat /\ nnotes' = n
  BY <1>1 DEF SayStep, Says
<1>3. /\ \A m \in 1..nnotes : \A x : Tells(m, x)' <=> Tells(m, x)
      /\ \A x : Tells(n, x)' <=> v.op \in {"ADD", "PUT"} /\ v.record.key = x
      /\ \A m \in 1..nnotes' : m \in 1..nnotes \/ m = n
      /\ \A m \in 1..nnotes : m \in 1..nnotes' /\ m # n /\ m < n
      /\ n \in 1..nnotes' /\ said'[n] = v /\ \A m \in 1..nnotes : said'[m] = said[m]
  <2>1. /\ \A m \in 1..nnotes : \A x : Tells(m, x)' <=> Tells(m, x)
        /\ \A x : Tells(n, x)' <=> v.op \in {"ADD", "PUT"} /\ v.record.key = x
        /\ \A m \in 1..nnotes' : m \in 1..nnotes \/ m = n
    BY <1>1, <1>2, SaysMeans
  <2> QED BY <1>1, <1>2, <2>1 DEF Says
<1>4. /\ PageTells /\ UNCHANGED <<boot, table, pushed, log>>
      /\ \A e \in Conns : e # socket => c2s'[e] = c2s[e]
      /\ Range(c2s[socket]) \subseteq Range(c2s'[socket])
      /\ UNCHANGED <<cliEnd, srvEnd, s2c, socket>>
  BY AnnounceSays, TellsElsewhere DEF remoteVars
<1>5. CASE v.op \in {"ADD", "PUT"} /\ v.record.key = k
  <2>1. LastTells(n, k, nnotes)'
    <3>1. \A m \in 1..nnotes' : ~(m > n)
      BY <1>1, <1>2
    <3> QED BY <1>3, <1>5, <3>1 DEF LastTells
  <2>2. said'[n].record \in db'
    <3>1. v.record.key # NoKey
      BY <1>5 DEF Keys, NoKey
    <3>2. Stored(v.record) = v.record
      BY <1>2, <1>5, <3>1, EventFields, StoredMeans
    <3> QED BY <1>2, <1>3, <1>5, <3>2 DEF Written, Put
  <2> QED BY <1>3, <2>1, <2>2 DEF Stands, InHand
<1>6. CASE ~(v.op \in {"ADD", "PUT"} /\ v.record.key = k)
  <2>1. ~Tells(n, k)'
    BY <1>3, <1>6
  <2>2. ASSUME NEW r \in db, r.key = k
        PROVE  r \in db'
    <3>1. CASE v.op \notin {"ADD", "PUT"}
      BY <1>2, <1>6, <3>1, EventFields DEF Written, Put, WithoutKey
    <3>2. CASE v.op \in {"ADD", "PUT"}
      <4>1. PICK s : s = Stored(v.record)
        OBVIOUS
      <4>2. s.key # k
        <5>1. CASE v.record.key # NoKey
          BY <1>2, <1>6, <3>2, <4>1, <5>1, EventFields, StoredMeans
        <5>2. CASE v.record.key = NoKey
          <6>1. s.key = nnotes + 1
            BY <1>2, <3>2, <4>1, <5>2, EventFields, StoredMeans
          <6>2. autoIncrement /\ k <= Newest
            BY <2>2, <3>2, <5>2 DEF SayStep, KeysInv
          <6> QED BY <1>2, <6>1, <6>2 DEF Newest
        <5> QED BY <5>1, <5>2
      <4> QED BY <1>2, <2>2, <3>2, <4>1, <4>2 DEF Written, Put, WithoutKey
    <3> QED BY <3>1, <3>2
  <2>3. ASSUME Stands(k)
        PROVE  Stands(k)'
    <3>1. ASSUME NEW m \in 1..nnotes, LastTells(m, k, nnotes), said[m].record \in db
          PROVE  Stands(k)'
      <4>1. LastTells(m, k, nnotes)'
        BY <1>3, <2>1, <3>1 DEF LastTells
      <4>2. said'[m].record \in db'
        BY <1>3, <2>2, <3>1 DEF LastTells, Tells
      <4> QED BY <1>3, <3>1, <4>1, <4>2 DEF Stands
    <3>2. CASE (\A m \in 1..nnotes : ~Tells(m, k)) /\ \A i \in DOMAIN table : table[i].key # k
      BY <1>3, <1>4, <2>1, <3>2 DEF Stands
    <3> QED BY <2>3, <3>1, <3>2 DEF Stands
  <2>4. ASSUME Asked
        PROVE  Asked'
    BY <1>4, <2>4 DEF Asked
  <2>5. ASSUME reading > 0
        PROVE  reading' > 0 \/ SyncAhead(k)'
    <3>1. CASE v.op # "SYNC"
      BY <2>5, <3>1 DEF SayStep
    <3>2. CASE v.op = "SYNC"
      <4>1. said'[n].op = "SYNC" /\ n > Len(log')
        BY <1>1, <1>3, <1>4, <3>2, LogOrder
      <4>2. \A m \in 1..nnotes' : m >= n => ~Tells(m, k)'
        BY <1>1, <1>2, <1>3, <2>1
      <4>3. ASSUME NEW e \in Conns, e # socket', Notification(n) \in Range(c2s'[e])
            PROVE  FALSE
        <5>1. Notification(n) \in Range(c2s[e])
          BY <1>4, <4>3
        <5>2. IsNotification(Notification(n)) /\ Notification(n).id = n
          BY DEF Notification, IsNotification
        <5>3. n <= nnotes
          BY <5>1, <5>2 DEF QueuesKnown
        <5> QED BY <1>1, <1>2, <5>3
      <4> QED BY <1>3, <4>1, <4>2, <4>3 DEF SyncAhead
    <3> QED BY <3>1, <3>2
  <2>6. ASSUME SyncAhead(k)
        PROVE  SyncAhead(k)'
    <3>1. PICK s \in 1..nnotes :
            /\ said[s].op = "SYNC" /\ s > Len(log)
            /\ \A m \in 1..nnotes : m >= s => ~Tells(m, k)
            /\ \A e \in Conns : e # socket => Notification(s) \notin Range(c2s[e])
      BY <2>6 DEF SyncAhead
    <3>2. s \in 1..nnotes' /\ said'[s].op = "SYNC" /\ s > Len(log')
      BY <1>3, <1>4, <3>1
    <3>3. \A m \in 1..nnotes' : m >= s => ~Tells(m, k)'
      BY <1>3, <2>1, <3>1
    <3>4. \A e \in Conns : e # socket' => Notification(s) \notin Range(c2s'[e])
      BY <1>4, <3>1
    <3> QED BY <3>2, <3>3, <3>4 DEF SyncAhead
  <2>7. ASSUME Coming(k)
        PROVE  Coming(k)'
    <3>1. CASE \E m \in Range(s2c[socket]) : IsNotification(m) /\ pushed[m.id].key = k
      BY <1>4, <3>1 DEF Coming
    <3>2. ASSUME NEW r \in Range(incoming), r.key = k
          PROVE  Coming(k)'
      <4>1. CASE v.op = "PUT"
        BY <1>6, <3>2, <4>1 DEF SayStep, Coming
      <4>2. CASE v.op # "PUT"
        BY <3>2, <4>2 DEF SayStep, Coming
      <4> QED BY <4>1, <4>2
    <3> QED BY <2>7, <3>1, <3>2 DEF Coming
  <2> QED BY <2>3, <2>4, <2>5, <2>6, <2>7 DEF InHand, WillAsk
<1> QED BY <1>5, <1>6

\* Steps that touch neither database, and keep what is on its way.
LEMMA InHandFrame ==
  ASSUME NEW k, InHand(k),
         UNCHANGED <<nnotes, said, db, table, log, reading, incoming, pushed, socket>>,
         Asked => Asked',
         \A m \in Range(s2c[socket]) : IsNotification(m) => m \in Range(s2c'[socket]),
         \A e \in Conns : e # socket => Range(c2s'[e]) \subseteq Range(c2s[e])
  PROVE  InHand(k)'
<1>1. CASE Stands(k)
  BY <1>1, StandsFrame DEF InHand
<1>2. CASE WillAsk
  BY <1>2 DEF WillAsk, InHand
<1>3. CASE SyncAhead(k)
  BY <1>3, SyncAheadFrame DEF InHand
<1>4. CASE Coming(k)
  BY <1>4 DEF Coming, InHand
<1> QED BY <1>1, <1>2, <1>3, <1>4 DEF InHand

\* The store sends notifications.
LEMMA StoreInHand ==
  ASSUME BaseInv, StoreStep, UNCHANGED <<pageVars, serverVars, remoteVars>>, NEW k, InHand(k)
  PROVE  InHand(k)' /\ UNCHANGED <<cliEnd, srvEnd, socket, nnotes>>
<1>1. PageTells /\ UNCHANGED nnotes
  BY StoreStepTells DEF BaseInv, SyncTypeOK
<1>2. /\ \A e \in Conns : e # socket => c2s'[e] = c2s[e]
      /\ Range(c2s[socket]) \subseteq Range(c2s'[socket])
      /\ UNCHANGED <<cliEnd, srvEnd, s2c, socket>>
  BY <1>1, TellsElsewhere
<1>3. UNCHANGED <<said, db, table, log, reading, incoming, pushed, boot>>
  BY DEF pageVars, remoteVars
<1>4. Asked => Asked'
  BY <1>2, <1>3 DEF Asked
<1>5. \A e \in Conns : e # socket => Range(c2s'[e]) \subseteq Range(c2s[e])
  BY <1>2
<1> QED BY <1>1, <1>2, <1>3, <1>4, <1>5, InHandFrame

\* onRemoteConnect asks for the schema, and a SYNC follows its answer.
LEMMA ConnectInHand ==
  ASSUME BaseInv, AskInv, NEW e \in Conns, RemoteConnect(e), UNCHANGED <<serverVars, remoteVars>>
  PROVE  Asked'
<1>1. PICK c : c = ncalls + 1
  OBVIOUS
<1>2. PICK m : m = Request(c)
  OBVIOUS
<1>3. c \in Calls /\ c2s' = Sent(c2s, socket, Append(buffer, m)) /\ UNCHANGED <<socket, boot>>
  BY <1>1, <1>2, ConnectBase DEF pageVars
<1>4. /\ c2s \in Queues /\ socket \in Conns /\ buffer \in Seq(Requests) /\ ncalls \in Nat /\ boot \in Nat
  BY JsonRpcAssumption DEF BaseInv, SyncTypeOK, ClientTypeOK, TransportTypeOK, SocketTypeOK, RpcTypeOK,
    PageTypeOK, Queues, Calls
<1>5. m \in Requests /\ m \in Message
  BY <1>2, <1>3, MessageConstructors
<1>6. Append(buffer, m) \in Seq(Message) /\ m \in Range(Append(buffer, m))
  <2>1. Append(buffer, m) \in Seq(Requests) /\ Range(Append(buffer, m)) = Range(buffer) \cup {m}
    BY <1>4, <1>5, AppendRange
  <2> QED BY <2>1 DEF Message
<1>7. m \in Range(c2s'[socket])
  <2>1. PICK s : s = Append(buffer, m)
    OBVIOUS
  <2>2. Range(Sent(c2s, socket, s)[socket]) = Range(c2s[socket]) \cup Range(s)
    BY <1>4, <1>6, <2>1, SentRange
  <2> QED BY <1>3, <1>6, <2>1, <2>2, Zenon
<1>8. m.id = c /\ Ask(m) /\ c # boot
  <2>1. boot <= ncalls
    BY DEF AskInv
  <2>2. c # boot
    BY <1>1, <1>4, <2>1
  <2> QED BY <1>2, <2>2 DEF Request, Ask, IsNotification
<1> QED BY <1>3, <1>7, <1>8 DEF Asked

\* The answer that comes is followed by a SYNC, or was only this.dbs's.
LEMMA SchemaInHand ==
  ASSUME BaseInv, NEW e \in Conns, OnSchema(e), UNCHANGED <<serverVars, remoteVars>>, NEW k, InHand(k)
  PROVE  InHand(k)'
<1>1. PICK h : h = Head(s2c[socket])
  OBVIOUS
<1>2. /\ ClientTakes(e) /\ h.id \in Calls /\ IsResponse(h)
      /\ IF h.id = boot THEN boot' = 0 /\ reading' = reading
                        ELSE reading' = reading + 1 /\ boot' = boot
      /\ UNCHANGED <<cliEnd, srvEnd, c2s, socket, nnotes, db, incoming, said, table, pushed, log>>
  BY <1>1, SchemaBase DEF remoteVars
<1>3. s2c \in Queues /\ socket \in Conns /\ c2s \in Queues /\ reading \in Nat
  BY DEF BaseInv, SyncTypeOK, ClientTypeOK, TransportTypeOK, SocketTypeOK, PageTypeOK, Queues
<1>4. Range(s2c[socket]) = {h} \cup Range(s2c'[socket])
  BY <1>1, <1>2, PageTakes
<1>5. ~IsNotification(h)
  BY <1>2 DEF IsNotification, IsResponse
<1>6. \A m \in Range(s2c[socket]) : IsNotification(m) => m \in Range(s2c'[socket])
  BY <1>4, <1>5
<1>7. CASE h.id # boot
  <2>1. reading' > 0
    BY <1>2, <1>3, <1>7
  <2> QED BY <2>1 DEF InHand, WillAsk
<1>8. CASE h.id = boot
  <2>1. boot' = 0 /\ reading' = reading
    BY <1>2, <1>8
  <2>2. ASSUME NEW m \in Range(c2s[socket]) \cup Range(s2c[socket]), Ask(m), m.id # boot
        PROVE  Asked'
    <3>1. m \in Range(c2s'[socket']) \cup Range(s2c'[socket'])
      BY <1>2, <1>4, <1>8, <2>2
    <3>2. m \in Message
      BY <1>3, <2>2, RangeType DEF Queues
    <3>3. m.id # 0
      BY <2>2, <3>2, MessageFields, JsonRpcAssumption DEF Ask, Message, Requests, Notifications,
        Responses, IsNotification, Calls
    <3> QED BY <2>1, <2>2, <3>1, <3>3 DEF Asked
  <2>3. Asked => Asked'
    BY <2>2 DEF Asked
  <2>4. \A f \in Conns : f # socket => Range(c2s'[f]) \subseteq Range(c2s[f])
    BY <1>2
  <2> QED BY <1>2, <1>6, <2>1, <2>3, <2>4, InHandFrame
<1> QED BY <1>7, <1>8

\* A notification of the server becomes a put that waits.
LEMMA RemotePutInHand ==
  ASSUME BaseInv, NEW e \in Conns, OnRemotePut(e), UNCHANGED <<serverVars, remoteVars>>, NEW k, InHand(k)
  PROVE  InHand(k)'
<1>1. PICK h : h = Head(s2c[socket])
  OBVIOUS
<1>2. /\ ClientTakes(e) /\ IsNotification(h) /\ h.id \in DOMAIN pushed
      /\ incoming' = Append(incoming, pushed[h.id])
      /\ UNCHANGED <<cliEnd, srvEnd, c2s, socket, nnotes, db, boot, reading, said, table, pushed, log>>
  BY <1>1, RemotePutBase DEF remoteVars
<1>3. Range(s2c[socket]) = {h} \cup Range(s2c'[socket])
  BY <1>1, <1>2, PageTakes
<1>4. Range(incoming') = Range(incoming) \cup {pushed[h.id]}
  BY <1>2, AppendRange DEF BaseInv, SyncTypeOK, PageTypeOK, RemoteTypeOK
<1>5. CASE Stands(k)
  BY <1>2, <1>5, StandsFrame DEF InHand
<1>6. CASE WillAsk
  <2>1. Asked => Asked'
    BY <1>2, <1>3 DEF Asked, Ask
  <2> QED BY <1>2, <1>6, <2>1 DEF WillAsk, InHand
<1>7. CASE SyncAhead(k)
  BY <1>2, <1>7, SyncAheadFrame DEF InHand
<1>8. CASE Coming(k)
  <2>1. \A m \in Range(s2c[socket]) : m = h \/ m \in Range(s2c'[socket])
    BY <1>3
  <2>2. Coming(k)'
    BY <1>2, <1>4, <1>8, <2>1 DEF Coming
  <2> QED BY <2>2 DEF InHand
<1> QED BY <1>5, <1>6, <1>7, <1>8 DEF InHand

\* A notification that is taken leaves every call where it is.
LEMMA HandledMeans ==
  ASSUME BaseInv, NEW e \in Conns, TakeNotification(e), UNCHANGED browserVars,
         Range(s2c[socket]) \subseteq Range(s2c'[socket])
  PROVE  /\ UNCHANGED <<nnotes, said, db, boot, reading, incoming, socket>>
         /\ Asked => Asked'
         /\ \A f \in Conns : Range(c2s'[f]) \subseteq Range(c2s[f])
<1>1. UNCHANGED <<nnotes, said, db, boot, reading, incoming, socket>>
  BY DEF browserVars, clientVars, rpcVars, pageVars
<1>2. /\ Range(c2s[e]) = {Head(c2s[e])} \cup Range(c2s'[e]) /\ \A f \in Conns : f # e => c2s'[f] = c2s[f]
      /\ IsNotification(Head(c2s[e]))
  BY HeardNote DEF TakeNotification
<1>3. \A f \in Conns : Range(c2s'[f]) \subseteq Range(c2s[f])
  BY <1>2
<1>4. socket \in Conns
  BY DEF BaseInv, SyncTypeOK, ClientTypeOK, SocketTypeOK
<1>5. \A m \in Range(c2s[socket]) : Ask(m) => m \in Range(c2s'[socket])
  BY <1>2, <1>4 DEF Ask
<1>6. Asked => Asked'
  BY <1>1, <1>5 DEF Asked
<1> QED BY <1>1, <1>3, <1>6

\* What is saved was announced.
LEMMA SavesInHand ==
  ASSUME BaseInv, NEW e \in Conns, Saves(e), UNCHANGED browserVars, InOrder', NEW k \in Keys, InHand(k)
  PROVE  InHand(k)'
<1>1. PICK n : n = Len(log) + 1
  OBVIOUS
<1>2. PICK r : r = Heard(e).record
  OBVIOUS
<1>3. /\ TakeNotification(e) /\ log' = Append(log, Head(c2s[e]).id)
      /\ Heard(e).op \in {"ADD", "PUT"} /\ r \in Record
      /\ table' = IF Heard(e).op = "ADD" THEN MemoryAdd(r) ELSE MemoryPut(r)
      /\ UNCHANGED <<s2c, pushed>>
  BY <1>2, SavesBase
<1>4. Len(log') = n /\ Len(log) \in Nat /\ n \in 1..nnotes /\ Heard(e) = said[n]
  BY <1>1, <1>3, LogsNext
<1>5. /\ UNCHANGED <<nnotes, said, db, boot, reading, incoming, socket>>
      /\ Asked => Asked'
      /\ \A f \in Conns : Range(c2s'[f]) \subseteq Range(c2s[f])
  BY <1>3, HandledMeans
<1>6. CASE Stands(k)
  <2>1. Range(table') \subseteq Range(table) \cup {r}
    BY <1>3, SavedRange DEF BaseInv, SyncTypeOK
  <2>2. ASSUME NEW i \in DOMAIN table', table'[i].key = k
        PROVE  (\E m \in 1..nnotes : Tells(m, k)) \/ \E j \in DOMAIN table : table[j].key = k
    <3>1. table'[i] \in Range(table')
      BY DEF Range
    <3>2. CASE table'[i] = r
      BY <1>2, <1>3, <1>4, <2>2, <3>2 DEF Tells
    <3>3. CASE table'[i] \in Range(table)
      BY <2>2, <3>3 DEF Range
    <3> QED BY <2>1, <3>1, <3>2, <3>3
  <2> QED BY <1>5, <1>6, <2>2, StandsFrame DEF InHand
<1>7. CASE WillAsk
  BY <1>5, <1>7 DEF WillAsk, InHand
<1>8. CASE SyncAhead(k)
  <2>1. \A s \in 1..nnotes : said[s].op = "SYNC" /\ s > Len(log) => s > Len(log')
    <3>1. said[n].op # "SYNC"
      BY <1>3, <1>4
    <3>2. \A s \in 1..nnotes : s > Len(log) => s = n \/ s > n
      BY <1>1, <1>4
    <3> QED BY <1>4, <3>1, <3>2
  <2> QED BY <1>5, <1>8, <2>1, SyncAheadFrame DEF InHand
<1>9. CASE Coming(k)
  BY <1>3, <1>5, <1>9 DEF Coming, InHand
<1> QED BY <1>6, <1>7, <1>8, <1>9 DEF InHand

\* A SYNC that is answered brings the page every record the server has.
LEMMA SyncsInHand ==
  ASSUME BaseInv, TableInv, NEW e \in Conns, Syncs(e), UNCHANGED browserVars, InOrder', NEW k \in Keys,
         InHand(k)
  PROVE  InHand(k)'
<1>1. PICK n : n = Len(log) + 1
  OBVIOUS
<1>2. PICK t : t = Told
  OBVIOUS
<1>3. /\ TakeNotification(e) /\ log' = Append(log, Head(c2s[e]).id) /\ Heard(e).op = "SYNC"
      /\ s2c' = Sent(s2c, e, t) /\ pushed' = pushed \o table
      /\ Len(pushed) + Len(table) <= MaxNotes /\ table' = table
  BY <1>2, SyncsBase
<1>4. /\ Len(log') = n /\ Len(log) \in Nat /\ n \in 1..nnotes /\ Heard(e) = said[n] /\ InOrder
      /\ Head(c2s[e]).id = n
  BY <1>1, <1>3, LogsNext
<1>5. /\ t \in Seq(Message) /\ \A i \in DOMAIN pushed : pushed'[i] = pushed[i]
      /\ \A i \in DOMAIN table : \E m \in Range(t) : IsNotification(m) /\ pushed'[m.id] = table[i]
  BY <1>2, <1>3, ToldMeans DEF BaseInv, SyncTypeOK
<1>6. s2c \in Queues /\ socket \in Conns
  BY DEF BaseInv, SyncTypeOK, ClientTypeOK, TransportTypeOK, SocketTypeOK, Queues
<1>7. /\ e = socket => Range(s2c'[socket]) = Range(s2c[socket]) \cup Range(t)
      /\ e # socket => s2c'[socket] = s2c[socket]
  <2>1. Range(Sent(s2c, e, t)[e]) = Range(s2c[e]) \cup Range(t)
    BY <1>5, <1>6, SentRange
  <2>2. e # socket => Sent(s2c, e, t)[socket] = s2c[socket]
    BY <1>6, SentElsewhere
  <2> QED BY <1>3, <2>1, <2>2
<1>8. /\ UNCHANGED <<nnotes, said, db, boot, reading, incoming, socket>>
      /\ Asked => Asked'
      /\ \A f \in Conns : Range(c2s'[f]) \subseteq Range(c2s[f])
  BY <1>3, <1>7, HandledMeans
<1>9. CASE Stands(k)
  BY <1>3, <1>8, <1>9, StandsFrame DEF InHand
<1>10. CASE WillAsk
  BY <1>8, <1>10 DEF WillAsk, InHand
<1>11. \A m, x : Tells(m, x)' <=> Tells(m, x)
  BY <1>8 DEF Tells
<1>12. CASE SyncAhead(k)
  <2>1. PICK s \in 1..nnotes :
          /\ said[s].op = "SYNC" /\ s > Len(log)
          /\ \A m \in 1..nnotes : m >= s => ~Tells(m, k)
          /\ \A f \in Conns : f # socket => Notification(s) \notin Range(c2s[f])
    BY <1>12 DEF SyncAhead
  <2>2. CASE s # n
    <3>1. s > Len(log')
      BY <1>1, <1>4, <2>1, <2>2
    <3>2. \A f \in Conns : f # socket => Notification(s) \notin Range(c2s'[f])
      BY <1>8, <2>1
    <3>3. \A m \in 1..nnotes : m >= s => ~Tells(m, k)'
      BY <1>11, <2>1
    <3>4. SyncAhead(k)'
      BY <1>8, <2>1, <3>1, <3>2, <3>3 DEF SyncAhead
    <3> QED BY <3>4 DEF InHand
  <2>3. CASE s = n
    <3>1. e = socket
      <4>1. Head(c2s[e]) = Notification(n) /\ Head(c2s[e]) \in Range(c2s[e])
        BY <1>3, <1>4, HeardNote
      <4> QED BY <2>1, <2>3, <4>1
    <3>2. CASE \E i \in DOMAIN table : table[i].key = k
      <4>1. PICK m \in Range(t) : IsNotification(m) /\ pushed'[m.id].key = k
        BY <1>5, <3>2
      <4>2. Coming(k)'
        BY <1>7, <1>8, <3>1, <4>1 DEF Coming
      <4> QED BY <4>2 DEF InHand
    <3>3. CASE \A i \in DOMAIN table : table[i].key # k
      <4>1. \A m \in 1..Len(log) : ~Tells(m, k)
        BY <1>4, <3>3 DEF TableInv
      <4>2. \A m \in 1..nnotes : m \in 1..Len(log) \/ m >= n
        BY <1>1, <1>4
      <4>3. \A m \in 1..nnotes : ~Tells(m, k)
        BY <2>1, <2>3, <4>1, <4>2
      <4>4. Stands(k)
        BY <3>3, <4>3 DEF Stands
      <4> QED BY <1>9, <4>4
    <3> QED BY <3>2, <3>3
  <2> QED BY <2>2, <2>3
<1>13. CASE Coming(k)
  <2>1. CASE \E r \in Range(incoming) : r.key = k
    BY <1>8, <2>1 DEF Coming, InHand
  <2>2. ASSUME NEW m \in Range(s2c[socket]), IsNotification(m), pushed[m.id].key = k
        PROVE  InHand(k)'
    <3>1. m \in Message
      BY <1>6, <2>2, RangeType DEF Queues
    <3>2. m.id \in Notes /\ m.id <= Len(pushed)
      BY <1>6, <2>2, <3>1, MessageFields DEF BaseInv, QueuesKnown
    <3>3. m.id \in DOMAIN pushed
      BY <3>2 DEF Notes, BaseInv, SyncTypeOK, RemoteTypeOK
    <3>4. m \in Range(s2c'[socket])
      BY <1>7
    <3>5. Coming(k)'
      BY <1>5, <1>8, <2>2, <3>3, <3>4 DEF Coming
    <3> QED BY <3>5 DEF InHand
  <2> QED BY <1>13, <2>1, <2>2 DEF Coming
<1> QED BY <1>9, <1>10, <1>12, <1>13 DEF InHand

\* An answer that is under way asks as much as the question did.
LEMMA RequestInHand ==
  ASSUME BaseInv, NEW e \in Conns, ReceiveRequest(e, "value"), UNCHANGED <<browserVars, remoteVars>>,
         NEW k, InHand(k)
  PROVE  InHand(k)'
<1>1. PICK h : h = Head(c2s[e])
  OBVIOUS
<1>2. PICK m : m = Response(h.id, "result")
  OBVIOUS
<1>3. /\ c2s[e] # <<>> /\ c2s' = Taken(c2s, e) /\ s2c' = Sent(s2c, e, <<m>>) /\ m \in Message
      /\ IsRequest(h)
  BY <1>1, <1>2, RequestBase
<1>4. c2s \in Queues /\ s2c \in Queues /\ socket \in Conns
  BY DEF BaseInv, SyncTypeOK, ClientTypeOK, TransportTypeOK, SocketTypeOK, Queues
<1>5. /\ Range(c2s[e]) = {h} \cup Range(c2s'[e])
      /\ \A f \in Conns : f # e => c2s'[f] = c2s[f]
  BY <1>1, <1>3, <1>4, TakenRange, TakenElsewhere
<1>6. \A f \in Conns : Range(s2c'[f]) = IF f = e THEN Range(s2c[f]) \cup {m} ELSE Range(s2c[f])
  <2> SUFFICES ASSUME NEW f \in Conns
               PROVE  Range(s2c'[f]) = IF f = e THEN Range(s2c[f]) \cup {m} ELSE Range(s2c[f])
    OBVIOUS
  <2>1. m \in Message /\ s2c \in Queues
    BY <1>3, <1>4
  <2>2. Range(Sent(s2c, e, <<m>>)[f]) = IF f = e THEN Range(s2c[f]) \cup {m} ELSE Range(s2c[f])
    BY <2>1, SentOne
  <2> QED BY <1>3, <2>2, Zenon
<1>7. UNCHANGED <<nnotes, said, db, table, log, reading, incoming, pushed, boot, socket>>
  BY DEF browserVars, clientVars, rpcVars, pageVars, remoteVars
<1>8. Ask(m) /\ m.id = h.id
  BY <1>2 DEF Ask, IsNotification, Response
<1>9. \A x \in Range(c2s[socket]) \cup Range(s2c[socket]) :
        Ask(x) => \E y \in Range(c2s'[socket]) \cup Range(s2c'[socket]) : Ask(y) /\ y.id = x.id
  <2>1. CASE e = socket
    BY <1>4, <1>5, <1>6, <1>8, <2>1
  <2>2. CASE e # socket
    BY <1>4, <1>5, <1>6, <2>2
  <2> QED BY <2>1, <2>2
<1>10. Asked => Asked'
  BY <1>7, <1>9, AskedFrame
<1>11. \A x \in Range(s2c[socket]) : IsNotification(x) => x \in Range(s2c'[socket])
  BY <1>4, <1>6
<1>12. \A f \in Conns : f # socket => Range(c2s'[f]) \subseteq Range(c2s[f])
  BY <1>5
<1> QED BY <1>7, <1>10, <1>11, <1>12, InHandFrame

\* The server begins to serve a connection before the page knows of it.
LEMMA RegisterInHand ==
  ASSUME BaseInv, QueueInv, NEW e \in Conns, RegisterClient(e) \/ UnregisterClient(e),
         UNCHANGED <<browserVars, remoteVars>>, NEW k
  PROVE  /\ Works' => Works
         /\ InHand(k) => InHand(k)'
<1>1. /\ UNCHANGED <<cliEnd, c2s, s2c>>
      /\ srvEnd'[socket] = "OPEN" => srvEnd[socket] = "OPEN" \/ srvEnd[socket] = "UNUSED"
      /\ socket \in Conns
  <2>1. socket \in Conns
    BY DEF BaseInv, SyncTypeOK, ClientTypeOK, SocketTypeOK
  <2> QED BY <2>1, RegisterBase
<1>2. UNCHANGED <<nnotes, said, db, table, log, reading, incoming, pushed, boot, socket, refused>>
  BY DEF browserVars, clientVars, rpcVars, pageVars, remoteVars
<1>3. cliEnd[socket] = "OPEN" => srvEnd[socket] # "UNUSED"
  BY <1>1 DEF QueueInv
<1>4. Works' => Works
  BY <1>1, <1>2, <1>3 DEF Works, InOrder
<1>5. Asked => Asked'
  BY <1>1, <1>2 DEF Asked
<1>6. InHand(k) => InHand(k)'
  BY <1>1, <1>2, <1>5, InHandFrame
<1> QED BY <1>4, <1>6

\* The page's steps.
LEMMA BrowserCycle ==
  ASSUME BaseInv, QueueInv, AskInv, KeysInv, DbInv, CycleInv, BrowserNext,
         UNCHANGED <<serverVars, remoteVars>>, Works', NEW k \in Keys
  PROVE  InHand(k)'
<1> USE DEF BaseInv, SyncTypeOK
<1>1. UNCHANGED <<srvEnd, log, refused, table, pushed>>
  <2>1. UNCHANGED <<log, refused, table, pushed>>
    BY DEF remoteVars
  <2>2. CASE AnnounceStep
    BY <2>1, <2>2, AnnounceSays DEF PageTells
  <2>3. CASE WriteCommits
    BY <2>1, <2>3 DEF WriteCommits, transportVars
  <2>4. CASE PageReloads
    BY <2>1, <2>4, ReloadBase DEF NextSocket
  <2>5. ASSUME NEW e \in Conns, RemoteConnect(e) \/ OnSchema(e) \/ OnRemotePut(e)
        PROVE  UNCHANGED srvEnd
    BY <2>5, ConnectBase, SchemaBase, RemotePutBase
  <2>6. CASE OnAttempt /\ UNCHANGED pageVars
    BY <2>1, <2>6, AttemptBase DEF NextSocket
  <2>7. CASE StoreStep /\ UNCHANGED pageVars
    BY <2>1, <2>7, StoreStepTells DEF PageTells
  <2>8. ASSUME NEW e \in Conns, OnClose(e), UNCHANGED pageVars
        PROVE  UNCHANGED srvEnd
    BY <2>8, CloseBase
  <2> QED BY <2>1, <2>2, <2>3, <2>4, <2>5, <2>6, <2>7, <2>8 DEF BrowserNext, AnnounceStep
<1>2. ASSUME UNCHANGED <<cliEnd, socket, nnotes, said>>
      PROVE  InHand(k)
  <2>1. Works
    BY <1>1, <1>2 DEF Works, InOrder
  <2> QED BY <2>1 DEF CycleInv
<1>3. CASE AnnounceStep
  <2>1. PICK v \in Event : SayStep(v)
    BY <1>3, AnnounceSays
  <2>2. UNCHANGED <<cliEnd, socket>>
    BY <1>3, AnnounceSays, TellsElsewhere
  <2>3. /\ \A n \in 1..nnotes : said'[n] = said[n] /\ n \in 1..nnotes'
        /\ \A n : n = nnotes + 1 => n \in 1..nnotes' /\ said'[n] = v
    BY <2>1 DEF SayStep, Says
  <2>4. v.op # "DELETE"
    BY <2>3 DEF Works
  <2>5. Works
    BY <1>1, <2>2, <2>3 DEF Works, InOrder
  <2> QED BY <1>3, <2>1, <2>4, <2>5, AnnounceInHand DEF CycleInv, Works
<1>4. CASE WriteCommits
  <2>1. UNCHANGED <<cliEnd, c2s, s2c, socket, nnotes, said, db, boot, reading, incoming>>
    BY <1>4 DEF WriteCommits, transportVars, clientVars, rpcVars
  <2>2. Asked => Asked'
    BY <2>1 DEF Asked
  <2> QED BY <1>1, <1>2, <2>1, <2>2, InHandFrame
<1>5. ASSUME NextSocket
      PROVE  FALSE
  <2>1. cliEnd'[socket'] = "CONNECTING"
    BY <1>5, NextSocketQueues
  <2> QED BY <2>1 DEF Works
<1>6. CASE PageReloads
  BY <1>5, <1>6, ReloadBase
<1>7. CASE OnAttempt /\ UNCHANGED pageVars
  BY <1>5, <1>7, AttemptBase
<1>8. ASSUME NEW e \in Conns, OnClose(e), UNCHANGED pageVars
      PROVE  FALSE
  BY <1>8, CloseBase DEF Works
<1>9. ASSUME NEW e \in Conns, RemoteConnect(e)
       PROVE  InHand(k)'
  BY <1>9, ConnectInHand DEF InHand, WillAsk
<1>10. ASSUME NEW e \in Conns, OnSchema(e)
       PROVE  InHand(k)'
  <2>1. UNCHANGED <<cliEnd, socket, nnotes, said>>
    BY <1>10, SchemaBase
  <2> QED BY <1>2, <1>10, <2>1, SchemaInHand
<1>11. ASSUME NEW e \in Conns, OnRemotePut(e)
       PROVE  InHand(k)'
  <2>1. UNCHANGED <<cliEnd, socket, nnotes, said>>
    BY <1>11, RemotePutBase
  <2> QED BY <1>2, <1>11, <2>1, RemotePutInHand
<1>12. CASE StoreStep /\ UNCHANGED pageVars
  <2>1. UNCHANGED <<cliEnd, socket, nnotes, said>>
    <3>1. PageTells /\ UNCHANGED nnotes
      BY <1>12, StoreStepTells
    <3> QED BY <1>12, <3>1, TellsElsewhere DEF pageVars
  <2> QED BY <1>2, <1>12, <2>1, StoreInHand
<1> QED BY <1>3, <1>4, <1>6, <1>7, <1>8, <1>9, <1>10, <1>11, <1>12 DEF BrowserNext, AnnounceStep

\* The server's.
LEMMA ServerCycle ==
  ASSUME BaseInv, QueueInv, TableInv, CycleInv, ServerNext, UNCHANGED browserVars, Works', NEW k \in Keys
  PROVE  InHand(k)'
<1>1. UNCHANGED <<socket, nnotes, said>>
  BY DEF browserVars, clientVars, rpcVars, pageVars
<1>2. ASSUME InOrder, ~refused, UNCHANGED <<cliEnd, srvEnd>>
      PROVE  InHand(k)
  BY <1>1, <1>2 DEF Works, CycleInv
<1>3. ASSUME NEW e \in Conns, Saves(e)
      PROVE  InHand(k)'
  <2>1. /\ TakeNotification(e) /\ log' = Append(log, Head(c2s[e]).id)
        /\ UNCHANGED <<cliEnd, srvEnd, refused>>
    BY <1>3, SavesBase
  <2>2. InOrder /\ ~refused /\ InOrder'
    BY <2>1, LogsNext DEF Works
  <2> QED BY <1>2, <1>3, <2>1, <2>2, SavesInHand
<1>4. ASSUME NEW e \in Conns, Syncs(e)
      PROVE  InHand(k)'
  <2>1. /\ TakeNotification(e) /\ log' = Append(log, Head(c2s[e]).id)
        /\ UNCHANGED <<cliEnd, srvEnd, refused>>
    BY <1>4, SyncsBase
  <2>2. InOrder /\ ~refused /\ InOrder'
    BY <2>1, LogsNext DEF Works
  <2> QED BY <1>2, <1>4, <2>1, <2>2, SyncsInHand
<1>5. ASSUME NEW e \in Conns, SyncFails(e)
      PROVE  FALSE
  BY <1>5, SyncFailsBase DEF Works
<1>6. ASSUME NEW e \in Conns, HandlerEndsProcess(e)
      PROVE  FALSE
  <2>1. socket \in Conns
    BY DEF BaseInv, SyncTypeOK, ClientTypeOK, SocketTypeOK
  <2>2. srvEnd'[socket] # "OPEN"
    BY <1>6, <2>1, EndsBase
  <2> QED BY <1>1, <2>2 DEF Works
<1>7. ASSUME NEW e \in Conns, RegisterClient(e) \/ UnregisterClient(e), UNCHANGED remoteVars
      PROVE  InHand(k)'
  BY <1>7, RegisterInHand DEF CycleInv
<1>8. ASSUME NEW e \in Conns, ReceiveRequest(e, "value"), UNCHANGED remoteVars
      PROVE  InHand(k)'
  <2>1. UNCHANGED <<cliEnd, srvEnd, log, refused>>
    BY <1>8, RequestBase DEF remoteVars
  <2>2. InHand(k)
    BY <1>2, <2>1 DEF Works, InOrder
  <2> QED BY <1>8, <2>2, RequestInHand
<1> QED BY <1>3, <1>4, <1>5, <1>6, <1>7, <1>8 DEF ServerNext

LEMMA NextCycle ==
  ASSUME BaseInv, QueueInv, AskInv, KeysInv, DbInv, TableInv, CycleInv, [Next]_vars
  PROVE  CycleInv'
<1> SUFFICES ASSUME Works', NEW k \in Keys
             PROVE  InHand(k)'
  BY DEF CycleInv
<1>1. CASE UNCHANGED vars
  <2>1. UNCHANGED <<cliEnd, srvEnd, c2s, s2c, socket, nnotes, said, db, boot, reading, incoming,
                    table, log, pushed, refused>>
    BY <1>1 DEF vars, transportVars, browserVars, clientVars, rpcVars, pageVars, remoteVars
  <2>2. Works
    BY <2>1 DEF Works, InOrder
  <2>3. Asked => Asked'
    BY <2>1 DEF Asked
  <2> QED BY <2>1, <2>2, <2>3, InHandFrame DEF CycleInv
<1> QED BY <1>1, BrowserCycle, ServerCycle DEF Next

LEMMA InitCycle == Init => KeysInv /\ FirstInv /\ DbInv /\ TableInv /\ CycleInv
<1> SUFFICES ASSUME Init PROVE KeysInv /\ FirstInv /\ DbInv /\ TableInv /\ CycleInv
  OBVIOUS
<1>1. PICK r : r = [key |-> 0, val |-> 0, stamped |-> TRUE]
  OBVIOUS
<1>2. /\ nnotes = 0 /\ db = {} /\ disk = {} /\ incoming = <<>> /\ table = <<r>> /\ pushed = <<>>
      /\ log = <<>> /\ writes = 0 /\ socket = 1
      /\ cliEnd = [e \in Conns |-> IF e = 1 THEN "CONNECTING" ELSE "UNUSED"]
  BY <1>1 DEF Init, StoreInit, SocketInit, TransportInit
<1>3. r.key = 0 /\ DOMAIN table = {1} /\ table[1] = r /\ Len(log) = 0 /\ 1..nnotes = {}
  BY <1>1, <1>2
<1>4. Range(incoming) = {} /\ Range(table) = {r} /\ Range(pushed) = {}
  BY <1>2, <1>3 DEF Range
<1>5. KeysInv
  <2>1. Newest = 0 /\ ~Keyless
    BY <1>2, <1>3 DEF Newest, Keyless
  <2> QED BY <1>2, <1>3, <1>4, <2>1 DEF KeysInv, NoKey
<1>6. FirstInv /\ DbInv
  BY <1>2, <1>3 DEF FirstInv, DbInv, Collection
<1>7. TableInv
  <2>1. 1..Len(log) = {}
    BY <1>3
  <2>2. Accounted(r, Len(log))
    BY <1>3, <2>1 DEF Accounted
  <2> QED BY <1>3, <2>1, <2>2 DEF TableInv
<1>8. CycleInv
  <2>1. 1 \in Conns
    BY MaxConnsAssumption DEF Conns
  <2>2. cliEnd[socket] # "OPEN"
    BY <1>2, <2>1
  <2> QED BY <2>2 DEF CycleInv, Works
<1> QED BY <1>5, <1>6, <1>7, <1>8

\* When all is quiet nothing is about to be made good: every record stands.
LEMMA QuietStands ==
  ASSUME BaseInv, CycleInv, Quiet, HandledInOrder, ~refused, NEW k \in Keys
  PROVE  /\ Stands(k) /\ InOrder /\ Len(log) = nnotes
<1>1. nnotes \in Nat
  BY JsonRpcAssumption DEF BaseInv, SyncTypeOK, ClientTypeOK, RpcTypeOK
<1>2. Len(log) = nnotes /\ DOMAIN log = 1..nnotes /\ InOrder
  BY <1>1 DEF HandledInOrder, InOrder
<1>3. \A n \in 1..nnotes : said[n].op # "DELETE"
  BY <1>2 DEF BaseInv, LogKnown, InOrder
<1>4. InHand(k)
  BY <1>2, <1>3 DEF CycleInv, Works, Quiet
<1>5. Range(c2s[socket]) = {} /\ Range(s2c[socket]) = {} /\ Range(incoming) = {} /\ reading = 0
  BY DEF Quiet, Range
<1>6. ~WillAsk
  BY <1>5 DEF WillAsk, Asked
<1>7. ~SyncAhead(k)
  BY <1>1, <1>2 DEF SyncAhead
<1>8. ~Coming(k)
  BY <1>5 DEF Coming
<1> QED BY <1>2, <1>4, <1>6, <1>7, <1>8 DEF InHand

\* Of one key, only one announcement is the last.
LEMMA LastIsOne ==
  ASSUME NEW N \in Nat, NEW k, NEW m \in 1..N, NEW n \in 1..N, LastTells(m, k, N), LastTells(n, k, N)
  PROVE  m = n
BY DEF LastTells

\* A sequence without repetition has as many elements as it has members.
LEMMA CountsItems ==
  ASSUME NEW S, NEW s \in Seq(S), NEW T, T = {s[i] : i \in DOMAIN s},
         \A i, j \in DOMAIN s : s[i] = s[j] => i = j
  PROVE  Len(s) = Cardinality(T)
<1>1. Len(s) \in Nat /\ DOMAIN s = 1..Len(s) /\ s \in [1..Len(s) -> T]
  OBVIOUS
<1>2. s \in Bijection(1..Len(s), T)
  BY <1>1 DEF Bijection, Injection, Surjection, IsInjective
<1>3. ExistsBijection(1..Len(s), T)
  BY <1>2 DEF ExistsBijection
<1> QED BY <1>1, <1>3, FS_CountingElements

LEMMA QuietAgrees ==
  ASSUME BaseInv, KeysInv, DbInv, TableInv, CycleInv, Quiet, HandledInOrder, ~refused
  PROVE  AgreeOnKeys /\ (~(autoIncrement /\ SaidOf(NoKey)) => Agree)
<1> DEFINE T == {table[i] : i \in DOMAIN table}
<1>1. /\ nnotes \in Nat /\ table \in Seq(Record) /\ db \subseteq Record
      /\ \A i \in DOMAIN table : table[i] \in Record
      /\ \A r \in db : r.key # NoKey /\ r.key \in Keys
  <2>1. /\ nnotes \in Nat /\ table \in Seq(Record) /\ db \subseteq Record
        /\ \A r \in db : r.key # NoKey
    BY JsonRpcAssumption DEF BaseInv, SyncTypeOK, ClientTypeOK, RpcTypeOK, PageTypeOK, RemoteTypeOK
  <2>2. \A i \in DOMAIN table : table[i] \in Record
    BY <2>1
  <2>3. \A r \in db : r.key \in Keys
    BY <2>1, RecordFields
  <2> QED BY <2>1, <2>2, <2>3
<1>2. \A k \in Keys : Stands(k)
  BY QuietStands
<1>3. InOrder /\ Len(log) = nnotes
  <2>1. 0 \in Keys
    BY DEF Keys
  <2> QED BY <2>1, QuietStands
<1>4. /\ \A i, j \in DOMAIN table : table[i].key # NoKey /\ table[i].key = table[j].key => i = j
      /\ \A i \in DOMAIN table : table[i].key # NoKey => Accounted(table[i], nnotes)
      /\ \A n \in 1..nnotes, k \in Keys : Tells(n, k) => \E i \in DOMAIN table : table[i].key = k
  BY <1>3 DEF TableInv
<1>5. ASSUME NEW i \in DOMAIN table, table[i].key # NoKey
      PROVE  table[i] \in db
  <2>1. PICK k \in Keys : k = table[i].key
    BY <1>1, <1>5, RecordFields
  <2>2. PICK n \in 1..nnotes : LastTells(n, k, nnotes) /\ said[n].record \in db
    BY <1>2, <2>1 DEF Stands
  <2>3. PICK m \in 1..nnotes : LastTells(m, k, nnotes) /\ table[i] = said[m].record
    BY <1>4, <1>5, <2>1, <2>2 DEF Accounted, LastTells
  <2>4. m = n
    BY <1>1, <2>2, <2>3, LastIsOne
  <2> QED BY <2>2, <2>3, <2>4
<1>6. ASSUME NEW r \in db, NEW n \in 1..nnotes, Tells(n, r.key)
      PROVE  \E i \in DOMAIN table : table[i].key # NoKey /\ table[i] = r
  <2>1. PICK i \in DOMAIN table : table[i].key = r.key
    BY <1>1, <1>4, <1>6
  <2>2. table[i].key # NoKey
    BY <1>1, <2>1
  <2>3. table[i] = r
    BY <1>5, <2>1, <2>2 DEF DbInv, Collection
  <2> QED BY <2>2, <2>3
<1>7. \A k : SaidOf(k) <=> \E n \in 1..nnotes : Tells(n, k)
  <2>1. DOMAIN said = 1..nnotes
    BY DEF BaseInv, SyncTypeOK, PageTypeOK
  <2> QED BY <2>1 DEF SaidOf, Tells
<1>8. AgreeOnKeys
  BY <1>4, <1>5, <1>6, <1>7 DEF AgreeOnKeys
<1>9. ASSUME ~(autoIncrement /\ SaidOf(NoKey))
      PROVE  Agree
  <2>1. ~Keyless
    BY <1>7, <1>9 DEF Keyless, KeysInv
  <2>2. \A i \in DOMAIN table : table[i].key # NoKey
    BY <2>1 DEF KeysInv, Range
  <2>3. T = db
    <3>1. \A r \in db : r \in T
      BY <1>6, <2>1 DEF DbInv, Collection
    <3> QED BY <1>5, <2>2, <3>1
  <2>4. \A i, j \in DOMAIN table : table[i] = table[j] => i = j
    BY <1>4, <2>2
  <2>5. Len(table) = Cardinality(db)
    BY <1>1, <2>3, <2>4, CountsItems
  <2> QED BY <2>3, <2>5 DEF Agree
<1> QED BY <1>8, <1>9

(* Whenever nothing is on its way, this server process has handled all the
   page ever announced, in order, and no SYNC failed, what was announced under its
   key is the same in both and the server holds it once; where nothing was
   announced without a key, the two databases hold the same records and the
   server none twice: however often the connection was lost, the page was
   reloaded or a SYNC was repeated. *)
THEOREM ConvergesCorrect == Spec => []Converges
<1> DEFINE IInv == /\ BaseInv /\ QueueInv /\ AskInv
                   /\ KeysInv /\ FirstInv /\ DbInv /\ TableInv /\ CycleInv
<1>1. Init => IInv
  BY InitBase, InitAsks, InitCycle
<1>2. IInv /\ [Next]_vars => IInv'
  BY NextBase, NextQueues, NextAsks, NextKeys, NextTables, NextCycle
<1>3. IInv => Converges
  BY QuietAgrees DEF Converges
<1> HIDE DEF IInv
<1> QED BY <1>1, <1>2, <1>3, PTL DEF Spec

=============================================================================
