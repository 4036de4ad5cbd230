------------------------ MODULE BrowserDatabaseProofs ------------------------
(***************************************************************************)
(* For every number of pages, schema versions, instances and operations of *)
(* BrowserDatabase: the types, that the instances of every page stay       *)
(* usable (OpenedStaysUsable), and that pages which empty one store take   *)
(* each record once (ConsumedOnce).                                        *)
(***************************************************************************)
EXTENDS BrowserDatabase, FiniteSetTheorems, TLAPS

-----------------------------------------------------------------------------
(* The inductive invariant.                                                 *)

\* An operation is one of an instance there is.
OpsHaveInstance == \A o \in DOMAIN ops : ops[o].db \in DOMAIN dbs

\* A page uses an instance of its own, made since it was loaded: if it is
\* resolved, its connection is still there to begin a transaction on.
CurrentIsOwn ==
  \A p \in Pages : current[p] # 0 =>
    /\ current[p] \in DOMAIN dbs
    /\ dbs[current[p]].page = p
    /\ dbs[current[p]].link # "gone"

DbInv ==
  /\ InstancesTypeOK
  /\ OpenedStaysUsable
  /\ OpsHaveInstance
  /\ CurrentIsOwn

-----------------------------------------------------------------------------
(* Sequences that grow, and instances and operations that change state.     *)

LEMMA AppendIndex ==
  ASSUME NEW S, NEW s \in Seq(S), NEW x \in S
  PROVE  /\ Append(s, x) \in Seq(S)
         /\ DOMAIN s = 1..Len(s) /\ Len(s) \in Nat
         /\ DOMAIN Append(s, x) = DOMAIN s \cup {Len(s) + 1}
         /\ Len(s) + 1 \notin DOMAIN s
         /\ Append(s, x)[Len(s) + 1] = x
         /\ \A i \in DOMAIN s : Append(s, x)[i] = s[i]
OBVIOUS

LEMMA MappedSeq ==
  ASSUME NEW S, NEW s \in Seq(S), NEW t, t = [i \in DOMAIN s |-> t[i]],
         \A i \in DOMAIN s : t[i] \in S
  PROVE  t \in Seq(S) /\ DOMAIN t = DOMAIN s /\ Len(t) = Len(s)
<1>1. DOMAIN s = 1..Len(s) /\ Len(s) \in Nat
  OBVIOUS
<1> QED BY <1>1

\* The constructor's instance.
LEMMA NewDbType ==
  ASSUME NEW p \in Pages, NEW v \in Versions
  PROVE  /\ NewDb(p, v) \in Db
         /\ NewDb(p, v).page = p /\ NewDb(p, v).link = "asked" /\ NewDb(p, v).promise = "pending"
BY DEF NewDb, Db

LEMMA ContinuationsRun ==
  ASSUME ops \in Seq(Op), NEW i, RunContinuations(i) \/ FailContinuations(i)
  PROVE  /\ ops' \in Seq(Op) /\ DOMAIN ops' = DOMAIN ops
         /\ \A o \in DOMAIN ops :
              /\ ops'[o].db = ops[o].db
              /\ ops'[o].state = "queued" =>
                   ops[o].state = "queued" \/ (ops[o].db = i /\ RunContinuations(i))
<1>1. PICK st : /\ st \in {"queued", "failed"}
                /\ st = "queued" => RunContinuations(i)
                /\ ops' = [o \in DOMAIN ops |->
                             IF ops[o].db = i /\ ops[o].state = "waiting"
                             THEN [ops[o] EXCEPT !.state = st] ELSE ops[o]]
  <2>1. CASE RunContinuations(i)
    BY <2>1 DEF RunContinuations
  <2>2. CASE FailContinuations(i)
    BY <2>2 DEF FailContinuations
  <2> QED BY <2>1, <2>2
<1>2. ASSUME NEW o \in DOMAIN ops
      PROVE  /\ ops'[o] \in Op /\ ops'[o].db = ops[o].db
             /\ ops'[o].state = "queued" =>
                  ops[o].state = "queued" \/ (ops[o].db = i /\ RunContinuations(i))
  <2>1. ops[o] \in Op
    OBVIOUS
  <2>2. CASE ops[o].db = i /\ ops[o].state = "waiting"
    <3>1. ops'[o] = [ops[o] EXCEPT !.state = st]
      BY <1>1, <2>2
    <3>2. ops'[o] \in Op /\ ops'[o].db = ops[o].db /\ ops'[o].state = st
      BY <1>1, <2>1, <3>1 DEF Op
    <3> QED BY <1>1, <2>2, <3>2
  <2>3. CASE ~(ops[o].db = i /\ ops[o].state = "waiting")
    <3>1. ops'[o] = ops[o]
      BY <1>1, <2>3
    <3> QED BY <2>1, <3>1
  <2> QED BY <2>2, <2>3
<1>3. ops' = [o \in DOMAIN ops |-> ops'[o]]
  BY <1>1
<1> QED BY <1>2, <1>3, MappedSeq

-----------------------------------------------------------------------------
(* Opening.                                                                 *)

\* A request is answered: its instance changes, and only its operations can
\* begin.
LEMMA RequestAnswered ==
  ASSUME DbInv, NEW i \in DOMAIN dbs, dbs[i].link = "asked",
         NEW d \in Db, dbs' = [dbs EXCEPT ![i] = d],
         d.page = dbs[i].page, d.link # "gone",
         d.promise = "resolved" => d.link = "open",
         d.link = "open" => d.version = diskVersion',
         diskVersion' = diskVersion \/ \A j \in DOMAIN dbs : ~IsOpen(dbs[j]),
         ops' \in Seq(Op), DOMAIN ops' = DOMAIN ops,
         \A o \in DOMAIN ops :
           /\ ops'[o].db = ops[o].db
           /\ ops'[o].state = "queued" =>
                ops[o].state = "queued" \/ (ops[o].db = i /\ d.link = "open"),
         UNCHANGED <<saved, serverVersion, current>>
  PROVE  DbInv'
<1>1. dbs \in Seq(Db) /\ dbs' \in Seq(Db) /\ DOMAIN dbs' = DOMAIN dbs
  BY DEF DbInv, InstancesTypeOK
<1>2. dbs'[i] = d /\ \A j \in DOMAIN dbs : j # i => dbs'[j] = dbs[j]
  BY <1>1
<1>3. InstancesTypeOK'
  BY <1>1 DEF DbInv, InstancesTypeOK
<1>4. ASSUME NEW j \in DOMAIN dbs'
      PROVE  /\ dbs'[j].promise = "resolved" => dbs'[j].link \in {"open", "gone"}
             /\ IsOpen(dbs'[j]) => dbs'[j].version = diskVersion'
  <2>1. CASE j = i
    BY <1>2, <2>1 DEF IsOpen
  <2>2. CASE j # i
    BY <1>1, <1>2, <2>2 DEF DbInv, OpenedStaysUsable
  <2> QED BY <2>1, <2>2
<1>5. ASSUME NEW o \in DOMAIN ops', ops'[o].state = "queued"
      PROVE  IsOpen(dbs'[ops'[o].db])
  <2>1. o \in DOMAIN ops /\ ops'[o].db = ops[o].db /\ ops[o].db \in DOMAIN dbs
    BY DEF DbInv, OpsHaveInstance
  <2>2. CASE ops[o].state = "queued"
    <3>1. IsOpen(dbs[ops[o].db]) /\ ops[o].db # i
      BY <2>1, <2>2 DEF DbInv, OpenedStaysUsable, IsOpen
    <3> QED BY <1>2, <2>1, <3>1
  <2>3. CASE ops[o].db = i /\ d.link = "open"
    BY <1>2, <2>1, <2>3 DEF IsOpen
  <2> QED BY <1>5, <2>1, <2>2, <2>3
<1>6. OpsHaveInstance'
  BY <1>1 DEF DbInv, OpsHaveInstance
<1>7. CurrentIsOwn'
  BY <1>1, <1>2 DEF DbInv, CurrentIsOwn
<1>8. OpenedStaysUsable'
  BY <1>4, <1>5 DEF OpenedStaysUsable
<1> QED BY <1>3, <1>6, <1>7, <1>8 DEF DbInv

LEMMA SameAfterVersionChange ==
  ASSUME dbs \in Seq(Db)
  PROVE  AfterVersionChange = dbs
BY DEF AfterVersionChange, OnVersionChange

LEMMA ResolvedType ==
  ASSUME NEW d \in Db, d.promise # "resolved"
  PROVE  /\ Resolved(d) \in Db /\ Resolved(d).page = d.page
         /\ Resolved(d).version = d.version /\ Resolved(d).link = "open"
BY DEF Resolved, Db

LEMMA OpeningKeeps ==
  ASSUME DbInv, Opening
  PROVE  DbInv'
<1>1. PICK i \in DOMAIN dbs :
        OpenSame(i) \/ OpenStale(i) \/ OpenBlocked(i) \/ OpenUpgrades(i)
  BY DEF Opening
<1>2. /\ dbs \in Seq(Db) /\ ops \in Seq(Op) /\ dbs[i] \in Db
      /\ UNCHANGED <<saved, serverVersion, current>>
  BY DEF Opening, DbInv, InstancesTypeOK
<1>3. dbs[i].link = "asked" /\ dbs[i].promise # "resolved"
  BY <1>1 DEF OpenSame, OpenStale, OpenBlocked, OpenUpgrades, Asks, DbInv, OpenedStaysUsable
<1>4. AfterVersionChange = dbs
  BY <1>2, SameAfterVersionChange
<1>5. ASSUME dbs' = [dbs EXCEPT ![i] = Resolved(dbs[i])], RunContinuations(i),
             diskVersion' = dbs[i].version,
             diskVersion' = diskVersion \/ \A j \in DOMAIN dbs : ~IsOpen(dbs[j])
      PROVE  DbInv'
  <2>1. PICK d : d = Resolved(dbs[i])
    OBVIOUS
  <2>2. d \in Db /\ d.page = dbs[i].page /\ d.link = "open" /\ d.version = diskVersion'
    BY <1>2, <1>3, <1>5, <2>1, ResolvedType
  <2>3. dbs' = [dbs EXCEPT ![i] = d]
    BY <1>5, <2>1
  <2>4. /\ ops' \in Seq(Op) /\ DOMAIN ops' = DOMAIN ops
        /\ \A o \in DOMAIN ops :
             /\ ops'[o].db = ops[o].db
             /\ ops'[o].state = "queued" =>
                  ops[o].state = "queued" \/ (ops[o].db = i /\ d.link = "open")
    BY <1>2, <1>5, <2>2, ContinuationsRun
  <2>5. d.link # "gone"
    BY <2>2
  <2> HIDE <1>5
  <2>6. diskVersion' = diskVersion \/ \A j \in DOMAIN dbs : ~IsOpen(dbs[j])
    BY <1>5
  <2> QED BY <1>2, <1>3, <2>2, <2>3, <2>4, <2>5, <2>6, RequestAnswered
<1>6. ASSUME NEW d, d.page = dbs[i].page, d \in Db, d.link # "gone", d.promise # "resolved", d.link # "open",
             dbs' = [dbs EXCEPT ![i] = d], FailContinuations(i), UNCHANGED diskVersion
      PROVE  DbInv'
  <2>1. /\ ops' \in Seq(Op) /\ DOMAIN ops' = DOMAIN ops
        /\ \A o \in DOMAIN ops : /\ ops'[o].db = ops[o].db
                                 /\ ops'[o].state = "queued" => ops[o].state = "queued"
    <3>1. ops' = [o \in DOMAIN ops |->
                    IF ops[o].db = i /\ ops[o].state = "waiting"
                    THEN [ops[o] EXCEPT !.state = "failed"] ELSE ops[o]]
      BY <1>6 DEF FailContinuations
    <3>2. \A o \in DOMAIN ops : ops'[o].state = "queued" => ops[o].state = "queued"
      <4>1. ASSUME NEW o \in DOMAIN ops
            PROVE  ops'[o].state = "queued" => ops[o].state = "queued"
        <5>1. ops[o] \in Op
          BY <1>2
        <5> QED BY <3>1, <5>1 DEF Op
      <4> QED BY <4>1
    <3> QED BY <1>2, <1>6, <3>2, ContinuationsRun
  <2> QED BY <1>2, <1>3, <1>6, <2>1, RequestAnswered
<1>7. CASE OpenSame(i)
  BY <1>5, <1>7 DEF OpenSame, Succeeds
<1>8. CASE OpenUpgrades(i)
  BY <1>4, <1>5, <1>8 DEF OpenUpgrades, Succeeds
<1>9. CASE OpenStale(i)
  <2>1. PICK d : d = [dbs[i] EXCEPT !.link = "refused", !.promise = "rejected"]
    OBVIOUS
  <2>2. /\ d \in Db /\ d.page = dbs[i].page /\ d.link = "refused" /\ d.promise = "rejected"
    BY <1>2, <2>1 DEF Db
  <2>3. dbs' = [dbs EXCEPT ![i] = d] /\ FailContinuations(i) /\ UNCHANGED diskVersion
    BY <1>2, <1>9, <2>1 DEF OpenStale
  <2> QED BY <1>6, <2>2, <2>3
<1>10. CASE OpenBlocked(i)
  <2>1. PICK d : d = [dbs[i] EXCEPT !.promise = "rejected"]
    OBVIOUS
  <2>2. /\ d \in Db /\ d.page = dbs[i].page /\ d.link = "asked" /\ d.promise = "rejected"
    BY <1>2, <1>3, <2>1 DEF Db
  <2>3. dbs' = [dbs EXCEPT ![i] = d] /\ FailContinuations(i) /\ UNCHANGED diskVersion
    BY <1>2, <1>4, <1>10, <2>1 DEF OpenBlocked
  <2> QED BY <1>6, <2>2, <2>3
<1> QED BY <1>1, <1>7, <1>8, <1>9, <1>10

-----------------------------------------------------------------------------
(* Operations.                                                              *)

\* The running transaction, whatever it does, begins no other.
LEMMA TransactionsKeep ==
  ASSUME DbInv, Transactions
  PROVE  DbInv'
<1>1. /\ ops \in Seq(Op)
      /\ UNCHANGED <<saved, serverVersion, dbs, current, diskVersion>>
  BY DEF Transactions, RequestSucceeds, CursorTakes, CursorEnds, CursorThrows, Commits,
         DbInv, InstancesTypeOK
<1>2. ops' = ops \/ Ends("done") \/ Ends("stuck")
  BY DEF Transactions, RequestSucceeds, CursorTakes, CursorEnds, CursorResolves, CursorThrows, Commits
<1>3. PICK st \in {"done", "stuck"} : ops' = ops \/ Ends(st)
  BY <1>2
<1>4. ASSUME NEW o \in DOMAIN ops
      PROVE  /\ ops'[o] \in Op /\ ops'[o].db = ops[o].db
             /\ ops'[o].state = "queued" => ops[o].state = "queued"
  <2>1. ops[o] \in Op
    BY <1>1
  <2>2. CASE ops'[o] = ops[o]
    BY <2>1, <2>2
  <2>3. CASE ops'[o] = [ops[o] EXCEPT !.state = st]
    BY <2>1, <2>3 DEF Op
  <2> QED BY <1>1, <1>3, <2>2, <2>3 DEF Ends
<1>5. ops' = [o \in DOMAIN ops |-> ops'[o]] /\ DOMAIN ops' = DOMAIN ops
  BY <1>1, <1>3 DEF Ends
<1>6. ops' \in Seq(Op)
  BY <1>1, <1>4, <1>5, MappedSeq
<1> QED BY <1>1, <1>4, <1>5, <1>6
        DEF DbInv, InstancesTypeOK, OpenedStaysUsable, OpsHaveInstance, CurrentIsOwn

LEMMA IssueKeeps ==
  ASSUME DbInv, NEW p \in Pages, NEW kind \in Kinds, Issue(p, kind)
  PROVE  DbInv'
<1>1. PICK d, k, op : /\ d = current[p] /\ k \in Keys /\ d # 0
                      /\ op = [db |-> d, kind |-> kind, key |-> k, state |-> StateOf(dbs[d])]
                      /\ ops' = Append(ops, op)
  <2>1. ops \in Seq(Op) /\ Len(ops) + 1 \in Keys /\ 0 \in Keys
    BY BoundsAssumption DEF DbInv, InstancesTypeOK, Issue, Keys, OpIds
  <2> QED BY <2>1 DEF Issue
<1>2. /\ ops \in Seq(Op) /\ dbs \in Seq(Db) /\ d \in DOMAIN dbs /\ dbs[d].link # "gone" /\ d \in DbIds
  BY <1>1, BoundsAssumption DEF DbInv, InstancesTypeOK, CurrentIsOwn, DbIds
<1>3. op \in Op /\ op.db = d /\ (op.state = "queued" => IsOpen(dbs[d]))
  <2>1. StateOf(dbs[d]) \in {"waiting", "queued", "failed"}
    BY DEF StateOf
  <2>2. StateOf(dbs[d]) = "queued" => dbs[d].promise = "resolved"
    BY DEF StateOf
  <2>3. dbs[d].promise = "resolved" => IsOpen(dbs[d])
    BY <1>2 DEF DbInv, OpenedStaysUsable, IsOpen
  <2> QED BY <1>1, <1>2, <2>1, <2>2, <2>3 DEF Op
<1>4. /\ ops' \in Seq(Op) /\ DOMAIN ops' = DOMAIN ops \cup {Len(ops) + 1}
      /\ ops'[Len(ops) + 1] = op /\ \A o \in DOMAIN ops : ops'[o] = ops[o]
  BY <1>1, <1>2, <1>3, AppendIndex
<1>5. UNCHANGED <<saved, serverVersion, dbs, current, diskVersion>>
  BY DEF Issue
<1> QED BY <1>2, <1>3, <1>4, <1>5
        DEF DbInv, InstancesTypeOK, OpenedStaysUsable, OpsHaveInstance, CurrentIsOwn

-----------------------------------------------------------------------------
(* Pages and schemas.                                                       *)

\* A page that asked for no database yet, or a later connection, gets a new
\* instance; no other changes.
LEMMA InstanceAdded ==
  ASSUME DbInv, NEW p \in Pages, NEW v \in Versions, Len(dbs) < MaxDbs,
         dbs' = Append(dbs, NewDb(p, v)),
         ops' \in Seq(Op), DOMAIN ops \subseteq DOMAIN ops',
         \A o \in DOMAIN ops : ops'[o] = ops[o],
         \A o \in DOMAIN ops' \ DOMAIN ops :
           ops'[o].db = Len(dbs) + 1 /\ ops'[o].state = "waiting",
         \/ current' = current
         \/ current' = [current EXCEPT ![p] = Len(dbs) + 1],
         saved' \in 0..MaxVersion, UNCHANGED <<serverVersion, diskVersion>>
  PROVE  DbInv'
<1>1. NewDb(p, v) \in Db /\ dbs \in Seq(Db) /\ current \in [Pages -> 0..MaxDbs]
  BY NewDbType DEF DbInv, InstancesTypeOK
<1>2. PICK n : n = Len(dbs) + 1
  OBVIOUS
<1>3. /\ dbs' \in Seq(Db) /\ DOMAIN dbs' = DOMAIN dbs \cup {n} /\ n \notin DOMAIN dbs
      /\ dbs'[n] = NewDb(p, v) /\ \A i \in DOMAIN dbs : dbs'[i] = dbs[i]
  BY <1>1, <1>2, AppendIndex
<1>4. n \in 0..MaxDbs
  BY <1>1, <1>2, BoundsAssumption
<1>5. InstancesTypeOK'
  BY <1>1, <1>2, <1>3, <1>4 DEF DbInv, InstancesTypeOK
<1>6. OpenedStaysUsable'
  <2>1. /\ dbs'[n].promise # "resolved" /\ ~IsOpen(dbs'[n])
    BY <1>3, NewDbType DEF IsOpen
  <2>2. \A o \in DOMAIN ops : ops[o].state = "queued" => IsOpen(dbs'[ops[o].db])
    BY <1>3 DEF DbInv, OpenedStaysUsable, OpsHaveInstance
  <2> QED BY <1>3, <2>1, <2>2 DEF DbInv, OpenedStaysUsable
<1>7. OpsHaveInstance'
  BY <1>2, <1>3 DEF DbInv, OpsHaveInstance
<1>8. CurrentIsOwn'
  <2> SUFFICES ASSUME NEW q \in Pages, current'[q] # 0
               PROVE  /\ current'[q] \in DOMAIN dbs' /\ dbs'[current'[q]].page = q
                      /\ dbs'[current'[q]].link # "gone"
    BY DEF CurrentIsOwn
  <2>1. CASE current'[q] = current[q]
    BY <1>3, <2>1 DEF DbInv, CurrentIsOwn
  <2>2. CASE q = p /\ current'[q] = n
    BY <1>3, <2>2, NewDbType
  <2> QED BY <1>1, <1>2, <2>1, <2>2
<1> QED BY <1>5, <1>6, <1>7, <1>8 DEF DbInv

LEMMA FirstSchemaKeeps ==
  ASSUME DbInv, NEW p \in Pages, NEW v \in 1..serverVersion, FirstSchema(p, v)
  PROVE  DbInv'
<1>1. v \in Versions /\ saved' \in 0..MaxVersion /\ ops \in Seq(Op)
  BY BoundsAssumption DEF DbInv, InstancesTypeOK, FirstSchema, Versions
<1> QED BY <1>1, InstanceAdded DEF FirstSchema, diskVars, DbInv, InstancesTypeOK

LEMMA LaterSchemaKeeps ==
  ASSUME DbInv, NEW p \in Pages, NEW v \in 1..serverVersion, LaterSchema(p, v)
  PROVE  DbInv'
<1>1. /\ v \in Versions /\ saved' \in 0..MaxVersion /\ ops \in Seq(Op) /\ dbs \in Seq(Db)
  BY BoundsAssumption DEF DbInv, InstancesTypeOK, LaterSchema, Versions
<1>2. PICK op : /\ op = [db |-> Len(dbs) + 1, kind |-> "read", key |-> Len(ops) + 1, state |-> "waiting"]
                /\ ops' = Append(ops, op)
  BY DEF LaterSchema
<1>3. op \in Op /\ op.db = Len(dbs) + 1 /\ op.state = "waiting"
  <2>1. Len(dbs) + 1 \in DbIds /\ Len(ops) + 1 \in Keys
    BY <1>1, BoundsAssumption DEF LaterSchema, DbIds, Keys, OpIds
  <2> QED BY <1>2, <2>1 DEF Op, Kinds, Readers
<1>4. /\ ops' \in Seq(Op) /\ DOMAIN ops' = DOMAIN ops \cup {Len(ops) + 1}
      /\ ops'[Len(ops) + 1] = op /\ \A o \in DOMAIN ops : ops'[o] = ops[o]
  BY <1>1, <1>2, <1>3, AppendIndex
<1>5. /\ Len(dbs) < MaxDbs /\ dbs' = Append(dbs, NewDb(p, v)) /\ current' = current
      /\ UNCHANGED <<serverVersion, diskVersion>>
  BY DEF LaterSchema, diskVars
<1> QED BY <1>1, <1>3, <1>4, <1>5, InstanceAdded

\* A reloaded page takes its instances and its operations with it, and no
\* other page's.
LEMMA ReloadKeeps ==
  ASSUME DbInv, NEW p \in Pages, Reload(p)
  PROVE  DbInv'
<1>1. /\ dbs \in Seq(Db) /\ ops \in Seq(Op) /\ current \in [Pages -> 0..MaxDbs]
      /\ saved \in 0..MaxVersion /\ saved # 0 /\ Len(dbs) < MaxDbs /\ Len(dbs) \in Nat
      /\ UNCHANGED <<saved, serverVersion, diskVersion>>
  BY DEF Reload, DbInv, InstancesTypeOK
<1>2. saved \in Versions
  BY <1>1, BoundsAssumption DEF Versions
<1>3. PICK u : u = Unloaded(p)
  OBVIOUS
<1>4. ASSUME NEW i \in DOMAIN dbs
      PROVE  /\ u[i] \in Db /\ u[i].page = dbs[i].page
             /\ dbs[i].page = p => u[i].link = "gone"
             /\ dbs[i].page # p => u[i] = dbs[i]
  <2>1. dbs[i] \in Db
    BY <1>1
  <2>2. CASE dbs[i].page = p
    <3>1. u[i] = [dbs[i] EXCEPT !.link = "gone", !.promise = IF @ = "pending" THEN "gone" ELSE @]
      BY <1>3, <2>2 DEF Unloaded
    <3> QED BY <2>1, <2>2, <3>1 DEF Db
  <2>3. CASE dbs[i].page # p
    BY <1>3, <2>1, <2>3 DEF Unloaded
  <2> QED BY <2>2, <2>3
<1>5. u \in Seq(Db) /\ DOMAIN u = DOMAIN dbs /\ Len(u) = Len(dbs)
  <2>1. u = [i \in DOMAIN dbs |-> u[i]]
    BY <1>3 DEF Unloaded
  <2> QED BY <1>1, <1>4, <2>1, MappedSeq
<1>6. PICK n : n = Len(dbs) + 1
  OBVIOUS
<1>7. /\ dbs' \in Seq(Db) /\ DOMAIN dbs' = DOMAIN dbs \cup {n} /\ n \notin DOMAIN dbs
      /\ dbs'[n] = NewDb(p, saved) /\ \A i \in DOMAIN dbs : dbs'[i] = u[i]
  <2>1. NewDb(p, saved) \in Db /\ dbs' = Append(u, NewDb(p, saved))
    BY <1>2, <1>3, NewDbType DEF Reload
  <2> QED BY <1>5, <1>6, <2>1, AppendIndex
<1>8. ops' = [o \in DOMAIN ops |->
                IF OfPage(p, o) /\ ops[o].state \in {"waiting", "queued"}
                THEN [ops[o] EXCEPT !.state = "gone"] ELSE ops[o]]
  BY DEF Reload
<1>9. ASSUME NEW o \in DOMAIN ops
      PROVE  /\ ops'[o] \in Op /\ ops'[o].db = ops[o].db
             /\ ops'[o].state = "queued" => ops[o].state = "queued" /\ ~OfPage(p, o)
  <2>1. ops[o] \in Op
    BY <1>1
  <2>2. CASE OfPage(p, o) /\ ops[o].state \in {"waiting", "queued"}
    <3>1. ops'[o] = [ops[o] EXCEPT !.state = "gone"]
      BY <1>8, <2>2
    <3> QED BY <2>1, <3>1 DEF Op
  <2>3. CASE ~(OfPage(p, o) /\ ops[o].state \in {"waiting", "queued"})
    <3>1. ops'[o] = ops[o]
      BY <1>8, <2>3
    <3> QED BY <2>1, <2>3, <3>1
  <2> QED BY <2>2, <2>3
<1>10. ops' \in Seq(Op) /\ DOMAIN ops' = DOMAIN ops
  <2>1. ops' = [o \in DOMAIN ops |-> ops'[o]]
    BY <1>8
  <2> QED BY <1>1, <1>9, <2>1, MappedSeq
<1>11. current' = [current EXCEPT ![p] = n] /\ n \in 0..MaxDbs
  BY <1>1, <1>6, BoundsAssumption DEF Reload
<1>12. InstancesTypeOK'
  BY <1>1, <1>7, <1>10, <1>11 DEF DbInv, InstancesTypeOK
<1>13. OpenedStaysUsable'
  <2>1. dbs'[n].promise # "resolved" /\ ~IsOpen(dbs'[n])
    BY <1>2, <1>7, NewDbType DEF IsOpen
  <2>2. ASSUME NEW i \in DOMAIN dbs
        PROVE  /\ dbs'[i].promise = "resolved" => dbs'[i].link \in {"open", "gone"}
               /\ IsOpen(dbs'[i]) => dbs'[i].version = diskVersion'
    <3>1. CASE dbs[i].page = p
      BY <1>4, <1>7, <3>1 DEF IsOpen
    <3>2. CASE dbs[i].page # p
      BY <1>1, <1>4, <1>7, <3>2 DEF DbInv, OpenedStaysUsable
    <3> QED BY <3>1, <3>2
  <2>3. ASSUME NEW o \in DOMAIN ops', ops'[o].state = "queued"
        PROVE  IsOpen(dbs'[ops'[o].db])
    <3>1. /\ o \in DOMAIN ops /\ ops'[o].db = ops[o].db /\ ops[o].db \in DOMAIN dbs
          /\ ops[o].state = "queued" /\ ~OfPage(p, o)
      BY <1>9, <1>10, <2>3 DEF DbInv, OpsHaveInstance
    <3>2. dbs[ops[o].db].page # p /\ IsOpen(dbs[ops[o].db])
      BY <3>1 DEF OfPage, DbInv, OpenedStaysUsable
    <3> QED BY <1>4, <1>7, <3>1, <3>2
  <2> QED BY <1>7, <2>1, <2>2, <2>3 DEF OpenedStaysUsable
<1>14. OpsHaveInstance'
  BY <1>7, <1>9, <1>10 DEF DbInv, OpsHaveInstance
<1>15. CurrentIsOwn'
  <2> SUFFICES ASSUME NEW q \in Pages, current'[q] # 0
               PROVE  /\ current'[q] \in DOMAIN dbs' /\ dbs'[current'[q]].page = q
                      /\ dbs'[current'[q]].link # "gone"
    BY DEF CurrentIsOwn
  <2>1. CASE q = p
    BY <1>1, <1>2, <1>7, <1>11, <2>1, NewDbType
  <2>2. CASE q # p
    <3>1. current'[q] = current[q]
      BY <1>1, <1>11, <2>2
    <3> QED BY <1>4, <1>7, <2>2, <3>1 DEF DbInv, CurrentIsOwn
  <2> QED BY <2>1, <2>2
<1> QED BY <1>12, <1>13, <1>14, <1>15 DEF DbInv

-----------------------------------------------------------------------------
(* The theorem.                                                             *)

LEMMA InitDb == Init => DbInv
<1> SUFFICES ASSUME Init PROVE DbInv
  OBVIOUS
<1>1. /\ ops = <<>> /\ serverVersion \in Versions
      /\ 0 \in 0..MaxVersion /\ 1 \in 0..MaxVersion /\ 1 \in Versions /\ 0 \in 0..MaxDbs
  BY BoundsAssumption DEF Init, Versions
<1>2. CASE saved = 0 /\ dbs = <<>> /\ current = [p \in Pages |-> 0]
  BY <1>1, <1>2 DEF DbInv, InstancesTypeOK, OpenedStaysUsable, OpsHaveInstance, CurrentIsOwn
<1>3. ASSUME saved = 1, NEW s \in LoadOrders, dbs = [i \in DOMAIN s |-> NewDb(s[i], 1)],
             current = [p \in Pages |-> CHOOSE i \in DOMAIN s : s[i] = p]
      PROVE  DbInv
  <2>1. Cardinality(Pages) \in Nat
    BY BoundsAssumption, FS_CardinalityType
  <2>2. /\ s \in [1..Cardinality(Pages) -> Pages] /\ DOMAIN s = 1..Cardinality(Pages)
        /\ \A p \in Pages : \E i \in DOMAIN s : s[i] = p
    BY DEF LoadOrders
  <2>3. \A i \in DOMAIN dbs : /\ i \in DOMAIN s /\ dbs[i] \in Db /\ dbs[i].page = s[i]
                              /\ dbs[i].link = "asked" /\ dbs[i].promise = "pending"
    BY <1>1, <1>3, <2>2, NewDbType
  <2>4. dbs \in Seq(Db) /\ DOMAIN dbs = DOMAIN s
    BY <1>3, <2>1, <2>2, <2>3
  <2>5. \A p \in Pages : current[p] \in DOMAIN s /\ s[current[p]] = p
    BY <1>3, <2>2
  <2>6. DOMAIN s \subseteq 0..MaxDbs
    BY <2>1, <2>2, BoundsAssumption
  <2>7. current \in [Pages -> 0..MaxDbs]
    BY <1>3, <2>5, <2>6
  <2>8. InstancesTypeOK
    BY <1>1, <1>3, <2>4, <2>7 DEF InstancesTypeOK
  <2>9. OpenedStaysUsable /\ OpsHaveInstance
    BY <1>1, <2>3 DEF OpenedStaysUsable, OpsHaveInstance, IsOpen
  <2>10. CurrentIsOwn
    BY <2>3, <2>4, <2>5 DEF CurrentIsOwn
  <2> QED BY <2>8, <2>9, <2>10 DEF DbInv
<1> QED BY <1>2, <1>3 DEF Init

LEMMA NextDb == DbInv /\ [Next]_vars => DbInv'
<1> SUFFICES ASSUME DbInv, [Next]_vars PROVE DbInv'
  OBVIOUS
<1>1. CASE SchemaChanges
  BY <1>1, BoundsAssumption
  DEF SchemaChanges, diskVars, Versions, DbInv, InstancesTypeOK, OpenedStaysUsable,
      OpsHaveInstance, CurrentIsOwn
<1>2. CASE UNCHANGED vars
  BY <1>2
  DEF vars, diskVars, DbInv, InstancesTypeOK, OpenedStaysUsable, OpsHaveInstance, CurrentIsOwn
<1> QED BY <1>1, <1>2, OpeningKeeps, TransactionsKeep, IssueKeeps, ReloadKeeps,
           FirstSchemaKeeps, LaterSchemaKeeps DEF Next

(* An instance that opened keeps a connection to a database of its own version
   as long as its page is there, and what is queued on it finds its stores:
   for any number of pages and schemas, in whatever order requests are
   answered, blocked and refused, pages are reloaded and schemas arrive. *)
THEOREM OpenedCorrect == Spec => []OpenedStaysUsable
<1>1. Init => DbInv BY InitDb
<1>2. DbInv /\ [Next]_vars => DbInv' BY NextDb
<1>3. DbInv => OpenedStaysUsable BY DEF DbInv
<1> QED BY <1>1, <1>2, <1>3, PTL DEF Spec

-----------------------------------------------------------------------------
(* Numbers in their order, and the entries of a sequence at them.           *)

Upto(K, i) == {j \in K : j <= i}

LEMMA UptoFinite ==
  ASSUME NEW N \in Nat, NEW K \in SUBSET (1..N)
  PROVE  /\ IsFiniteSet(K) /\ Cardinality(K) \in Nat
         /\ \A i \in K : /\ IsFiniteSet(Upto(K, i))
                         /\ Cardinality(Upto(K, i)) \in 1..Cardinality(K)
<1>1. IsFiniteSet(K)
  <2>1. IsFiniteSet(1..N)
    BY FS_Interval
  <2> QED BY <2>1, FS_Subset
<1>2. Cardinality(K) \in Nat
  BY <1>1, FS_CardinalityType
<1>3. ASSUME NEW i \in K
      PROVE  IsFiniteSet(Upto(K, i)) /\ Cardinality(Upto(K, i)) \in 1..Cardinality(K)
  <2>1. Upto(K, i) \in SUBSET K /\ Upto(K, i) # {}
    BY DEF Upto
  <2>2. IsFiniteSet(Upto(K, i)) /\ Cardinality(Upto(K, i)) <= Cardinality(K)
    BY <1>1, <2>1, FS_Subset
  <2>3. Cardinality(Upto(K, i)) \in Nat /\ Cardinality(Upto(K, i)) # 0
    BY <2>1, <2>2, FS_CardinalityType, FS_EmptySet
  <2> QED BY <1>2, <2>2, <2>3
<1> QED BY <1>1, <1>2, <1>3

LEMMA UptoTellsApart ==
  ASSUME NEW N \in Nat, NEW K \in SUBSET (1..N), NEW i \in K, NEW m \in K,
         Cardinality(Upto(K, i)) = Cardinality(Upto(K, m))
  PROVE  i = m
<1>1. i \in Nat /\ m \in Nat
  OBVIOUS
<1>2. ASSUME NEW a \in K, NEW b \in K, a < b,
             Cardinality(Upto(K, a)) = Cardinality(Upto(K, b))
      PROVE  FALSE
  <2>0. K \subseteq Nat
    OBVIOUS
  <2>1. Upto(K, a) \in SUBSET Upto(K, b) /\ b \in Upto(K, b) /\ b \notin Upto(K, a)
    <3>1. \A j \in K : j <= a => j <= b
      BY <1>2, <2>0
    <3>2. b <= b /\ ~(b <= a)
      BY <1>2, <2>0
    <3> QED BY <3>1, <3>2, Zenon DEF Upto
  <2>2. IsFiniteSet(Upto(K, b))
    BY UptoFinite
  <2> QED BY <1>2, <2>1, <2>2, FS_Subset
<1>3. i < m \/ m < i \/ i = m
  BY <1>1
<1> QED BY <1>2, <1>3

LEMMA InOrderMeans ==
  ASSUME NEW N \in Nat, NEW K \in SUBSET (1..N)
  PROVE  /\ Cardinality(K) \in Nat
         /\ InOrder(K) \in [1..Cardinality(K) -> K]
         /\ \A m, n \in 1..Cardinality(K) : InOrder(K)[m] = InOrder(K)[n] => m = n
         /\ 1 \in K => Cardinality(K) # 0 /\ InOrder(K)[1] = 1
<1> DEFINE C == Cardinality(K)
           rank == [i \in K |-> Cardinality(Upto(K, i))]
<1>1. IsFiniteSet(K) /\ C \in Nat /\ rank \in [K -> 1..C]
  BY UptoFinite
<1>2. rank \in Injection(K, 1..C)
  BY <1>1, UptoTellsApart DEF Injection, IsInjective
<1>3. IsFiniteSet(1..C) /\ Cardinality(1..C) = C
  <2>1. 1 \in Int /\ C \in Int
    BY <1>1
  <2>2. IsFiniteSet(1..C) /\ Cardinality(1..C) = IF 1 > C THEN 0 ELSE C - 1 + 1
    BY <2>1, FS_Interval
  <2> QED BY <1>1, <2>2
<1>4. rank \in Surjection(K, 1..C)
  BY <1>2, <1>3, FS_Injection
<1>5. \A n \in 1..C : \E i \in K : Cardinality(Upto(K, i)) = n
  BY <1>4 DEF Surjection
<1>6. InOrder(K) = [n \in 1..C |-> CHOOSE i \in K : Cardinality(Upto(K, i)) = n]
  BY DEF InOrder, Upto
<1>7. \A n \in 1..C : InOrder(K)[n] \in K /\ Cardinality(Upto(K, InOrder(K)[n])) = n
  BY <1>5, <1>6
<1>8. InOrder(K) \in [1..C -> K]
  BY <1>6, <1>7
<1>9. \A m, n \in 1..C : InOrder(K)[m] = InOrder(K)[n] => m = n
  BY <1>7
<1>10. ASSUME 1 \in K
       PROVE  C # 0 /\ InOrder(K)[1] = 1
  <2>1. Upto(K, 1) = {1}
    <3>1. \A j \in K : j <= 1 <=> j = 1
      OBVIOUS
    <3> QED BY <1>10, <3>1, Zenon DEF Upto
  <2>2. Cardinality(Upto(K, 1)) = 1
    BY <2>1, FS_Singleton
  <2>3. C # 0 /\ 1 \in 1..C
    BY <1>1, <1>10, FS_EmptySet
  <2> QED BY <1>7, <1>10, <2>2, <2>3, UptoTellsApart
<1> QED BY <1>1, <1>8, <1>9, <1>10

\* No entry twice.
NoneTwice(s) == \A m, n \in DOMAIN s : s[m] = s[n] => m = n

LEMMA EntriesMeans ==
  ASSUME NEW S, NEW s \in Seq(S), NEW K \in SUBSET (DOMAIN s)
  PROVE  /\ EntriesAt(s, K) \in Seq(S)
         /\ \A n \in DOMAIN EntriesAt(s, K) : \E i \in K : EntriesAt(s, K)[n] = s[i]
         /\ NoneTwice(s) => NoneTwice(EntriesAt(s, K))
         /\ 1 \in K => /\ EntriesAt(s, K) # <<>> /\ s # <<>>
                       /\ Head(EntriesAt(s, K)) = Head(s)
                       /\ \A n \in DOMAIN EntriesAt(s, K) : n # 1 =>
                            \E i \in K \ {1} : EntriesAt(s, K)[n] = s[i]
<1>1. PICK t, C, o : t = EntriesAt(s, K) /\ C = Cardinality(K) /\ o = InOrder(K)
  OBVIOUS
<1>2. DOMAIN s = 1..Len(s) /\ Len(s) \in Nat
  OBVIOUS
<1>3. /\ C \in Nat /\ o \in [1..C -> K]
      /\ \A m, n \in 1..C : o[m] = o[n] => m = n
      /\ 1 \in K => C # 0 /\ o[1] = 1
  BY <1>1, <1>2, InOrderMeans
<1>4. t = [n \in 1..C |-> s[o[n]]]
  BY <1>1 DEF EntriesAt
<1>5. t \in Seq(S) /\ DOMAIN t = 1..C /\ Len(t) = C
  BY <1>3, <1>4
<1>6. \A n \in DOMAIN t : o[n] \in K /\ t[n] = s[o[n]]
  BY <1>3, <1>4, <1>5
<1>7. NoneTwice(s) => NoneTwice(t)
  BY <1>3, <1>5, <1>6 DEF NoneTwice
<1>8. ASSUME 1 \in K
      PROVE  /\ t # <<>> /\ s # <<>> /\ Head(t) = Head(s)
             /\ \A n \in DOMAIN t : n # 1 => o[n] \in K \ {1}
  <2>1. 1 \in 1..C /\ o[1] = 1
    BY <1>3, <1>8
  <2>2. t # <<>> /\ s # <<>> /\ t[1] = s[1]
    BY <1>5, <1>6, <1>8, <2>1
  <2>3. Head(t) = t[1] /\ Head(s) = s[1]
    BY <1>5, <2>2
  <2> QED BY <1>3, <1>5, <2>1, <2>2, <2>3
<1>9. \A n \in DOMAIN t : \E i \in K : t[n] = s[i]
  BY <1>6
<1>10. 1 \in K => /\ t # <<>> /\ s # <<>> /\ Head(t) = Head(s)
                  /\ \A n \in DOMAIN t : n # 1 => \E i \in K \ {1} : t[n] = s[i]
  BY <1>6, <1>8
<1> QED BY <1>1, <1>5, <1>7, <1>9, <1>10

-----------------------------------------------------------------------------
(* The inductive invariant of ConsumedOnce.                                 *)

StoreTypeOK ==
  /\ diskVersion \in 0..MaxVersion
  /\ committed \in Seq(Keys) /\ store \in Seq(Keys) /\ txs \in Seq(OpIds)
  /\ sent \in [Keys -> Nat] /\ undone \in Nat
  /\ Len(ops) <= MaxOps + MaxDbs

\* A transaction is in line once; all wait but the first, which may have had
\* its one request answered.
TxsInLine ==
  /\ \A n \in DOMAIN txs :
       /\ txs[n] \in DOMAIN ops
       /\ ops[txs[n]].state = "queued" \/ (n = 1 /\ ops[txs[n]].state = "done")
  /\ NoneTwice(txs)

Begun == txs # <<>> /\ ops[Head(txs)].state = "queued"

\* A transaction sees what was committed, less what it has taken if it consumes.
SeesCommitted ==
  /\ txs = <<>> => store = committed
  /\ Begun => \/ store = committed
              \/ ops[Head(txs)].kind = "consume" /\ Len(store) < Len(committed)

\* What a rollback now would add to undone.
Ahead == IF Running({"consume"}) /\ store # committed THEN 1 ELSE 0

Holding(s, k) == IF \E n \in DOMAIN s : s[n] = k THEN 1 ELSE 0

\* Each time a record was handed on, or may be out of this store, it had been
\* written or a cursor had been undone; the same if the transaction fails now.
Covered ==
  \A k \in Keys :
    /\ sent[k] + Holding(store, k) <= Writes(k) + undone
    /\ sent[k] + Holding(committed, k) <= Writes(k) + undone + Ahead

StoreInv ==
  /\ StoreTypeOK
  /\ TxsInLine
  /\ NoneTwice(store) /\ NoneTwice(committed)
  /\ SeesCommitted
  /\ Covered

-----------------------------------------------------------------------------
(* Writes only grow.                                                        *)

WrittenIn(s, k) ==
  {o \in DOMAIN s : s[o].kind \in {"add", "put"} /\ s[o].key = k /\ s[o].state = "done"}

WritesIn(s, k) == (IF k = 0 THEN 1 ELSE 0) + Cardinality(WrittenIn(s, k))

\* An operation keeps its kind and its key, and what is done stays done.
GoesOn(s, t) ==
  /\ DOMAIN s \subseteq DOMAIN t
  /\ \A o \in DOMAIN s : /\ t[o].kind = s[o].kind /\ t[o].key = s[o].key
                         /\ s[o].state = "done" => t[o].state = "done"

LEMMA WritesType ==
  ASSUME NEW s \in Seq(Op), NEW k
  PROVE  IsFiniteSet(WrittenIn(s, k)) /\ WritesIn(s, k) \in Nat
<1>1. DOMAIN s = 1..Len(s) /\ Len(s) \in Nat
  OBVIOUS
<1>2. IsFiniteSet(DOMAIN s)
  BY <1>1, FS_Interval
<1>3. WrittenIn(s, k) \in SUBSET DOMAIN s
  BY DEF WrittenIn
<1>4. IsFiniteSet(WrittenIn(s, k))
  BY <1>2, <1>3, FS_Subset
<1>5. Cardinality(WrittenIn(s, k)) \in Nat
  BY <1>4, FS_CardinalityType
<1> QED BY <1>4, <1>5 DEF WritesIn

LEMMA WritesGrow ==
  ASSUME NEW s \in Seq(Op), NEW t \in Seq(Op), GoesOn(s, t), NEW k
  PROVE  /\ WritesIn(s, k) <= WritesIn(t, k)
         /\ \A o \in DOMAIN s :
              /\ s[o].state # "done" /\ t[o].state = "done"
              /\ s[o].kind \in {"add", "put"} /\ s[o].key = k
              => WritesIn(s, k) + 1 <= WritesIn(t, k)
<1>1. WrittenIn(s, k) \in SUBSET WrittenIn(t, k)
  BY DEF WrittenIn, GoesOn
<1>2. IsFiniteSet(WrittenIn(s, k)) /\ IsFiniteSet(WrittenIn(t, k))
  BY WritesType
<1>3. Cardinality(WrittenIn(s, k)) <= Cardinality(WrittenIn(t, k))
  BY <1>1, <1>2, FS_Subset
<1>4. Cardinality(WrittenIn(s, k)) \in Nat /\ Cardinality(WrittenIn(t, k)) \in Nat
  BY <1>2, FS_CardinalityType
<1>5. ASSUME NEW o \in DOMAIN s, s[o].state # "done", t[o].state = "done",
             s[o].kind \in {"add", "put"}, s[o].key = k
      PROVE  WritesIn(s, k) + 1 <= WritesIn(t, k)
  <2>1. o \notin WrittenIn(s, k) /\ WrittenIn(s, k) \cup {o} \in SUBSET WrittenIn(t, k)
    BY <1>1, <1>5 DEF WrittenIn, GoesOn
  <2>2. Cardinality(WrittenIn(s, k) \cup {o}) = Cardinality(WrittenIn(s, k)) + 1
    BY <1>2, <2>1, FS_AddElement
  <2>3. Cardinality(WrittenIn(s, k) \cup {o}) <= Cardinality(WrittenIn(t, k))
    BY <1>2, <2>1, FS_Subset
  <2> QED BY <1>4, <2>2, <2>3 DEF WritesIn
<1> QED BY <1>3, <1>4, <1>5 DEF WritesIn

LEMMA WritesMean ==
  ASSUME NEW k
  PROVE  Writes(k) = WritesIn(ops, k) /\ Writes(k)' = WritesIn(ops', k)
BY DEF Writes, WritesIn, WrittenIn

LEMMA HoldingType ==
  ASSUME NEW s, NEW k
  PROVE  Holding(s, k) \in 0..1
BY DEF Holding

-----------------------------------------------------------------------------
(* Steps that leave the store, commit it or roll it back.                   *)

\* The transaction that runs, if there is one, goes on.
SameHead ==
  txs # <<>> => /\ txs' # <<>> /\ Head(txs') = Head(txs)
                /\ ops'[Head(txs)].state = ops[Head(txs)].state
                /\ ops'[Head(txs)].kind = ops[Head(txs)].kind

StoreMoves ==
  \/ store' = store /\ committed' = committed /\ undone' = undone /\ SameHead
  \/ store' = <<>> /\ committed' = <<>> /\ undone' = undone
  \/ store' = store /\ committed' = store /\ undone' = undone
  \/ store' = committed /\ committed' = committed /\ undone' = undone + Ahead

LEMMA StoreKept ==
  ASSUME StoreInv, ops \in Seq(Op), ops' \in Seq(Op), GoesOn(ops, ops'),
         StoreTypeOK', TxsInLine', StoreMoves, sent' = sent
  PROVE  StoreInv'
<1>1. Ahead \in 0..1 /\ Ahead' \in 0..1 /\ undone \in Nat
  BY DEF Ahead, StoreInv, StoreTypeOK
<1>2. ASSUME store' = committed'
      PROVE  SeesCommitted' /\ Ahead' = 0
  BY <1>2 DEF SeesCommitted, Ahead
<1>3. ASSUME store' = store, committed' = committed, SameHead
      PROVE  SeesCommitted' /\ Ahead' = Ahead
  <2>1. CASE txs = <<>>
    <3>1. store = committed
      BY <2>1 DEF StoreInv, SeesCommitted
    <3> QED BY <1>2, <1>3, <3>1 DEF Ahead
  <2>2. CASE txs # <<>>
    <3>1. /\ txs' # <<>> /\ Head(txs') = Head(txs)
          /\ ops'[Head(txs')].state = ops[Head(txs)].state
          /\ ops'[Head(txs')].kind = ops[Head(txs)].kind
      BY <1>3, <2>2 DEF SameHead
    <3>2. Running({"consume"})' <=> Running({"consume"})
      BY <2>2, <3>1 DEF Running
    <3>3. Ahead' = Ahead
      BY <1>3, <3>2 DEF Ahead
    <3>4. SeesCommitted'
      BY <1>3, <2>2, <3>1 DEF StoreInv, SeesCommitted, Begun
    <3> QED BY <3>3, <3>4
  <2> QED BY <2>1, <2>2
<1>4. NoneTwice(store') /\ NoneTwice(committed') /\ SeesCommitted'
  BY <1>2, <1>3 DEF StoreMoves, StoreInv, NoneTwice
<1>5. ASSUME NEW k \in Keys
      PROVE  /\ sent'[k] + Holding(store', k) <= Writes(k)' + undone'
             /\ sent'[k] + Holding(committed', k) <= Writes(k)' + undone' + Ahead'
  <2>1. PICK w, w2 : w = Writes(k) /\ w2 = Writes(k)' /\ w \in Nat /\ w2 \in Nat /\ w <= w2
    BY WritesMean, WritesType, WritesGrow
  <2>2. PICK n, h, g, a : /\ n = sent[k] /\ h = Holding(store, k) /\ g = Holding(committed, k)
                          /\ a = Ahead
                          /\ n \in Nat /\ h \in 0..1 /\ g \in 0..1 /\ a \in 0..1
    BY <1>1, HoldingType DEF StoreInv, StoreTypeOK
  <2>3. n + h <= w + undone /\ n + g <= w + undone + a
    BY <2>1, <2>2 DEF StoreInv, Covered
  <2>8. n + h <= w2 + undone /\ n + g <= w2 + undone + a
    <3>1. n \in Nat /\ h \in Nat /\ g \in Nat /\ a \in Nat /\ w \in Nat /\ w2 \in Nat /\ w <= w2
      BY <2>1, <2>2
    <3> QED BY <1>1, <2>3, <3>1
  <2>4. CASE store' = store /\ committed' = committed /\ undone' = undone /\ SameHead
    <3>1. Ahead' = a
      BY <1>3, <2>2, <2>4
    <3> QED BY <1>1, <2>1, <2>2, <2>3, <2>4, <3>1
  <2>5. CASE store' = <<>> /\ committed' = <<>> /\ undone' = undone
    <3>1. Ahead' = 0 /\ Holding(store', k) = 0 /\ Holding(committed', k) = 0
      BY <1>2, <2>5 DEF Holding
    <3> QED BY <1>1, <2>1, <2>2, <2>3, <2>5, <3>1
  <2>6. CASE store' = store /\ committed' = store /\ undone' = undone
    <3>1. Ahead' = 0
      BY <1>2, <2>6
    <3>2. Holding(store', k) = h /\ Holding(committed', k) = h /\ sent'[k] = n
      BY <2>2, <2>6
    <3> QED BY <1>1, <2>1, <2>2, <2>6, <2>8, <3>1, <3>2
  <2>7. CASE store' = committed /\ committed' = committed /\ undone' = undone + Ahead
    <3>1. Ahead' = 0 /\ undone' = undone + a
      BY <1>2, <2>2, <2>7
    <3>2. Holding(store', k) = g /\ Holding(committed', k) = g /\ sent'[k] = n
      BY <2>2, <2>7
    <3> QED BY <1>1, <2>1, <2>2, <2>8, <3>1, <3>2
  <2> QED BY <2>4, <2>5, <2>6, <2>7 DEF StoreMoves
<1>6. Covered'
  BY <1>5 DEF Covered
<1>7. NoneTwice(store)' /\ NoneTwice(committed)'
  BY <1>4 DEF NoneTwice
<1> QED BY <1>4, <1>6, <1>7 DEF StoreInv

LEMMA JoinEntries ==
  ASSUME NEW S, NEW s \in Seq(S), NEW t \in Seq(S)
  PROVE  /\ s \o t \in Seq(S)
         /\ \A n \in DOMAIN (s \o t) :
              \/ n \in DOMAIN s /\ (s \o t)[n] = s[n]
              \/ n \notin DOMAIN s /\ n - Len(s) \in DOMAIN t /\ (s \o t)[n] = t[n - Len(s)]
         /\ s # <<>> => s \o t # <<>> /\ Head(s \o t) = Head(s)
         /\ 1 \notin DOMAIN s => s = <<>>
OBVIOUS

LEMMA JoinNoneTwice ==
  ASSUME NEW S, NEW s \in Seq(S), NEW t \in Seq(S), NoneTwice(s), NoneTwice(t),
         \A m \in DOMAIN s, n \in DOMAIN t : s[m] # t[n]
  PROVE  NoneTwice(s \o t)
<1>1. PICK u, l : u = s \o t /\ l = Len(s)
  OBVIOUS
<1>2. /\ DOMAIN u \subseteq Nat /\ l \in Nat
      /\ \A n \in DOMAIN u : \/ n \in DOMAIN s /\ u[n] = s[n]
                             \/ n \notin DOMAIN s /\ n - l \in DOMAIN t /\ u[n] = t[n - l]
  BY <1>1, JoinEntries
<1>3. ASSUME NEW m \in DOMAIN u, NEW n \in DOMAIN u, u[m] = u[n]
      PROVE  m = n
  <2>1. CASE m \in DOMAIN s /\ n \in DOMAIN s
    BY <1>2, <1>3, <2>1 DEF NoneTwice
  <2>2. CASE m \notin DOMAIN s /\ n \notin DOMAIN s
    <3>1. m - l = n - l
      BY <1>2, <1>3, <2>2 DEF NoneTwice
    <3> QED BY <1>2, <3>1
  <2>3. ~(m \in DOMAIN s /\ n \notin DOMAIN s)
    BY <1>2, <1>3
  <2>4. ~(m \notin DOMAIN s /\ n \in DOMAIN s)
    BY <1>2, <1>3
  <2> QED BY <2>1, <2>2, <2>3, <2>4
<1> QED BY <1>1, <1>3 DEF NoneTwice

LEMMA TailEntries ==
  ASSUME NEW S, NEW s \in Seq(S), s # <<>>
  PROVE  /\ Tail(s) \in Seq(S) /\ Len(s) \in Nat /\ Len(Tail(s)) < Len(s) /\ Len(Tail(s)) \in Nat
         /\ 1 \in DOMAIN s /\ Head(s) = s[1] /\ Head(s) \in S
         /\ \A n \in DOMAIN Tail(s) : n + 1 \in DOMAIN s /\ n + 1 # 1 /\ Tail(s)[n] = s[n + 1]
         /\ NoneTwice(s) => /\ NoneTwice(Tail(s))
                           /\ \A n \in DOMAIN Tail(s) : Tail(s)[n] # Head(s)
<1>1. PICK t : t = Tail(s)
  OBVIOUS
<1>2. /\ t \in Seq(S) /\ Len(s) \in Nat /\ Len(t) < Len(s) /\ Len(t) \in Nat
      /\ 1 \in DOMAIN s /\ Head(s) = s[1] /\ Head(s) \in S /\ DOMAIN t \subseteq Nat
      /\ \A n \in DOMAIN t : n + 1 \in DOMAIN s /\ n + 1 # 1 /\ t[n] = s[n + 1]
  BY <1>1
<1>3. ASSUME NoneTwice(s), NEW m \in DOMAIN t, NEW n \in DOMAIN t, t[m] = t[n]
      PROVE  m = n
  <2>1. m + 1 = n + 1
    BY <1>2, <1>3 DEF NoneTwice
  <2> QED BY <1>2, <2>1
<1>4. NoneTwice(s) => \A n \in DOMAIN t : t[n] # Head(s)
  BY <1>2 DEF NoneTwice
<1>5. NoneTwice(s) => NoneTwice(t)
  BY <1>3 DEF NoneTwice
<1> QED BY <1>1, <1>2, <1>4, <1>5

\* The line stays as it is, or loses its head.
LEMMA LineStays ==
  ASSUME StoreInv, GoesOn(ops, ops'), txs' = txs,
         \A n \in DOMAIN txs : ops'[txs[n]].state = ops[txs[n]].state
  PROVE  TxsInLine' /\ SameHead
<1>1. TxsInLine'
  BY DEF StoreInv, TxsInLine, GoesOn, NoneTwice
<1>2. txs # <<>> => 1 \in DOMAIN txs /\ Head(txs) = txs[1]
  BY DEF StoreInv, StoreTypeOK
<1> QED BY <1>1, <1>2 DEF SameHead, GoesOn, StoreInv, TxsInLine

LEMMA LineMovesUp ==
  ASSUME StoreInv, txs # <<>>, txs' = Tail(txs), DOMAIN ops' = DOMAIN ops,
         \A o \in DOMAIN ops : o # Head(txs) => ops'[o] = ops[o]
  PROVE  TxsInLine' /\ txs' \in Seq(OpIds)
<1>1. txs \in Seq(OpIds) /\ NoneTwice(txs)
  BY DEF StoreInv, StoreTypeOK, TxsInLine
<1>2. /\ txs' \in Seq(OpIds) /\ NoneTwice(txs')
      /\ \A n \in DOMAIN txs' : /\ n + 1 \in DOMAIN txs /\ n + 1 # 1
                                /\ txs'[n] = txs[n + 1] /\ txs'[n] # Head(txs)
  BY <1>1, TailEntries
<1>3. NoneTwice(txs)'
  BY <1>2 DEF NoneTwice
<1>4. \A n \in DOMAIN txs' : txs'[n] \in DOMAIN ops' /\ ops'[txs'[n]].state = "queued"
  BY <1>2 DEF StoreInv, TxsInLine
<1> QED BY <1>2, <1>3, <1>4 DEF TxsInLine

-----------------------------------------------------------------------------
(* Opening.                                                                 *)

LEMMA ContinuationsGo ==
  ASSUME ops \in Seq(Op), NEW i, RunContinuations(i) \/ FailContinuations(i)
  PROVE  /\ GoesOn(ops, ops')
         /\ \A o \in DOMAIN ops :
              /\ ops[o].state # "waiting" => ops'[o] = ops[o]
              /\ RunContinuations(i) /\ ops[o].db = i /\ ops[o].state = "waiting"
                 => ops'[o].state = "queued"
<1>1. ASSUME NEW st \in {"queued", "failed"},
             ops' = [o \in DOMAIN ops |->
                       IF ops[o].db = i /\ ops[o].state = "waiting"
                       THEN [ops[o] EXCEPT !.state = st] ELSE ops[o]]
      PROVE  /\ GoesOn(ops, ops')
             /\ \A o \in DOMAIN ops :
                  /\ ops[o].state # "waiting" => ops'[o] = ops[o]
                  /\ ops[o].db = i /\ ops[o].state = "waiting" => ops'[o].state = st
  <2>1. ASSUME NEW o \in DOMAIN ops
        PROVE  /\ ops'[o].kind = ops[o].kind /\ ops'[o].key = ops[o].key
               /\ ops[o].state # "waiting" => ops'[o] = ops[o]
               /\ ops[o].db = i /\ ops[o].state = "waiting" => ops'[o].state = st
    <3>1. ops[o] \in Op
      OBVIOUS
    <3>2. CASE ops[o].db = i /\ ops[o].state = "waiting"
      <4>1. ops'[o] = [ops[o] EXCEPT !.state = st]
        BY <1>1, <3>2
      <4> QED BY <3>1, <3>2, <4>1 DEF Op
    <3>3. CASE ~(ops[o].db = i /\ ops[o].state = "waiting")
      BY <1>1, <3>3
    <3> QED BY <3>2, <3>3
  <2>2. DOMAIN ops' = DOMAIN ops
    BY <1>1
  <2> QED BY <2>1, <2>2 DEF GoesOn
<1>2. CASE RunContinuations(i)
  <2>1. ops' = [o \in DOMAIN ops |->
                  IF ops[o].db = i /\ ops[o].state = "waiting"
                  THEN [ops[o] EXCEPT !.state = "queued"] ELSE ops[o]]
    BY <1>2 DEF RunContinuations
  <2> QED BY <1>1, <2>1
<1>3. CASE ~RunContinuations(i)
  <2>1. ops' = [o \in DOMAIN ops |->
                  IF ops[o].db = i /\ ops[o].state = "waiting"
                  THEN [ops[o] EXCEPT !.state = "failed"] ELSE ops[o]]
    BY <1>3 DEF FailContinuations
  <2> QED BY <1>1, <1>3, <2>1
<1> QED BY <1>2, <1>3

LEMMA WaitingJoin ==
  ASSUME StoreInv, ops \in Seq(Op), NEW i, RunContinuations(i)
  PROVE  TxsInLine' /\ txs' \in Seq(OpIds) /\ SameHead
<1>1. PICK K : K = {o \in DOMAIN ops : ops[o].db = i /\ ops[o].state = "waiting"}
  OBVIOUS
<1>2. /\ DOMAIN ops = 1..Len(ops) /\ Len(ops) \in Nat /\ K \in SUBSET (1..Len(ops))
      /\ txs \in Seq(OpIds) /\ DOMAIN ops \subseteq OpIds
  BY <1>1, BoundsAssumption DEF StoreInv, StoreTypeOK, OpIds
<1>3. PICK w, C : w = InOrder(K) /\ C = Cardinality(K)
  OBVIOUS
<1>4. /\ C \in Nat /\ w \in [1..C -> K]
      /\ \A m, n \in 1..C : w[m] = w[n] => m = n
  BY <1>2, <1>3, InOrderMeans
<1>5. w \in Seq(OpIds) /\ NoneTwice(w) /\ \A n \in DOMAIN w : w[n] \in K
  BY <1>1, <1>2, <1>4 DEF NoneTwice
<1>6. txs' = txs \o w
  BY <1>1, <1>3 DEF RunContinuations, WaitingOps
<1>7. \A n \in DOMAIN txs : txs[n] \in DOMAIN ops /\ ops[txs[n]].state # "waiting"
  BY DEF StoreInv, TxsInLine
<1>8. NoneTwice(txs \o w)
  <2>1. \A m \in DOMAIN txs, n \in DOMAIN w : txs[m] # w[n]
    BY <1>1, <1>5, <1>7
  <2> QED BY <1>2, <1>5, <2>1, JoinNoneTwice DEF StoreInv, TxsInLine
<1>9. /\ txs' \in Seq(OpIds)
      /\ \A n \in DOMAIN txs' :
           \/ n \in DOMAIN txs /\ txs'[n] = txs[n]
           \/ n \notin DOMAIN txs /\ txs'[n] \in K
      /\ txs # <<>> => txs' # <<>> /\ Head(txs') = Head(txs) /\ Head(txs) = txs[1] /\ 1 \in DOMAIN txs
  BY <1>2, <1>5, <1>6, JoinEntries
<1>10. ASSUME NEW n \in DOMAIN txs'
       PROVE  /\ txs'[n] \in DOMAIN ops'
              /\ ops'[txs'[n]].state = "queued" \/ (n = 1 /\ ops'[txs'[n]].state = "done")
  <2>1. CASE n \in DOMAIN txs /\ txs'[n] = txs[n]
    BY <1>7, <2>1, ContinuationsGo DEF GoesOn, StoreInv, TxsInLine
  <2>2. CASE txs'[n] \in K
    BY <1>1, <2>2, ContinuationsGo DEF GoesOn
  <2> QED BY <1>9, <2>1, <2>2
<1>11. TxsInLine'
  BY <1>6, <1>8, <1>10 DEF TxsInLine, NoneTwice
<1>12. SameHead
  BY <1>7, <1>9, ContinuationsGo DEF SameHead
<1> QED BY <1>9, <1>11, <1>12

LEMMA OpeningStores ==
  ASSUME DbInv, StoreInv, Opening
  PROVE  StoreInv'
<1>1. PICK i \in DOMAIN dbs :
        OpenSame(i) \/ OpenStale(i) \/ OpenBlocked(i) \/ OpenUpgrades(i)
  BY DEF Opening
<1>2. /\ ops \in Seq(Op) /\ dbs[i] \in Db /\ sent' = sent /\ undone' = undone
  BY DEF Opening, DbInv, InstancesTypeOK, historyVars
<1>3. /\ RunContinuations(i) \/ FailContinuations(i)
      /\ \/ store' = store /\ committed' = committed
         \/ store' = <<>> /\ committed' = <<>>
      /\ diskVersion' \in {diskVersion, dbs[i].version}
  BY <1>1 DEF OpenSame, OpenStale, OpenBlocked, OpenUpgrades, Succeeds
<1>4. ops' \in Seq(Op) /\ GoesOn(ops, ops') /\ DOMAIN ops' = DOMAIN ops
  BY <1>2, <1>3, ContinuationsRun, ContinuationsGo
<1>5. TxsInLine' /\ txs' \in Seq(OpIds) /\ SameHead
  <2>1. CASE RunContinuations(i)
    BY <1>2, <2>1, WaitingJoin
  <2>2. CASE FailContinuations(i)
    <3>1. txs' = txs /\ \A n \in DOMAIN txs : ops'[txs[n]].state = ops[txs[n]].state
      BY <1>2, <2>2, ContinuationsGo DEF FailContinuations, StoreInv, TxsInLine
    <3> QED BY <1>4, <3>1, LineStays DEF StoreInv, StoreTypeOK
  <2> QED BY <1>3, <2>1, <2>2
<1>6. StoreTypeOK'
  <2>1. Len(ops') = Len(ops)
    BY <1>2, <1>4
  <2>2. diskVersion' \in 0..MaxVersion
    BY <1>2, <1>3, BoundsAssumption DEF StoreInv, StoreTypeOK, Db, Versions
  <2>3. store' \in Seq(Keys) /\ committed' \in Seq(Keys)
    <3>1. <<>> \in Seq(Keys)
      OBVIOUS
    <3> QED BY <1>3, <3>1 DEF StoreInv, StoreTypeOK
  <2> QED BY <1>2, <1>5, <2>1, <2>2, <2>3 DEF StoreInv, StoreTypeOK
<1>7. StoreMoves
  BY <1>2, <1>3, <1>5 DEF StoreMoves
<1> QED BY <1>2, <1>4, <1>5, <1>6, <1>7, StoreKept

-----------------------------------------------------------------------------
(* Operations.                                                              *)

LEMMA HeadInLine ==
  ASSUME StoreInv, ops \in Seq(Op), txs # <<>>
  PROVE  /\ Head(txs) \in DOMAIN ops /\ ops[Head(txs)] \in Op
         /\ Head(txs) = txs[1] /\ 1 \in DOMAIN txs
<1>1. Head(txs) = txs[1] /\ 1 \in DOMAIN txs
  BY DEF StoreInv, StoreTypeOK
<1> QED BY <1>1 DEF StoreInv, TxsInLine

LEMMA EndsGo ==
  ASSUME StoreInv, ops \in Seq(Op), txs # <<>>, ops[Head(txs)].state = "queued",
         NEW st \in {"done", "stuck"}, Ends(st)
  PROVE  /\ ops' \in Seq(Op) /\ DOMAIN ops' = DOMAIN ops /\ Len(ops') = Len(ops)
         /\ GoesOn(ops, ops')
         /\ \A o \in DOMAIN ops : o # Head(txs) => ops'[o] = ops[o]
         /\ ops'[Head(txs)].state = st
<1>1. PICK h, op : h = Head(txs) /\ op = [ops[h] EXCEPT !.state = st]
  OBVIOUS
<1>2. h \in DOMAIN ops /\ ops[h] \in Op
  BY <1>1, HeadInLine
<1>3. op \in Op /\ op.kind = ops[h].kind /\ op.key = ops[h].key /\ op.state = st
  BY <1>1, <1>2 DEF Op
<1>4. ops' = [ops EXCEPT ![h] = op]
  BY <1>1, <1>2 DEF Ends
<1>5. /\ ops' \in Seq(Op) /\ DOMAIN ops' = DOMAIN ops /\ Len(ops') = Len(ops)
      /\ ops'[h] = op /\ \A o \in DOMAIN ops : o # h => ops'[o] = ops[o]
  BY <1>2, <1>3, <1>4
<1>6. GoesOn(ops, ops')
  BY <1>1, <1>2, <1>3, <1>5 DEF GoesOn
<1> QED BY <1>1, <1>3, <1>5, <1>6

\* A transaction commits or is undone, and leaves the line.
LEMMA TransactionEnds ==
  ASSUME DbInv, StoreInv, CursorEnds \/ CursorThrows \/ Commits,
         UNCHANGED <<saved, serverVersion, dbs, current>>
  PROVE  StoreInv'
<1>1. ops \in Seq(Op) /\ txs # <<>> /\ txs' = Tail(txs) /\ diskVersion' = diskVersion /\ sent' = sent
  BY DEF CursorEnds, CursorThrows, Commits, Running, DbInv, InstancesTypeOK, historyVars
<1>2. \/ ops' = ops
      \/ ops[Head(txs)].state = "queued" /\ \E st \in {"done", "stuck"} : Ends(st)
  BY DEF CursorEnds, CursorThrows, Commits, CursorResolves, Running
<1>3. /\ ops' \in Seq(Op) /\ DOMAIN ops' = DOMAIN ops /\ Len(ops') = Len(ops)
      /\ GoesOn(ops, ops')
      /\ \A o \in DOMAIN ops : o # Head(txs) => ops'[o] = ops[o]
  <2>1. CASE ops' = ops
    BY <1>1, <2>1 DEF GoesOn
  <2>2. CASE ops[Head(txs)].state = "queued" /\ \E st \in {"done", "stuck"} : Ends(st)
    BY <1>1, <2>2, EndsGo
  <2> QED BY <1>2, <2>1, <2>2
<1>4. TxsInLine' /\ txs' \in Seq(OpIds)
  BY <1>1, <1>3, LineMovesUp
<1>5. \/ store' = store /\ committed' = store /\ undone' = undone
      \/ store' = committed /\ committed' = committed /\ undone' = undone + Ahead
  <2>1. undone + 0 = undone
    BY DEF StoreInv, StoreTypeOK
  <2> QED BY <2>1 DEF CursorEnds, CursorThrows, Commits, Rollback, Ahead, historyVars
<1>6. StoreTypeOK'
  <2>1. undone' \in Nat
    BY <1>5 DEF StoreInv, StoreTypeOK, Ahead
  <2>2. store' \in Seq(Keys) /\ committed' \in Seq(Keys)
    BY <1>5 DEF StoreInv, StoreTypeOK
  <2> QED BY <1>1, <1>3, <1>4, <2>1, <2>2 DEF StoreInv, StoreTypeOK
<1>7. StoreMoves
  BY <1>5 DEF StoreMoves
<1> QED BY <1>1, <1>3, <1>4, <1>6, <1>7, StoreKept

\* A write adds its own record at most.
LEMMA EffectMeans ==
  ASSUME StoreInv, NEW op \in Op
  PROVE  /\ Effect(op) \in Seq(Keys) /\ NoneTwice(Effect(op))
         /\ \A k : Holding(Effect(op), k) = 1 =>
                    Holding(store, k) = 1 \/ (op.kind \in {"add", "put"} /\ op.key = k)
<1>1. /\ store \in Seq(Keys) /\ NoneTwice(store) /\ op.key \in Keys
      /\ DOMAIN store = 1..Len(store) /\ Len(store) \in Nat
  BY DEF StoreInv, StoreTypeOK, Op
<1>2. CASE Effect(op) = store
  BY <1>1, <1>2
<1>3. CASE /\ op.kind \in {"add", "put"} /\ ~Contains(store, op.key)
           /\ Effect(op) = Append(store, op.key)
  <2>1. PICK t : t = Append(store, op.key)
    OBVIOUS
  <2>2. /\ t \in Seq(Keys) /\ DOMAIN t = DOMAIN store \cup {Len(store) + 1}
        /\ t[Len(store) + 1] = op.key /\ \A n \in DOMAIN store : t[n] = store[n] /\ store[n] # op.key
    BY <1>1, <1>3, <2>1, AppendIndex DEF Contains
  <2>3. NoneTwice(t)
    BY <1>1, <2>2 DEF NoneTwice
  <2>4. \A k : Holding(t, k) = 1 => Holding(store, k) = 1 \/ op.key = k
    BY <2>2 DEF Holding
  <2> QED BY <1>3, <2>1, <2>2, <2>3, <2>4
<1>4. CASE op.kind = "delete" /\ Effect(op) = EntriesAt(store, {n \in DOMAIN store : store[n] # op.key})
  <2>1. PICK K, t : /\ K = {n \in DOMAIN store : store[n] # op.key}
                    /\ t = EntriesAt(store, K)
    OBVIOUS
  <2>2. /\ t \in Seq(Keys) /\ NoneTwice(t)
        /\ \A n \in DOMAIN t : \E i \in K : t[n] = store[i]
    <3>1. K \in SUBSET DOMAIN store
      BY <2>1
    <3>2. /\ EntriesAt(store, K) \in Seq(Keys)
          /\ \A n \in DOMAIN EntriesAt(store, K) : \E i \in K : EntriesAt(store, K)[n] = store[i]
      BY <1>1, <3>1, EntriesMeans
    <3>3. NoneTwice(EntriesAt(store, K))
      BY <1>1, <3>1, EntriesMeans
    <3> QED BY <2>1, <3>2, <3>3, Zenon
  <2>3. \A k : Holding(t, k) = 1 => Holding(store, k) = 1
    BY <2>1, <2>2 DEF Holding
  <2> QED BY <1>4, <2>1, <2>2, <2>3
<1>5. CASE Effect(op) = <<>>
  BY <1>5 DEF NoneTwice, Holding
<1> QED BY <1>2, <1>3, <1>4, <1>5 DEF Effect

LEMMA RequestStores ==
  ASSUME DbInv, StoreInv, RequestSucceeds
  PROVE  StoreInv'
<1>1. /\ ops \in Seq(Op) /\ txs # <<>> /\ Ends("done") /\ ops[Head(txs)].state = "queued"
      /\ ops[Head(txs)].kind # "consume"
      /\ UNCHANGED <<txs, diskVersion, committed, sent, undone>>
  BY DEF RequestSucceeds, Running, Cursors, DbInv, InstancesTypeOK, historyVars
<1>2. PICK h, op : h = Head(txs) /\ op = ops[h]
  OBVIOUS
<1>3. h \in DOMAIN ops /\ op \in Op /\ h = txs[1] /\ 1 \in DOMAIN txs
  BY <1>1, <1>2, HeadInLine
<1>4. /\ ops' \in Seq(Op) /\ DOMAIN ops' = DOMAIN ops /\ Len(ops') = Len(ops)
      /\ GoesOn(ops, ops')
      /\ \A o \in DOMAIN ops : o # h => ops'[o] = ops[o]
      /\ ops'[h].state = "done"
  BY <1>1, <1>2, EndsGo
<1>5. store' = Effect(op)
  BY <1>2 DEF RequestSucceeds
<1>6. /\ store' \in Seq(Keys) /\ NoneTwice(store')
      /\ \A k : Holding(store', k) = 1 =>
                 Holding(store, k) = 1 \/ (op.kind \in {"add", "put"} /\ op.key = k)
  BY <1>3, <1>5, EffectMeans
<1>7. StoreTypeOK'
  BY <1>1, <1>4, <1>6 DEF StoreInv, StoreTypeOK
<1>8. TxsInLine'
  <2>1. \A n \in DOMAIN txs : n # 1 => txs[n] # h
    BY <1>3 DEF StoreInv, TxsInLine, NoneTwice
  <2>2. \A n \in DOMAIN txs :
          /\ txs[n] \in DOMAIN ops'
          /\ ops'[txs[n]].state = "queued" \/ (n = 1 /\ ops'[txs[n]].state = "done")
    BY <1>3, <1>4, <2>1 DEF StoreInv, TxsInLine
  <2> QED BY <1>1, <2>2 DEF StoreInv, TxsInLine, NoneTwice
<1>9. ~Begun' /\ SeesCommitted' /\ Ahead = 0 /\ Ahead' = 0
  BY <1>1, <1>2, <1>4 DEF Begun, SeesCommitted, Ahead, Running
<1>10. ASSUME NEW k \in Keys
       PROVE  /\ sent'[k] + Holding(store', k) <= Writes(k)' + undone'
              /\ sent'[k] + Holding(committed', k) <= Writes(k)' + undone' + Ahead'
  <2>1. PICK w, w2 : /\ w = Writes(k) /\ w2 = Writes(k)' /\ w \in Nat /\ w2 \in Nat /\ w <= w2
                     /\ op.kind \in {"add", "put"} /\ op.key = k => w + 1 <= w2
    BY <1>1, <1>2, <1>3, <1>4, WritesMean, WritesType, WritesGrow
  <2>2. PICK n, x, y, g : /\ n = sent[k] /\ x = Holding(store, k) /\ y = Holding(store', k)
                          /\ g = Holding(committed, k)
                          /\ n \in Nat /\ x \in 0..1 /\ y \in 0..1 /\ g \in 0..1
    BY HoldingType DEF StoreInv, StoreTypeOK
  <2>3. n + x <= w + undone /\ n + g <= w + undone + 0 /\ undone \in Nat
    BY <1>9, <2>1, <2>2 DEF StoreInv, StoreTypeOK, Covered
  <2>4. n + g <= w2 + undone + 0
    BY <2>1, <2>2, <2>3
  <2>5. n + y <= w2 + undone
    <3>1. CASE y <= x
      BY <2>1, <2>2, <2>3, <3>1
    <3>2. CASE ~(y <= x)
      <4>1. y = 1 /\ x = 0
        BY <2>2, <3>2
      <4>2. w + 1 <= w2
        <5>1. Holding(store', k) = 1 /\ Holding(store, k) # 1
          BY <2>2, <4>1
        <5>2. op.kind \in {"add", "put"} /\ op.key = k
          BY <1>6, <5>1
        <5> QED BY <2>1, <5>2
      <4> QED BY <2>1, <2>2, <2>3, <4>1, <4>2
    <3> QED BY <3>1, <3>2
  <2>6. sent'[k] = n /\ Holding(committed', k) = g /\ undone' = undone
    BY <1>1, <2>2
  <2> QED BY <1>9, <2>1, <2>2, <2>4, <2>5, <2>6
<1>11. Covered'
  BY <1>10 DEF Covered
<1>12. NoneTwice(store)' /\ NoneTwice(committed)'
  BY <1>1, <1>6 DEF NoneTwice, StoreInv
<1> QED BY <1>7, <1>8, <1>9, <1>11, <1>12 DEF StoreInv

LEMMA TakeStores ==
  ASSUME DbInv, StoreInv, CursorTakes
  PROVE  StoreInv'
<1>1. /\ ops \in Seq(Op) /\ Running({"consume"}) /\ store # <<>> /\ store' = Tail(store)
      /\ sent' = [sent EXCEPT ![Head(store)] = @ + 1]
      /\ UNCHANGED <<diskVersion, committed, txs, ops, undone>>
  BY DEF CursorTakes, Takes, DbInv, InstancesTypeOK
<1>2. PICK h : h = Head(store)
  OBVIOUS
<1>3. /\ store \in Seq(Keys) /\ committed \in Seq(Keys) /\ NoneTwice(store)
      /\ Len(committed) \in Nat /\ sent \in [Keys -> Nat] /\ undone \in Nat
  BY DEF StoreInv, StoreTypeOK
<1>4. /\ store' \in Seq(Keys) /\ Len(store) \in Nat /\ Len(store') \in Nat
      /\ Len(store') < Len(store) /\ NoneTwice(store') /\ h \in Keys
      /\ 1 \in DOMAIN store /\ h = store[1]
      /\ \A n \in DOMAIN store' : /\ n + 1 \in DOMAIN store
                                  /\ store'[n] = store[n + 1] /\ store'[n] # h
  BY <1>1, <1>2, <1>3, TailEntries
<1>5. sent' \in [Keys -> Nat] /\ \A k \in Keys : sent'[k] = IF k = h THEN sent[k] + 1 ELSE sent[k]
  BY <1>1, <1>2, <1>3, <1>4
<1>6. StoreTypeOK' /\ TxsInLine'
  BY <1>1, <1>4, <1>5 DEF StoreInv, StoreTypeOK, TxsInLine, NoneTwice
<1>7. Len(store') < Len(committed)
  <2>1. store = committed \/ Len(store) < Len(committed)
    BY <1>1 DEF StoreInv, SeesCommitted, Begun, Running
  <2> QED BY <1>3, <1>4, <2>1
<1>8. SeesCommitted' /\ Ahead' = 1
  <2>1. store' # committed
    BY <1>3, <1>4, <1>7
  <2> QED BY <1>1, <1>7, <2>1 DEF SeesCommitted, Ahead, Running, Begun
<1>9. ASSUME NEW k \in Keys
      PROVE  /\ sent'[k] + Holding(store', k) <= Writes(k)' + undone'
             /\ sent'[k] + Holding(committed', k) <= Writes(k)' + undone' + Ahead'
  <2>1. PICK w : w = Writes(k) /\ Writes(k)' = w /\ w \in Nat
    BY <1>1, WritesMean, WritesType
  <2>2. PICK n, x, y, g, a : /\ n = sent[k] /\ x = Holding(store, k) /\ y = Holding(store', k)
                             /\ g = Holding(committed, k) /\ a = Ahead
                             /\ n \in Nat /\ x \in 0..1 /\ y \in 0..1 /\ g \in 0..1 /\ a \in 0..1
    BY <1>3, HoldingType DEF Ahead
  <2>3. n + x <= w + undone /\ n + g <= w + undone + a
    BY <2>1, <2>2 DEF StoreInv, Covered
  <2>4. CASE k = h
    <3>1. x = 1 /\ y = 0 /\ sent'[k] = n + 1
      BY <1>4, <1>5, <2>2, <2>4 DEF Holding
    <3>2. n + 1 <= w + undone /\ n + 1 + g <= w + undone + 1
      BY <1>3, <2>1, <2>2, <2>3, <3>1
    <3> QED BY <1>1, <1>3, <1>8, <2>1, <2>2, <3>1, <3>2
  <2>5. CASE k # h
    <3>1. sent'[k] = n
      BY <1>5, <2>2, <2>5
    <3>2. y = 1 => x = 1
      BY <1>4, <2>2 DEF Holding
    <3>3. n + y <= w + undone /\ n + g <= w + undone + 1
      BY <1>3, <2>1, <2>2, <2>3, <3>2
    <3> QED BY <1>1, <1>3, <1>8, <2>1, <2>2, <3>1, <3>3
  <2> QED BY <2>4, <2>5
<1>10. Covered'
  BY <1>9 DEF Covered
<1>11. NoneTwice(store)' /\ NoneTwice(committed)'
  BY <1>1, <1>4 DEF NoneTwice, StoreInv
<1> QED BY <1>6, <1>8, <1>10, <1>11 DEF StoreInv

-----------------------------------------------------------------------------
(* Pages and schemas.                                                       *)

LEMMA OpAdded ==
  ASSUME ops \in Seq(Op), NEW op, ops' = Append(ops, op), op \in Op
  PROVE  /\ ops' \in Seq(Op) /\ GoesOn(ops, ops') /\ Len(ops') = Len(ops) + 1
         /\ Len(ops) + 1 \in DOMAIN ops' /\ Len(ops) + 1 \notin DOMAIN ops
         /\ ops'[Len(ops) + 1] = op /\ \A o \in DOMAIN ops : ops'[o] = ops[o]
<1>1. /\ ops' \in Seq(Op) /\ Len(ops') = Len(ops) + 1 /\ DOMAIN ops \subseteq DOMAIN ops'
      /\ Len(ops) + 1 \in DOMAIN ops' /\ Len(ops) + 1 \notin DOMAIN ops
      /\ ops'[Len(ops) + 1] = op /\ \A o \in DOMAIN ops : ops'[o] = ops[o]
  OBVIOUS
<1> QED BY <1>1 DEF GoesOn

LEMMA IssueStores ==
  ASSUME DbInv, StoreInv, NEW p \in Pages, NEW kind \in Kinds, Issue(p, kind)
  PROVE  StoreInv'
<1>1. /\ ops \in Seq(Op) /\ Len(ops) \in Nat /\ Len(ops) + 1 <= MaxOps
      /\ UNCHANGED <<diskVersion, committed, store, sent, undone>>
  BY DEF Issue, DbInv, InstancesTypeOK, historyVars
<1>2. PICK n, k, d, op :
        /\ n = Len(ops) + 1 /\ d = current[p] /\ k \in Keys
        /\ op = [db |-> d, kind |-> kind, key |-> k, state |-> StateOf(dbs[d])]
        /\ ops' = Append(ops, op)
        /\ txs' = IF dbs[d].promise = "resolved" THEN Append(txs, n) ELSE txs
        /\ d # 0
  <2>1. Len(ops) + 1 \in Keys /\ 0 \in Keys
    BY <1>1, BoundsAssumption DEF Keys, OpIds
  <2> QED BY <2>1 DEF Issue
<1>3. op \in Op
  <2>1. d \in DbIds
    BY <1>2, BoundsAssumption DEF DbInv, InstancesTypeOK, DbIds
  <2>2. StateOf(dbs[d]) \in {"waiting", "queued", "failed"}
    BY DEF StateOf
  <2> QED BY <1>2, <2>1, <2>2 DEF Op
<1>4. /\ ops' \in Seq(Op) /\ GoesOn(ops, ops') /\ Len(ops') = n
      /\ n \in DOMAIN ops' /\ n \notin DOMAIN ops
      /\ ops'[n] = op /\ \A o \in DOMAIN ops : ops'[o] = ops[o]
  BY <1>1, <1>2, <1>3, OpAdded
<1>5. /\ txs \in Seq(OpIds) /\ n \in OpIds /\ n <= MaxOps + MaxDbs
      /\ \A i \in DOMAIN txs : txs[i] \in DOMAIN ops
  BY <1>1, <1>2, BoundsAssumption DEF StoreInv, StoreTypeOK, TxsInLine, OpIds
<1>6. TxsInLine' /\ txs' \in Seq(OpIds) /\ SameHead
  <2>1. CASE dbs[d].promise = "resolved"
    <3>1. txs' = Append(txs, n) /\ op.state = "queued"
      BY <1>2, <2>1 DEF StateOf
    <3>2. PICK l : l = Len(txs) + 1
      OBVIOUS
    <3>3. /\ txs' \in Seq(OpIds) /\ DOMAIN txs' = DOMAIN txs \cup {l}
          /\ txs'[l] = n /\ \A i \in DOMAIN txs : txs'[i] = txs[i]
      BY <1>5, <3>1, <3>2, AppendIndex
    <3>4. NoneTwice(txs')
      BY <1>4, <1>5, <3>3 DEF StoreInv, TxsInLine, NoneTwice
    <3>5. TxsInLine'
      <4>1. ASSUME NEW i \in DOMAIN txs'
            PROVE  /\ txs'[i] \in DOMAIN ops'
                   /\ ops'[txs'[i]].state = "queued" \/ (i = 1 /\ ops'[txs'[i]].state = "done")
        <5>1. CASE i = l
          BY <1>4, <3>1, <3>3, <5>1
        <5>2. CASE i \in DOMAIN txs
          BY <1>4, <1>5, <3>3, <5>2 DEF StoreInv, TxsInLine, GoesOn
        <5> QED BY <3>3, <5>1, <5>2
      <4> QED BY <3>4, <4>1 DEF TxsInLine, NoneTwice
    <3>6. txs # <<>> => txs' # <<>> /\ Head(txs') = Head(txs) /\ Head(txs) = txs[1] /\ 1 \in DOMAIN txs
      BY <1>5, <3>1
    <3>7. SameHead
      BY <1>4, <1>5, <3>6 DEF SameHead
    <3> QED BY <3>3, <3>5, <3>7
  <2>2. CASE dbs[d].promise # "resolved"
    <3>1. txs' = txs /\ \A i \in DOMAIN txs : ops'[txs[i]].state = ops[txs[i]].state
      BY <1>2, <1>4, <1>5, <2>2
    <3> QED BY <1>4, <1>5, <3>1, LineStays
  <2> QED BY <2>1, <2>2
<1>7. StoreTypeOK'
  BY <1>1, <1>4, <1>5, <1>6 DEF StoreInv, StoreTypeOK
<1>8. StoreMoves
  BY <1>1, <1>6 DEF StoreMoves
<1> QED BY <1>1, <1>4, <1>6, <1>7, <1>8, StoreKept

LEMMA LaterSchemaStores ==
  ASSUME DbInv, StoreInv, NEW p \in Pages, NEW v \in 1..serverVersion, LaterSchema(p, v)
  PROVE  StoreInv'
<1>1. /\ ops \in Seq(Op) /\ Len(ops) \in Nat /\ Len(ops) < MaxOps + MaxDbs
      /\ UNCHANGED <<diskVersion, committed, store, txs, sent, undone>>
  BY DEF LaterSchema, DbInv, InstancesTypeOK, historyVars, diskVars
<1>2. PICK op : /\ op = [db |-> Len(dbs) + 1, kind |-> "read", key |-> Len(ops) + 1, state |-> "waiting"]
                /\ ops' = Append(ops, op)
  BY DEF LaterSchema
<1>3. op \in Op
  <2>1. Len(dbs) + 1 \in DbIds /\ Len(ops) + 1 \in Keys
    <3>1. Len(dbs) \in Nat /\ Len(dbs) < MaxDbs
      BY DEF LaterSchema, DbInv, InstancesTypeOK
    <3> QED BY <1>1, <3>1, BoundsAssumption DEF DbIds, Keys, OpIds
  <2> QED BY <1>2, <2>1 DEF Op, Kinds, Readers
<1>4. /\ ops' \in Seq(Op) /\ GoesOn(ops, ops') /\ Len(ops') = Len(ops) + 1
      /\ \A o \in DOMAIN ops : ops'[o] = ops[o]
  BY <1>1, <1>2, <1>3, OpAdded
<1>5. TxsInLine' /\ SameHead
  <2>1. \A i \in DOMAIN txs : ops'[txs[i]].state = ops[txs[i]].state
    BY <1>4 DEF StoreInv, TxsInLine
  <2> QED BY <1>1, <1>4, <2>1, LineStays
<1>6. StoreTypeOK'
  BY <1>1, <1>4, BoundsAssumption DEF StoreInv, StoreTypeOK
<1>7. StoreMoves
  BY <1>1, <1>5 DEF StoreMoves
<1> QED BY <1>1, <1>4, <1>5, <1>6, <1>7, StoreKept

\* What is undone of a page's operations is no other page's.
LEMMA ReloadStores ==
  ASSUME DbInv, StoreInv, NEW p \in Pages, Reload(p)
  PROVE  StoreInv'
<1>1. /\ ops \in Seq(Op) /\ txs \in Seq(OpIds) /\ NoneTwice(txs)
      /\ UNCHANGED <<diskVersion, committed, sent>>
  BY DEF Reload, DbInv, InstancesTypeOK, StoreInv, StoreTypeOK, TxsInLine
<1>2. ops' = [o \in DOMAIN ops |->
                IF OfPage(p, o) /\ ops[o].state \in {"waiting", "queued"}
                THEN [ops[o] EXCEPT !.state = "gone"] ELSE ops[o]]
  BY DEF Reload
<1>3. ASSUME NEW o \in DOMAIN ops
      PROVE  /\ ops'[o] \in Op /\ ops'[o].kind = ops[o].kind /\ ops'[o].key = ops[o].key
             /\ ops[o].state = "done" => ops'[o] = ops[o]
             /\ ~OfPage(p, o) => ops'[o] = ops[o]
  <2>1. ops[o] \in Op
    BY <1>1
  <2>2. CASE OfPage(p, o) /\ ops[o].state \in {"waiting", "queued"}
    <3>1. ops'[o] = [ops[o] EXCEPT !.state = "gone"]
      BY <1>2, <2>2
    <3> QED BY <2>1, <2>2, <3>1 DEF Op
  <2>3. CASE ~(OfPage(p, o) /\ ops[o].state \in {"waiting", "queued"})
    BY <1>2, <2>1, <2>3
  <2> QED BY <2>2, <2>3
<1>4. ops' \in Seq(Op) /\ DOMAIN ops' = DOMAIN ops /\ Len(ops') = Len(ops) /\ GoesOn(ops, ops')
  <2>1. ops' = [o \in DOMAIN ops |-> ops'[o]]
    BY <1>2
  <2>2. ops' \in Seq(Op) /\ DOMAIN ops' = DOMAIN ops /\ Len(ops') = Len(ops)
    BY <1>1, <1>3, <2>1, MappedSeq
  <2> QED BY <1>3, <2>2 DEF GoesOn
<1>5. PICK K : K = {n \in DOMAIN txs : ~OfPage(p, txs[n])}
  OBVIOUS
<1>6. txs' = EntriesAt(txs, K) /\ K \in SUBSET DOMAIN txs
  BY <1>5 DEF Reload
<1>7. txs' \in Seq(OpIds) /\ NoneTwice(txs')
  <2>1. EntriesAt(txs, K) \in Seq(OpIds) /\ NoneTwice(EntriesAt(txs, K))
    BY <1>1, <1>6, EntriesMeans
  <2> QED BY <1>6, <2>1
<1>8. \A n \in DOMAIN txs' : \E i \in K : txs'[n] = txs[i] /\ (i = 1 => n = 1)
  <2>1. ASSUME NEW n \in DOMAIN EntriesAt(txs, K)
        PROVE  \E i \in K : EntriesAt(txs, K)[n] = txs[i] /\ (i = 1 => n = 1)
    BY <1>1, <1>6, EntriesMeans
  <2> QED BY <1>6, <2>1
<1>9. 1 \in K => txs' # <<>> /\ Head(txs') = Head(txs)
  <2>1. 1 \in K => EntriesAt(txs, K) # <<>> /\ Head(EntriesAt(txs, K)) = Head(txs)
    BY <1>1, <1>6, EntriesMeans
  <2> QED BY <1>6, <2>1
<1>10. ASSUME NEW n \in DOMAIN txs'
       PROVE  /\ txs'[n] \in DOMAIN ops'
              /\ ops'[txs'[n]].state = "queued" \/ (n = 1 /\ ops'[txs'[n]].state = "done")
  <2>1. PICK i \in K : txs'[n] = txs[i] /\ (i = 1 => n = 1)
    BY <1>8
  <2>2. /\ i \in DOMAIN txs /\ ~OfPage(p, txs[i]) /\ txs[i] \in DOMAIN ops
        /\ ops[txs[i]].state = "queued" \/ (i = 1 /\ ops[txs[i]].state = "done")
    BY <1>5, <2>1 DEF StoreInv, TxsInLine
  <2> QED BY <1>3, <1>4, <2>1, <2>2
<1>11. TxsInLine'
  BY <1>7, <1>10 DEF TxsInLine, NoneTwice
<1>12. undone \in Nat /\ Ahead \in 0..1
  BY DEF StoreInv, StoreTypeOK, Ahead
<1>13. StoreMoves
  <2>1. CASE txs # <<>> /\ OfPage(p, Head(txs))
    <3>1. Rollback
      BY <2>1 DEF Reload
    <3>2. store' = committed /\ undone' = undone + Ahead
      BY <1>12, <3>1 DEF Rollback, Ahead
    <3> QED BY <1>1, <3>2 DEF StoreMoves
  <2>2. CASE ~(txs # <<>> /\ OfPage(p, Head(txs)))
    <3>1. UNCHANGED <<store, undone>>
      BY <2>2 DEF Reload
    <3>2. SameHead
      <4> SUFFICES ASSUME txs # <<>>
                   PROVE  /\ txs' # <<>> /\ Head(txs') = Head(txs)
                          /\ ops'[Head(txs)].state = ops[Head(txs)].state
                          /\ ops'[Head(txs)].kind = ops[Head(txs)].kind
        BY DEF SameHead
      <4>1. Head(txs) \in DOMAIN ops /\ Head(txs) = txs[1] /\ 1 \in DOMAIN txs
        BY <1>1, HeadInLine
      <4>2. 1 \in K
        BY <1>5, <2>2, <4>1
      <4> QED BY <1>3, <1>9, <2>2, <4>1, <4>2
    <3> QED BY <1>1, <3>1, <3>2 DEF StoreMoves
  <2> QED BY <2>1, <2>2
<1>14. StoreTypeOK'
  <2>1. undone' \in Nat /\ store' \in Seq(Keys)
    <3>1. <<>> \in Seq(Keys)
      OBVIOUS
    <3>2. store \in Seq(Keys) /\ committed \in Seq(Keys)
      BY DEF StoreInv, StoreTypeOK
    <3>3. undone' = undone \/ undone' = undone + Ahead
      BY <1>13 DEF StoreMoves
    <3>4. store' \in {store, committed, <<>>}
      BY <1>13 DEF StoreMoves
    <3>5. store' \in Seq(Keys)
      BY <3>1, <3>2, <3>4
    <3>6. undone' \in Nat
      BY <1>12, <3>3
    <3> QED BY <3>5, <3>6
  <2> QED BY <1>1, <1>4, <1>7, <2>1 DEF StoreInv, StoreTypeOK
<1> QED BY <1>1, <1>4, <1>11, <1>13, <1>14, StoreKept

-----------------------------------------------------------------------------
(* The theorems.                                                            *)

LEMMA InitStore == Init => StoreInv
<1> SUFFICES ASSUME Init PROVE StoreInv
  OBVIOUS
<1>1. /\ ops = <<>> /\ txs = <<>> /\ undone = 0 /\ sent = [k \in Keys |-> 0]
      /\ store = committed /\ committed \in {<<>>, <<0>>} /\ diskVersion \in 0..MaxVersion
  BY BoundsAssumption DEF Init
<1>2. 0 \in Keys /\ 0 <= MaxOps + MaxDbs
  BY BoundsAssumption DEF Keys
<1>3. StoreTypeOK
  <2>1. <<>> \in Seq(Keys) /\ <<0>> \in Seq(Keys) /\ <<>> \in Seq(OpIds) /\ Len(<<>>) = 0
    BY <1>2
  <2> QED BY <1>1, <1>2, <2>1 DEF StoreTypeOK
<1>4. TxsInLine /\ NoneTwice(store) /\ NoneTwice(committed)
  BY <1>1 DEF TxsInLine, NoneTwice
<1>5. SeesCommitted /\ Ahead = 0
  BY <1>1 DEF SeesCommitted, Begun, Ahead, Running
<1>6. ASSUME NEW k \in Keys
      PROVE  sent[k] + Holding(store, k) <= Writes(k) + undone
  <2>1. WrittenIn(ops, k) = {}
    BY <1>1 DEF WrittenIn
  <2>2. Writes(k) = IF k = 0 THEN 1 ELSE 0
    BY <2>1, FS_EmptySet, WritesMean DEF WritesIn
  <2>3. sent[k] = 0
    BY <1>1
  <2>4. Holding(store, k) = 1 => k = 0
    BY <1>1 DEF Holding
  <2>5. Holding(store, k) \in 0..1
    BY HoldingType
  <2> QED BY <1>1, <2>2, <2>3, <2>4, <2>5
<1>7. ASSUME NEW k \in Keys
      PROVE  sent[k] + Holding(committed, k) <= Writes(k) + undone + Ahead
  <2>1. Writes(k) \in Nat
    <3>1. ops \in Seq(Op)
      BY <1>1
    <3> QED BY <3>1, WritesType, WritesMean
  <2> QED BY <1>1, <1>5, <1>6, <2>1
<1> QED BY <1>3, <1>4, <1>5, <1>6, <1>7 DEF StoreInv, Covered

LEMMA NextStore == DbInv /\ StoreInv /\ [Next]_vars => StoreInv'
<1> SUFFICES ASSUME DbInv, StoreInv, [Next]_vars PROVE StoreInv'
  OBVIOUS
<1>1. ASSUME UNCHANGED <<diskVars, ops, historyVars>> PROVE StoreInv'
  <2>1. UNCHANGED <<diskVersion, committed, store, txs, ops, sent, undone>>
    BY <1>1 DEF diskVars, historyVars
  <2>2. Ahead' = Ahead /\ \A k : Writes(k)' = Writes(k)
    BY <2>1, WritesMean DEF Ahead, Running
  <2>3. Covered'
    BY <2>1, <2>2 DEF StoreInv, Covered
  <2> QED BY <2>1, <2>3 DEF StoreInv, StoreTypeOK, TxsInLine, NoneTwice, SeesCommitted, Begun
<1>2. CASE Transactions
  <2>1. CASE RequestSucceeds \/ CursorTakes
    BY <2>1, RequestStores, TakeStores
  <2>2. CASE CursorEnds \/ CursorThrows \/ Commits
    BY <1>2, <2>2, TransactionEnds DEF Transactions
  <2> QED BY <1>2, <2>1, <2>2 DEF Transactions
<1>3. CASE SchemaChanges \/ UNCHANGED vars
  BY <1>1, <1>3 DEF SchemaChanges, vars
<1>4. CASE \E p \in Pages : \E v \in 1..serverVersion : FirstSchema(p, v)
  BY <1>1, <1>4 DEF FirstSchema
<1> QED BY <1>2, <1>3, <1>4, OpeningStores, IssueStores, ReloadStores, LaterSchemaStores DEF Next

\* Both invariants hold throughout.
LEMMA DatabaseInvariants == Spec => [](DbInv /\ StoreInv)
<1>1. Init => DbInv /\ StoreInv
  BY InitDb, InitStore
<1>2. DbInv /\ StoreInv /\ [Next]_vars => (DbInv /\ StoreInv)'
  BY NextDb, NextStore
<1> QED BY <1>1, <1>2, PTL DEF Spec

(* The type invariant: operations stay within the numbers there are, a store
   holds records that were added. *)
THEOREM TypeCorrect == Spec => []TypeOK
<1>1. DbInv /\ StoreInv => TypeOK
  BY DEF DbInv, StoreInv, StoreTypeOK, TypeOK
<1> QED BY <1>1, DatabaseInvariants, PTL

(* However many pages empty a store by turns, and whatever reloads and
   exceptions undo their transactions, a record is handed on no more often than
   it was written and its handing on rolled back. *)
THEOREM ConsumedCorrect == Spec => []ConsumedOnce
<1>1. DbInv /\ StoreInv => ConsumedOnce
  <2> SUFFICES ASSUME DbInv, StoreInv, NEW k \in Keys
               PROVE  sent[k] <= Writes(k) + undone
    BY DEF ConsumedOnce
  <2>1. PICK w, h, n : w = Writes(k) /\ h = Holding(store, k) /\ n = sent[k]
    OBVIOUS
  <2>2. w \in Nat /\ h \in 0..1 /\ n \in Nat /\ undone \in Nat
    BY <2>1, WritesMean, WritesType, HoldingType DEF DbInv, InstancesTypeOK, StoreInv, StoreTypeOK
  <2>3. n + h <= w + undone
    BY <2>1 DEF StoreInv, Covered
  <2> QED BY <2>1, <2>2, <2>3
<1> QED BY <1>1, DatabaseInvariants, PTL

=============================================================================
