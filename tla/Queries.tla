------------------------------- MODULE Queries -------------------------------
(***************************************************************************)
(* src/common/DbSelect.ts, DbFilters.ts and DbSort.ts: a select is built   *)
(* by calls that return it, and run against a MemoryDb (MemoryDb.ts) or a  *)
(* BrowserDb (BrowserDbSelect.ts), which read it differently.  Both hold   *)
(* the same records here, written through both.                            *)
(*                                                                         *)
(* undefined is a value of _offset and _limit, and 0 counts as missing     *)
(* wherever the code tests them.                                           *)
(*                                                                         *)
(* Filters are values: no two selects share an expression.  In the code    *)
(* and() and or() change the expression they are called on, DbSelect keeps *)
(* the object it was given, and e.and(e) makes a chain without an end.     *)
(***************************************************************************)
EXTENDS SequencesExt

CONSTANTS
  Values,              \* of the two fields of a record: numbers
  Terms,               \* the terms an application may filter with
  MaxKey,              \* bound: records
  MaxSteps             \* bound: calls of the builder and of the databases

ASSUME QueriesAssumption ==
  /\ Values \subseteq Int
  /\ \A t \in Terms : t.type = "TERM"
  /\ MaxKey \in Nat /\ MaxSteps \in Nat

VARIABLES
  memory,              \* MemoryDb: the array of the collection
  array,               \* what the collection is: see Arrays
  browser,             \* BrowserDb: its store, in key order
  where,               \* _where
  order,               \* _orderBy, the chain along next
  offset, limit,       \* _offset, _limit
  steps

tableVars == <<memory, array, browser>>
builderVars == <<where, order, offset, limit>>
vars == <<tableVars, builderVars, steps>>

Records == [key : 1..MaxKey, x : Values, y : Values]
Fields == {"x", "y"}
OrderKeys == [name : Fields, descending : BOOLEAN]

\* No count.
Undefined == -1

\* An array at first, an object after clear(), nothing after drop().
Arrays == {"array", "object", "undefined"}
IsArray == array = "array"

None == [type |-> "NONE"]

-----------------------------------------------------------------------------
(* Filters.                                                                 *)

Compare(v, comparison, value) ==
  CASE comparison = "EQUALS_TO"       -> v = value
    [] comparison = "NOT_EQUALS_TO"   -> v # value
    [] comparison = "GREATER_THAN"    -> v > value
    [] comparison = "GRATER_OR_EQUAL" -> v >= value
    [] comparison = "LOWER_THAN"      -> v < value
    [] comparison = "LOWER_OR_EQUAL"  -> v <= value
    [] comparison \in {"IN", "LIKE"}  -> v \in value
    [] comparison \in {"NOT_IN", "NOT_LIKE"} -> v \notin value

\* DbFilterTerm.filterRecord; a pattern is the set of what it matches.
TermHolds(t, r) == Compare(r[t.name], t.comparison, t.value)

(* DbFilterNode.filterRecord: node i decides with the rest of the chain, so
   AND and OR bind to the right and neither binds stronger.  The call that
   returns true is that of a node behind AND nodes that let the record through
   and OR nodes.  passes[i]: whether the filter of node i lets it through. *)
ChainHolds(nodes, passes) ==
  \E i \in DOMAIN nodes :
    /\ passes[i]
    /\ i = Len(nodes) \/ nodes[i].operation = "OR"
    /\ \A j \in 1..(i - 1) : nodes[j].operation = "AND" => passes[j]

\* A filter as it is given to the builder: a term, or an expression of terms.
FilterHolds(f, r) ==
  IF f.type = "TERM" THEN TermHolds(f, r)
  ELSE ChainHolds(f.nodes, [i \in DOMAIN f.nodes |-> TermHolds(f.nodes[i].filter, r)])

\* _where: an expression may hold expressions.
Holds(w, r) ==
  CASE w.type = "NONE" -> TRUE
    [] w.type = "TERM" -> TermHolds(w, r)
    [] OTHER -> ChainHolds(w.nodes, [i \in DOMAIN w.nodes |-> FilterHolds(w.nodes[i].filter, r)])

Matching(w) == {r \in Records : Holds(w, r)}

Node(f) == [filter |-> f, operation |-> "NONE"]

\* new DbFilterExpression(filter)
Expression(f) == [type |-> "EXPRESSION", nodes |-> <<Node(f)>>]

\* Either call takes the other's operation.
LinkedSwapped(e, op, f) ==
  LET other == IF op = "AND" THEN "OR" ELSE "AND"
  IN  [e EXCEPT !.nodes = Append([@ EXCEPT ![Len(@)].operation = other], Node(f))]

\* DbFilterExpression.and, or: the operation goes to the last node, the new one
\* behind it.
Linked(e, op, f) ==
  [e EXCEPT !.nodes = Append([@ EXCEPT ![Len(@)].operation = op], Node(f))]

\* What an application passes to the builder.
Filters == Terms \cup {Linked(Expression(t), op, u) : t, u \in Terms, op \in {"AND", "OR"}}

-----------------------------------------------------------------------------
(* Order.                                                                   *)

\* createComparer: x === y ? 0 : x > y ? 1 : -1, turned round when descending.
Before(k, r, s) ==
  IF k.descending THEN r[k.name] > s[k.name] ELSE r[k.name] < s[k.name]

\* The members of K, from the one before which R has none to the last.
Ranked(K, R) ==
  [n \in 1..Cardinality(K) |->
     CHOOSE i \in K : Cardinality({j \in K : <<j, i>> \in R}) = n - 1]

\* Array.prototype.sort is stable.
Precedes(recs, k) ==
  {e \in (DOMAIN recs) \X (DOMAIN recs) :
     \/ Before(k, recs[e[1]], recs[e[2]])
     \/ ~Before(k, recs[e[2]], recs[e[1]]) /\ e[1] < e[2]}

SortedBy(recs, k) ==
  LET from == Ranked(DOMAIN recs, Precedes(recs, k))
  IN  [n \in DOMAIN recs |-> recs[from[n]]]

\* An order that knows its first key only.
SortedByFirst(recs, keys) == IF keys = <<>> THEN recs ELSE SortedBy(recs, keys[1])

\* DbOrderBy.sort: by this key, and then the same array again by the next one.
Sorted(recs, keys) ==
  LET after[i \in 0..Len(keys)] == IF i = 0 THEN recs ELSE SortedBy(after[i - 1], keys[i])
  IN  after[Len(keys)]

-----------------------------------------------------------------------------
(* Running a select.                                                        *)

\* Array.prototype.slice(from, to).
Slice(s, from, to) == SubSeq(s, from + 1, IF to < Len(s) THEN to ELSE Len(s))

Given(n) == n \notin {Undefined, 0}

\* The limit taken for the end.
MemoryPageToLimit(recs, off, lim) ==
  Slice(recs, IF Given(off) THEN off ELSE 0, IF Given(lim) THEN lim ELSE Len(recs))

(* MemoryDbSelect.all: the end is Math.min(_offset + _limit, recs.length), NaN
   when either is missing; NaN and 0 count as no end. *)
MemoryPage(recs, off, lim) ==
  LET start == IF Given(off) THEN off ELSE 0
      end   == IF Undefined \in {off, lim} THEN 0
               ELSE IF off + lim < Len(recs) THEN off + lim ELSE Len(recs)
  IN  IF end = 0 THEN Slice(recs, start, Len(recs)) ELSE Slice(recs, start, end)

\* The filter is passed without its object: it throws at the first record.
MemoryThrows ==
  \/ array = "undefined"
  \/ array = "object" /\ (where # None \/ order # <<>> \/ Given(offset))
  \/ IsArray /\ where # None /\ memory # <<>>

\* all() of a MemoryDbSelect that does not throw, off an array: a filter it
\* gets past has met no record.
MemoryAll(off, lim) == MemoryPage(Sorted(memory, order), off, lim)

\* An end that is part of the page.
BrowserPageInclusive(recs, off, lim) ==
  Slice(recs, IF Given(off) THEN off ELSE 0, IF Given(lim) THEN lim + 1 ELSE Len(recs))

\* BrowserDbSelect.all: slice(_offset, _limit), so the limit is an end.
BrowserPage(recs, off, lim) ==
  IF Given(off) THEN Slice(recs, off, IF Given(lim) THEN lim ELSE Len(recs))
  ELSE IF Given(lim) THEN Slice(recs, 0, lim) ELSE recs

\* applyFilter: the cursor hands on the records the filter lets through.
BrowserFiltered ==
  LET kept == {i \in DOMAIN browser : Holds(where, browser[i])}
      from == Ranked(kept, {e \in kept \X kept : e[1] < e[2]})
  IN  [n \in DOMAIN from |-> browser[from[n]]]

BrowserAll(off, lim) == BrowserPage(Sorted(BrowserFiltered, order), off, lim)

-----------------------------------------------------------------------------
(* The databases.                                                           *)

\* The two hold the same records; keys go up as IndexedDB and insertion have it.
Init ==
  /\ \E n \in 0..MaxKey :
       browser \in [1..n -> Records] /\ \A i \in 1..n : browser[i].key = i
  /\ memory = browser /\ array = "array"
  /\ where = None /\ order = <<>>
  /\ offset = Undefined /\ limit = Undefined
  /\ steps = 0

(* all() of a MemoryDb without a filter sorts the array of the collection itself.
   count, first and forEach start with all(). *)
MemorySelect ==
  /\ ~MemoryThrows
  /\ memory' = Sorted(memory, order)
  /\ UNCHANGED <<array, browser>>

\* put() on both sides: in place in the array and in the store.
PutBoth(r) ==
  /\ IsArray
  /\ \E i \in DOMAIN memory : memory[i].key = r.key
  /\ memory' = [i \in DOMAIN memory |-> IF memory[i].key = r.key THEN r ELSE memory[i]]
  /\ browser' = [i \in DOMAIN browser |-> IF browser[i].key = r.key THEN r ELSE browser[i]]
  /\ UNCHANGED array

\* add(), or put() of a new key: pushed at the end of the array.
AddBoth(r) ==
  /\ IsArray
  /\ r.key = Len(browser) + 1
  /\ memory' = Append(memory, r)
  /\ browser' = Append(browser, r)
  /\ UNCHANGED array

\* clear() leaves an object where the array was; drop() leaves nothing.
ClearBoth == IsArray /\ array' = "object" /\ memory' = <<>> /\ browser' = <<>>

MemoryDrop ==
  array # "undefined" /\ array' = "undefined" /\ memory' = <<>> /\ UNCHANGED browser

-----------------------------------------------------------------------------
(* The builder.                                                             *)

(* orWhere and andWhere.  On a single term the expression is made from the new
   filter, twice: the old term is dropped. *)
Joined(w, op, f) ==
  CASE w.type = "NONE"       -> f
    [] w.type = "EXPRESSION" -> Linked(w, op, f)
    [] OTHER                 -> Linked(Expression(f), op, f)

Where(f) == where' = f /\ UNCHANGED <<order, offset, limit>>

JoinWhere(op, f) == where' = Joined(where, op, f) /\ UNCHANGED <<order, offset, limit>>

OrderBy(k) == order' = <<k>> /\ UNCHANGED <<where, offset, limit>>

\* At the end of the chain; the first key if there is none.
ThenOrderBy(k) == order' = Append(order, k) /\ UNCHANGED <<where, offset, limit>>

Offset(n) == offset' = n /\ UNCHANGED <<where, order, limit>>

Limit(n) == limit' = n /\ UNCHANGED <<where, order, offset>>

\* Pages counted from one.
PageFromOne(p, size) ==
  offset' = size * (p - 1) /\ limit' = size /\ UNCHANGED <<where, order>>

Page(p, size) == offset' = size * p /\ limit' = size /\ UNCHANGED <<where, order>>

Build ==
  \/ \E f \in Filters : Where(f) \/ JoinWhere("AND", f) \/ JoinWhere("OR", f)
  \/ \E k \in OrderKeys : OrderBy(k) \/ ThenOrderBy(k)
  \/ \E n \in 0..MaxKey : Offset(n) \/ Limit(n) \/ \E p \in 0..1 : Page(p, n)

Use ==
  \/ MemorySelect \/ ClearBoth \/ MemoryDrop
  \/ \E r \in Records : PutBoth(r) \/ AddBoth(r)

Next ==
  /\ steps < MaxSteps
  /\ steps' = steps + 1
  /\ \/ Build /\ UNCHANGED tableVars
     \/ Use /\ UNCHANGED builderVars

Spec == Init /\ [][Next]_vars

TypeOK ==
  /\ array \in Arrays
  /\ memory \in Seq(Records)
  /\ browser \in Seq(Records)
  /\ where.type \in {"NONE", "TERM", "EXPRESSION"}
  /\ order \in Seq(OrderKeys)
  /\ {offset, limit} \subseteq Nat \cup {Undefined}
  /\ steps \in 0..MaxSteps

-----------------------------------------------------------------------------

(* andWhere never lets a record through that was kept out before, orWhere never
   keeps one out that was let through, although the chain has no precedence,
   unless the select had a single term: that term is dropped. *)
AndNarrowsOrWidens ==
  [][\A f \in Filters :
       where.type = "EXPRESSION" =>
         /\ where' = Joined(where, "AND", f) => Matching(where') \subseteq Matching(where)
         /\ where' = Joined(where, "OR", f) => Matching(where) \subseteq Matching(where')]_vars

\* r comes before s when the keys are compared from the last to the first.
LastKeyFirst(keys, r, s) ==
  \E i \in DOMAIN keys :
    /\ Before(keys[i], r, s)
    /\ \A j \in (i + 1)..Len(keys) : ~Before(keys[j], s, r) /\ ~Before(keys[j], r, s)

(* The key given last decides, the earlier ones break its ties, and records equal
   in all keep the order of the store: what sorting the array once per key
   comes to. *)
OrderedByLastKeyFirst ==
  LET recs == Sorted(browser, order)
  IN  /\ ToSet(recs) = ToSet(browser) /\ Len(recs) = Len(browser)
      /\ \A i, j \in DOMAIN recs : i < j =>
           /\ ~LastKeyFirst(order, recs[j], recs[i])
           /\ LastKeyFirst(order, recs[i], recs[j]) \/ recs[i].key < recs[j].key

(* The pages of a MemoryDb, read one after the other from the array that each
   read sorts again, are the whole answer: no record twice, none left out. *)
MemoryPagesPartition ==
  IsArray /\ ~MemoryThrows =>
    \A size \in 1..MaxKey :
      FlattenSeq([p \in 1..MaxKey |->
        MemoryPage(Sorted(IF p = 1 THEN memory ELSE Sorted(memory, order), order),
                   (p - 1) * size, size)])
      = MemoryAll(Undefined, Undefined)

(* Without a filter, a MemoryDb and a BrowserDb with the same records answer an
   unpaged select with the same records, and with as many a first page, that is
   one from offset 0.  Of later pages it is not true, nor of limit() without
   offset(): then a MemoryDb has no end, and a BrowserDb the limit. *)
BackEndsAgree ==
  IsArray /\ ~MemoryThrows =>
    /\ ToSet(MemoryAll(Undefined, Undefined)) = ToSet(BrowserAll(Undefined, Undefined))
    /\ \A size \in 0..MaxKey : Len(MemoryAll(0, size)) = Len(BrowserAll(0, size))

=============================================================================
