----------------------------- MODULE Database -----------------------------
(***************************************************************************)
(* FinVMDatabase: records under ids drawn from a counter, secondary indices *)
(* that every write and every load keep in step, queries that read an index *)
(* where they can, and the plaintext bundle that commit writes and load     *)
(* reads. Encryption and the storage medium are EncryptedStorage's.         *)
(*                                                                          *)
(* A JavaScript Map keeps insertion order: a table is the sequence of its   *)
(* records. The Sets an index keeps per value are one sequence of           *)
(* <<value, id>> pairs, whose order within a value is that Set's order. The *)
(* id "rec<n>" is n, any other id of an old bundle is a negative number.    *)
(***************************************************************************)
EXTENDS Integers, Sequences, FiniteSets, SequencesExt, Ordered

CONSTANTS
  Table,        \* the names of tables
  Field,        \* the fields records may have
  Null,         \* the JavaScript null, a field's or a whole content
  Nothing,      \* no record, no bundle, no option
  Objects,      \* contents that are functions from some of the fields to an integer or Null
  Scalars,      \* contents that are no object
  Given,        \* the contents programs insert and update; old bundles may hold others
  BigInts,      \* the integers of these that JavaScript holds as a BigInt
  Queries,      \* what programs ask: sequences of [field, is] or [field, ops]
  Sorts,        \* the sort options they use: Nothing or [field, asc]
  Dangerous,    \* keys a query is never read by
  OldBundles,   \* bundles of the old format that may be found: tables without a sequence
  MaxSequence   \* bound: the writes that draw from the counter

Content == Objects \union Scalars

ASSUME DataAssumption == Given \subseteq Content /\ MaxSequence \in Nat

VARIABLES
  tables,      \* a function from the tables created to their records, in insertion order
  indices,     \* indices[t]: a function from the indexed fields to their <<value, id>> pairs
  sequence,    \* the next id and timestamp
  saved,       \* the bundle at rest: the last one serialised, an old one, or Nothing
  origin,      \* history: the tables of the old bundle these tables come from, or none
  savedOrigin  \* the same of the bundle at rest

bundles == <<saved, savedOrigin>>
vars == <<tables, indices, sequence, origin, bundles>>

---------------------------------------------------------------------------
(* Records and indices *)

OldRecord == UNION {UNION {ToSet(b[t]) : t \in DOMAIN b} : b \in OldBundles}

Id == {r.id : r \in OldRecord} \union 0 .. MaxSequence

\* A record never updated has no updatedAt.
Record == [id : Id, timestamp : Int, content : Content, updatedAt : Int \union {Nothing}]

\* The values an index may hold.
Value == UNION {{c[f] : f \in DOMAIN c} : c \in Objects}

\* Tables by name, each with its records under ids of their own: a Map's keys.
IsTables(tabs) ==
  /\ DOMAIN tabs \subseteq Table
  /\ tabs \in [DOMAIN tabs -> Seq(Record)]

IdsDistinct(tabs) ==
  \A t \in DOMAIN tabs : \A i, j \in DOMAIN tabs[t] : tabs[t][i].id = tabs[t][j].id => i = j

\* Old bundles are tables too, with whatever ids and times.
ASSUME OldBundlesAssumption ==
  \A b \in OldBundles : IsTables(b) /\ IdsDistinct(b) /\ \A t \in DOMAIN b : \A r \in ToSet(b[t]) : r.id \in Int

ASSUME QueriesAssumption == \A q \in Queries : q \in Seq(ToSet(q))

\* What stands for no value is not one.
ASSUME NothingAssumption ==
  /\ Nothing \notin Int
  /\ Nothing \notin [sequence : 0 .. MaxSequence, tables : UNION {[T -> Seq(Record)] : T \in SUBSET Table}]
  /\ Nothing \notin [store : [Table -> UNION {[I -> Content] : I \in SUBSET Id}], brought : [Table -> SUBSET Id]]

RowsIn(tabs, t) == IF t \in DOMAIN tabs THEN tabs[t] ELSE <<>>
Rows(t) == RowsIn(tables, t)
Ids(t)  == {r.id : r \in ToSet(Rows(t))}
Row(t, id) == CHOOSE r \in ToSet(Rows(t)) : r.id = id

Has(content, f) == content \notin Scalars /\ f \in DOMAIN content

\* Only a value that is neither absent nor null is indexed.
Indexable(content, f) == Has(content, f) /\ content[f] # Null

_addToIndex(ix, f, id, content) ==
  IF ~Indexable(content, f) \/ <<content[f], id>> \in ToSet(ix) THEN ix
  ELSE Append(ix, <<content[f], id>>)

\* Here and below, a definition named for what it forgets or confuses is a slip
\* of the one it precedes: a plausible bug, which the runs must notice.
RemoveNothing(ix, f, id, content) == ix

_removeFromIndex(ix, f, id, content) ==
  IF Indexable(content, f) THEN Within(ix, ToSet(ix) \ {<<content[f], id>>}) ELSE ix

\* The index of field f over the records of a table, in their order.
Backfill(rows, f) ==
  LET held == Within(rows, {r \in ToSet(rows) : Indexable(r.content, f)})
  IN  [i \in DOMAIN held |-> <<held[i].content[f], held[i].id>>]

\* Every index of table t changed by ix -> Change(f, ix).
Reindexed(t, Change(_, _)) ==
  [indices EXCEPT ![t] = [f \in DOMAIN @ |-> Change(f, @[f])]]

---------------------------------------------------------------------------
(* Queries *)

\* A condition is a plain value, is, or an operator object, ops.
Plain(c) == "is" \in DOMAIN c

\* JavaScript compares null as 0, and anything with an absent field as false.
Num(v) == IF v = Null THEN 0 ELSE v

Meets(content, c) ==
  LET present == Has(content, c.field)
      op(o) == o \in DOMAIN c.ops
  IN  IF Plain(c) THEN present /\ content[c.field] = c.is
      ELSE /\ op("$gt") => present /\ Num(content[c.field]) > Num(c.ops["$gt"])
           /\ op("$lt") => present /\ Num(content[c.field]) < Num(c.ops["$lt"])
           /\ op("$eq") => present /\ content[c.field] = c.ops["$eq"]

safeFieldKeys(q) == Within(q, {c \in ToSet(q) : c.field \notin Dangerous})

_match(content, q) ==
  \/ safeFieldKeys(q) = <<>>
  \/ content \notin Scalars /\ \A c \in ToSet(safeFieldKeys(q)) : Meets(content, c)

\* The value an index is looked up by.
Exact(c) == Plain(c) \/ "$eq" \in DOMAIN c.ops
ExactValue(c) == IF Plain(c) THEN c.is ELSE c.ops["$eq"]

Lookups(t, q) ==
  Within(safeFieldKeys(q), {c \in ToSet(q) : c.field \in DOMAIN indices[t] /\ Exact(c)})

Hits(t, c) ==
  LET ix == indices[t][c.field]
      pairs == Within(ix, {p \in ToSet(ix) : p[1] = ExactValue(c)})
  IN  [i \in DOMAIN pairs |-> pairs[i][2]]

\* The ids the filter looks at: those every lookup finds, in the order of the
\* first, or the whole table when no index helps.
Candidates(t, q) ==
  LET lookups == Lookups(t, q)
      hits == Hits(t, lookups[1])
  IN  IF lookups = <<>> THEN [i \in DOMAIN Rows(t) |-> Rows(t)[i].id]
      ELSE Within(hits, {id \in ToSet(hits) : \A c \in ToSet(lookups) : id \in ToSet(Hits(t, c))})

\* A candidate that is no longer in the table makes the filter throw.
Throws(t, q) == Rows(t) # <<>> /\ \E id \in ToSet(Candidates(t, q)) : id \notin Ids(t)

Matching(t, q) ==
  LET candidates == Candidates(t, q)
  IN  IF Rows(t) = <<>> THEN <<>>
      ELSE Within(candidates, {id \in ToSet(candidates) : _match(Row(t, id).content, q)})

\* The comparator takes an absent field for equal to any: with two different
\* values beside it that is no order, and the engine may leave any.
Sorted(t, found, sort) ==
  LET has == {id \in ToSet(found) : Has(Row(t, id).content, sort.field)}
      key(id) == Num(Row(t, id).content[sort.field])
      place(id) == CHOOSE i \in 1 .. Len(found) : found[i] = id
      before(a, b) == \/ key(a) = key(b) /\ place(a) < place(b)
                      \/ IF sort.asc THEN key(a) < key(b) ELSE key(a) > key(b)
  IN  IF sort = Nothing \/ \A a, b \in has : key(a) = key(b) THEN {found}
      ELSE IF has = ToSet(found)
           THEN {s \in SetToSeqs(has) : \A i, j \in DOMAIN s : i < j => before(s[i], s[j])}
      ELSE SetToSeqs(ToSet(found))

\* To compare two records the sort reads a field of their contents, and null has none.
SortThrows(t, found, sort) ==
  /\ sort # Nothing
  /\ Len(found) > 1
  /\ \E id \in ToSet(found) : Row(t, id).content = Null

\* The answers a query may return, none where the sort throws; the engine
\* decides only where sort does not.
query(t, q, sort) ==
  IF SortThrows(t, Matching(t, q), sort) THEN {} ELSE Sorted(t, Matching(t, q), sort)

get(t, id) == IF id \in Ids(t) THEN Row(t, id).content ELSE Nothing

---------------------------------------------------------------------------
(* Operations. An update or a delete of an absent record returns false. *)

createIndex(t, f) ==
  /\ f \notin DOMAIN indices[t]
  /\ indices' = [indices EXCEPT ![t] = [g \in DOMAIN @ \union {f} |-> IF g = f THEN Backfill(Rows(t), f) ELSE @[g]]]
  /\ UNCHANGED <<tables, sequence, origin, bundles>>

\* Map.set: a record whose id is taken takes that record's place.
Put(rows, r) ==
  IF \E i \in 1 .. Len(rows) : rows[i].id = r.id
  THEN [i \in 1 .. Len(rows) |-> IF rows[i].id = r.id THEN r ELSE rows[i]]
  ELSE Append(rows, r)

SetTable(t, rows) == [u \in DOMAIN tables \union {t} |-> IF u = t THEN rows ELSE tables[u]]

insert(t, content) ==
  /\ sequence < MaxSequence
  /\ tables' = SetTable(t, Put(Rows(t), [id |-> sequence, timestamp |-> sequence,
                                         content |-> content, updatedAt |-> Nothing]))
  /\ indices' = Reindexed(t, LAMBDA f, ix : _addToIndex(ix, f, sequence, content))
  /\ sequence' = sequence + 1
  /\ UNCHANGED <<origin, bundles>>

\* The record takes its new content and time; the indices forget the values of
\* old and learn those of content.
Rewrite(t, id, old, content, next) ==
  /\ id \in Ids(t)
  /\ sequence < MaxSequence
  /\ tables' = SetTable(t, Put(Rows(t), [Row(t, id) EXCEPT !.content = content, !.updatedAt = sequence]))
  /\ indices' = Reindexed(t, LAMBDA f, ix : _addToIndex(_removeFromIndex(ix, f, id, old), f, id, content))
  /\ sequence' = next
  /\ UNCHANGED <<origin, bundles>>

UpdateForgetsNew(t, id, content) == Rewrite(t, id, content, content, sequence + 1)
UpdateMerges(t, id, content) ==
  LET old == Row(t, id).content
      merged == IF {old, content} \intersect Scalars # {} THEN content
                ELSE [f \in DOMAIN old \union DOMAIN content |-> IF f \in DOMAIN content THEN content[f] ELSE old[f]]
  IN  Rewrite(t, id, old, merged, sequence + 1)
UpdateOffTheClock(t, id, content) == Rewrite(t, id, Row(t, id).content, content, sequence)

update(t, id, content) == Rewrite(t, id, Row(t, id).content, content, sequence + 1)

delete(t, id) ==
  /\ id \in Ids(t)
  /\ tables' = SetTable(t, Within(Rows(t), {r \in ToSet(Rows(t)) : r.id # id}))
  /\ indices' = Reindexed(t, LAMBDA f, ix : _removeFromIndex(ix, f, id, Row(t, id).content))
  /\ UNCHANGED <<sequence, origin, bundles>>

---------------------------------------------------------------------------
(* Bundles *)

\* JSON has no BigInt: a database that holds one cannot be serialised.
HoldsBigInt(content) == \E f \in Field : Has(content, f) /\ content[f] \in BigInts
Printable == \A t \in DOMAIN tables : \A r \in ToSet(tables[t]) : ~HoldsBigInt(r.content)

Serialize(next) ==
  /\ Printable
  /\ saved' = [sequence |-> next, tables |-> tables] /\ savedOrigin' = origin
  /\ UNCHANGED <<tables, indices, sequence, origin>>

SerializeTablesOnly == Serialize(0)

_serializePlaintext == Serialize(sequence)

\* A bundle of the old format is an array of tables: its sequence is taken for 0.
OldBundleUnnumbered(tabs) == [sequence |-> Nothing, tables |-> tabs]

IsBundle(b) ==
  /\ b = [sequence |-> b.sequence, tables |-> b.tables]
  /\ b.sequence \in 0 .. MaxSequence
  /\ IsTables(b.tables)

OldBundle(tabs) == [sequence |-> 0, tables |-> tabs]

\* The indices this instance has are emptied and built again from the new tables.
Install(newTables, newSequence) ==
  /\ tables' = newTables
  /\ sequence' = newSequence
  /\ indices' = [t \in Table |-> [f \in DOMAIN indices[t] |-> Backfill(RowsIn(newTables, t), f)]]
  /\ UNCHANGED bundles

Adopt(bundle) == Install(bundle.tables, bundle.sequence)

_loadPlaintext ==
  /\ saved # Nothing
  /\ Adopt(saved) /\ origin' = savedOrigin

NoTables == [t \in {} |-> <<>>]

\* The process ends; the next one has the bundle, and makes a new instance.
constructor ==
  /\ tables' = NoTables /\ origin' = NoTables
  /\ indices' = [t \in Table |-> [f \in {} |-> <<>>]]
  /\ sequence' = 0
  /\ UNCHANGED bundles

Init ==
  /\ tables = NoTables /\ origin = NoTables
  /\ indices = [t \in Table |-> [f \in {} |-> <<>>]]
  /\ sequence = 0
  /\ \/ saved = Nothing /\ savedOrigin = NoTables
     \/ \E b \in OldBundles : saved = OldBundle(b) /\ savedOrigin = b

Next ==
  \/ \E t \in Table :
       \/ \E f \in Field : createIndex(t, f)
       \/ \E content \in Given : insert(t, content)
       \/ \E id \in Ids(t) : delete(t, id) \/ \E content \in Given : update(t, id, content)
  \/ _serializePlaintext
  \/ _loadPlaintext
  \/ constructor

Spec == Init /\ [][Next]_vars

---------------------------------------------------------------------------
(* Properties. An old bundle resets the counter below ids and times it brings;  *)
(* each property says what holds all the same, and what the bundle may spoil.  *)

BroughtIds(tabs, t) == {r.id : r \in ToSet(RowsIn(tabs, t))}

Times(r) == {r.timestamp} \union ({r.updatedAt} \ {Nothing})
BroughtTimes(tabs) == UNION {Times(r) : r \in UNION {ToSet(tabs[t]) : t \in DOMAIN tabs}}

IndicesTyped ==
  /\ indices = [t \in Table |-> indices[t]]
  /\ \A t \in Table : DOMAIN indices[t] \subseteq Field /\ indices[t] \in [DOMAIN indices[t] -> Seq(Value \X Id)]

TypeOK ==
  /\ IsTables(tables)
  /\ IndicesTyped
  /\ sequence \in 0 .. MaxSequence
  /\ saved # Nothing => IsBundle(saved)
  /\ {origin, savedOrigin} \subseteq {NoTables} \union OldBundles

\* An index holds each record of its table that has a value in its field, once
\* and under that value: no write, no load of another bundle and no late
\* createIndex leaves an entry missing. Nor is one stale, except under an id
\* an old bundle brought, where an insertion may have put another record
\* (_addToIndex, _removeFromIndex and the rebuild of _loadPlaintext).
Entries(t, f) == {<<r.content[f], r.id>> : r \in {s \in ToSet(Rows(t)) : Indexable(s.content, f)}}

IndexExact ==
  \A t \in Table : \A f \in DOMAIN indices[t] :
    /\ IsInjective(indices[t][f])
    /\ Entries(t, f) \subseteq ToSet(indices[t][f])
    /\ \A p \in ToSet(indices[t][f]) \ Entries(t, f) : p[2] \in BroughtIds(origin, t)

\* The counter is ahead of every id and time in the tables, and in the bundle a
\* later process starts from, that did not come with an old bundle: no record is
\* ever given the id of another that the counter named and that is still there
\* (insert, update and the sequence of a bundle).
Ahead(tabs, next, old) ==
  \A t \in DOMAIN tabs : \A r \in ToSet(tabs[t]) :
    /\ r.id \in BroughtIds(old, t) \/ r.id < next
    /\ \A n \in Times(r) : n \in BroughtTimes(old) \/ n < next

ClockAhead ==
  /\ Ahead(tables, sequence, origin)
  /\ saved # Nothing => Ahead(saved.tables, saved.sequence, savedOrigin)

\* Two records of a database share no time that did not come with an old bundle:
\* two writes of one history, and the writes after a load, never have the same
\* (the sequence in insert and update, saved with the tables).
TimesApart(tabs, old) ==
  \A t, u \in DOMAIN tabs : \A r \in ToSet(tabs[t]), s \in ToSet(tabs[u]) :
    <<t, r>> # <<u, s>> => Times(r) \intersect Times(s) \subseteq BroughtTimes(old)

TimesDistinct == TimesApart(tables, origin)

StoreOf(tabs) ==
  [t \in Table |->
     [id \in {r.id : r \in ToSet(RowsIn(tabs, t))} |->
        (CHOOSE r \in ToSet(RowsIn(tabs, t)) : r.id = id).content]]

BroughtOf(tabs) == [t \in Table |-> BroughtIds(tabs, t)]

Store == INSTANCE RecordStore
           WITH store <- StoreOf(tables), brought <- BroughtOf(origin),
                kept <- IF saved = Nothing THEN Nothing
                        ELSE [store |-> StoreOf(saved.tables), brought |-> BroughtOf(savedOrigin)],
                Foreign <- {StoreOf(b) : b \in OldBundles}

\* The database changes as a plain store of records would: each write changes
\* one record, an insertion lands on no record but one an old bundle brought, a
\* load brings back what was saved, and no index operation is visible
\* (FinVMDatabase).
ImplementsRecordStore == Store!Spec

\* Whatever indices there are and whatever happened to them, a query trips over
\* no id that is gone but those an old bundle brought, and what one that does not
\* trip answers, unless its sort throws, is the records a scan of the plain store
\* finds, each once; only a lookup by null may miss some (query, _match).
AnswersExact ==
  \A t \in Table, q \in Queries :
    /\ ToSet(Candidates(t, q)) \ Ids(t) \subseteq BroughtIds(origin, t)
    /\ ~Throws(t, q) =>
         LET found == Store!Find(t, {c \in Content : _match(c, q)})
         IN  \A sort \in Sorts : \A answer \in query(t, q, sort) :
               /\ IsInjective(answer)
               /\ ToSet(answer) \subseteq found
               /\ (\A c \in ToSet(Lookups(t, q)) : ExactValue(c) # Null) => ToSet(answer) = found

\* An insertion takes an id no record of its table has: docs/DATABASE.md, "A
\* unique Record ID". Not so after an old bundle, whose sequence is taken for 0.
InsertIdsFresh == [][\A t \in Table, content \in Given : insert(t, content) => sequence \notin Ids(t)]_vars
=============================================================================
