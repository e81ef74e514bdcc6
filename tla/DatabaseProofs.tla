-------------------------- MODULE DatabaseProofs --------------------------
(***************************************************************************)
(* Proofs about Database, for any tables, fields, contents, old bundles and *)
(* number of writes.                                                        *)
(***************************************************************************)
EXTENDS Database, SequenceLemmas

---------------------------------------------------------------------------
(* Rows and indices *)

\* The pairs an index of field f has to hold for the records of R.
Pairs(R, f) == {<<r.content[f], r.id>> : r \in {s \in R : Indexable(s.content, f)}}

\* Index ix is the index of field f over the records of R; what else it holds is
\* under ids of B.
Covers(ix, R, f, B) ==
  /\ ix \in Seq(Value \X Id)
  /\ IsInjective(ix)
  /\ Pairs(R, f) \subseteq ToSet(ix)
  /\ \A p \in ToSet(ix) : p \in Pairs(R, f) \/ p[2] \in B

\* No two rows have one id.
Distinct(rows) == \A i, j \in DOMAIN rows : rows[i].id = rows[j].id => i = j

\* What ToSet says of the items, and of the two ways rows are made.
LEMMA Items ==
  ASSUME NEW S, NEW s \in Seq(S)
  PROVE  /\ ToSet(s) \in SUBSET S
         /\ \A x \in S : Append(s, x) \in Seq(S) /\ ToSet(Append(s, x)) = ToSet(s) \union {x}
         /\ \A x \in S : x \notin ToSet(s) /\ IsInjective(s) => IsInjective(Append(s, x))
<1>1. DOMAIN s = 1 .. Len(s) /\ Len(s) \in Nat /\ \A i \in DOMAIN s : s[i] \in S
  BY LenProperties, ElementOfSeq
<1>2. ToSet(s) \in SUBSET S
  BY <1>1, Zenon DEF ToSet
<1>3. ASSUME NEW x \in S
      PROVE  /\ Append(s, x) \in Seq(S) /\ DOMAIN Append(s, x) = 1 .. Len(s) + 1
             /\ Append(s, x)[Len(s) + 1] = x
             /\ \A i \in DOMAIN s : Append(s, x)[i] = s[i]
  BY <1>1, AppendProperties
<1>4. ASSUME NEW x \in S PROVE ToSet(Append(s, x)) = ToSet(s) \union {x}
  <2> DEFINE a == Append(s, x)
  <2>1. DOMAIN a = DOMAIN s \union {Len(s) + 1}
    BY <1>1, <1>3
  <2>2. a[Len(s) + 1] = x /\ \A i \in DOMAIN s : a[i] = s[i]
    BY <1>3
  <2> HIDE DEF a
  <2>3. ToSet(a) = ToSet(s) \union {x}
    BY <2>1, <2>2 DEF ToSet
  <2> QED
    BY <2>3 DEF a
<1>5. ASSUME NEW x \in S, x \notin ToSet(s), IsInjective(s) PROVE IsInjective(Append(s, x))
  <2> DEFINE a == Append(s, x)
  <2>1. DOMAIN a = DOMAIN s \union {Len(s) + 1} /\ Len(s) + 1 \notin DOMAIN s
    BY <1>1, <1>3
  <2>2. a[Len(s) + 1] = x /\ \A i \in DOMAIN s : a[i] = s[i]
    BY <1>3
  <2>3. \A i \in DOMAIN s : s[i] # x
    BY <1>5, Zenon DEF ToSet
  <2>4. \A i, j \in DOMAIN s : s[i] = s[j] => i = j
    BY <1>5, Zenon DEF IsInjective
  <2> HIDE DEF a
  <2>5. \A i, j \in DOMAIN a : a[i] = a[j] => i = j
    BY <2>1, <2>2, <2>3, <2>4
  <2>6. IsInjective(a)
    BY <2>5, Zenon DEF IsInjective
  <2> QED
    BY <2>6 DEF a
<1> QED
  BY <1>2, <1>3, <1>4, <1>5

\* Rows of one id are one record.
LEMMA OneRecordPerId ==
  ASSUME NEW rows, Distinct(rows), NEW r \in ToSet(rows), NEW s \in ToSet(rows), r.id = s.id
  PROVE  r = s
BY DEF ToSet, Distinct

\* Rows with ids of their own do not repeat.
LEMMA DistinctIsInjective ==
  ASSUME NEW rows, Distinct(rows)
  PROVE  IsInjective(rows)
BY DEF Distinct, IsInjective

\* Conversely, records told apart by their ids, without repetition, have ids of their own.
LEMMA InjectiveIsDistinct ==
  ASSUME NEW rows, IsInjective(rows),
         \A r, s \in ToSet(rows) : r.id = s.id => r = s
  PROVE  Distinct(rows)
<1>1. \A i \in DOMAIN rows : rows[i] \in ToSet(rows)
  BY Zenon DEF ToSet
<1> QED
  BY <1>1, Zenon DEF Distinct, IsInjective

\* What an index is given is a value and an id.
LEMMA PairTyped ==
  ASSUME NEW r \in Record, NEW f, Indexable(r.content, f)
  PROVE  <<r.content[f], r.id>> \in Value \X Id
<1>1. r.id \in Id /\ r.content \in Content
  BY DEF Record
<1>2. r.content \in Objects /\ f \in DOMAIN r.content
  BY <1>1 DEF Indexable, Has, Content
<1>3. r.content[f] \in Value
  BY <1>2 DEF Value
<1> QED
  BY <1>1, <1>3

\* createIndex over the rows that are there, and the rebuild of a load.
LEMMA BackfillCovers ==
  ASSUME NEW rows \in Seq(Record), Distinct(rows), NEW f, NEW B
  PROVE  Covers(Backfill(rows, f), ToSet(rows), f, B)
<1> DEFINE T == {r \in ToSet(rows) : Indexable(r.content, f)}
           held == Within(rows, T)
           ix == Backfill(rows, f)
<1>1. held \in Seq(Record) /\ ToSet(held) = T /\ IsInjective(held)
  <2>1. ToSet(held) = ToSet(rows) \intersect T /\ held \in Seq(Record) /\ (IsInjective(rows) => IsInjective(held))
    <3> HIDE DEF T
    <3> QED
      BY WithinItems
  <2> QED
    BY <2>1, DistinctIsInjective
<1>2. ix = [i \in DOMAIN held |-> <<held[i].content[f], held[i].id>>]
  BY Zenon DEF Backfill
<1> HIDE DEF held, ix
<1>3. \A i \in DOMAIN held : held[i] \in T /\ held[i] \in Record
  <2>1. \A i \in DOMAIN held : held[i] \in ToSet(held)
    BY Zenon DEF ToSet
  <2>2. ToSet(held) \in SUBSET Record
    BY <1>1, Items
  <2> QED
    BY <1>1, <2>1, <2>2
<1>4. \A i \in DOMAIN ix : ix[i] \in Value \X Id
  BY <1>2, <1>3, PairTyped
<1>5. ix \in Seq(Value \X Id)
  <2>1. DOMAIN ix = 1 .. Len(held) /\ Len(held) \in Nat
    BY <1>1, <1>2, LenProperties
  <2>2. ix \in [1 .. Len(held) -> Value \X Id]
    BY <1>2, <1>4, <2>1
  <2> QED
    BY <2>1, <2>2, FunctionIsSeq
<1>6. IsInjective(ix)
  <2>1. ASSUME NEW i \in DOMAIN ix, NEW j \in DOMAIN ix, ix[i] = ix[j] PROVE i = j
    <3>1. held[i].id = held[j].id /\ held[i] \in ToSet(rows) /\ held[j] \in ToSet(rows)
      BY <1>2, <1>3, <2>1
    <3>2. held[i] = held[j]
      BY <3>1, OneRecordPerId
    <3> QED
      BY <1>1, <1>2, <3>2 DEF IsInjective
  <2> QED
    BY <2>1, Zenon DEF IsInjective
<1>7. ToSet(ix) = Pairs(ToSet(rows), f)
  <2>1. \A p : p \in ToSet(ix) <=> \E i \in DOMAIN held : p = <<held[i].content[f], held[i].id>>
    BY <1>2 DEF ToSet
  <2>2. \A r : r \in T <=> \E i \in DOMAIN held : r = held[i]
    BY <1>1 DEF ToSet
  <2>3. \A p : p \in Pairs(ToSet(rows), f) <=> \E r \in T : p = <<r.content[f], r.id>>
    BY DEF Pairs
  <2> HIDE DEF T
  <2>4. \A p : p \in ToSet(ix) <=> p \in Pairs(ToSet(rows), f)
    BY <2>1, <2>2, <2>3
  <2> QED
    BY <2>4
<1> QED
  BY <1>5, <1>6, <1>7 DEF Covers, ix

\* A record under an id of B leaves without a word to the index.
LEMMA CoversLess ==
  ASSUME NEW R, NEW f, NEW B, NEW ix, Covers(ix, R, f, B), NEW old, old \in R => old.id \in B
  PROVE  Covers(ix, R \ {old}, f, B)
<1>1. /\ ix \in Seq(Value \X Id) /\ IsInjective(ix) /\ Pairs(R, f) \subseteq ToSet(ix)
      /\ \A p \in ToSet(ix) : p \in Pairs(R, f) \/ p[2] \in B
  BY DEF Covers
<1>2. Pairs(R \ {old}, f) \subseteq Pairs(R, f)
  BY DEF Pairs
<1>3. \A p \in Pairs(R, f) : p \in Pairs(R \ {old}, f) \/ p[2] \in B
  <2> TAKE p \in Pairs(R, f)
  <2>1. PICK r \in R : Indexable(r.content, f) /\ p = <<r.content[f], r.id>>
    BY DEF Pairs
  <2>2. CASE r = old
    BY <2>1, <2>2
  <2>3. CASE r # old
    BY <2>1, <2>3 DEF Pairs
  <2> QED
    BY <2>2, <2>3
<1>4. Pairs(R \ {old}, f) \subseteq ToSet(ix)
  BY <1>1, <1>2
<1>5. \A p \in ToSet(ix) : p \in Pairs(R \ {old}, f) \/ p[2] \in B
  BY <1>1, <1>3
<1> QED
  BY <1>1, <1>4, <1>5, Zenon DEF Covers

\* insert, and the second half of update.
LEMMA AddCovers ==
  ASSUME NEW R \in SUBSET Record, NEW f, NEW B, NEW ix, Covers(ix, R, f, B), NEW r \in Record
  PROVE  Covers(_addToIndex(ix, f, r.id, r.content), R \union {r}, f, B)
<1> DEFINE p == <<r.content[f], r.id>>
<1>1. /\ ix \in Seq(Value \X Id) /\ IsInjective(ix) /\ Pairs(R, f) \subseteq ToSet(ix)
      /\ \A q \in ToSet(ix) : q \in Pairs(R, f) \/ q[2] \in B
  BY DEF Covers
<1>2. Indexable(r.content, f) => Pairs(R \union {r}, f) = Pairs(R, f) \union {p}
  BY DEF Pairs
<1>3. ~Indexable(r.content, f) => Pairs(R \union {r}, f) = Pairs(R, f)
  BY DEF Pairs
<1>4. CASE Indexable(r.content, f) /\ p \notin ToSet(ix)
  <2>1. _addToIndex(ix, f, r.id, r.content) = Append(ix, p)
    BY <1>4 DEF _addToIndex
  <2>2. p \in Value \X Id
    BY <1>4, PairTyped
  <2> HIDE DEF p
  <2>3. Append(ix, p) \in Seq(Value \X Id) /\ ToSet(Append(ix, p)) = ToSet(ix) \union {p}
        /\ IsInjective(Append(ix, p))
    BY <1>1, <1>4, <2>2, Items
  <2> QED
    BY <1>1, <1>2, <1>4, <2>1, <2>3 DEF Covers
<1>5. CASE ~Indexable(r.content, f) \/ p \in ToSet(ix)
  <2>1. _addToIndex(ix, f, r.id, r.content) = ix
    BY <1>5 DEF _addToIndex
  <2> HIDE DEF p
  <2>2. Pairs(R \union {r}, f) \subseteq ToSet(ix) /\ Pairs(R, f) \subseteq Pairs(R \union {r}, f)
    BY <1>1, <1>2, <1>3, <1>5
  <2> QED
    BY <1>1, <2>1, <2>2 DEF Covers
<1> QED
  BY <1>4, <1>5

\* delete, and the first half of update.
LEMMA RemoveCovers ==
  ASSUME NEW R \in SUBSET Record, \A r, s \in R : r.id = s.id => r = s,
         NEW f, NEW B, NEW ix, Covers(ix, R, f, B), NEW r \in R
  PROVE  Covers(_removeFromIndex(ix, f, r.id, r.content), R \ {r}, f, B)
<1> DEFINE p == <<r.content[f], r.id>>
<1>1. /\ ix \in Seq(Value \X Id) /\ IsInjective(ix) /\ Pairs(R, f) \subseteq ToSet(ix)
      /\ \A q \in ToSet(ix) : q \in Pairs(R, f) \/ q[2] \in B
  BY DEF Covers
<1>2. CASE Indexable(r.content, f)
  <2> DEFINE T == ToSet(ix) \ {p}
  <2>1. _removeFromIndex(ix, f, r.id, r.content) = Within(ix, T)
    BY <1>2 DEF _removeFromIndex
  <2>2. Pairs(R \ {r}, f) = Pairs(R, f) \ {p}
    BY DEF Pairs
  <2> HIDE DEF T
  <2>3. Within(ix, T) \in Seq(Value \X Id) /\ ToSet(Within(ix, T)) = ToSet(ix) \intersect T /\ IsInjective(Within(ix, T))
    BY <1>1, WithinItems
  <2>4. ToSet(ix) \intersect T = ToSet(ix) \ {p}
    BY DEF T
  <2> HIDE DEF p
  <2> QED
    BY <1>1, <2>1, <2>2, <2>3, <2>4 DEF Covers
<1>3. CASE ~Indexable(r.content, f)
  <2>1. _removeFromIndex(ix, f, r.id, r.content) = ix
    BY <1>3 DEF _removeFromIndex
  <2>2. Pairs(R \ {r}, f) = Pairs(R, f)
    BY <1>3 DEF Pairs
  <2> QED
    BY <1>1, <2>1, <2>2 DEF Covers
<1> QED
  BY <1>2, <1>3

\* Map.set under an id no row has.
LEMMA PutAppends ==
  ASSUME NEW rows \in Seq(Record), Distinct(rows), NEW r \in Record,
         \A s \in ToSet(rows) : s.id # r.id
  PROVE  /\ Put(rows, r) \in Seq(Record) /\ Distinct(Put(rows, r))
         /\ ToSet(Put(rows, r)) = ToSet(rows) \union {r}
<1>1. Put(rows, r) = Append(rows, r)
  <2>1. DOMAIN rows = 1 .. Len(rows)
    BY LenProperties
  <2>2. \A i \in 1 .. Len(rows) : rows[i] \in ToSet(rows)
    BY <2>1, Zenon DEF ToSet
  <2> QED
    BY <2>2, Zenon DEF Put
<1>2. r \notin ToSet(rows)
  OBVIOUS
<1>3. Append(rows, r) \in Seq(Record) /\ ToSet(Append(rows, r)) = ToSet(rows) \union {r}
      /\ IsInjective(Append(rows, r))
  BY <1>2, DistinctIsInjective, Items
<1>4. \A s, q \in ToSet(rows) \union {r} : s.id = q.id => s = q
  <2>1. \A s, q \in ToSet(rows) : s.id = q.id => s = q
    BY OneRecordPerId
  <2> QED
    BY <2>1
<1>5. Distinct(Append(rows, r))
  BY <1>3, <1>4, InjectiveIsDistinct
<1> QED
  BY <1>1, <1>3, <1>5

\* Map.set under the id of a row: that row is replaced where it stands.
LEMMA PutReplaces ==
  ASSUME NEW rows \in Seq(Record), Distinct(rows), NEW old \in ToSet(rows), NEW r \in Record, r.id = old.id
  PROVE  /\ Put(rows, r) \in Seq(Record) /\ Distinct(Put(rows, r))
         /\ ToSet(Put(rows, r)) = (ToSet(rows) \ {old}) \union {r}
<1>1. DOMAIN rows = 1 .. Len(rows) /\ Len(rows) \in Nat /\ \A i \in DOMAIN rows : rows[i] \in Record
  BY LenProperties, ElementOfSeq
<1>2. PICK k \in DOMAIN rows : rows[k] = old
  BY Zenon DEF ToSet
<1> DEFINE new == Put(rows, r)
<1>3. new = [i \in 1 .. Len(rows) |-> IF rows[i].id = r.id THEN r ELSE rows[i]]
  BY <1>1, <1>2, Zenon DEF Put
<1>4. \A i \in 1 .. Len(rows) : rows[i].id = r.id <=> i = k
  BY <1>1, <1>2 DEF Distinct
<1>5. DOMAIN new = 1 .. Len(rows) /\ \A i \in 1 .. Len(rows) : new[i] = IF i = k THEN r ELSE rows[i]
  BY <1>3, <1>4
<1> HIDE DEF new
<1>6. new \in Seq(Record)
  <2>1. new = [i \in 1 .. Len(rows) |-> new[i]]
    BY <1>3, Zenon
  <2>2. \A i \in 1 .. Len(rows) : new[i] \in Record
    BY <1>1, <1>5
  <2>3. new \in [1 .. Len(rows) -> Record]
    BY <2>1, <2>2, Zenon
  <2> QED
    BY <1>1, <2>3, FunctionIsSeq
<1>7. Distinct(new)
  <2>1. \A i \in DOMAIN new : new[i].id = rows[i].id
    BY <1>2, <1>5
  <2> QED
    BY <1>1, <1>5, <2>1 DEF Distinct
<1>8. ToSet(new) = (ToSet(rows) \ {old}) \union {r}
  <2>1. \A i \in DOMAIN rows : rows[i] = old => i = k
    BY <1>2 DEF Distinct
  <2>2. \A s : s \in ToSet(new) <=> \E i \in 1 .. Len(rows) : s = IF i = k THEN r ELSE rows[i]
    BY <1>5 DEF ToSet
  <2>3. \A s : s \in ToSet(rows) <=> \E i \in 1 .. Len(rows) : s = rows[i]
    BY <1>1 DEF ToSet
  <2>4. k \in 1 .. Len(rows)
    BY <1>1
  <2> QED
    BY <1>1, <1>2, <2>1, <2>2, <2>3, <2>4
<1> QED
  BY <1>6, <1>7, <1>8 DEF new

\* Map.set: at most the row under that id goes, and the new one comes.
LEMMA PutChanges ==
  ASSUME NEW rows \in Seq(Record), Distinct(rows), NEW r \in Record
  PROVE  \E old \in Record :
           /\ old.id = r.id
           /\ Put(rows, r) \in Seq(Record) /\ Distinct(Put(rows, r))
           /\ ToSet(Put(rows, r)) = (ToSet(rows) \ {old}) \union {r}
           /\ \A s \in ToSet(rows) : s.id = r.id => s = old
<1>1. CASE \A s \in ToSet(rows) : s.id # r.id
  <2>1. /\ Put(rows, r) \in Seq(Record) /\ Distinct(Put(rows, r))
        /\ ToSet(Put(rows, r)) = ToSet(rows) \union {r}
    BY <1>1, PutAppends
  <2> QED
    BY <1>1, <2>1
<1>2. ASSUME NEW old \in ToSet(rows), old.id = r.id
      PROVE  /\ old \in Record
             /\ Put(rows, r) \in Seq(Record) /\ Distinct(Put(rows, r))
             /\ ToSet(Put(rows, r)) = (ToSet(rows) \ {old}) \union {r}
             /\ \A s \in ToSet(rows) : s.id = r.id => s = old
  <2>1. old \in Record
    BY Items
  <2>2. /\ Put(rows, r) \in Seq(Record) /\ Distinct(Put(rows, r))
        /\ ToSet(Put(rows, r)) = (ToSet(rows) \ {old}) \union {r}
    BY <1>2, PutReplaces
  <2>3. \A s \in ToSet(rows) : s.id = r.id => s = old
    BY <1>2, OneRecordPerId
  <2> QED
    BY <2>1, <2>2, <2>3
<1> QED
  BY <1>1, <1>2, Zenon

\* tableMap.delete.
LEMMA RowsWithout ==
  ASSUME NEW rows \in Seq(Record), Distinct(rows), NEW old \in ToSet(rows)
  PROVE  LET left == Within(rows, {r \in ToSet(rows) : r.id # old.id})
         IN  left \in Seq(Record) /\ Distinct(left) /\ ToSet(left) = ToSet(rows) \ {old}
<1> DEFINE T == {r \in ToSet(rows) : r.id # old.id}
           left == Within(rows, T)
<1>1. T = ToSet(rows) \ {old}
  BY OneRecordPerId
<1>2. left \in Seq(Record) /\ ToSet(left) = ToSet(rows) \intersect T /\ IsInjective(left)
  <2> HIDE DEF T
  <2> QED
    BY WithinItems, DistinctIsInjective
<1>3. ToSet(left) = ToSet(rows) \ {old}
  BY <1>1, <1>2
<1>4. \A r, s \in ToSet(rows) : r.id = s.id => r = s
  BY OneRecordPerId
<1> HIDE DEF T, left
<1>5. \A r, s \in ToSet(left) : r.id = s.id => r = s
  BY <1>3, <1>4
<1>6. Distinct(left)
  BY <1>2, <1>5, InjectiveIsDistinct
<1> QED
  BY <1>2, <1>3, <1>6 DEF left, T

---------------------------------------------------------------------------
(* Tables *)

\* The counter next is ahead of what record r of table t does not owe to bundle old.
Behind(r, t, next, old) ==
  /\ r.id \in BroughtIds(old, t) \/ r.id < next
  /\ \A n \in Times(r) : n \in BroughtTimes(old) \/ n < next

\* Tables a database that comes from bundle old may hold with its counter at next.
Sound(tabs, next, old) ==
  IsTables(tabs) /\ IdsDistinct(tabs) /\ Ahead(tabs, next, old) /\ TimesApart(tabs, old)

\* The same of the rows of every table there may be: one never created has none.
LEMMA SoundRows ==
  ASSUME NEW tabs, NEW next, NEW old
  PROVE  /\ Sound(tabs, next, old) =>
              /\ \A t \in Table : RowsIn(tabs, t) \in Seq(Record) /\ Distinct(RowsIn(tabs, t))
              /\ \A t \in Table : \A r \in ToSet(RowsIn(tabs, t)) : Behind(r, t, next, old)
              /\ \A t, u \in Table : \A r \in ToSet(RowsIn(tabs, t)), s \in ToSet(RowsIn(tabs, u)) :
                   <<t, r>> # <<u, s>> => Times(r) \intersect Times(s) \subseteq BroughtTimes(old)
         /\ /\ IsTables(tabs)
            /\ \A t \in Table : Distinct(RowsIn(tabs, t))
            /\ \A t \in Table : \A r \in ToSet(RowsIn(tabs, t)) : Behind(r, t, next, old)
            /\ \A t, u \in Table : \A r \in ToSet(RowsIn(tabs, t)), s \in ToSet(RowsIn(tabs, u)) :
                 <<t, r>> # <<u, s>> => Times(r) \intersect Times(s) \subseteq BroughtTimes(old)
            => Sound(tabs, next, old)
<1>1. ASSUME IsTables(tabs) PROVE /\ \A t \in DOMAIN tabs : t \in Table /\ RowsIn(tabs, t) = tabs[t]
                                  /\ \A t \in Table : t \notin DOMAIN tabs => RowsIn(tabs, t) = <<>>
                                  /\ \A t \in DOMAIN tabs : tabs[t] \in Seq(Record)
  BY <1>1 DEF IsTables, RowsIn
<1>2. <<>> \in Seq(Record) /\ DOMAIN <<>> = {}
  OBVIOUS
<1>3. ToSet(<<>>) = {} /\ Distinct(<<>>)
  <2> DEFINE e == <<>>
  <2>1. DOMAIN e = {}
    OBVIOUS
  <2> HIDE DEF e
  <2>2. ToSet(e) = {} /\ Distinct(e)
    BY <2>1 DEF ToSet, Distinct
  <2> QED
    BY <2>2 DEF e
<1>4. ASSUME Sound(tabs, next, old)
      PROVE  /\ \A t \in Table : RowsIn(tabs, t) \in Seq(Record) /\ Distinct(RowsIn(tabs, t))
             /\ \A t \in Table : \A r \in ToSet(RowsIn(tabs, t)) : Behind(r, t, next, old)
             /\ \A t, u \in Table : \A r \in ToSet(RowsIn(tabs, t)), s \in ToSet(RowsIn(tabs, u)) :
                  <<t, r>> # <<u, s>> => Times(r) \intersect Times(s) \subseteq BroughtTimes(old)
  <2>1. IsTables(tabs) /\ \A t \in DOMAIN tabs : Distinct(tabs[t])
    BY <1>4 DEF Sound, IdsDistinct, Distinct
  <2>2. \A t \in DOMAIN tabs : \A r \in ToSet(tabs[t]) : Behind(r, t, next, old)
    BY <1>4, Zenon DEF Sound, Ahead, Behind
  <2>3. \A t, u \in DOMAIN tabs : \A r \in ToSet(tabs[t]), s \in ToSet(tabs[u]) :
          <<t, r>> # <<u, s>> => Times(r) \intersect Times(s) \subseteq BroughtTimes(old)
    BY <1>4, Zenon DEF Sound, TimesApart
  <2>4. \A t \in Table : RowsIn(tabs, t) \in Seq(Record) /\ Distinct(RowsIn(tabs, t))
    BY <1>1, <1>2, <1>3, <2>1, Zenon
  <2>5. \A t \in Table : \A r \in ToSet(RowsIn(tabs, t)) : t \in DOMAIN tabs /\ r \in ToSet(tabs[t])
    BY <1>1, <1>3, <2>1, Zenon
  <2> QED
    BY <2>2, <2>3, <2>4, <2>5, Zenon
<1>5. ASSUME IsTables(tabs),
             \A t \in Table : Distinct(RowsIn(tabs, t)),
             \A t \in Table : \A r \in ToSet(RowsIn(tabs, t)) : Behind(r, t, next, old),
             \A t, u \in Table : \A r \in ToSet(RowsIn(tabs, t)), s \in ToSet(RowsIn(tabs, u)) :
                <<t, r>> # <<u, s>> => Times(r) \intersect Times(s) \subseteq BroughtTimes(old)
      PROVE  Sound(tabs, next, old)
  <2>1. \A t \in DOMAIN tabs : t \in Table /\ tabs[t] = RowsIn(tabs, t)
    BY <1>1, <1>5, Zenon
  <2>2. IdsDistinct(tabs)
    BY <1>5, <2>1, Zenon DEF IdsDistinct, Distinct
  <2>3. Ahead(tabs, next, old)
    BY <1>5, <2>1, Zenon DEF Ahead, Behind
  <2>4. TimesApart(tabs, old)
    BY <1>5, <2>1, Zenon DEF TimesApart
  <2> QED
    BY <1>5, <2>2, <2>3, <2>4 DEF Sound
<1> QED
  BY <1>4, <1>5, Zenon

\* Replacing the rows of one table.
LEMMA TableSet ==
  ASSUME IsTables(tables), NEW t \in Table, NEW rows \in Seq(Record)
  PROVE  /\ IsTables(SetTable(t, rows))
         /\ \A u \in Table : RowsIn(SetTable(t, rows), u) = IF u = t THEN rows ELSE Rows(u)
<1> DEFINE tabs == SetTable(t, rows)
<1>1. DOMAIN tabs = DOMAIN tables \union {t}
  BY DEF SetTable
<1>2. \A u \in DOMAIN tabs : tabs[u] = IF u = t THEN rows ELSE tables[u]
  BY DEF SetTable
<1>3. tabs = [u \in DOMAIN tabs |-> tabs[u]]
  BY DEF SetTable
<1>4. DOMAIN tables \subseteq Table /\ \A u \in DOMAIN tables : tables[u] \in Seq(Record)
  BY DEF IsTables
<1> HIDE DEF tabs
<1>5. IsTables(tabs)
  <2>1. \A u \in DOMAIN tabs : tabs[u] \in Seq(Record)
    BY <1>1, <1>2, <1>4
  <2>2. tabs \in [DOMAIN tabs -> Seq(Record)]
    BY <1>3, <2>1, Zenon
  <2> QED
    BY <1>1, <1>4, <2>2 DEF IsTables
<1>6. \A u \in Table : RowsIn(tabs, u) = IF u = t THEN rows ELSE Rows(u)
  BY <1>1, <1>2 DEF RowsIn, Rows
<1> QED
  BY <1>5, <1>6 DEF tabs

\* The counter is no time of a record it is ahead of, unless a bundle brought that.
LEMMA TimesBehind ==
  ASSUME NEW r, NEW t, NEW n \in Nat, NEW old, Behind(r, t, n, old), n \in Times(r)
  PROVE  n \in BroughtTimes(old)
BY DEF Behind

\* The times of a record are numbers.
LEMMA TimesAreInt ==
  ASSUME NEW r \in Record
  PROVE  Times(r) \in SUBSET Int
BY DEF Record, Times

\* Ids are numbers, those of old bundles included.
LEMMA IdIsInt == Id \in SUBSET Int
<1>1. \A r \in OldRecord : r.id \in Int
  BY OldBundlesAssumption DEF OldRecord
<1> QED
  BY <1>1, DataAssumption DEF Id

\* A counter that moves on stays ahead.
LEMMA BehindStill ==
  ASSUME NEW r \in Record, NEW t, NEW old, NEW m \in Int, NEW n \in Int, m <= n, Behind(r, t, m, old)
  PROVE  Behind(r, t, n, old)
<1>1. r.id \in Int /\ \A k \in Times(r) : k \in Int
  BY IdIsInt, TimesAreInt DEF Record
<1> QED
  BY <1>1 DEF Behind

\* A write takes at most the row old out of table t and puts at most one in, whose
\* times are those of the row it replaces and the counter's value.
Written(t, old, new, rows, next) ==
  /\ sequence \in Nat /\ next \in Nat /\ next >= sequence
  /\ new \in SUBSET Record /\ \A r, s \in new : r = s
  /\ rows \in Seq(Record) /\ Distinct(rows) /\ ToSet(rows) = (ToSet(Rows(t)) \ {old}) \union new
  /\ \A r \in new : Behind(r, t, next, origin)
  /\ \A r \in new : Times(r) \subseteq {sequence} \union (IF old \in ToSet(Rows(t)) THEN Times(old) ELSE {})

\* A write that draws its id and time from the counter leaves the tables sound.
LEMMA WriteIsSound ==
  ASSUME Sound(tables, sequence, origin), NEW t \in Table, NEW old, NEW new, NEW rows, NEW next,
         Written(t, old, new, rows, next)
  PROVE  Sound(SetTable(t, rows), next, origin)
<1> DEFINE tabs == SetTable(t, rows)
           B == BroughtTimes(origin)
<1>0. /\ sequence \in Nat /\ next \in Nat /\ next >= sequence
      /\ new \in SUBSET Record /\ \A r, s \in new : r = s
      /\ rows \in Seq(Record) /\ Distinct(rows) /\ ToSet(rows) = (ToSet(Rows(t)) \ {old}) \union new
      /\ \A r \in new : Behind(r, t, next, origin)
      /\ \A r \in new : Times(r) \subseteq {sequence} \union (IF old \in ToSet(Rows(t)) THEN Times(old) ELSE {})
  BY Zenon DEF Written
<1>1. /\ \A u \in Table : Rows(u) \in Seq(Record) /\ Distinct(Rows(u))
      /\ \A u \in Table : \A r \in ToSet(Rows(u)) : Behind(r, u, sequence, origin)
      /\ \A u, v \in Table : \A r \in ToSet(Rows(u)), s \in ToSet(Rows(v)) :
           <<u, r>> # <<v, s>> => Times(r) \intersect Times(s) \subseteq B
  BY SoundRows, Zenon DEF Rows
<1>2. IsTables(tabs) /\ \A u \in Table : RowsIn(tabs, u) = IF u = t THEN rows ELSE Rows(u)
  BY <1>0, TableSet DEF Sound
<1> HIDE DEF tabs, B
<1>3. \A u \in Table : Distinct(RowsIn(tabs, u))
  BY <1>0, <1>1, <1>2
<1>4. \A u \in Table : \A r \in ToSet(Rows(u)) : r \in Record
  BY <1>1, Items
<1>5. \A u \in Table : \A r \in ToSet(Rows(u)) :
        Behind(r, u, next, origin) /\ (sequence \in Times(r) => sequence \in B)
  <2> TAKE u \in Table
  <2> TAKE r \in ToSet(Rows(u))
  <2>1. r \in Record /\ Behind(r, u, sequence, origin)
    BY <1>1, <1>4
  <2>2. Behind(r, u, next, origin)
    <3>1. sequence \in Int /\ next \in Int /\ sequence <= next
      BY <1>0
    <3> QED
      BY <2>1, <3>1, BehindStill
  <2>3. sequence \in Nat
    BY <1>0
  <2>4. sequence \in Times(r) => sequence \in B
    BY <2>1, <2>3, TimesBehind DEF B
  <2> QED
    BY <2>2, <2>4
<1>6. \A u \in Table : \A r \in ToSet(RowsIn(tabs, u)) :
        \/ r \in ToSet(Rows(u)) /\ <<u, r>> # <<t, old>>
        \/ u = t /\ r \in new
  BY <1>0, <1>2
<1>7. \A u \in Table : \A r \in ToSet(RowsIn(tabs, u)) : Behind(r, u, next, origin)
  BY <1>0, <1>5, <1>6
<1>8. ASSUME NEW u \in Table, NEW s \in ToSet(Rows(u)), <<u, s>> # <<t, old>>, NEW r \in new
      PROVE  Times(r) \intersect Times(s) \subseteq B
  <2>1. sequence \in Times(s) => sequence \in B
    BY <1>5
  <2>2. old \in ToSet(Rows(t)) => Times(old) \intersect Times(s) \subseteq B
    BY <1>1, <1>8
  <2> QED
    BY <1>0, <2>1, <2>2
<1>9. ASSUME NEW u \in Table, NEW v \in Table, NEW r \in ToSet(RowsIn(tabs, u)), NEW s \in ToSet(RowsIn(tabs, v)),
             <<u, r>> # <<v, s>>
      PROVE  Times(r) \intersect Times(s) \subseteq B
  <2>1. CASE r \in ToSet(Rows(u)) /\ <<u, r>> # <<t, old>> /\ s \in ToSet(Rows(v)) /\ <<v, s>> # <<t, old>>
    BY <1>1, <1>9, <2>1, Zenon
  <2>2. CASE u = t /\ r \in new /\ s \in ToSet(Rows(v)) /\ <<v, s>> # <<t, old>>
    BY <1>8, <2>2, Zenon
  <2>3. CASE r \in ToSet(Rows(u)) /\ <<u, r>> # <<t, old>> /\ v = t /\ s \in new
    <3>1. Times(s) \intersect Times(r) \subseteq B
      BY <1>8, <2>3, Zenon
    <3> QED
      BY <3>1
  <2>4. CASE u = t /\ r \in new /\ v = t /\ s \in new
    BY <1>0, <1>9, <2>4
  <2> QED
    BY <1>6, <2>1, <2>2, <2>3, <2>4, Zenon
<1> QED
  BY <1>2, <1>3, <1>7, <1>9, SoundRows, Zenon DEF tabs, B

---------------------------------------------------------------------------
(* The inductive invariant *)

IndicesCover ==
  \A t \in Table : \A f \in DOMAIN indices[t] : Covers(indices[t][f], ToSet(Rows(t)), f, BroughtIds(origin, t))

SavedSound == saved # Nothing => Sound(saved.tables, saved.sequence, savedOrigin)

\* The tables are sound for the counter, the bundle at rest is sound for the
\* counter saved with it, and each index covers its table. A load needs the
\* second to keep the first, a write needs ids of their own to keep the third.
IInv == TypeOK /\ Sound(tables, sequence, origin) /\ SavedSound /\ IndicesCover

\* What a state the invariant holds in says of the rows of a table.
LEMMA RowsFacts ==
  ASSUME IInv, NEW t \in Table
  PROVE  /\ Rows(t) \in Seq(Record) /\ Distinct(Rows(t))
         /\ ToSet(Rows(t)) \in SUBSET Record
         /\ \A r \in ToSet(Rows(t)) : Behind(r, t, sequence, origin)
         /\ \A r, s \in ToSet(Rows(t)) : r.id = s.id => r = s
<1>1. Rows(t) \in Seq(Record) /\ Distinct(Rows(t)) /\ \A r \in ToSet(Rows(t)) : Behind(r, t, sequence, origin)
  BY SoundRows, Zenon DEF IInv, Rows
<1> QED
  BY <1>1, Items, OneRecordPerId

\* A record is found under its id, and no other is.
LEMMA RowFacts ==
  ASSUME IInv, NEW t \in Table, NEW id \in Ids(t)
  PROVE  /\ Row(t, id) \in ToSet(Rows(t)) /\ Row(t, id).id = id
         /\ Row(t, id) \in Record
         /\ \A r \in ToSet(Rows(t)) : r.id = id => r = Row(t, id)
<1>1. \E r \in ToSet(Rows(t)) : r.id = id
  BY DEF Ids
<1>2. Row(t, id) \in ToSet(Rows(t)) /\ Row(t, id).id = id
  BY <1>1, Zenon DEF Row
<1> QED
  BY <1>2, RowsFacts

\* An index operation that follows a write of table t.
LEMMA WriteCovers ==
  ASSUME IInv, NEW t \in Table, NEW rows \in Seq(Record), tables' = SetTable(t, rows),
         UNCHANGED origin,
         NEW ix, ix = [f \in DOMAIN indices[t] |-> ix[f]], indices' = [indices EXCEPT ![t] = ix],
         \A f \in DOMAIN indices[t] : Covers(ix[f], ToSet(rows), f, BroughtIds(origin, t))
  PROVE  IndicesTyped' /\ IndicesCover'
<1>1. IndicesTyped /\ IndicesCover /\ IsTables(tables)
  BY DEF IInv, TypeOK
<1>2. \A u \in Table : indices'[u] = IF u = t THEN ix ELSE indices[u]
  BY <1>1 DEF IndicesTyped
<1>3. indices' = [u \in Table |-> indices'[u]]
  BY <1>1 DEF IndicesTyped
<1>4. DOMAIN ix = DOMAIN indices[t] /\ \A f \in DOMAIN ix : ix[f] \in Seq(Value \X Id)
  BY DEF Covers
<1>5. ix \in [DOMAIN ix -> Seq(Value \X Id)]
  <2>1. ix = [f \in DOMAIN ix |-> ix[f]]
    BY <1>4
  <2> QED
    BY <1>4, <2>1, Zenon
<1>6. IndicesTyped'
  BY <1>1, <1>2, <1>3, <1>4, <1>5, Zenon DEF IndicesTyped
<1>7. \A u \in Table : Rows(u)' = IF u = t THEN rows ELSE Rows(u)
  BY <1>1, TableSet DEF Rows
<1>8. IndicesCover'
  BY <1>1, <1>2, <1>4, <1>7, Zenon DEF IndicesCover
<1> QED
  BY <1>6, <1>8

\* The parts of the invariant a write leaves to be shown.
LEMMA WriteKeeps ==
  ASSUME IInv, NEW t \in Table, NEW rows \in Seq(Record), tables' = SetTable(t, rows),
         sequence' \in 0 .. MaxSequence, Sound(tables', sequence', origin), UNCHANGED <<origin, saved, savedOrigin>>,
         IndicesTyped', IndicesCover'
  PROVE  IInv'
<1>1. IsTables(tables') /\ UNCHANGED <<origin, saved, savedOrigin>>
  BY DEF Sound
<1>2. (saved # Nothing => IsBundle(saved))' /\ SavedSound' /\ ({origin, savedOrigin} \subseteq {NoTables} \union OldBundles)'
  BY <1>1 DEF IInv, TypeOK, SavedSound
<1>3. Sound(tables, sequence, origin)'
  BY <1>1
<1> QED
  BY <1>1, <1>2, <1>3 DEF IInv, TypeOK

\* Tables of an old bundle are sound for a counter at 0: all they hold is theirs.
LEMMA OldBundleIsSound ==
  ASSUME NEW b \in OldBundles
  PROVE  IsBundle(OldBundle(b)) /\ Sound(b, 0, b)
<1>1. IsTables(b) /\ IdsDistinct(b)
  BY OldBundlesAssumption
<1>2. ASSUME NEW t \in DOMAIN b, NEW r \in ToSet(b[t])
      PROVE  r.id \in BroughtIds(b, t) /\ Times(r) \subseteq BroughtTimes(b)
  <2>1. r.id \in BroughtIds(b, t)
    BY DEF BroughtIds, RowsIn
  <2>2. r \in UNION {ToSet(b[u]) : u \in DOMAIN b}
    OBVIOUS
  <2>3. Times(r) \subseteq BroughtTimes(b)
    BY <2>2 DEF BroughtTimes
  <2> QED
    BY <2>1, <2>3
<1>3. Ahead(b, 0, b)
  BY <1>2 DEF Ahead
<1>4. TimesApart(b, b)
  BY <1>2 DEF TimesApart
<1>5. IsBundle(OldBundle(b))
  BY <1>1, DataAssumption DEF IsBundle, OldBundle
<1> QED
  BY <1>1, <1>3, <1>4, <1>5 DEF Sound

\* No tables are sound tables.
LEMMA NoTablesIsSound == Sound(NoTables, 0, NoTables)
<1> DEFINE none == NoTables
<1>1. DOMAIN none = {} /\ none = [t \in DOMAIN none |-> none[t]]
  BY DEF NoTables
<1> HIDE DEF none
<1>2. none \in [DOMAIN none -> Seq(Record)]
  BY <1>1
<1>3. IsTables(none)
  BY <1>1, <1>2 DEF IsTables
<1>4. IdsDistinct(none) /\ Ahead(none, 0, none) /\ TimesApart(none, none)
  BY <1>1, Zenon DEF IdsDistinct, Ahead, TimesApart
<1>5. Sound(none, 0, none)
  BY <1>3, <1>4 DEF Sound
<1> QED
  BY <1>5 DEF none

\* No index, over no table.
LEMMA NoIndices ==
  ASSUME indices = [t \in Table |-> [f \in {} |-> <<>>]]
  PROVE  IndicesTyped /\ IndicesCover
<1>1. \A t \in Table : indices[t] = [f \in {} |-> <<>>] /\ DOMAIN indices[t] = {}
  OBVIOUS
<1>2. \A t \in Table : indices[t] \in [DOMAIN indices[t] -> Seq(Value \X Id)]
  BY <1>1
<1>3. indices = [t \in Table |-> indices[t]]
  OBVIOUS
<1> QED
  BY <1>1, <1>2, <1>3 DEF IndicesTyped, IndicesCover

\* A new instance has no tables and no indices.
LEMMA InitHolds == Init => IInv
<1> SUFFICES ASSUME Init PROVE IInv
  OBVIOUS
<1>1. tables = NoTables /\ origin = NoTables /\ sequence = 0 /\ IndicesTyped /\ IndicesCover
  BY NoIndices DEF Init
<1>2. Sound(tables, sequence, origin) /\ sequence \in 0 .. MaxSequence
  BY <1>1, NoTablesIsSound, DataAssumption
<1>3. \/ saved = Nothing /\ savedOrigin = NoTables
      \/ \E b \in OldBundles : saved = OldBundle(b) /\ savedOrigin = b
  BY DEF Init
<1>4. \A b \in OldBundles : OldBundle(b).tables = b /\ OldBundle(b).sequence = 0
  BY DEF OldBundle
<1>5. saved # Nothing => IsBundle(saved) /\ Sound(saved.tables, saved.sequence, savedOrigin)
  BY <1>3, <1>4, OldBundleIsSound
<1>6. {origin, savedOrigin} \subseteq {NoTables} \union OldBundles
  BY <1>1, <1>3
<1>7. IsTables(tables)
  BY <1>2 DEF Sound
<1> QED
  BY <1>1, <1>2, <1>5, <1>6, <1>7 DEF IInv, TypeOK, SavedSound

\* Each operation keeps the invariant: createIndex fills a new index from the table,
LEMMA CreateIndexKeeps ==
  ASSUME IInv, NEW t \in Table, NEW f \in Field, createIndex(t, f)
  PROVE  IInv'
<1> DEFINE ix == [g \in DOMAIN indices[t] \union {f} |-> IF g = f THEN Backfill(Rows(t), f) ELSE indices[t][g]]
<1>1. IndicesTyped /\ IndicesCover
  BY DEF IInv, TypeOK
<1>2. \A u \in Table : indices'[u] = IF u = t THEN ix ELSE indices[u]
  BY <1>1 DEF IndicesTyped, createIndex
<1>3. indices' = [u \in Table |-> indices'[u]]
  BY <1>1 DEF IndicesTyped, createIndex
<1>4. DOMAIN ix = DOMAIN indices[t] \union {f} /\ ix = [g \in DOMAIN ix |-> ix[g]]
      /\ \A g \in DOMAIN ix : ix[g] = IF g = f THEN Backfill(Rows(t), f) ELSE indices[t][g]
  OBVIOUS
<1> HIDE DEF ix
<1>5. Covers(Backfill(Rows(t), f), ToSet(Rows(t)), f, BroughtIds(origin, t))
  BY RowsFacts, BackfillCovers
<1>6. \A g \in DOMAIN ix : Covers(ix[g], ToSet(Rows(t)), g, BroughtIds(origin, t))
  BY <1>1, <1>4, <1>5 DEF IndicesCover
<1>7. \A g \in DOMAIN ix : ix[g] \in Seq(Value \X Id)
  BY <1>6 DEF Covers
<1>8. ix \in [DOMAIN ix -> Seq(Value \X Id)] /\ DOMAIN ix \subseteq Field
  BY <1>1, <1>4, <1>7, Zenon DEF IndicesTyped
<1>9. IndicesTyped'
  BY <1>1, <1>2, <1>3, <1>8, Zenon DEF IndicesTyped
<1>10. UNCHANGED <<tables, sequence, origin, saved, savedOrigin>> /\ \A u : Rows(u)' = Rows(u)
  BY DEF createIndex, Rows, bundles
<1>11. IndicesCover'
  BY <1>1, <1>2, <1>6, <1>10, Zenon DEF IndicesCover
<1> QED
  BY <1>9, <1>10, <1>11 DEF IInv, TypeOK, SavedSound

\* insert adds a record, in the place of one only where a bundle brought its number,
LEMMA InsertKeeps ==
  ASSUME IInv, NEW t \in Table, NEW content \in Given, insert(t, content)
  PROVE  IInv'
<1> DEFINE r == [id |-> sequence, timestamp |-> sequence, content |-> content, updatedAt |-> Nothing]
           rows == Put(Rows(t), r)
           ix == [f \in DOMAIN indices[t] |-> _addToIndex(indices[t][f], f, sequence, content)]
           B == BroughtIds(origin, t)
<1>1. sequence \in 0 .. MaxSequence /\ MaxSequence \in Nat /\ sequence < MaxSequence
  BY DataAssumption DEF IInv, TypeOK, insert, bundles
<1>2. r \in Record /\ r.id = sequence
  BY <1>1, DataAssumption DEF Record, Id
<1>3. PICK old \in Record :
        /\ old.id = r.id
        /\ rows \in Seq(Record) /\ Distinct(rows)
        /\ ToSet(rows) = (ToSet(Rows(t)) \ {old}) \union {r}
        /\ \A s \in ToSet(Rows(t)) : s.id = r.id => s = old
  <2>1. Rows(t) \in Seq(Record) /\ Distinct(Rows(t))
    BY RowsFacts
  <2> HIDE DEF r
  <2> QED
    BY <1>2, <2>1, PutChanges
<1>4. old \in ToSet(Rows(t)) => old.id \in B
  <2> SUFFICES ASSUME old \in ToSet(Rows(t)) PROVE old.id \in B
    OBVIOUS
  <2>1. Behind(old, t, sequence, origin) /\ old.id = sequence
    BY <1>2, <1>3, RowsFacts
  <2> QED
    BY <1>1, <2>1 DEF Behind
<1>5. tables' = SetTable(t, rows) /\ sequence' = sequence + 1 /\ UNCHANGED <<origin, saved, savedOrigin>>
  BY DEF insert, bundles
<1>6. indices' = [indices EXCEPT ![t] = ix]
  BY DEF insert, Reindexed
<1>7. \A f \in DOMAIN indices[t] : Covers(ix[f], ToSet(rows), f, B)
  <2> TAKE f \in DOMAIN indices[t]
  <2>1. Covers(indices[t][f], ToSet(Rows(t)), f, B)
    BY DEF IInv, IndicesCover
  <2>2. ix[f] = _addToIndex(indices[t][f], f, r.id, r.content)
    OBVIOUS
  <2>3. ToSet(Rows(t)) \ {old} \in SUBSET Record
    BY RowsFacts
  <2> HIDE DEF r, rows, ix, B
  <2>4. Covers(indices[t][f], ToSet(Rows(t)) \ {old}, f, B)
    BY <1>4, <2>1, CoversLess
  <2>5. Covers(_addToIndex(indices[t][f], f, r.id, r.content), (ToSet(Rows(t)) \ {old}) \union {r}, f, B)
    BY <1>2, <2>3, <2>4, AddCovers
  <2> QED
    BY <1>3, <2>2, <2>5
<1>8. IndicesTyped' /\ IndicesCover'
  <2>1. ix = [f \in DOMAIN indices[t] |-> ix[f]]
    OBVIOUS
  <2> HIDE DEF r, rows, ix
  <2> QED
    BY <1>3, <1>5, <1>6, <1>7, <2>1, WriteCovers
<1>9. Sound(SetTable(t, rows), sequence + 1, origin)
  <2>1. Behind(r, t, sequence + 1, origin) /\ Times(r) \subseteq {sequence}
    BY <1>1 DEF Behind, Times
  <2>2. Sound(tables, sequence, origin) /\ sequence \in Nat /\ sequence + 1 \in Nat /\ sequence + 1 >= sequence
    BY <1>1 DEF IInv
  <2> DEFINE one == {r}
  <2>3. /\ \A a \in one : Behind(a, t, sequence + 1, origin)
        /\ \A a \in one : Times(a) \subseteq {sequence} \union (IF old \in ToSet(Rows(t)) THEN Times(old) ELSE {})
    BY <2>1
  <2>4. one \in SUBSET Record /\ (\A a, b \in one : a = b) /\ ToSet(rows) = (ToSet(Rows(t)) \ {old}) \union one
    BY <1>2, <1>3
  <2> HIDE DEF r, rows, one
  <2>5. Written(t, old, one, rows, sequence + 1)
    BY <1>3, <2>2, <2>3, <2>4, Zenon DEF Written
  <2> QED
    BY <2>2, <2>5, WriteIsSound
<1> HIDE DEF r, rows, ix
<1>10. sequence' \in 0 .. MaxSequence
  BY <1>1, <1>5
<1> QED
  BY <1>3, <1>5, <1>8, <1>9, <1>10, WriteKeeps

\* update replaces one, and what the indices hold of it,
LEMMA UpdateKeeps ==
  ASSUME IInv, NEW t \in Table, NEW id \in Ids(t), NEW content \in Given, update(t, id, content)
  PROVE  IInv'
<1> DEFINE old == Row(t, id)
           r == [old EXCEPT !.content = content, !.updatedAt = sequence]
           rows == Put(Rows(t), r)
           ix == [f \in DOMAIN indices[t] |->
                    _addToIndex(_removeFromIndex(indices[t][f], f, id, old.content), f, id, content)]
<1>1. sequence \in 0 .. MaxSequence /\ MaxSequence \in Nat /\ sequence < MaxSequence
  BY DataAssumption DEF IInv, TypeOK, update, Rewrite, bundles
<1>2. old \in ToSet(Rows(t)) /\ old.id = id /\ old \in Record
  BY RowFacts
<1>3. /\ r \in Record /\ r.id = old.id /\ r.content = content
      /\ r.timestamp = old.timestamp /\ r.updatedAt = sequence
  <2> HIDE DEF old
  <2>1. content \in Content /\ sequence \in Int /\ old \in Record
    BY <1>1, <1>2, DataAssumption
  <2>2. r = [old EXCEPT !.content = content, !.updatedAt = sequence]
    OBVIOUS
  <2> HIDE DEF r
  <2> QED
    BY <2>1, <2>2 DEF Record
<1>4. tables' = SetTable(t, rows) /\ sequence' = sequence + 1 /\ UNCHANGED <<origin, saved, savedOrigin>>
  BY DEF update, Rewrite, bundles
<1>5. indices' = [indices EXCEPT ![t] = ix]
  BY DEF update, Rewrite, Reindexed
<1> HIDE DEF old, r
<1>6. rows \in Seq(Record) /\ Distinct(rows) /\ ToSet(rows) = (ToSet(Rows(t)) \ {old}) \union {r}
  BY <1>2, <1>3, RowsFacts, PutReplaces
<1>7. \A f \in DOMAIN indices[t] : Covers(ix[f], ToSet(rows), f, BroughtIds(origin, t))
  <2> TAKE f \in DOMAIN indices[t]
  <2> DEFINE less == _removeFromIndex(indices[t][f], f, id, old.content)
  <2>1. Covers(indices[t][f], ToSet(Rows(t)), f, BroughtIds(origin, t))
    BY DEF IInv, IndicesCover
  <2>2. Covers(less, ToSet(Rows(t)) \ {old}, f, BroughtIds(origin, t))
    <3>1. Covers(_removeFromIndex(indices[t][f], f, old.id, old.content), ToSet(Rows(t)) \ {old}, f, BroughtIds(origin, t))
      <4>1. ToSet(Rows(t)) \in SUBSET Record /\ \A a, b \in ToSet(Rows(t)) : a.id = b.id => a = b
        BY RowsFacts
      <4> HIDE DEF less, rows, ix
      <4> QED
        BY <1>2, <2>1, <4>1, RemoveCovers
    <3> QED
      BY <1>2, <3>1
  <2>3. ix[f] = _addToIndex(less, f, r.id, r.content)
    BY <1>2, <1>3
  <2>4. ToSet(Rows(t)) \ {old} \in SUBSET Record
    BY RowsFacts
  <2> HIDE DEF less, rows, ix
  <2>5. Covers(_addToIndex(less, f, r.id, r.content), (ToSet(Rows(t)) \ {old}) \union {r}, f, BroughtIds(origin, t))
    BY <1>3, <2>2, <2>4, AddCovers
  <2> QED
    BY <1>6, <2>3, <2>5
<1>8. IndicesTyped' /\ IndicesCover'
  <2>1. ix = [f \in DOMAIN indices[t] |-> ix[f]]
    OBVIOUS
  <2> HIDE DEF rows, ix
  <2> QED
    BY <1>4, <1>5, <1>6, <1>7, <2>1, WriteCovers
<1>9. Sound(SetTable(t, rows), sequence + 1, origin)
  <2> DEFINE one == {r}
  <2>1. Behind(old, t, sequence, origin)
    BY <1>2, RowsFacts
  <2>2. Behind(old, t, sequence + 1, origin)
    <3>1. sequence \in Int /\ sequence + 1 \in Int /\ sequence <= sequence + 1
      BY <1>1
    <3> QED
      BY <1>2, <2>1, <3>1, BehindStill
  <2>4. Times(r) \subseteq {sequence} \union Times(old)
    BY <1>3 DEF Times
  <2>3. Behind(r, t, sequence + 1, origin)
    BY <1>1, <1>3, <2>2, <2>4 DEF Behind
  <2>5. Sound(tables, sequence, origin) /\ sequence \in Nat /\ sequence + 1 \in Nat /\ sequence + 1 >= sequence
    BY <1>1 DEF IInv
  <2>6. /\ \A a \in one : Behind(a, t, sequence + 1, origin)
        /\ \A a \in one : Times(a) \subseteq {sequence} \union (IF old \in ToSet(Rows(t)) THEN Times(old) ELSE {})
    BY <1>2, <2>3, <2>4
  <2>7. one \in SUBSET Record /\ (\A a, b \in one : a = b) /\ ToSet(rows) = (ToSet(Rows(t)) \ {old}) \union one
    BY <1>3, <1>6
  <2> HIDE DEF rows, one
  <2>8. Written(t, old, one, rows, sequence + 1)
    BY <1>6, <2>5, <2>6, <2>7, Zenon DEF Written
  <2> QED
    BY <2>5, <2>8, WriteIsSound
<1> HIDE DEF rows, ix
<1>10. sequence' \in 0 .. MaxSequence
  BY <1>1, <1>4
<1> QED
  BY <1>4, <1>6, <1>8, <1>9, <1>10, WriteKeeps

\* delete removes one, and what the indices hold of it,
LEMMA DeleteKeeps ==
  ASSUME IInv, NEW t \in Table, NEW id \in Ids(t), delete(t, id)
  PROVE  IInv'
<1> DEFINE old == Row(t, id)
           rows == Within(Rows(t), {r \in ToSet(Rows(t)) : r.id # id})
           ix == [f \in DOMAIN indices[t] |-> _removeFromIndex(indices[t][f], f, id, old.content)]
<1>1. old \in ToSet(Rows(t)) /\ old.id = id
  BY RowFacts
<1>2. tables' = SetTable(t, rows) /\ sequence' = sequence /\ UNCHANGED <<origin, saved, savedOrigin>>
  BY DEF delete, bundles
<1>3. indices' = [indices EXCEPT ![t] = ix]
  BY DEF delete, Reindexed
<1> HIDE DEF old
<1>4. rows \in Seq(Record) /\ Distinct(rows) /\ ToSet(rows) = ToSet(Rows(t)) \ {old}
  BY <1>1, RowsFacts, RowsWithout
<1>5. \A f \in DOMAIN indices[t] : Covers(ix[f], ToSet(rows), f, BroughtIds(origin, t))
  <2> TAKE f \in DOMAIN indices[t]
  <2>1. Covers(indices[t][f], ToSet(Rows(t)), f, BroughtIds(origin, t))
    BY DEF IInv, IndicesCover
  <2>2. ix[f] = _removeFromIndex(indices[t][f], f, old.id, old.content)
    BY <1>1
  <2> HIDE DEF rows, ix
  <2>3. ToSet(Rows(t)) \in SUBSET Record /\ \A a, b \in ToSet(Rows(t)) : a.id = b.id => a = b
    BY RowsFacts
  <2>4. Covers(_removeFromIndex(indices[t][f], f, old.id, old.content), ToSet(Rows(t)) \ {old}, f, BroughtIds(origin, t))
    BY <1>1, <2>1, <2>3, RemoveCovers
  <2> QED
    BY <1>4, <2>2, <2>4
<1>6. IndicesTyped' /\ IndicesCover'
  <2>1. ix = [f \in DOMAIN indices[t] |-> ix[f]]
    OBVIOUS
  <2> HIDE DEF rows, ix
  <2> QED
    BY <1>2, <1>3, <1>4, <1>5, <2>1, WriteCovers
<1>7. sequence \in 0 .. MaxSequence /\ sequence \in Nat
  BY DataAssumption DEF IInv, TypeOK
<1>8. Sound(SetTable(t, rows), sequence, origin)
  <2> DEFINE no == {}
  <2>1. Sound(tables, sequence, origin) /\ sequence >= sequence
    BY <1>7 DEF IInv
  <2>2. /\ no \in SUBSET Record /\ (\A a, b \in no : a = b) /\ ToSet(rows) = (ToSet(Rows(t)) \ {old}) \union no
        /\ \A a \in no : Behind(a, t, sequence, origin)
        /\ \A a \in no : Times(a) \subseteq {sequence} \union (IF old \in ToSet(Rows(t)) THEN Times(old) ELSE {})
    BY <1>4
  <2> HIDE DEF rows, no
  <2>3. Written(t, old, no, rows, sequence)
    BY <1>4, <1>7, <2>1, <2>2, Zenon DEF Written
  <2> QED
    BY <2>1, <2>3, WriteIsSound
<1> HIDE DEF rows, ix
<1> QED
  BY <1>2, <1>4, <1>6, <1>7, <1>8, WriteKeeps

\* a commit saves the tables with their counter,
LEMMA SerializeKeeps ==
  ASSUME IInv, _serializePlaintext
  PROVE  IInv'
<1>1. /\ saved' = [sequence |-> sequence, tables |-> tables] /\ savedOrigin' = origin
      /\ UNCHANGED <<tables, indices, sequence, origin>>
  BY DEF _serializePlaintext, Serialize
<1>2. saved'.tables = tables /\ saved'.sequence = sequence
  BY <1>1
<1>3. IsBundle(saved)' /\ Sound(saved.tables, saved.sequence, savedOrigin)'
  BY <1>1, <1>2 DEF IInv, TypeOK, IsBundle
<1>4. IndicesTyped' /\ IndicesCover'
  <2>1. IndicesTyped /\ IndicesCover
    BY DEF IInv, TypeOK
  <2> QED
    BY <1>1, <2>1 DEF IndicesTyped, IndicesCover, Rows
<1> QED
  BY <1>1, <1>3, <1>4 DEF IInv, TypeOK, SavedSound

\* a load brings both back and fills the indices again,
LEMMA LoadKeeps ==
  ASSUME IInv, _loadPlaintext
  PROVE  IInv'
<1>1. /\ saved # Nothing /\ tables' = saved.tables /\ sequence' = saved.sequence /\ origin' = savedOrigin
      /\ UNCHANGED <<saved, savedOrigin>>
      /\ indices' = [t \in Table |-> [f \in DOMAIN indices[t] |-> Backfill(RowsIn(saved.tables, t), f)]]
  BY DEF _loadPlaintext, Adopt, Install, bundles
<1>2. IsBundle(saved) /\ Sound(saved.tables, saved.sequence, savedOrigin)
  BY <1>1 DEF IInv, TypeOK, SavedSound
<1>3. \A t \in Table : Rows(t)' = RowsIn(saved.tables, t)
  BY <1>1 DEF Rows
<1>4. \A t \in Table : \A f, B : Covers(Backfill(RowsIn(saved.tables, t), f), ToSet(RowsIn(saved.tables, t)), f, B)
  <2>1. \A t \in Table : RowsIn(saved.tables, t) \in Seq(Record) /\ Distinct(RowsIn(saved.tables, t))
    BY <1>2, SoundRows, Zenon
  <2> QED
    BY <2>1, BackfillCovers
<1>5. \A t \in Table : /\ DOMAIN indices'[t] = DOMAIN indices[t]
                       /\ indices'[t] = [f \in DOMAIN indices[t] |-> Backfill(RowsIn(saved.tables, t), f)]
  BY <1>1
<1>6. \A t \in Table : \A f \in DOMAIN indices'[t] : Covers(indices'[t][f], ToSet(RowsIn(saved.tables, t)), f, BroughtIds(origin', t))
  BY <1>4, <1>5
<1>7. IndicesCover'
  BY <1>3, <1>6, Zenon DEF IndicesCover
<1>8. IndicesTyped'
  <2>1. \A t \in Table : DOMAIN indices[t] \subseteq Field
    BY DEF IInv, TypeOK, IndicesTyped
  <2>2. \A t \in Table : \A f \in DOMAIN indices[t] : Backfill(RowsIn(saved.tables, t), f) \in Seq(Value \X Id)
    BY <1>4, Zenon DEF Covers
  <2>3. \A t \in Table : indices'[t] \in [DOMAIN indices'[t] -> Seq(Value \X Id)]
    BY <1>5, <2>2
  <2>4. indices' = [t \in Table |-> indices'[t]]
    BY <1>1
  <2> QED
    BY <1>5, <2>1, <2>3, <2>4 DEF IndicesTyped
<1> QED
  BY <1>1, <1>2, <1>7, <1>8 DEF IInv, TypeOK, IsBundle, SavedSound

\* a new process starts with the bundle alone,
LEMMA RestartKeeps ==
  ASSUME IInv, constructor
  PROVE  IInv'
<1>1. tables' = NoTables /\ origin' = NoTables /\ sequence' = 0 /\ UNCHANGED <<saved, savedOrigin>>
  BY DEF constructor, bundles
<1>2. Sound(tables', sequence', origin') /\ sequence' \in 0 .. MaxSequence
  BY <1>1, NoTablesIsSound, DataAssumption
<1>3. IndicesTyped' /\ IndicesCover'
  <2>1. \A t \in Table : indices'[t] = [f \in {} |-> <<>>] /\ DOMAIN indices'[t] = {}
    BY DEF constructor
  <2>2. indices' = [t \in Table |-> indices'[t]]
    BY DEF constructor
  <2>3. \A t \in Table : indices'[t] \in [DOMAIN indices'[t] -> Seq(Value \X Id)]
    BY <2>1
  <2> QED
    BY <2>1, <2>2, <2>3 DEF IndicesTyped, IndicesCover
<1>4. IsTables(tables')
  BY <1>2 DEF Sound
<1> QED
  BY <1>1, <1>2, <1>3, <1>4 DEF IInv, TypeOK, SavedSound

\* and nothing happens when nothing changes.
LEMMA StutterKeeps ==
  ASSUME IInv, UNCHANGED vars
  PROVE  IInv'
<1>1. UNCHANGED <<tables, indices, sequence, origin, saved, savedOrigin>>
  BY DEF vars, bundles
<1> QED
  BY <1>1 DEF IInv, TypeOK, IndicesTyped, IndicesCover, SavedSound, Rows

\* Hence it holds throughout.
LEMMA IInvHolds == Spec => []IInv
<1>1. IInv /\ [Next]_vars => IInv'
  <2> SUFFICES ASSUME IInv, [Next]_vars PROVE IInv'
    OBVIOUS
  <2>1. ASSUME NEW t \in Table, NEW f \in Field, createIndex(t, f) PROVE IInv'
    BY <2>1, CreateIndexKeeps
  <2>2. ASSUME NEW t \in Table, NEW content \in Given, insert(t, content) PROVE IInv'
    BY <2>2, InsertKeeps
  <2>3. ASSUME NEW t \in Table, NEW id \in Ids(t), delete(t, id) PROVE IInv'
    BY <2>3, DeleteKeeps
  <2>4. ASSUME NEW t \in Table, NEW id \in Ids(t), NEW content \in Given, update(t, id, content) PROVE IInv'
    BY <2>4, UpdateKeeps
  <2>5. CASE _serializePlaintext
    BY <2>5, SerializeKeeps
  <2>6. CASE _loadPlaintext
    BY <2>6, LoadKeeps
  <2>7. CASE constructor
    BY <2>7, RestartKeeps
  <2>8. CASE UNCHANGED vars
    BY <2>8, StutterKeeps
  <2> QED
    BY <2>1, <2>2, <2>3, <2>4, <2>5, <2>6, <2>7, <2>8 DEF Next
<1> QED
  BY InitHolds, <1>1, PTL DEF Spec

---------------------------------------------------------------------------
(* The safety properties *)

\* Every operation, and every load of a bundle of this format or the old one,
\* leaves tables, indices, counter and bundle of their shapes.
THEOREM ShapesKept == Spec => []TypeOK
<1>1. IInv => TypeOK
  BY DEF IInv
<1> QED
  BY IInvHolds, <1>1, PTL

\* An index holds each record that has a value in its field, once and under that
\* value, however inserts, updates, deletes, loads and late createIndex calls
\* follow one another; what else it holds is under ids an old bundle brought.
THEOREM IndicesStayExact == Spec => []IndexExact
<1>1. ASSUME IInv, NEW t \in Table, NEW f \in DOMAIN indices[t]
      PROVE  /\ IsInjective(indices[t][f])
             /\ Entries(t, f) \subseteq ToSet(indices[t][f])
             /\ \A p \in ToSet(indices[t][f]) \ Entries(t, f) : p[2] \in BroughtIds(origin, t)
  <2>1. Covers(indices[t][f], ToSet(Rows(t)), f, BroughtIds(origin, t))
    BY <1>1 DEF IInv, IndicesCover
  <2>2. Entries(t, f) = Pairs(ToSet(Rows(t)), f)
    BY Zenon DEF Entries, Pairs
  <2> QED
    BY <2>1, <2>2 DEF Covers
<1>2. IInv => IndexExact
  BY <1>1, Zenon DEF IndexExact
<1> QED
  BY IInvHolds, <1>2, PTL

\* The counter is ahead of every id and time in the tables and in the bundle at
\* rest but those an old bundle brought: insert never draws an id that a record
\* the counter named still has.
THEOREM CounterStaysAhead == Spec => []ClockAhead
<1>1. IInv => ClockAhead
  BY DEF IInv, SavedSound, Sound, ClockAhead
<1> QED
  BY IInvHolds, <1>1, PTL

\* No two records share a time, whatever was loaded, but one an old bundle brought.
THEOREM TimesStayApart == Spec => []TimesDistinct
<1>1. IInv => TimesDistinct
  BY DEF IInv, Sound, TimesDistinct
<1> QED
  BY IInvHolds, <1>1, PTL

---------------------------------------------------------------------------
(* The database as a plain store *)

\* The contents of rows, by id.
ContentsOf(rows) ==
  [id \in {r.id : r \in ToSet(rows)} |-> (CHOOSE r \in ToSet(rows) : r.id = id).content]

\* The store of the tables, one by one.
LEMMA StoreByTable ==
  ASSUME NEW tabs
  PROVE  StoreOf(tabs) = [t \in Table |-> ContentsOf(RowsIn(tabs, t))]
BY Zenon DEF StoreOf, ContentsOf

\* Rows of ids of their own have the contents of each.
LEMMA Contents ==
  ASSUME NEW rows, \A r, s \in ToSet(rows) : r.id = s.id => r = s
  PROVE  /\ DOMAIN ContentsOf(rows) = {r.id : r \in ToSet(rows)}
         /\ \A r \in ToSet(rows) : ContentsOf(rows)[r.id] = r.content
         /\ ContentsOf(rows) = [id \in DOMAIN ContentsOf(rows) |-> ContentsOf(rows)[id]]
<1>1. DOMAIN ContentsOf(rows) = {r.id : r \in ToSet(rows)}
      /\ ContentsOf(rows) = [id \in DOMAIN ContentsOf(rows) |-> ContentsOf(rows)[id]]
  <2>1. DOMAIN ContentsOf(rows) = {r.id : r \in ToSet(rows)}
    BY DEF ContentsOf
  <2>2. ContentsOf(rows) = [id \in DOMAIN ContentsOf(rows) |-> ContentsOf(rows)[id]]
    BY DEF ContentsOf
  <2> QED
    BY <2>1, <2>2
<1>2. ASSUME NEW r \in ToSet(rows) PROVE ContentsOf(rows)[r.id] = r.content
  <2>1. ContentsOf(rows)[r.id] = (CHOOSE s \in ToSet(rows) : s.id = r.id).content
    BY DEF ContentsOf
  <2>2. (CHOOSE s \in ToSet(rows) : s.id = r.id) = r
    BY Zenon
  <2> QED
    BY <2>1, <2>2
<1> QED
  BY <1>1, <1>2

\* Contents c with v under id.
PutIn(c, id, v) == [i \in DOMAIN c \union {id} |-> IF i = id THEN v ELSE c[i]]

\* The contents after a row under id is put in the place of another or at the end.
LEMMA ContentsPut ==
  ASSUME NEW rows, \A r, s \in ToSet(rows) : r.id = s.id => r = s,
         NEW left, \A r, s \in ToSet(left) : r.id = s.id => r = s,
         NEW new, new \in ToSet(left),
         \A r \in ToSet(left) : r = new \/ r \in ToSet(rows),
         \A r \in ToSet(rows) : r.id = new.id \/ r \in ToSet(left)
  PROVE  ContentsOf(left) = PutIn(ContentsOf(rows), new.id, new.content)
<1> DEFINE g == [i \in DOMAIN ContentsOf(rows) \union {new.id} |->
                   IF i = new.id THEN new.content ELSE ContentsOf(rows)[i]]
<1>1. /\ DOMAIN ContentsOf(left) = {r.id : r \in ToSet(left)}
      /\ \A r \in ToSet(left) : ContentsOf(left)[r.id] = r.content
      /\ ContentsOf(left) = [id \in DOMAIN ContentsOf(left) |-> ContentsOf(left)[id]]
  BY Contents, Zenon
<1>2. /\ DOMAIN ContentsOf(rows) = {r.id : r \in ToSet(rows)}
      /\ \A r \in ToSet(rows) : ContentsOf(rows)[r.id] = r.content
  BY Contents, Zenon
<1>3. DOMAIN ContentsOf(left) = DOMAIN ContentsOf(rows) \union {new.id}
  BY <1>1, <1>2
<1>4. ASSUME NEW r \in ToSet(left) PROVE g[r.id] = r.content
  <2>1. r.id \in DOMAIN ContentsOf(rows) \union {new.id}
    BY <1>1, <1>3
  <2>2. CASE r.id = new.id
    BY <2>1, <2>2
  <2>3. CASE r.id # new.id
    <3>1. r \in ToSet(rows) /\ g[r.id] = ContentsOf(rows)[r.id]
      BY <2>1, <2>3
    <3> QED
      BY <1>2, <3>1
  <2> QED
    BY <2>2, <2>3
<1>5. \A i \in DOMAIN ContentsOf(left) : ContentsOf(left)[i] = g[i]
  <2> HIDE DEF g
  <2> QED
    BY <1>1, <1>4
<1>6. g = [i \in DOMAIN g |-> g[i]] /\ DOMAIN g = DOMAIN ContentsOf(rows) \union {new.id}
  OBVIOUS
<1> HIDE DEF g
<1>7. ContentsOf(left) = g
  BY <1>1, <1>3, <1>5, <1>6
<1> QED
  BY <1>7 DEF g, PutIn

\* A record fewer is its content fewer.
LEMMA ContentsWithout ==
  ASSUME NEW rows, \A r, s \in ToSet(rows) : r.id = s.id => r = s,
         NEW old \in ToSet(rows), NEW left, ToSet(left) = ToSet(rows) \ {old}
  PROVE  ContentsOf(left) = [i \in DOMAIN ContentsOf(rows) \ {old.id} |-> ContentsOf(rows)[i]]
<1> DEFINE g == [i \in DOMAIN ContentsOf(rows) \ {old.id} |-> ContentsOf(rows)[i]]
<1>1. /\ DOMAIN ContentsOf(left) = {r.id : r \in ToSet(left)}
      /\ \A r \in ToSet(left) : ContentsOf(left)[r.id] = r.content
      /\ ContentsOf(left) = [id \in DOMAIN ContentsOf(left) |-> ContentsOf(left)[id]]
  <2>1. \A r, s \in ToSet(left) : r.id = s.id => r = s
    OBVIOUS
  <2> QED
    BY <2>1, Contents, Zenon
<1>2. /\ DOMAIN ContentsOf(rows) = {r.id : r \in ToSet(rows)}
      /\ \A r \in ToSet(rows) : ContentsOf(rows)[r.id] = r.content
  BY Contents, Zenon
<1>3. DOMAIN ContentsOf(left) = DOMAIN ContentsOf(rows) \ {old.id}
  BY <1>1, <1>2
<1>4. \A i \in DOMAIN ContentsOf(left) : ContentsOf(left)[i] = g[i]
  <2> TAKE i \in DOMAIN ContentsOf(left)
  <2>1. PICK r \in ToSet(left) : r.id = i
    BY <1>1
  <2>2. g[i] = ContentsOf(rows)[i]
    BY <1>3
  <2> HIDE DEF g
  <2> QED
    BY <1>1, <1>2, <2>1, <2>2
<1>5. g = [i \in DOMAIN g |-> g[i]] /\ DOMAIN g = DOMAIN ContentsOf(rows) \ {old.id}
  OBVIOUS
<1> HIDE DEF g
<1>6. ContentsOf(left) = g
  BY <1>1, <1>3, <1>4, <1>5
<1> QED
  BY <1>6 DEF g

\* What a database holds as a store.
LEMMA StoreTyped ==
  ASSUME NEW tabs, NEW next, NEW old, Sound(tabs, next, old)
  PROVE  StoreOf(tabs) \in [Table -> UNION {[I -> Content] : I \in SUBSET Id}]
<1>1. \A t \in Table : RowsIn(tabs, t) \in Seq(Record) /\ Distinct(RowsIn(tabs, t))
  BY SoundRows, Zenon
<1>2. ASSUME NEW t \in Table PROVE ContentsOf(RowsIn(tabs, t)) \in UNION {[I -> Content] : I \in SUBSET Id}
  <2> DEFINE rows == RowsIn(tabs, t)
             c == ContentsOf(rows)
  <2>1. ToSet(rows) \in SUBSET Record /\ \A r, s \in ToSet(rows) : r.id = s.id => r = s
    <3>1. rows \in Seq(Record) /\ Distinct(rows)
      BY <1>1
    <3> HIDE DEF rows
    <3> QED
      BY <3>1, Items, OneRecordPerId
  <2> HIDE DEF rows
  <2>2. /\ DOMAIN c = {r.id : r \in ToSet(rows)}
        /\ \A r \in ToSet(rows) : c[r.id] = r.content
        /\ c = [id \in DOMAIN c |-> c[id]]
    BY <2>1, Contents, Zenon
  <2> HIDE DEF c
  <2>3. \A r \in Record : r.id \in Id /\ r.content \in Content
    BY DEF Record
  <2>4. DOMAIN c \in SUBSET Id /\ \A i \in DOMAIN c : c[i] \in Content
    BY <2>1, <2>2, <2>3
  <2>5. c \in [DOMAIN c -> Content]
    BY <2>2, <2>4
  <2>6. c \in UNION {[I -> Content] : I \in SUBSET Id}
    BY <2>4, <2>5
  <2> QED
    BY <2>6 DEF c, rows
<1> QED
  BY <1>2, StoreByTable

\* What a bundle brings are ids.
LEMMA BroughtTyped ==
  ASSUME NEW old \in {NoTables} \union OldBundles
  PROVE  BroughtOf(old) \in [Table -> SUBSET Id]
<1>1. Sound(old, 0, old)
  BY OldBundleIsSound, NoTablesIsSound
<1>2. ASSUME NEW t \in Table PROVE BroughtIds(old, t) \in SUBSET Id
  <2> DEFINE rows == RowsIn(old, t)
  <2>1. rows \in Seq(Record)
    BY <1>1, SoundRows, Zenon
  <2> HIDE DEF rows
  <2>2. ToSet(rows) \in SUBSET Record
    BY <2>1, Items
  <2> QED
    BY <2>2 DEF BroughtIds, Record, rows
<1> QED
  BY <1>2 DEF BroughtOf

\* The stand-in for no store is not one that is kept aside.
LEMMA CopyIsSome ==
  ASSUME NEW tabs, NEW next, NEW old \in {NoTables} \union OldBundles, Sound(tabs, next, old)
  PROVE  Store!Copy(StoreOf(tabs), BroughtOf(old)) # Nothing
<1> DEFINE st == StoreOf(tabs)
           br == BroughtOf(old)
<1>1. st \in [Table -> UNION {[I -> Content] : I \in SUBSET Id}] /\ br \in [Table -> SUBSET Id]
  BY StoreTyped, BroughtTyped
<1> HIDE DEF st, br
<1>2. [store |-> st, brought |-> br] # Nothing
  BY <1>1, NothingAssumption
<1> QED
  BY <1>2 DEF Store!Copy, st, br

\* A write replaces the contents of one table of the store.
LEMMA StoreSet ==
  ASSUME IInv, NEW t \in Table, NEW rows \in Seq(Record), tables' = SetTable(t, rows)
  PROVE  /\ StoreOf(tables') = [StoreOf(tables) EXCEPT ![t] = ContentsOf(rows)]
         /\ StoreOf(tables)[t] = ContentsOf(Rows(t))
<1>1. \A u \in Table : RowsIn(tables', u) = IF u = t THEN rows ELSE Rows(u)
  BY TableSet DEF IInv, TypeOK
<1>2. StoreOf(tables') = [u \in Table |-> ContentsOf(RowsIn(tables', u))]
  BY StoreByTable
<1>3. StoreOf(tables) = [u \in Table |-> ContentsOf(Rows(u))]
  BY StoreByTable DEF Rows
<1> QED
  BY <1>1, <1>2, <1>3

\* What the store keeps aside.
KeptStore == IF saved = Nothing THEN Nothing
             ELSE [store |-> StoreOf(saved.tables), brought |-> BroughtOf(savedOrigin)]

\* The kept store changes only with the bundle.
LEMMA KeptSame == UNCHANGED <<saved, savedOrigin>> => UNCHANGED KeptStore
BY DEF KeptStore

\* What is brought changes only with the history.
LEMMA BroughtSame == UNCHANGED origin => UNCHANGED BroughtOf(origin)
OBVIOUS

\* No tables are the empty store, with nothing brought.
LEMMA EmptyStore == StoreOf(NoTables) = Store!Empty /\ BroughtOf(NoTables) = Store!None
<1> DEFINE none == NoTables
           e == <<>>
<1>1. DOMAIN none = {} /\ DOMAIN e = {}
  BY DEF NoTables
<1>2. \A t \in Table : RowsIn(none, t) = e
  BY <1>1 DEF RowsIn
<1> HIDE DEF e, none
<1>3. ToSet(e) = {}
  BY <1>1 DEF ToSet
<1>4. ContentsOf(e) = [id \in {} |-> Nothing]
  BY <1>3 DEF ContentsOf
<1>5. StoreOf(none) = [t \in Table |-> ContentsOf(RowsIn(none, t))]
  BY StoreByTable
<1>6. StoreOf(none) = Store!Empty
  BY <1>2, <1>4, <1>5 DEF Store!Empty
<1>7. \A t \in Table : BroughtIds(none, t) = {}
  BY <1>2, <1>3 DEF BroughtIds
<1>8. BroughtOf(none) = Store!None
  BY <1>7 DEF BroughtOf, Store!None
<1> QED
  BY <1>6, <1>8 DEF none

\* Each write is the store's: insert takes an id that is free in its table, or one
\* an old bundle brought,
LEMMA InsertIsInsert ==
  ASSUME IInv, NEW t \in Table, NEW content \in Given, insert(t, content)
  PROVE  Store!Insert(t, content)
<1> DEFINE r == [id |-> sequence, timestamp |-> sequence, content |-> content, updatedAt |-> Nothing]
           rows == Put(Rows(t), r)
<1>1. /\ sequence \in 0 .. MaxSequence /\ MaxSequence \in Nat /\ tables' = SetTable(t, rows)
      /\ UNCHANGED <<origin, saved, savedOrigin>>
  BY DataAssumption DEF IInv, TypeOK, insert, bundles
<1>2. r \in Record /\ r.id = sequence /\ r.content = content
  BY <1>1, DataAssumption DEF Record, Id
<1> HIDE DEF r
<1>3. PICK old \in Record :
        /\ old.id = r.id
        /\ rows \in Seq(Record) /\ Distinct(rows)
        /\ ToSet(rows) = (ToSet(Rows(t)) \ {old}) \union {r}
        /\ \A s \in ToSet(Rows(t)) : s.id = r.id => s = old
  <2>1. Rows(t) \in Seq(Record) /\ Distinct(Rows(t))
    BY RowsFacts
  <2> QED
    BY <1>2, <2>1, PutChanges
<1> HIDE DEF rows
<1>4. /\ \A a, b \in ToSet(Rows(t)) : a.id = b.id => a = b
      /\ \A a, b \in ToSet(rows) : a.id = b.id => a = b
  BY <1>3, RowsFacts, OneRecordPerId
<1>5. /\ r \in ToSet(rows)
      /\ \A a \in ToSet(rows) : a = r \/ a \in ToSet(Rows(t))
      /\ \A a \in ToSet(Rows(t)) : a.id = r.id \/ a \in ToSet(rows)
  BY <1>3
<1>6. ContentsOf(rows) = PutIn(ContentsOf(Rows(t)), sequence, content)
  <2>1. ContentsOf(rows) = PutIn(ContentsOf(Rows(t)), r.id, r.content)
    BY <1>4, <1>5, ContentsPut
  <2> QED
    BY <1>2, <2>1
<1>7. /\ StoreOf(tables') = [StoreOf(tables) EXCEPT ![t] = ContentsOf(rows)]
      /\ StoreOf(tables)[t] = ContentsOf(Rows(t))
  BY <1>1, <1>3, StoreSet
<1>8. sequence \in Id
  BY <1>2 DEF Record
<1>9. sequence \in DOMAIN StoreOf(tables)[t] => sequence \in BroughtOf(origin)[t]
  <2> SUFFICES ASSUME sequence \in DOMAIN StoreOf(tables)[t] PROVE sequence \in BroughtIds(origin, t)
    BY DEF BroughtOf
  <2>1. DOMAIN ContentsOf(Rows(t)) = {s.id : s \in ToSet(Rows(t))}
    BY <1>4, Contents, Zenon
  <2>2. PICK s \in ToSet(Rows(t)) : s.id = sequence
    BY <1>7, <2>1
  <2>3. Behind(s, t, sequence, origin)
    BY RowsFacts
  <2> QED
    BY <1>1, <2>2, <2>3 DEF Behind
<1>10. StoreOf(tables') = Store!With(t, sequence, content)
  BY <1>6, <1>7 DEF PutIn, Store!With
<1>11. UNCHANGED KeptStore /\ UNCHANGED BroughtOf(origin)
  BY <1>1, KeptSame, BroughtSame
<1> QED
  BY <1>8, <1>9, <1>10, <1>11, Zenon DEF Store!Insert, KeptStore

\* update gives the id another content,
LEMMA UpdateIsUpdate ==
  ASSUME IInv, NEW t \in Table, NEW id \in Ids(t), NEW content \in Given, update(t, id, content)
  PROVE  id \in DOMAIN StoreOf(tables)[t] /\ Store!Update(t, id, content)
<1> DEFINE old == Row(t, id)
           r == [old EXCEPT !.content = content, !.updatedAt = sequence]
           rows == Put(Rows(t), r)
<1>1. sequence \in Int /\ content \in Content /\ tables' = SetTable(t, rows) /\ UNCHANGED <<origin, saved, savedOrigin>>
  <2>1. sequence \in Int /\ content \in Content
    BY DataAssumption DEF IInv, TypeOK
  <2>2. tables' = SetTable(t, rows) /\ UNCHANGED <<origin, saved, savedOrigin>>
    BY DEF update, Rewrite, bundles
  <2> QED
    BY <2>1, <2>2
<1>2. old \in ToSet(Rows(t)) /\ old.id = id /\ old \in Record
  BY RowFacts
<1>3. r \in Record /\ r.id = old.id /\ r.content = content
  <2> HIDE DEF old
  <2>1. r = [old EXCEPT !.content = content, !.updatedAt = sequence]
    OBVIOUS
  <2> HIDE DEF r
  <2> QED
    BY <1>1, <1>2, <2>1 DEF Record
<1> HIDE DEF old, r
<1>4. rows \in Seq(Record) /\ Distinct(rows) /\ ToSet(rows) = (ToSet(Rows(t)) \ {old}) \union {r}
  BY <1>2, <1>3, RowsFacts, PutReplaces
<1> HIDE DEF rows
<1>5. /\ \A a, b \in ToSet(Rows(t)) : a.id = b.id => a = b
      /\ \A a, b \in ToSet(rows) : a.id = b.id => a = b
  BY <1>4, RowsFacts, OneRecordPerId
<1>6. /\ r \in ToSet(rows)
      /\ \A a \in ToSet(rows) : a = r \/ a \in ToSet(Rows(t))
      /\ \A a \in ToSet(Rows(t)) : a.id = r.id \/ a \in ToSet(rows)
  BY <1>3, <1>4
<1>7. ContentsOf(rows) = PutIn(ContentsOf(Rows(t)), id, content)
  <2>1. ContentsOf(rows) = PutIn(ContentsOf(Rows(t)), r.id, r.content)
    BY <1>5, <1>6, ContentsPut
  <2> QED
    BY <1>2, <1>3, <2>1
<1>8. /\ StoreOf(tables') = [StoreOf(tables) EXCEPT ![t] = ContentsOf(rows)]
      /\ StoreOf(tables)[t] = ContentsOf(Rows(t))
  BY <1>1, <1>4, StoreSet
<1>9. StoreOf(tables') = Store!With(t, id, content)
  BY <1>7, <1>8 DEF PutIn, Store!With
<1>10. id \in DOMAIN StoreOf(tables)[t]
  <2>1. DOMAIN ContentsOf(Rows(t)) = {s.id : s \in ToSet(Rows(t))}
    BY <1>5, Contents, Zenon
  <2> QED
    BY <1>8, <2>1 DEF Ids
<1>11. UNCHANGED KeptStore /\ UNCHANGED BroughtOf(origin)
  BY <1>1, KeptSame, BroughtSame
<1> QED
  BY <1>9, <1>10, <1>11, Zenon DEF Store!Update, KeptStore

\* delete frees it,
LEMMA DeleteIsDelete ==
  ASSUME IInv, NEW t \in Table, NEW id \in Ids(t), delete(t, id)
  PROVE  id \in DOMAIN StoreOf(tables)[t] /\ Store!Delete(t, id)
<1> DEFINE old == Row(t, id)
           rows == Within(Rows(t), {r \in ToSet(Rows(t)) : r.id # id})
<1>1. old \in ToSet(Rows(t)) /\ old.id = id
  BY RowFacts
<1>2. tables' = SetTable(t, rows) /\ UNCHANGED <<origin, saved, savedOrigin>>
  BY DEF delete, bundles
<1> HIDE DEF old
<1>3. rows \in Seq(Record) /\ ToSet(rows) = ToSet(Rows(t)) \ {old}
  BY <1>1, RowsFacts, RowsWithout
<1> HIDE DEF rows
<1>4. \A a, b \in ToSet(Rows(t)) : a.id = b.id => a = b
  BY RowsFacts
<1>5. ContentsOf(rows) = [i \in DOMAIN ContentsOf(Rows(t)) \ {id} |-> ContentsOf(Rows(t))[i]]
  <2>1. ContentsOf(rows) = [i \in DOMAIN ContentsOf(Rows(t)) \ {old.id} |-> ContentsOf(Rows(t))[i]]
    BY <1>1, <1>3, <1>4, ContentsWithout
  <2> QED
    BY <1>1, <2>1
<1>6. /\ StoreOf(tables') = [StoreOf(tables) EXCEPT ![t] = ContentsOf(rows)]
      /\ StoreOf(tables)[t] = ContentsOf(Rows(t))
  BY <1>2, <1>3, StoreSet
<1>7. id \in DOMAIN StoreOf(tables)[t]
  <2>1. DOMAIN ContentsOf(Rows(t)) = {s.id : s \in ToSet(Rows(t))}
    BY <1>4, Contents, Zenon
  <2> QED
    BY <1>6, <2>1 DEF Ids
<1>8. StoreOf(tables') = [StoreOf(tables) EXCEPT ![t] = [i \in DOMAIN @ \ {id} |-> @[i]]]
  BY <1>5, <1>6
<1>9. UNCHANGED KeptStore /\ UNCHANGED BroughtOf(origin)
  BY <1>2, KeptSame, BroughtSame
<1> QED
  BY <1>7, <1>8, <1>9, Zenon DEF Store!Delete, KeptStore

\* a commit keeps the store aside,
LEMMA SerializeIsKeep ==
  ASSUME IInv, _serializePlaintext
  PROVE  Store!Keep
<1>1. saved' = [sequence |-> sequence, tables |-> tables] /\ savedOrigin' = origin /\ UNCHANGED <<tables, origin>>
  BY DEF _serializePlaintext, Serialize
<1>2. IsTables(tables) /\ sequence \in 0 .. MaxSequence
  BY DEF IInv, TypeOK
<1>3. saved' # Nothing /\ saved'.tables = tables
  <2>1. tables \in UNION {[T -> Seq(Record)] : T \in SUBSET Table}
    BY <1>2 DEF IsTables
  <2> QED
    BY <1>1, <1>2, <2>1, NothingAssumption
<1>4. KeptStore' = [store |-> StoreOf(tables), brought |-> BroughtOf(origin)]
  BY <1>1, <1>3 DEF KeptStore
<1>5. KeptStore' = Store!Copy(StoreOf(tables), BroughtOf(origin))
  BY <1>4 DEF Store!Copy
<1>6. UNCHANGED StoreOf(tables) /\ UNCHANGED BroughtOf(origin)
  BY <1>1
<1> QED
  BY <1>5, <1>6, Zenon DEF Store!Keep, KeptStore

\* and a load brings back what was kept.
LEMMA LoadIsRestore ==
  ASSUME IInv, _loadPlaintext
  PROVE  Store!Restore
<1>1. saved # Nothing /\ tables' = saved.tables /\ origin' = savedOrigin /\ UNCHANGED <<saved, savedOrigin>>
  BY DEF _loadPlaintext, Adopt, Install, bundles
<1>2. KeptStore = [store |-> StoreOf(saved.tables), brought |-> BroughtOf(savedOrigin)]
  BY <1>1 DEF KeptStore
<1>3. KeptStore # Nothing
  <2>1. Sound(saved.tables, saved.sequence, savedOrigin) /\ savedOrigin \in {NoTables} \union OldBundles
    BY <1>1 DEF IInv, SavedSound, TypeOK
  <2>2. Store!Copy(StoreOf(saved.tables), BroughtOf(savedOrigin)) # Nothing
    BY <2>1, CopyIsSome
  <2> QED
    BY <1>2, <2>2 DEF Store!Copy
<1>4. StoreOf(tables') = KeptStore.store /\ BroughtOf(origin') = KeptStore.brought
  BY <1>1, <1>2
<1>5. UNCHANGED KeptStore
  BY <1>1, KeptSame
<1> QED
  BY <1>3, <1>4, <1>5, Zenon DEF Store!Restore, KeptStore

\* Every run of the database is a run of a plain store of records: a write changes
\* one record, an insertion lands on no record that is there but one an old bundle
\* brought, a load brings back what was saved, and index operations do not show.
THEOREM DatabaseIsAStore == Spec => ImplementsRecordStore
<1>1. Init => Store!Init
  <2> SUFFICES ASSUME Init PROVE Store!Init
    OBVIOUS
  <2>1. StoreOf(tables) = Store!Empty /\ BroughtOf(origin) = Store!None
    BY EmptyStore DEF Init
  <2>2. ASSUME NEW b \in OldBundles, saved = OldBundle(b), savedOrigin = b
        PROVE  KeptStore \in {Nothing} \union {Store!Found(StoreOf(c)) : c \in OldBundles}
    <3>1. saved.tables = b
      BY <2>2 DEF OldBundle
    <3>2. [t \in Table |-> DOMAIN StoreOf(b)[t]] = BroughtOf(b)
      BY DEF StoreOf, BroughtOf, BroughtIds
    <3>3. Store!Found(StoreOf(b)) = [store |-> StoreOf(b), brought |-> BroughtOf(b)]
      BY <3>2, Zenon DEF Store!Found, Store!Copy
    <3>4. KeptStore = Nothing \/ KeptStore = Store!Found(StoreOf(b))
      BY <2>2, <3>1, <3>3, Zenon DEF KeptStore
    <3> QED
      BY <3>4
  <2>3. KeptStore \in {Nothing} \union {Store!Found(StoreOf(c)) : c \in OldBundles}
    <3>1. saved = Nothing \/ \E b \in OldBundles : saved = OldBundle(b) /\ savedOrigin = b
      BY DEF Init
    <3>2. CASE saved = Nothing
      BY <3>2 DEF KeptStore
    <3> QED
      BY <2>2, <3>1, <3>2
  <2>4. KeptStore \in {Nothing} \union {Store!Found(f) : f \in {StoreOf(b) : b \in OldBundles}}
    BY <2>3
  <2> QED
    BY <2>1, <2>4, Zenon DEF Store!Init, KeptStore
<1>2. IInv /\ [Next]_vars => [Store!Next]_(Store!vars)
  <2> SUFFICES ASSUME IInv, [Next]_vars PROVE [Store!Next]_(Store!vars)
    OBVIOUS
  <2>1. ASSUME NEW t \in Table, NEW f \in Field, createIndex(t, f) PROVE UNCHANGED Store!vars
    BY <2>1, KeptSame, BroughtSame DEF createIndex, bundles, Store!vars, KeptStore
  <2>2. ASSUME NEW t \in Table, NEW content \in Given, insert(t, content) PROVE Store!Next
    <3>1. Store!Insert(t, content) /\ content \in Content
      BY <2>2, InsertIsInsert, DataAssumption
    <3> QED
      BY <3>1, Zenon DEF Store!Next
  <2>3. ASSUME NEW t \in Table, NEW id \in Ids(t), delete(t, id) PROVE Store!Next
    <3>1. id \in DOMAIN StoreOf(tables)[t] /\ Store!Delete(t, id)
      BY <2>3, DeleteIsDelete
    <3> QED
      BY <3>1, Zenon DEF Store!Next
  <2>4. ASSUME NEW t \in Table, NEW id \in Ids(t), NEW content \in Given, update(t, id, content) PROVE Store!Next
    <3>1. id \in DOMAIN StoreOf(tables)[t] /\ Store!Update(t, id, content) /\ content \in Content
      BY <2>4, UpdateIsUpdate, DataAssumption
    <3> QED
      BY <3>1, Zenon DEF Store!Next
  <2>5. CASE _serializePlaintext
    BY <2>5, SerializeIsKeep DEF Store!Next
  <2>6. CASE _loadPlaintext
    BY <2>6, LoadIsRestore DEF Store!Next
  <2>7. CASE constructor
    <3>1. StoreOf(tables') = Store!Empty /\ BroughtOf(origin') = Store!None /\ UNCHANGED KeptStore
      BY <2>7, EmptyStore, KeptSame DEF constructor, bundles
    <3> QED
      BY <3>1 DEF Store!Restart, Store!Next, KeptStore
  <2>8. CASE UNCHANGED vars
    BY <2>8, KeptSame, BroughtSame DEF vars, bundles, Store!vars, KeptStore
  <2> QED
    BY <2>1, <2>2, <2>3, <2>4, <2>5, <2>6, <2>7, <2>8 DEF Next
<1> QED
  BY IInvHolds, <1>1, <1>2, PTL DEF Spec, Store!Spec, ImplementsRecordStore

---------------------------------------------------------------------------
(* Queries *)

\* What a scan of the store finds, in terms of the rows.
LEMMA FoundIs ==
  ASSUME IInv, NEW t \in Table, NEW q
  PROVE  Store!Find(t, {c \in Content : _match(c, q)}) = {id \in Ids(t) : _match(Row(t, id).content, q)}
<1>1. StoreOf(tables)[t] = ContentsOf(Rows(t))
  BY StoreByTable DEF Rows
<1>2. /\ DOMAIN ContentsOf(Rows(t)) = Ids(t)
      /\ \A r \in ToSet(Rows(t)) : ContentsOf(Rows(t))[r.id] = r.content
  <2>1. \A r, s \in ToSet(Rows(t)) : r.id = s.id => r = s
    BY RowsFacts
  <2> QED
    BY <2>1, Contents, Zenon DEF Ids
<1>3. \A id \in Ids(t) : ContentsOf(Rows(t))[id] = Row(t, id).content /\ Row(t, id).content \in Content
  <2> TAKE id \in Ids(t)
  <2>1. Row(t, id) \in ToSet(Rows(t)) /\ Row(t, id).id = id /\ Row(t, id) \in Record
    BY RowFacts
  <2> QED
    BY <1>2, <2>1 DEF Record
<1> QED
  BY <1>1, <1>2, <1>3 DEF Store!Find

\* The conditions of a query that are read, and those looked up in an index.
LEMMA LookupsAre ==
  ASSUME NEW t, NEW q, q \in Seq(ToSet(q))
  PROVE  /\ safeFieldKeys(q) \in Seq(ToSet(q))
         /\ ToSet(safeFieldKeys(q)) = {c \in ToSet(q) : c.field \notin Dangerous}
         /\ Lookups(t, q) \in Seq(ToSet(q))
         /\ ToSet(Lookups(t, q)) = {c \in ToSet(safeFieldKeys(q)) : c.field \in DOMAIN indices[t] /\ Exact(c)}
<1> DEFINE T == {c \in ToSet(q) : c.field \notin Dangerous}
           U == {c \in ToSet(q) : c.field \in DOMAIN indices[t] /\ Exact(c)}
<1>1. safeFieldKeys(q) = Within(q, T) /\ Lookups(t, q) = Within(safeFieldKeys(q), U)
  BY DEF safeFieldKeys, Lookups
<1> HIDE DEF T, U
<1>2. safeFieldKeys(q) \in Seq(ToSet(q)) /\ ToSet(safeFieldKeys(q)) = ToSet(q) \intersect T
  BY <1>1, WithinItems
<1>3. Lookups(t, q) \in Seq(ToSet(q)) /\ ToSet(Lookups(t, q)) = ToSet(safeFieldKeys(q)) \intersect U
  BY <1>1, <1>2, WithinItems
<1> QED
  BY <1>2, <1>3 DEF T, U

\* A sequence without items is empty.
LEMMA NoItems ==
  ASSUME NEW S, NEW s \in Seq(S)
  PROVE  /\ (s = <<>>) <=> (ToSet(s) = {})
         /\ s # <<>> => s[1] \in ToSet(s)
<1>1. DOMAIN s = 1 .. Len(s) /\ Len(s) \in Nat /\ ((s = <<>>) <=> (Len(s) = 0))
  BY LenProperties, EmptySeq
<1>2. CASE Len(s) = 0
  <2>1. DOMAIN s = {}
    BY <1>1, <1>2
  <2> QED
    BY <1>1, <1>2, <2>1 DEF ToSet
<1>3. CASE Len(s) # 0
  <2>1. 1 \in DOMAIN s
    BY <1>1, <1>3
  <2>2. s[1] \in ToSet(s)
    BY <2>1, Zenon DEF ToSet
  <2> QED
    BY <1>1, <1>3, <2>2
<1> QED
  BY <1>2, <1>3

\* What an index returns for an exact value: each record that has it, once, and
\* perhaps ids an old bundle brought.
LEMMA HitsAre ==
  ASSUME IInv, NEW t \in Table, NEW c, c.field \in DOMAIN indices[t]
  PROVE  /\ Hits(t, c) \in Seq(Id) /\ IsInjective(Hits(t, c))
         /\ \A r \in ToSet(Rows(t)) :
              Indexable(r.content, c.field) /\ r.content[c.field] = ExactValue(c) => r.id \in ToSet(Hits(t, c))
         /\ \A id \in ToSet(Hits(t, c)) : id \in Ids(t) \/ id \in BroughtIds(origin, t)
<1> DEFINE ix == indices[t][c.field]
           T == {p \in ToSet(ix) : p[1] = ExactValue(c)}
           pairs == Within(ix, T)
           hits == Hits(t, c)
<1>1. /\ ix \in Seq(Value \X Id) /\ IsInjective(ix) /\ Pairs(ToSet(Rows(t)), c.field) \subseteq ToSet(ix)
      /\ \A p \in ToSet(ix) : p \in Pairs(ToSet(Rows(t)), c.field) \/ p[2] \in BroughtIds(origin, t)
  BY Zenon DEF IInv, IndicesCover, Covers
<1>2. hits = [i \in DOMAIN pairs |-> pairs[i][2]]
  BY Zenon DEF Hits
<1>3. pairs \in Seq(Value \X Id) /\ IsInjective(pairs) /\ ToSet(pairs) = ToSet(ix) \intersect T
  <2> HIDE DEF ix, T
  <2> QED
    BY <1>1, WithinItems
<1>4. ToSet(pairs) = T
  BY <1>3
<1> HIDE DEF pairs, hits
<1>5. DOMAIN pairs = 1 .. Len(pairs) /\ Len(pairs) \in Nat
      /\ \A i \in DOMAIN pairs : pairs[i] \in Value \X Id /\ pairs[i] \in T
  <2>1. DOMAIN pairs = 1 .. Len(pairs) /\ Len(pairs) \in Nat /\ \A i \in DOMAIN pairs : pairs[i] \in Value \X Id
    BY <1>3, LenProperties, ElementOfSeq
  <2>2. \A i \in DOMAIN pairs : pairs[i] \in ToSet(pairs)
    BY Zenon DEF ToSet
  <2> QED
    BY <1>4, <2>1, <2>2
<1>6. \A i \in DOMAIN pairs : pairs[i] = <<ExactValue(c), pairs[i][2]>> /\ pairs[i][2] \in Id
  <2> TAKE i \in DOMAIN pairs
  <2>1. pairs[i] \in Value \X Id /\ pairs[i][1] = ExactValue(c)
    BY <1>5
  <2> QED
    BY <2>1
<1>7. hits \in Seq(Id)
  <2>1. hits \in [1 .. Len(pairs) -> Id]
    BY <1>2, <1>5, <1>6
  <2> QED
    BY <1>5, <2>1, FunctionIsSeq
<1>8. IsInjective(hits)
  <2>1. ASSUME NEW i \in DOMAIN hits, NEW j \in DOMAIN hits, hits[i] = hits[j] PROVE i = j
    <3>1. i \in DOMAIN pairs /\ j \in DOMAIN pairs /\ pairs[i][2] = pairs[j][2]
      BY <1>2, <2>1
    <3>2. pairs[i] = pairs[j]
      BY <1>6, <3>1
    <3> QED
      BY <1>3, <3>1, <3>2 DEF IsInjective
  <2> QED
    BY <2>1, Zenon DEF IsInjective
<1>9. \A id : id \in ToSet(hits) <=> <<ExactValue(c), id>> \in T
  <2>1. \A id : id \in ToSet(hits) <=> \E i \in DOMAIN pairs : id = pairs[i][2]
    BY <1>2 DEF ToSet
  <2>2. \A p : p \in T <=> \E i \in DOMAIN pairs : p = pairs[i]
    BY <1>4 DEF ToSet
  <2> HIDE DEF T
  <2>3. ASSUME NEW id, id \in ToSet(hits) PROVE <<ExactValue(c), id>> \in T
    BY <1>6, <2>1, <2>2, <2>3
  <2>4. ASSUME NEW id, <<ExactValue(c), id>> \in T PROVE id \in ToSet(hits)
    <3>1. PICK i \in DOMAIN pairs : <<ExactValue(c), id>> = pairs[i]
      BY <2>2, <2>4
    <3>2. id = pairs[i][2]
      BY <3>1
    <3> QED
      BY <2>1, <3>2
  <2> QED
    BY <2>3, <2>4
<1>10. ASSUME NEW r \in ToSet(Rows(t)), Indexable(r.content, c.field), r.content[c.field] = ExactValue(c)
       PROVE  r.id \in ToSet(hits)
  <2>1. <<r.content[c.field], r.id>> \in Pairs(ToSet(Rows(t)), c.field)
    BY <1>10 DEF Pairs
  <2>2. <<ExactValue(c), r.id>> \in ToSet(ix)
    BY <1>1, <1>10, <2>1
  <2>3. <<ExactValue(c), r.id>> \in T
    BY <2>2
  <2> QED
    BY <1>9, <2>3
<1>11. ASSUME NEW id \in ToSet(hits) PROVE id \in Ids(t) \/ id \in BroughtIds(origin, t)
  <2> DEFINE p == <<ExactValue(c), id>>
  <2>1. p \in ToSet(ix) /\ p[2] = id
    BY <1>9
  <2>2. p \in Pairs(ToSet(Rows(t)), c.field) => id \in Ids(t)
    BY DEF Pairs, Ids
  <2> HIDE DEF p
  <2> QED
    BY <1>1, <2>1, <2>2
<1> QED
  BY <1>7, <1>8, <1>10, <1>11 DEF hits

\* A record that matches has, for each condition read through an index by a value
\* that is not null, that value in that field.
LEMMA MatchingIsIndexed ==
  ASSUME NEW t, NEW q, q \in Seq(ToSet(q)), NEW content, _match(content, q),
         NEW c \in ToSet(Lookups(t, q)), ExactValue(c) # Null
  PROVE  Indexable(content, c.field) /\ content[c.field] = ExactValue(c)
<1>1. c \in ToSet(safeFieldKeys(q)) /\ Exact(c)
  BY LookupsAre
<1>2. safeFieldKeys(q) # <<>>
  <2>1. safeFieldKeys(q) \in Seq(ToSet(q))
    BY LookupsAre
  <2> QED
    BY <1>1, <2>1, NoItems
<1>3. content \notin Scalars /\ Meets(content, c)
  BY <1>1, <1>2, Zenon DEF _match
<1>4. Has(content, c.field) /\ content[c.field] = ExactValue(c)
  BY <1>1, <1>3 DEF Meets, Exact, ExactValue
<1> QED
  BY <1>4 DEF Indexable

\* The ids a query looks at are of records that are there or were brought by an
\* old bundle, each once; unless it looks null up, none that matches is missed.
LEMMA CandidatesAre ==
  ASSUME IInv, NEW t \in Table, NEW q, q \in Seq(ToSet(q))
  PROVE  /\ Candidates(t, q) \in Seq(Id) /\ IsInjective(Candidates(t, q))
         /\ ToSet(Candidates(t, q)) \ Ids(t) \subseteq BroughtIds(origin, t)
         /\ (\A c \in ToSet(Lookups(t, q)) : ExactValue(c) # Null) =>
              \A id \in Ids(t) : _match(Row(t, id).content, q) => id \in ToSet(Candidates(t, q))
<1> DEFINE all == [i \in DOMAIN Rows(t) |-> Rows(t)[i].id]
           hits == Hits(t, Lookups(t, q)[1])
           T == {id \in ToSet(hits) : \A c \in ToSet(Lookups(t, q)) : id \in ToSet(Hits(t, c))}
<1>1. Lookups(t, q) \in Seq(ToSet(q)) /\ \A c \in ToSet(Lookups(t, q)) : c.field \in DOMAIN indices[t]
  BY LookupsAre
<1>2. CASE Lookups(t, q) = <<>>
  <2>1. Candidates(t, q) = all
    BY <1>2 DEF Candidates
  <2>2. Rows(t) \in Seq(Record) /\ Distinct(Rows(t))
    BY RowsFacts
  <2>3. DOMAIN Rows(t) = 1 .. Len(Rows(t)) /\ Len(Rows(t)) \in Nat /\ \A i \in DOMAIN Rows(t) : Rows(t)[i] \in Record
    BY <2>2, LenProperties, ElementOfSeq
  <2>4. all \in Seq(Id)
    <3>1. \A i \in DOMAIN Rows(t) : Rows(t)[i].id \in Id
      BY <2>3 DEF Record
    <3>2. all \in [1 .. Len(Rows(t)) -> Id]
      BY <2>3, <3>1
    <3> HIDE DEF all
    <3> QED
      BY <2>3, <3>2, FunctionIsSeq
  <2>5. IsInjective(all)
    <3>1. \A i, j \in DOMAIN all : all[i] = all[j] => i = j
      BY <2>2 DEF Distinct
    <3> HIDE DEF all
    <3> QED
      BY <3>1, Zenon DEF IsInjective
  <2>6. ToSet(all) = Ids(t)
    <3>1. \A id : id \in ToSet(all) <=> \E i \in DOMAIN Rows(t) : id = Rows(t)[i].id
      BY DEF ToSet
    <3>2. \A id : id \in Ids(t) <=> \E i \in DOMAIN Rows(t) : id = Rows(t)[i].id
      BY DEF Ids, ToSet
    <3> HIDE DEF all
    <3> QED
      BY <3>1, <3>2
  <2> HIDE DEF all
  <2> QED
    BY <2>1, <2>4, <2>5, <2>6
<1>3. CASE Lookups(t, q) # <<>>
  <2>1. Lookups(t, q)[1] \in ToSet(Lookups(t, q))
    BY <1>1, <1>3, NoItems
  <2>2. \A c \in ToSet(Lookups(t, q)) :
          /\ Hits(t, c) \in Seq(Id) /\ IsInjective(Hits(t, c))
          /\ \A r \in ToSet(Rows(t)) :
               Indexable(r.content, c.field) /\ r.content[c.field] = ExactValue(c) => r.id \in ToSet(Hits(t, c))
          /\ \A id \in ToSet(Hits(t, c)) : id \in Ids(t) \/ id \in BroughtIds(origin, t)
    BY <1>1, HitsAre
  <2>3. hits \in Seq(Id) /\ IsInjective(hits)
    BY <2>1, <2>2
  <2>4. ToSet(hits) \ Ids(t) \subseteq BroughtIds(origin, t)
    BY <2>1, <2>2
  <2>5. Candidates(t, q) = Within(hits, T)
    BY <1>3 DEF Candidates
  <2>6. ASSUME \A c \in ToSet(Lookups(t, q)) : ExactValue(c) # Null,
               NEW id \in Ids(t), _match(Row(t, id).content, q), NEW c \in ToSet(Lookups(t, q))
        PROVE  id \in ToSet(Hits(t, c))
    <3>1. Row(t, id) \in ToSet(Rows(t)) /\ Row(t, id).id = id
      BY RowFacts
    <3>2. Indexable(Row(t, id).content, c.field) /\ Row(t, id).content[c.field] = ExactValue(c)
      BY <2>6, MatchingIsIndexed
    <3> QED
      BY <2>2, <3>1, <3>2
  <2> HIDE DEF hits, T
  <2>7. Within(hits, T) \in Seq(Id) /\ IsInjective(Within(hits, T)) /\ ToSet(Within(hits, T)) = ToSet(hits) \intersect T
    BY <2>3, WithinItems
  <2>8. ASSUME \A c \in ToSet(Lookups(t, q)) : ExactValue(c) # Null,
               NEW id \in Ids(t), _match(Row(t, id).content, q)
        PROVE  id \in ToSet(hits) /\ id \in T
    BY <2>1, <2>6, <2>8 DEF hits, T
  <2> QED
    BY <2>4, <2>5, <2>7, <2>8
<1> QED
  BY <1>2, <1>3

\* What passes a filter that trips over nothing: of what is looked at, what matches.
LEMMA MatchingIs ==
  ASSUME IInv, NEW t \in Table, NEW q, q \in Seq(ToSet(q)), ~Throws(t, q)
  PROVE  /\ Matching(t, q) \in Seq(Id) /\ IsInjective(Matching(t, q))
         /\ ToSet(Matching(t, q)) \subseteq {id \in Ids(t) : _match(Row(t, id).content, q)}
         /\ (\A c \in ToSet(Lookups(t, q)) : ExactValue(c) # Null) =>
              ToSet(Matching(t, q)) = {id \in Ids(t) : _match(Row(t, id).content, q)}
<1>1. CASE Rows(t) = <<>>
  <2>1. Rows(t) \in Seq(Record)
    BY RowsFacts
  <2>2. ToSet(Rows(t)) = {}
    BY <1>1, <2>1, NoItems
  <2>3. Ids(t) = {}
    BY <2>2 DEF Ids
  <2> DEFINE e == <<>>
  <2>4. Matching(t, q) = e
    BY <1>1 DEF Matching
  <2>5. e \in Seq(Id) /\ DOMAIN e = {}
    OBVIOUS
  <2> HIDE DEF e
  <2>6. IsInjective(e) /\ ToSet(e) = {}
    BY <2>5 DEF IsInjective, ToSet
  <2> QED
    BY <2>3, <2>4, <2>5, <2>6
<1>2. CASE Rows(t) # <<>>
  <2> DEFINE cs == Candidates(t, q)
             T == {id \in ToSet(cs) : _match(Row(t, id).content, q)}
  <2>1. Matching(t, q) = Within(cs, T)
    BY <1>2 DEF Matching
  <2>2. /\ cs \in Seq(Id) /\ IsInjective(cs)
        /\ (\A c \in ToSet(Lookups(t, q)) : ExactValue(c) # Null) =>
             \A id \in Ids(t) : _match(Row(t, id).content, q) => id \in ToSet(cs)
    BY CandidatesAre
  <2>4. ToSet(cs) \subseteq Ids(t)
    BY <1>2 DEF Throws
  <2> HIDE DEF cs, T
  <2>3. Within(cs, T) \in Seq(Id) /\ IsInjective(Within(cs, T)) /\ ToSet(Within(cs, T)) = ToSet(cs) \intersect T
    BY <2>2, WithinItems
  <2> QED
    BY <2>1, <2>2, <2>3, <2>4 DEF T
<1> QED
  BY <1>1, <1>2

\* Sorting an answer, however the engine orders what the comparator leaves open,
\* neither loses a record nor repeats one.
LEMMA SortedKeeps ==
  ASSUME NEW t, NEW S, NEW found \in Seq(S), IsInjective(found), NEW sort, NEW answer \in Sorted(t, found, sort)
  PROVE  IsInjective(answer) /\ ToSet(answer) = ToSet(found)
<1> DEFINE F == ToSet(found)
<1>1. IsFiniteSet(F)
  <2>1. DOMAIN found = 1 .. Len(found) /\ Len(found) \in Nat
    BY LenProperties
  <2>2. found \in Surjection(1 .. Len(found), F)
    <3>1. \A i \in DOMAIN found : found[i] \in F
      BY Zenon DEF ToSet
    <3>2. \A x \in F : \E i \in DOMAIN found : found[i] = x
      BY Zenon DEF ToSet
    <3>3. found = [i \in 1 .. Len(found) |-> found[i]]
      OBVIOUS
    <3> HIDE DEF F
    <3> QED
      BY <2>1, <3>1, <3>2, <3>3 DEF Surjection
  <2>3. IsFiniteSet(1 .. Len(found))
    BY <2>1, FS_Interval
  <2> QED
    BY <2>2, <2>3, FS_Surjection
<1>2. answer = found \/ answer \in SetToSeqs(F)
  BY Zenon DEF Sorted
<1>3. ASSUME answer \in SetToSeqs(F) PROVE IsInjective(answer) /\ ToSet(answer) = F
  <2> DEFINE n == Cardinality(F)
  <2>1. n \in Nat
    BY <1>1, FS_CardinalityType
  <2>2. answer \in [1 .. n -> F] /\ \A i, j \in 1 .. n : i # j => answer[i] # answer[j]
    BY <1>3 DEF SetToSeqs
  <2> HIDE DEF F, n
  <2>3. IsInjective(answer) /\ answer \in Injection(1 .. n, F)
    BY <2>2 DEF IsInjective, Injection
  <2>4. Cardinality(1 .. n) = n
    BY <2>1, FS_Interval
  <2>5. answer \in Surjection(1 .. n, F)
    BY <1>1, <2>3, <2>4, FS_Injection DEF n
  <2>6. ToSet(answer) = F
    BY <2>2, <2>5 DEF Surjection, ToSet
  <2> QED
    BY <2>3, <2>6
<1> QED
  BY <1>2, <1>3

\* Whatever indices there are and whatever the database went through, a query
\* trips over no id that is gone but those an old bundle brought, and one that does
\* not trip, and whose sort does not throw, returns, each once, only records a scan
\* finds, and all of them unless it looks null up in an index.
THEOREM QueriesAnswerExactly == Spec => []AnswersExact
<1>1. IInv => AnswersExact
  <2> SUFFICES ASSUME IInv, NEW t \in Table, NEW q \in Queries
               PROVE  /\ ToSet(Candidates(t, q)) \ Ids(t) \subseteq BroughtIds(origin, t)
                      /\ ~Throws(t, q) =>
                           \A sort \in Sorts : \A answer \in query(t, q, sort) :
                             /\ IsInjective(answer)
                             /\ ToSet(answer) \subseteq Store!Find(t, {c \in Content : _match(c, q)})
                             /\ (\A c \in ToSet(Lookups(t, q)) : ExactValue(c) # Null) =>
                                  ToSet(answer) = Store!Find(t, {c \in Content : _match(c, q)})
    BY DEF AnswersExact
  <2>1. q \in Seq(ToSet(q))
    BY QueriesAssumption
  <2>2. ToSet(Candidates(t, q)) \ Ids(t) \subseteq BroughtIds(origin, t)
    BY <2>1, CandidatesAre
  <2>3. ASSUME ~Throws(t, q), NEW sort \in Sorts, NEW answer \in query(t, q, sort)
        PROVE  /\ IsInjective(answer)
               /\ ToSet(answer) \subseteq Store!Find(t, {c \in Content : _match(c, q)})
               /\ (\A c \in ToSet(Lookups(t, q)) : ExactValue(c) # Null) =>
                    ToSet(answer) = Store!Find(t, {c \in Content : _match(c, q)})
    <3>1. /\ Matching(t, q) \in Seq(Id) /\ IsInjective(Matching(t, q))
          /\ ToSet(Matching(t, q)) \subseteq {id \in Ids(t) : _match(Row(t, id).content, q)}
          /\ (\A c \in ToSet(Lookups(t, q)) : ExactValue(c) # Null) =>
               ToSet(Matching(t, q)) = {id \in Ids(t) : _match(Row(t, id).content, q)}
      BY <2>1, <2>3, MatchingIs
    <3>2. IsInjective(answer) /\ ToSet(answer) = ToSet(Matching(t, q))
      <4>1. answer \in Sorted(t, Matching(t, q), sort)
        BY DEF query
      <4> QED
        BY <3>1, <4>1, SortedKeeps
    <3>3. Store!Find(t, {c \in Content : _match(c, q)}) = {id \in Ids(t) : _match(Row(t, id).content, q)}
      BY FoundIs
    <3> QED
      BY <3>1, <3>2, <3>3, Zenon
  <2> QED
    BY <2>2, <2>3
<1> QED
  BY IInvHolds, <1>1, PTL

=============================================================================
