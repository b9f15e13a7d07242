---------------------------- MODULE TableProofs ----------------------------
(***************************************************************************)
(* Tables, for every set of keys, every schemas with one key column and    *)
(* every cells: an editor's table is the map its calls describe, and a     *)
(* merge decides each row by who changed it.                               *)
(*                                                                         *)
(* The argument rests on one fact about the store (Stored): a table is the *)
(* bytes of its rows and their index entries and nothing else, so what a   *)
(* table is follows from its rows. Flushing edits, altering the schema and *)
(* merging each take such a table to such a table (StoredFlushed,          *)
(* StoredAltered, MergeOfOver); decoding a row gives back what was         *)
(* encoded, for a row that fits its schema (RowsBack).                     *)
(***************************************************************************)
EXTENDS TableMerge, TableEdit, TLAPS

\* A schema the store takes, with one column for its key.
GoodSchema(s) == Validate(s) /\ Len(s.pk) = 1

\* A row of a schema: a cell for each column, its key's the row's key, each
\* one its column can hold.
GoodRow(s, k, r) ==
    /\ r = [tag \in tags(s.columns) |-> r[tag]]
    /\ r[s.pk[1]] = k
    /\ encodable(s, r)

\* Rows of a schema, by key.
GoodRows(s, rows) ==
    /\ rows = [k \in DOMAIN rows |-> rows[k]]
    /\ DOMAIN rows \subseteq Keys
    /\ \A k \in DOMAIN rows : GoodRow(s, k, rows[k])

-----------------------------------------------------------------------------
(* Schemas.                                                                *)

\* What validation settles.
LEMMA SchemaParts ==
  ASSUME NEW s, GoodSchema(s)
  PROVE  /\ s.columns \in Seq(Column) /\ Len(s.columns) \in Nat /\ DOMAIN s.columns = 1..Len(s.columns)
         /\ s.indexes \in Seq(Index) /\ Len(s.indexes) \in Nat /\ DOMAIN s.indexes = 1..Len(s.indexes)
         /\ \A i, j \in DOMAIN s.columns : s.columns[i].tag = s.columns[j].tag => i = j
         /\ \A i, j \in DOMAIN s.indexes : s.indexes[i].tag = s.indexes[j].tag => i = j
         /\ s.pk[1] \in tags(s.columns) /\ Range(s.pk) = {s.pk[1]}
<1>1. s \in Schema /\ Len(s.pk) = 1
  BY Zenon DEF GoodSchema, Validate
<1>2. s.columns \in Seq(Column) /\ s.indexes \in Seq(Index) /\ s.pk \in Seq(Nat)
  BY Zenon, <1>1 DEF Schema
<1>3. taggedOnce(s.columns) /\ taggedOnce(s.indexes)
  BY Zenon DEF GoodSchema, Validate
<1>4. Range(s.pk) = {s.pk[1]}
  BY <1>1, <1>2 DEF Range
<1>5. has(s, s.pk[1])
  BY Zenon, <1>4 DEF GoodSchema, Validate
<1>6. \A i, j \in DOMAIN s.columns : s.columns[i].tag = s.columns[j].tag => i = j
  BY Zenon, <1>3 DEF taggedOnce, Distinct
<1>7. \A i, j \in DOMAIN s.indexes : s.indexes[i].tag = s.indexes[j].tag => i = j
  BY Zenon, <1>3 DEF taggedOnce, Distinct
<1>8. QED
  BY <1>2, <1>4, <1>5, <1>6, <1>7 DEF has

\* The key is the one column the primary key names.
LEMMA KeyTag ==
  ASSUME NEW s, GoodSchema(s), NEW x
  PROVE  isKey(s, x) <=> x = s.pk[1]
<1>1. Range(s.pk) = {s.pk[1]}
  BY SchemaParts, Zenon
<1>2. QED
  BY Zenon, <1>1 DEF isKey

\* The item a tag names.
LEMMA ByTag ==
  ASSUME NEW q, \A i, j \in DOMAIN q : q[i].tag = q[j].tag => i = j, NEW n \in DOMAIN q
  PROVE  byTag(q, q[n].tag) = q[n]
<1>1. \E i \in DOMAIN q : q[i].tag = q[n].tag
  BY Zenon
<1>2. QED
  BY Zenon, <1>1 DEF byTag

\* A sequence without one of its items.
LEMMA Removed ==
  ASSUME NEW T, NEW q \in Seq(T), NEW p \in 1..Len(q)
  PROVE  /\ DOMAIN without(q, p) = 1..(Len(q) - 1)
         /\ \A i \in 1..(Len(q) - 1) : without(q, p)[i] = IF i < p THEN q[i] ELSE q[i + 1]
<1> DEFINE a == SubSeq(q, 1, p - 1)
           b == SubSeq(q, p + 1, Len(q))
<1>1. Len(q) \in Nat /\ p \in Nat
  OBVIOUS
<1>2. a \in Seq(T) /\ Len(a) = p - 1 /\ \A i \in 1..(p - 1) : a[i] = q[i]
  BY <1>1
<1>3. b \in Seq(T) /\ Len(b) = Len(q) - p /\ \A i \in 1..(Len(q) - p) : b[i] = q[p + i]
  BY <1>1
<1> HIDE DEF a, b
<1>4. Len(a \o b) = Len(q) - 1 /\ DOMAIN (a \o b) = 1..(Len(q) - 1)
  <2>1. a \o b \in Seq(T) /\ Len(a \o b) = Len(a) + Len(b)
    <3>1. a \in Seq(T) /\ b \in Seq(T)
      BY Zenon, <1>2, <1>3
    <3>2. QED
      BY <3>1
  <2>2. DOMAIN (a \o b) = 1..Len(a \o b)
    BY <2>1
  <2>3. Len(a \o b) = Len(q) - 1
    BY <1>1, <1>2, <1>3, <2>1
  <2>4. QED
    BY Zenon, <2>2, <2>3
<1>5. ASSUME NEW i \in 1..(Len(q) - 1)
      PROVE  (a \o b)[i] = IF i < p THEN q[i] ELSE q[i + 1]
  <2>1. CASE i < p
    BY <1>1, <1>2, <1>3, <1>5, <2>1
  <2>2. CASE ~(i < p)
    <3>1. i - (p - 1) \in 1..(Len(q) - p) /\ p + (i - (p - 1)) = i + 1
      BY <1>1, <1>5, <2>2
    <3>2. b[i - (p - 1)] = q[i + 1]
      BY Zenon, <1>3, <3>1
    <3>3. (a \o b)[i] = b[i - (p - 1)]
      BY <1>1, <1>2, <1>3, <1>5, <2>2
    <3>4. QED
      BY Zenon, <2>2, <3>2, <3>3
  <2>3. QED
    BY <2>1, <2>2, Zenon
<1>6. without(q, p) = a \o b
  BY Zenon DEF without, a, b
<1>7. QED
  BY Zenon, <1>4, <1>5, <1>6

\* The columns beside the key: all but one, each once.
LEMMA Others ==
  ASSUME NEW s, GoodSchema(s)
  PROVE  /\ \A i \in DOMAIN others(s) : others(s)[i] \in Range(s.columns) /\ ~isKey(s, others(s)[i].tag)
         /\ \A i, j \in DOMAIN others(s) : others(s)[i].tag = others(s)[j].tag => i = j
         /\ \A x \in tags(s.columns) : ~isKey(s, x) => \E i \in DOMAIN others(s) : others(s)[i].tag = x
<1> DEFINE c == s.columns
<1> DEFINE p == CHOOSE i \in DOMAIN c : isKey(s, c[i].tag)
<1>1. /\ c \in Seq(Column) /\ Len(c) \in Nat /\ DOMAIN c = 1..Len(c)
      /\ \A i, j \in DOMAIN c : c[i].tag = c[j].tag => i = j
      /\ \A x : isKey(s, x) <=> x = s.pk[1]
      /\ \E i \in DOMAIN c : c[i].tag = s.pk[1]
  BY SchemaParts, Zenon DEF isKey, tags
<1>2. p \in 1..Len(c) /\ isKey(s, c[p].tag)
  BY Zenon, <1>1
<1>3. \A i \in DOMAIN c : isKey(s, c[i].tag) => i = p
  BY Zenon, <1>1, <1>2
<1> DEFINE r == without(c, p)
<1>4. others(s) = r
  BY Zenon DEF others
<1> HIDE DEF p, c
<1>5. /\ DOMAIN r = 1..(Len(c) - 1)
      /\ \A i \in 1..(Len(c) - 1) : r[i] = IF i < p THEN c[i] ELSE c[i + 1]
  BY <1>1, <1>2, Removed
<1> HIDE DEF r
<1>6. \A i \in DOMAIN r : r[i] \in Range(c) /\ ~isKey(s, r[i].tag)
  <2>1. TAKE i \in DOMAIN r
  <2>2. CASE i < p
    BY <1>1, <1>2, <1>3, <1>5, <2>2 DEF Range
  <2>3. CASE ~(i < p)
    <3>1. r[i] = c[i + 1]
      BY Zenon, <1>5, <2>1, <2>3
    <3>3. i \in 1..(Len(c) - 1) /\ Len(c) \in Nat /\ p \in Nat
      BY <1>1, <1>2, <1>5, <2>1
    <3>4. i + 1 \in 1..Len(c) /\ i + 1 # p
      BY <2>3, <3>3
    <3>2. QED
      BY Zenon, <1>1, <1>3, <3>1, <3>4 DEF Range
  <2>4. QED
    BY Zenon, <2>2, <2>3
<1>7. \A i, j \in DOMAIN r : r[i].tag = r[j].tag => i = j
  <2>1. \A i \in DOMAIN r : (IF i < p THEN i ELSE i + 1) \in DOMAIN c /\ r[i] = c[IF i < p THEN i ELSE i + 1]
    BY <1>1, <1>2, <1>5
  <2>2. \A i, j \in DOMAIN r : (IF i < p THEN i ELSE i + 1) = (IF j < p THEN j ELSE j + 1) => i = j
    BY <1>1, <1>2, <1>5
  <2>3. QED
    BY <1>1, <2>1, <2>2
<1>8. \A x \in tags(c) : ~isKey(s, x) => \E i \in DOMAIN r : r[i].tag = x
  <2>1. SUFFICES ASSUME NEW n \in DOMAIN c, ~isKey(s, c[n].tag)
                 PROVE  \E i \in DOMAIN r : r[i].tag = c[n].tag
    BY Zenon DEF tags
  <2>2. n # p
    BY Zenon, <1>2, <2>1
  <2>3. CASE n < p
    <3>1. n \in DOMAIN r /\ r[n] = c[n]
      BY <1>1, <1>2, <1>5, <2>3
    <3>2. QED
      BY Zenon, <3>1
  <2>4. CASE ~(n < p)
    <3>1. n - 1 \in DOMAIN r /\ r[n - 1] = c[n]
      BY <1>1, <1>2, <1>5, <2>2, <2>4
    <3>2. QED
      BY Zenon, <3>1
  <2>5. QED
    BY Zenon, <2>3, <2>4
<1>9. QED
  BY Zenon, <1>4, <1>6, <1>7, <1>8 DEF c

-----------------------------------------------------------------------------
(* The store.                                                              *)

\* A cell reads back, so two that encode alike under a column are equal.
LEMMA CellBack ==
  ASSUME NEW c, NEW v
  PROVE  decodeCell(encodeCell(c, v)) = v
<1>1. CASE v = NULL
  BY Zenon, <1>1 DEF decodeCell, encodeCell
<1>2. CASE v # NULL
  <2> DEFINE y == IF isString(c) THEN "string" ELSE c.type
  <2>1. encodeCell(c, v) = <<y, v>>
    BY Zenon, <1>2 DEF encodeCell
  <2> HIDE DEF y
  <2>2. <<y, v>> # <<"null">> /\ <<y, v>>[2] = v
    BY Zenon
  <2>3. QED
    BY Zenon, <2>1, <2>2 DEF decodeCell
<1>3. QED
  BY Zenon, <1>1, <1>2

\* A row reads back from its key and its bytes.
LEMMA Decoded ==
  ASSUME NEW s, NEW k, NEW r, GoodSchema(s), GoodRow(s, k, r)
  PROVE  decodeRow(s, k, encodeValue(s, r)) = r
<1> DEFINE cs == others(s)
           vb == encodeValue(s, r)
<1>1. DOMAIN r = tags(s.columns) /\ r = [tag \in tags(s.columns) |-> r[tag]]
  BY Zenon DEF GoodRow
<1>2. DOMAIN vb = DOMAIN cs /\ \A i \in DOMAIN cs : vb[i] = encodeCell(cs[i], cellOf(r, cs[i].tag))
  BY Zenon DEF encodeValue
<1> HIDE DEF vb
<1>3. ASSUME NEW x \in tags(s.columns), ~isKey(s, x)
      PROVE  decodeCell(vb[CHOOSE i \in DOMAIN vb : others(s)[i].tag = x]) = r[x]
  <2> DEFINE n == CHOOSE i \in DOMAIN vb : others(s)[i].tag = x
  <2>1. \E i \in DOMAIN cs : cs[i].tag = x
    BY Zenon, <1>3, Others
  <2>2. n \in DOMAIN cs /\ cs[n].tag = x
    BY Zenon, <1>2, <2>1
  <2> HIDE DEF n, cs
  <2>3. vb[n] = encodeCell(cs[n], cellOf(r, x))
    BY Zenon, <1>2, <2>2
  <2>4. decodeCell(vb[n]) = cellOf(r, x)
    BY Zenon, <2>3, CellBack
  <2>5. QED
    BY Zenon, <1>1, <1>3, <2>4 DEF cellOf, n
<1>4. ASSUME NEW x \in tags(s.columns), isKey(s, x)
      PROVE  r[x] = k
  <2>1. x = s.pk[1]
    BY Zenon, <1>4, KeyTag
  <2>2. QED
    BY Zenon, <2>1 DEF GoodRow
<1>5. decodeRow(s, k, vb) = [tag \in tags(s.columns) |-> r[tag]]
  <2> DEFINE d(x) == decodeCell(vb[CHOOSE i \in DOMAIN vb : others(s)[i].tag = x])
             key(x) == isKey(s, x)
  <2>1. \A x \in tags(s.columns) : (key(x) => r[x] = k) /\ (~key(x) => d(x) = r[x])
    BY Zenon, <1>3, <1>4
  <2>2. decodeRow(s, k, vb) = [x \in tags(s.columns) |-> IF key(x) THEN k ELSE d(x)]
    BY Zenon DEF decodeRow
  <2> HIDE DEF d, key
  <2>3. QED
    BY Zenon, <2>1, <2>2
<1>6. QED
  BY Zenon, <1>1, <1>5 DEF vb

\* A decoded row has a cell for each column, and its key.
LEMMA DecodedRow ==
  ASSUME NEW s, NEW k, NEW vb, GoodSchema(s)
  PROVE  /\ decodeRow(s, k, vb) = [tag \in tags(s.columns) |-> decodeRow(s, k, vb)[tag]]
         /\ decodeRow(s, k, vb)[s.pk[1]] = k
<1> DEFINE d(x) == decodeCell(vb[CHOOSE i \in DOMAIN vb : others(s)[i].tag = x])
           key(x) == isKey(s, x)
<1>1. decodeRow(s, k, vb) = [x \in tags(s.columns) |-> IF key(x) THEN k ELSE d(x)]
  BY Zenon DEF decodeRow
<1>2. s.pk[1] \in tags(s.columns) /\ key(s.pk[1])
  BY Zenon, SchemaParts DEF isKey
<1> HIDE DEF d, key
<1>3. QED
  BY Zenon, <1>1, <1>2

\* The parts of a stored table, and its rows read back.
LEMMA StoredParts ==
  ASSUME NEW s, NEW rows, GoodSchema(s), GoodRows(s, rows)
  PROVE  /\ Stored(s, rows).schema = s
         /\ DOMAIN Stored(s, rows).primary = DOMAIN rows
         /\ \A k \in DOMAIN rows : Stored(s, rows).primary[k] = encodeValue(s, rows[k])
         /\ DOMAIN Stored(s, rows).index = tags(s.indexes)
         /\ \A x \in tags(s.indexes) : Stored(s, rows).index[x] =
              {indexKey(s, byTag(s.indexes, x), rows[k], k) : k \in DOMAIN rows}
  BY Zenon DEF Stored

\* Decoding gives back what encoding stored (encodeValue, decodeValue).
LEMMA RowsBack ==
  ASSUME NEW s, NEW rows, GoodSchema(s), GoodRows(s, rows)
  PROVE  /\ \A k \in DOMAIN rows : rowOf(Stored(s, rows), k) = rows[k]
         /\ rowsOf(Stored(s, rows)) = rows
<1>1. ASSUME NEW k \in DOMAIN rows
      PROVE  rowOf(Stored(s, rows), k) = rows[k]
  <2>1. GoodRow(s, k, rows[k])
    BY Zenon DEF GoodRows
  <2>2. decodeRow(s, k, encodeValue(s, rows[k])) = rows[k]
    BY Zenon, <2>1, Decoded
  <2>3. QED
    BY <2>2, StoredParts DEF rowOf
<1>2. rowsOf(Stored(s, rows)) = [k \in DOMAIN rows |-> rows[k]]
  BY <1>1, StoredParts DEF rowsOf
<1>3. QED
  BY Zenon, <1>1, <1>2 DEF GoodRows

\* An index entry: the cells of the index's columns, and the row's key.
LEMMA EntryParts ==
  ASSUME NEW s, NEW ix, NEW r, NEW k
  PROVE  /\ indexKey(s, ix, r, k).key = k
         /\ \A i \in DOMAIN ix.columns : indexKey(s, ix, r, k).cells[i] =
              encodeCell(column(s, ix.columns[i]), cellOf(r, ix.columns[i]))
  BY Zenon DEF indexKey

-----------------------------------------------------------------------------
\* Edits of a schema's rows, by key, and rows with edits over them.
GoodEdits(s, p) ==
    /\ p = [k \in DOMAIN p |-> p[k]]
    /\ DOMAIN p \subseteq Keys
    /\ \A k \in DOMAIN p : p[k] = Deleted \/ GoodRow(s, k, p[k])

Puts(p) == {k \in DOMAIN p : p[k] # Deleted}
Over(rows, p) == [k \in (DOMAIN rows \ DOMAIN p) \cup Puts(p) |->
                    IF k \in Puts(p) THEN p[k] ELSE rows[k]]

\* Rows stay rows of the schema under an editor's edits.
LEMMA OverGood ==
  ASSUME NEW s, NEW rows, NEW p, GoodRows(s, rows), GoodEdits(s, p)
  PROVE  GoodRows(s, Over(rows, p))
<1> DEFINE d == (DOMAIN rows \ DOMAIN p) \cup Puts(p)
<1>1. d \subseteq Keys
  BY Zenon DEF GoodRows, GoodEdits, Puts
<1>2. \A k \in d : GoodRow(s, k, IF k \in Puts(p) THEN p[k] ELSE rows[k])
  BY Zenon DEF GoodRows, GoodEdits, Puts
<1>3. Over(rows, p) = [k \in d |-> IF k \in Puts(p) THEN p[k] ELSE rows[k]]
  BY Zenon DEF Over
<1> HIDE DEF d
<1>4. QED
  BY Zenon, <1>1, <1>2, <1>3 DEF GoodRows

\* Flush leaves the table that holds the rows with the edits over them, the
\* bytes and every index entry: no entry of a row replaced or deleted stays.
LEMMA StoredFlushed ==
  ASSUME NEW s, NEW rows, NEW p, GoodSchema(s), GoodRows(s, rows), GoodEdits(s, p)
  PROVE  flushed(Stored(s, rows), p) = Stored(s, Over(rows, p))
<1> DEFINE u == Stored(s, rows)
           o == Over(rows, p)
           had == DOMAIN p \cap DOMAIN rows
           E(x, r, k) == indexKey(s, byTag(s.indexes, x), r, k)
           pri == [k \in (DOMAIN rows \ DOMAIN p) \cup Puts(p) |->
                     IF k \in Puts(p) THEN encodeValue(s, p[k]) ELSE u.primary[k]]
           ind == [x \in tags(s.indexes) |->
                     (u.index[x] \ {E(x, rowOf(u, k), k) : k \in had}) \cup {E(x, p[k], k) : k \in Puts(p)}]
<1>1. /\ u.schema = s /\ DOMAIN u.primary = DOMAIN rows /\ DOMAIN u.index = tags(s.indexes)
      /\ \A k \in DOMAIN rows : u.primary[k] = encodeValue(s, rows[k])
      /\ \A x \in tags(s.indexes) : u.index[x] = {E(x, rows[k], k) : k \in DOMAIN rows}
  BY StoredParts
<1>2. \A k \in DOMAIN rows : rowOf(u, k) = rows[k]
  BY Zenon, RowsBack
<1>3. u = [schema |-> s, primary |-> u.primary, index |-> u.index]
  BY Zenon DEF Stored
<1>4. flushed(u, p) = [schema |-> s, primary |-> pri, index |-> ind]
  <2> HIDE DEF u
  <2>1. flushed(u, p) = [u EXCEPT !.primary = pri, !.index = ind]
    BY <1>1 DEF flushed, Puts
  <2> HIDE DEF pri, ind
  <2>2. QED
    <3>1. DOMAIN u = {"schema", "primary", "index"} /\ u.schema = s
      BY Zenon, <1>1, <1>3
    <3>2. QED
      BY <2>1, <3>1, Zenon
<1> HIDE DEF u
<1>5. DOMAIN o = (DOMAIN rows \ DOMAIN p) \cup Puts(p)
      /\ \A k \in DOMAIN o : o[k] = IF k \in Puts(p) THEN p[k] ELSE rows[k]
  BY Zenon DEF Over
<1>6. pri = [k \in DOMAIN o |-> encodeValue(s, o[k])]
  BY Zenon, <1>1, <1>5
<1>7. ASSUME NEW x \in tags(s.indexes)
      PROVE  ind[x] = {E(x, o[k], k) : k \in DOMAIN o}
  <2>1. ind[x] = ({E(x, rows[k], k) : k \in DOMAIN rows} \ {E(x, rows[k], k) : k \in had})
                   \cup {E(x, p[k], k) : k \in Puts(p)}
    BY <1>1, <1>2
  <2>2. \A r, k : E(x, r, k).key = k
    BY EntryParts
  <2> HIDE DEF E, ind, o
  <2>3. {E(x, rows[k], k) : k \in DOMAIN rows} \ {E(x, rows[k], k) : k \in had}
          = {E(x, rows[k], k) : k \in DOMAIN rows \ DOMAIN p}
    BY <2>2
  <2>4. {E(x, o[k], k) : k \in DOMAIN o}
          = {E(x, rows[k], k) : k \in DOMAIN rows \ DOMAIN p} \cup {E(x, p[k], k) : k \in Puts(p)}
    BY Zenon, <1>5 DEF Puts
  <2>5. QED
    BY <2>1, <2>3, <2>4, Zenon
<1>8. ind = [x \in tags(s.indexes) |-> {E(x, o[k], k) : k \in DOMAIN o}]
  BY Zenon, <1>7
<1>9. Stored(s, o) = [schema |-> s, primary |-> [k \in DOMAIN o |-> encodeValue(s, o[k])],
                      index |-> [x \in tags(s.indexes) |-> {E(x, o[k], k) : k \in DOMAIN o}]]
  BY Zenon DEF Stored
<1>10. QED
  BY <1>4, <1>6, <1>8, <1>9, Zenon DEF u

\* The empty table.
LEMMA EmptyStored ==
  ASSUME NEW s
  PROVE  empty(s) = Stored(s, noRows) /\ GoodRows(s, noRows)
<1>1. DOMAIN noRows = {} /\ noRows = [k \in DOMAIN noRows |-> noRows[k]]
  BY Zenon DEF noRows
<1>2. GoodRows(s, noRows)
  BY Zenon, <1>1 DEF GoodRows
<1>3. [k \in DOMAIN noRows |-> encodeValue(s, noRows[k])] = [k \in {} |-> <<>>]
  BY Zenon, <1>1
<1>4. [x \in tags(s.indexes) |-> {indexKey(s, byTag(s.indexes, x), noRows[k], k) : k \in DOMAIN noRows}]
        = [x \in tags(s.indexes) |-> {}]
  BY Zenon, <1>1
<1>5. QED
  BY <1>2, <1>3, <1>4, Zenon DEF empty, Stored

\* A row has its key, so it is not the mark of a deletion.
LEMMA RowNotDeleted ==
  ASSUME NEW s, NEW k, NEW r, GoodSchema(s), GoodRow(s, k, r)
  PROVE  r # Deleted
<1>1. s.pk[1] \in DOMAIN r
  BY Zenon, SchemaParts DEF GoodRow
<1>2. QED
  BY Zenon, <1>1 DEF Deleted

\* A row under a schema that has its key: one of that schema's rows, once its
\* cells fit.
LEMMA ConvertedGood ==
  ASSUME NEW s, NEW k, NEW r, GoodSchema(s), cellOf(r, s.pk[1]) = k,
         \A c \in Range(others(s)) : fits(c, cellOf(r, c.tag))
  PROVE  GoodRow(s, k, convertRow(r, s))
<1> DEFINE d == convertRow(r, s)
<1>1. d = [x \in tags(s.columns) |-> cellOf(r, x)]
  BY Zenon DEF convertRow
<1>2. DOMAIN d = tags(s.columns) /\ d = [x \in tags(s.columns) |-> d[x]]
  BY Zenon, <1>1
<1>3. \A x \in tags(s.columns) : d[x] = cellOf(r, x) /\ cellOf(d, x) = cellOf(r, x)
  BY Zenon, <1>1 DEF cellOf
<1> HIDE DEF d
<1>4. \A c \in Range(others(s)) : c.tag \in tags(s.columns)
  BY Others DEF Range, tags
<1>5. \A c \in Range(others(s)) : fits(c, cellOf(d, c.tag))
  BY Zenon, <1>3, <1>4
<1>6. s.pk[1] \in tags(s.columns)
  BY Zenon, SchemaParts
<1>7. QED
  BY Zenon, <1>2, <1>3, <1>5, <1>6 DEF GoodRow, encodable, d

\* WithSchema leaves the table that holds the rows under the next schema.
LEMMA StoredAltered ==
  ASSUME NEW s, NEW rows, NEW next, GoodSchema(s), GoodRows(s, rows),
         alterable(s, next), withSchemaFits(Stored(s, rows), next)
  PROVE  /\ GoodSchema(next)
         /\ withSchema(Stored(s, rows), next) = Stored(next, [k \in DOMAIN rows |-> convertRow(rows[k], next)])
         /\ GoodRows(next, [k \in DOMAIN rows |-> convertRow(rows[k], next)])
<1> DEFINE u == Stored(s, rows)
           c == [k \in DOMAIN rows |-> convertRow(rows[k], next)]
<1>1. GoodSchema(next) /\ next.pk = s.pk
  BY Zenon DEF alterable, GoodSchema
<1>2. converted(u, next) = c
  BY StoredParts, RowsBack DEF converted
<1>3. ASSUME NEW k \in DOMAIN rows
      PROVE  k \in Keys /\ GoodRow(next, k, c[k])
  <2>1. GoodRow(s, k, rows[k]) /\ k \in Keys
    BY Zenon DEF GoodRows
  <2>2. s.pk[1] \in tags(s.columns) /\ next.pk[1] \in tags(next.columns)
    BY Zenon, <1>1, SchemaParts
  <2>3. cellOf(rows[k], next.pk[1]) = k
    BY Zenon, <1>1, <2>1, <2>2 DEF GoodRow, cellOf
  <2>4. encodable(next, convertRow(rows[k], next))
    <3>1. \A j \in DOMAIN u.primary : encodable(next, converted(u, next)[j])
      BY Zenon DEF withSchemaFits
    <3>2. k \in DOMAIN u.primary
      BY Zenon, StoredParts
    <3>3. QED
      BY Zenon, <1>2, <3>1, <3>2
  <2>5. \A x \in tags(next.columns) : convertRow(rows[k], next)[x] = cellOf(rows[k], x)
    BY Zenon DEF convertRow
  <2>6. convertRow(rows[k], next) = [x \in tags(next.columns) |-> convertRow(rows[k], next)[x]]
    BY Zenon DEF convertRow
  <2>7. QED
    BY Zenon, <2>1, <2>2, <2>3, <2>4, <2>5, <2>6 DEF GoodRow
<1>4. DOMAIN c = DOMAIN rows /\ c = [k \in DOMAIN c |-> c[k]]
  BY Zenon
<1> HIDE DEF c, u
<1>5. GoodRows(next, c) /\ GoodEdits(next, c)
  BY Zenon, <1>3, <1>4 DEF GoodRows, GoodEdits
<1>6. Over(noRows, c) = c
  <2>1. \A k \in DOMAIN c : c[k] # Deleted
    BY Zenon, <1>1, <1>3, <1>4, RowNotDeleted
  <2>2. Puts(c) = DOMAIN c /\ DOMAIN noRows = {}
    BY <2>1, Zenon DEF Puts, noRows
  <2>3. QED
    BY Zenon, <1>4, <2>2 DEF Over
<1>7. flushed(Stored(next, noRows), c) = Stored(next, c)
  <2>1. GoodRows(next, noRows)
    BY Zenon, EmptyStored
  <2>2. QED
    BY <1>1, <1>5, <1>6, <2>1, StoredFlushed
<1>8. withSchema(u, next) = Stored(next, c)
  BY Zenon, <1>2, <1>7, EmptyStored DEF withSchema
<1>9. QED
  BY Zenon, <1>1, <1>5, <1>8 DEF c, u

\* A stored table is one Open and Validate accept: an entry of an index for
\* each row, and no other.
LEMMA ValidStored ==
  ASSUME NEW s, NEW rows, GoodSchema(s), GoodRows(s, rows)
  PROVE  Valid(Stored(s, rows))
<1> DEFINE u == Stored(s, rows)
<1>1. /\ u.schema = s /\ DOMAIN u.primary = DOMAIN rows /\ DOMAIN u.index = tags(s.indexes)
      /\ \A x \in tags(s.indexes) : u.index[x] =
           {indexKey(s, byTag(s.indexes, x), rows[k], k) : k \in DOMAIN rows}
  BY StoredParts
<1> HIDE DEF u
<1>3. ASSUME NEW x \in tags(s.indexes)
      PROVE  /\ ExistsBijection(u.index[x], DOMAIN rows)
             /\ \A e \in u.index[x] : e.key \in DOMAIN rows
  <2> DEFINE E(k) == indexKey(s, byTag(s.indexes, x), rows[k], k)
             T == {E(k) : k \in DOMAIN rows}
             f == [e \in T |-> e.key]
  <2>1. \A k : E(k).key = k
    BY EntryParts
  <2>2. u.index[x] = T
    BY Zenon, <1>1
  <2> HIDE DEF E
  <2>3. f \in Surjection(T, DOMAIN rows)
    BY Zenon, <2>1 DEF Surjection
  <2>4. f \in Injection(T, DOMAIN rows)
    <3>1. f \in [T -> DOMAIN rows]
      BY Zenon, <2>1
    <3>2. \A d, e \in T : f[d] = f[e] => d = e
      BY <2>1
    <3>. QED  BY Zenon, <3>1, <3>2 DEF Injection, IsInjective
  <2>5. ExistsBijection(T, DOMAIN rows)
    BY Zenon, <2>3, <2>4 DEF ExistsBijection, Bijection
  <2>6. QED
    BY Zenon, <2>1, <2>2, <2>5
<1>4. Validate(s)
  BY Zenon DEF GoodSchema
<1>5. QED
  BY Zenon, <1>1, <1>3, <1>4 DEF Valid, u

\* A scan with a filter: the rows whose first n index columns hold vs.
Filtered(s, rows, x, n, vs) ==
    {r \in {rows[k] : k \in DOMAIN rows} : \A i \in 1 .. n : r[byTag(s.indexes, x).columns[i]] = vs[i]}

\* An index of a stored table answers as a scan with a filter does.
LEMMA LookupStored ==
  ASSUME NEW s, NEW rows, GoodSchema(s), GoodRows(s, rows),
         NEW x \in tags(s.indexes), NEW n \in 0 .. Len(byTag(s.indexes, x).columns),
         NEW vs, DOMAIN vs = 1 .. n
  PROVE  IndexLookup(Stored(s, rows), x, vs) = Filtered(s, rows, x, n, vs)
<1> DEFINE u == Stored(s, rows)
           ix == byTag(s.indexes, x)
           E(k) == indexKey(s, ix, rows[k], k)
           lo == [i \in DOMAIN vs |-> encodeCell(column(s, ix.columns[i]), vs[i])]
<1>1. ix \in Range(s.indexes) /\ ix \in Index
  <2>1. PICK j \in DOMAIN s.indexes : s.indexes[j].tag = x
    BY Zenon DEF tags
  <2>2. ix = s.indexes[j]
    BY Zenon, <2>1, SchemaParts, ByTag
  <2>3. s.indexes \in Seq(Index)
    BY Zenon, SchemaParts
  <2>4. QED
    BY <2>2, <2>3 DEF Range
<1>2. \A y \in Range(ix.columns) : y \in tags(s.columns)
  BY Zenon, <1>1 DEF GoodSchema, Validate, has
<1>3. Len(ix.columns) \in Nat /\ DOMAIN ix.columns = 1 .. Len(ix.columns)
  <2>1. ix.columns \in Seq(Nat)
    BY Zenon, <1>1 DEF Index
  <2>2. QED
    BY <2>1
<1>4. \A i \in 1 .. n : i \in DOMAIN ix.columns /\ ix.columns[i] \in tags(s.columns)
  BY <1>2, <1>3 DEF Range
<1>5. ASSUME NEW k \in DOMAIN rows
      PROVE  /\ E(k).key = k /\ rowOf(u, k) = rows[k]
             /\ (\A i \in DOMAIN lo : E(k).cells[i] = lo[i])
                  <=> (\A i \in 1 .. n : rows[k][ix.columns[i]] = vs[i])
  <2>1. E(k).key = k /\ rowOf(u, k) = rows[k]
    BY EntryParts, RowsBack
  <2>2. DOMAIN rows[k] = tags(s.columns)
    BY Zenon DEF GoodRows, GoodRow
  <2>3. ASSUME NEW i \in 1 .. n
        PROVE  E(k).cells[i] = lo[i] <=> rows[k][ix.columns[i]] = vs[i]
    <3> DEFINE c == column(s, ix.columns[i])
               v == rows[k][ix.columns[i]]
    <3>1. E(k).cells[i] = encodeCell(c, cellOf(rows[k], ix.columns[i]))
      BY <1>4, EntryParts
    <3>2. cellOf(rows[k], ix.columns[i]) = v
      BY Zenon, <1>4, <2>2 DEF cellOf
    <3>3. lo[i] = encodeCell(c, vs[i])
      BY Zenon
    <3> HIDE DEF c, v, lo, E, ix
    <3>4. decodeCell(encodeCell(c, v)) = v /\ decodeCell(encodeCell(c, vs[i])) = vs[i]
      BY Zenon, CellBack
    <3>5. E(k).cells[i] = lo[i] <=> v = vs[i]
      BY Zenon, <3>1, <3>2, <3>3, <3>4
    <3>6. QED
      BY Zenon, <3>5 DEF v, ix
  <2>4. DOMAIN lo = 1 .. n
    BY Zenon
  <2> HIDE DEF lo, E, ix
  <2>5. QED
    BY Zenon, <2>1, <2>3, <2>4
<1>6. u.schema = s /\ u.index[x] = {E(k) : k \in DOMAIN rows}
  BY StoredParts
<1>7. IndexLookup(u, x, vs) = {rowOf(u, e.key) : e \in {m \in u.index[x] : \A i \in DOMAIN lo : m.cells[i] = lo[i]}}
  BY <1>6, Zenon DEF IndexLookup
<1> HIDE DEF u, ix, E, lo
<1>8. {rowOf(u, e.key) : e \in {m \in u.index[x] : \A i \in DOMAIN lo : m.cells[i] = lo[i]}}
        = {r \in {rows[k] : k \in DOMAIN rows} : \A i \in 1 .. n : r[ix.columns[i]] = vs[i]}
  <2> DEFINE M(e) == \A i \in DOMAIN lo : e.cells[i] = lo[i]
             F(r) == \A i \in 1 .. n : r[ix.columns[i]] = vs[i]
  <2>1. \A k \in DOMAIN rows : E(k).key = k /\ rowOf(u, k) = rows[k] /\ (M(E(k)) <=> F(rows[k]))
    BY Zenon, <1>5
  <2> HIDE DEF M, F
  <2>2. {rowOf(u, e.key) : e \in {m \in u.index[x] : M(m)}} = {r \in {rows[k] : k \in DOMAIN rows} : F(r)}
    BY <1>6, <2>1
  <2>3. QED
    BY <2>2, Zenon DEF M, F
<1>9. QED
  BY <1>7, <1>8, Zenon DEF u, ix, Filtered

-----------------------------------------------------------------------------
(* The editor.                                                             *)

\* The table holds its rows and nothing else, the pending edits are edits of
\* its schema, and the map the calls describe is the rows under the edits.
EditInv ==
    /\ GoodSchema(t.schema)
    /\ GoodRows(t.schema, rowsOf(t)) /\ t = Stored(t.schema, rowsOf(t))
    /\ GoodEdits(t.schema, pending)
    /\ want = Over(rowsOf(t), pending)

\* No edits.
LEMMA NoEdits ==
  ASSUME NEW s, NEW rows, GoodRows(s, rows)
  PROVE  GoodEdits(s, noRows) /\ Over(rows, noRows) = rows
<1>1. DOMAIN noRows = {} /\ Puts(noRows) = {} /\ noRows = [k \in DOMAIN noRows |-> noRows[k]]
  BY Zenon DEF noRows, Puts
<1>2. GoodEdits(s, noRows)
  BY Zenon, <1>1 DEF GoodEdits
<1>3. Over(rows, noRows) = [k \in DOMAIN rows |-> rows[k]]
  BY Zenon, <1>1 DEF Over
<1>4. QED
  BY Zenon, <1>2, <1>3 DEF GoodRows

\* A table just stored, no edit pending.
LEMMA JustStored ==
  ASSUME NEW s, NEW rows, GoodSchema(s), GoodRows(s, rows),
         t' = Stored(s, rows), pending' = noRows, want' = rows
  PROVE  EditInv'
<1>1. (t').schema = s /\ rowsOf(t') = rows
  BY Zenon, StoredParts, RowsBack
<1>2. GoodEdits(s, noRows) /\ Over(rows, noRows) = rows
  BY Zenon, NoEdits
<1>3. QED
  BY <1>1, <1>2, Zenon DEF EditInv

\* An editor opened on a stored table has the invariant.
LEMMA EditInitial ==
  ASSUME EditInit
  PROVE  EditInv
<1>1. PICK s \in Schemas : Validate(s) /\ t = empty(s)
  BY Zenon DEF EditInit
<1>2. GoodSchema(s)
  BY Zenon, <1>1, SchemasAssumption DEF GoodSchema
<1>3. t = Stored(s, noRows) /\ GoodRows(s, noRows)
  BY Zenon, <1>1, EmptyStored
<1>4. t.schema = s /\ rowsOf(t) = noRows
  BY Zenon, <1>2, <1>3, StoredParts, RowsBack
<1>5. GoodEdits(s, noRows) /\ Over(noRows, noRows) = noRows
  BY Zenon, <1>3, NoEdits
<1>6. QED
  BY <1>2, <1>3, <1>4, <1>5, Zenon DEF EditInv, EditInit

\* A row put, by Insert or Update.
LEMMA SetStep ==
  ASSUME EditInv, NEW k \in Keys, NEW row, Set(k, row), cellOf(row, t.schema.pk[1]) = k,
         \A c \in Range(others(t.schema)) : fits(c, cellOf(row, c.tag))
  PROVE  EditInv'
<1> DEFINE s == t.schema
           r == convertRow(row, s)
           rows == rowsOf(t)
<1>1. GoodSchema(s) /\ GoodRow(s, k, r)
  BY Zenon, ConvertedGood DEF EditInv
<1>2. r # Deleted
  BY Zenon, <1>1, RowNotDeleted
<1>3. t' = t /\ pending' = with(pending, k, r) /\ want' = with(want, k, r)
  BY Zenon DEF Set
<1>4. GoodEdits(s, pending) /\ want = Over(rows, pending)
  BY Zenon DEF EditInv
<1> HIDE DEF s, r, rows
<1>5. /\ DOMAIN with(pending, k, r) = DOMAIN pending \cup {k}
      /\ \A x \in DOMAIN pending \cup {k} : with(pending, k, r)[x] = IF x = k THEN r ELSE pending[x]
      /\ with(pending, k, r) = [x \in DOMAIN with(pending, k, r) |-> with(pending, k, r)[x]]
  BY Zenon DEF with
<1>6. GoodEdits(s, with(pending, k, r))
  BY Zenon, <1>1, <1>4, <1>5 DEF GoodEdits
<1>7. Puts(with(pending, k, r)) = Puts(pending) \cup {k}
  BY Zenon, <1>2, <1>5 DEF Puts
<1>8. with(want, k, r) = Over(rows, with(pending, k, r))
  <2>1. DOMAIN want = (DOMAIN rows \ DOMAIN pending) \cup Puts(pending)
        /\ \A x \in DOMAIN want : want[x] = IF x \in Puts(pending) THEN pending[x] ELSE rows[x]
    BY Zenon, <1>4 DEF Over
  <2>2. with(want, k, r) = [x \in DOMAIN want \cup {k} |-> IF x = k THEN r ELSE want[x]]
    BY Zenon DEF with
  <2>3. Over(rows, with(pending, k, r)) =
          [x \in (DOMAIN rows \ (DOMAIN pending \cup {k})) \cup (Puts(pending) \cup {k}) |->
             IF x \in Puts(pending) \cup {k} THEN with(pending, k, r)[x] ELSE rows[x]]
    BY Zenon, <1>5, <1>7 DEF Over
  <2>4. (DOMAIN rows \ (DOMAIN pending \cup {k})) \cup (Puts(pending) \cup {k}) = DOMAIN want \cup {k}
    BY Zenon, <2>1
  <2>5. ASSUME NEW x \in DOMAIN want \cup {k}
        PROVE  (IF x = k THEN r ELSE want[x])
                 = IF x \in Puts(pending) \cup {k} THEN with(pending, k, r)[x] ELSE rows[x]
    BY Zenon, <1>5, <2>1 DEF Puts
  <2>6. QED
    BY Zenon, <2>2, <2>3, <2>4, <2>5
<1>9. QED
  BY Zenon, <1>3, <1>6, <1>8 DEF EditInv, s, rows

\* A call that changes nothing.
LEMMA SameInv ==
  ASSUME EditInv, t' = t, pending' = pending, want' = want
  PROVE  EditInv'
  BY Zenon DEF EditInv

\* Insert.
LEMMA InsertStep ==
  ASSUME EditInv, NEW row \in Rows, Insert(row)
  PROVE  EditInv'
<1>1. CASE \E err : Refuse(err)
  BY Zenon, <1>1, SameInv DEF Refuse
<1>2. CASE keyOf(row) # NULL /\ encodable(t.schema, row) /\ Set(keyOf(row), row)
  <2>1. keyOf(row) \in Keys /\ keyOf(row) = cellOf(row, t.schema.pk[1])
    BY Zenon, <1>2 DEF Rows, keyOf
  <2>2. \A c \in Range(others(t.schema)) : fits(c, cellOf(row, c.tag))
    BY Zenon, <1>2 DEF encodable
  <2>3. QED
    BY Zenon, <1>2, <2>1, <2>2, SetStep
<1>3. QED
  BY <1>1, <1>2, Zenon DEF Insert

\* Update: the row's key is the one it is put under.
LEMMA UpdateStep ==
  ASSUME EditInv, NEW row \in Rows, NEW k \in Keys, Update(k, row)
  PROVE  EditInv'
<1> DEFINE s == t.schema
           w == with(row, s.pk[1], k)
<1>1. CASE \E err : Refuse(err)
  BY Zenon, <1>1, SameInv DEF Refuse
<1>2. CASE encodable(s, row) /\ Set(k, w)
  <2>1. cellOf(w, s.pk[1]) = k /\ \A x : x # s.pk[1] => cellOf(w, x) = cellOf(row, x)
    BY Zenon DEF with, cellOf
  <2>2. \A c \in Range(others(s)) : c.tag # s.pk[1]
    <3>1. GoodSchema(s)
      BY Zenon DEF EditInv
    <3>2. isKey(s, s.pk[1])
      BY <3>1, SchemaParts, Zenon DEF isKey
    <3>3. QED
      BY <3>1, <3>2, Others DEF Range
  <2>3. \A c \in Range(others(s)) : fits(c, cellOf(row, c.tag))
    BY Zenon, <1>2 DEF encodable
  <2> HIDE DEF w
  <2>4. \A c \in Range(others(s)) : fits(c, cellOf(w, c.tag))
    BY Zenon, <2>1, <2>2, <2>3
  <2>5. QED
    BY Zenon, <1>2, <2>1, <2>4, SetStep
<1>3. QED
  BY <1>1, <1>2, Zenon DEF Update

\* Delete.
LEMMA DeleteStep ==
  ASSUME EditInv, NEW k \in Keys, Delete(k)
  PROVE  EditInv'
<1> DEFINE s == t.schema
           rows == rowsOf(t)
           w == with(pending, k, Deleted)
<1>1. CASE Refuse("ErrNotFound")
  BY Zenon, <1>1, SameInv DEF Refuse
<1>2. CASE t' = t /\ pending' = w /\ want' = minus(want, k)
  <2>1. GoodEdits(s, pending) /\ want = Over(rows, pending)
    BY Zenon DEF EditInv
  <2> HIDE DEF s, rows
  <2>2. /\ DOMAIN w = DOMAIN pending \cup {k} /\ w = [x \in DOMAIN w |-> w[x]]
        /\ \A x \in DOMAIN w : w[x] = IF x = k THEN Deleted ELSE pending[x]
    BY Zenon DEF with
  <2> HIDE DEF w
  <2>3. GoodEdits(s, w)
    BY Zenon, <2>1, <2>2 DEF GoodEdits
  <2>4. Puts(w) = Puts(pending) \ {k}
    BY Zenon, <2>2 DEF Puts
  <2>5. DOMAIN want = (DOMAIN rows \ DOMAIN pending) \cup Puts(pending)
        /\ \A x \in DOMAIN want : want[x] = IF x \in Puts(pending) THEN pending[x] ELSE rows[x]
    BY Zenon, <2>1 DEF Over
  <2>6. minus(want, k) = [x \in DOMAIN want \ {k} |-> want[x]]
    BY Zenon DEF minus
  <2>7. Over(rows, w) = [x \in (DOMAIN rows \ (DOMAIN pending \cup {k})) \cup (Puts(pending) \ {k}) |->
                           IF x \in Puts(pending) \ {k} THEN w[x] ELSE rows[x]]
    BY Zenon, <2>2, <2>4 DEF Over
  <2>8. (DOMAIN rows \ (DOMAIN pending \cup {k})) \cup (Puts(pending) \ {k}) = DOMAIN want \ {k}
    BY Zenon, <2>5 DEF Puts
  <2>9. ASSUME NEW x \in DOMAIN want \ {k}
        PROVE  want[x] = IF x \in Puts(pending) \ {k} THEN w[x] ELSE rows[x]
    BY Zenon, <2>2, <2>5 DEF Puts
  <2>10. minus(want, k) = Over(rows, w)
    BY Zenon, <2>6, <2>7, <2>8, <2>9
  <2>11. QED
    BY Zenon, <1>2, <2>3, <2>10 DEF EditInv, s, rows
<1>3. QED
  BY <1>1, <1>2, Zenon DEF Delete

\* Flush, done or failed: all of the edits or none.
LEMMA EditFlushStep ==
  ASSUME EditInv, Flush
  PROVE  EditInv'
<1>1. CASE \E err : Refuse(err)
  BY Zenon, <1>1, SameInv DEF Refuse
<1>2. CASE t' = flushed(t, pending) /\ pending' = noRows /\ want' = want
  <2>1. GoodRows(t.schema, want)
    BY Zenon, OverGood DEF EditInv
  <2>2. flushed(t, pending) = Stored(t.schema, want)
    BY Zenon, StoredFlushed DEF EditInv
  <2>3. GoodSchema(t.schema)
    BY Zenon DEF EditInv
  <2>4. QED
    BY Zenon, <1>2, <2>1, <2>2, <2>3, JustStored
<1>3. QED
  BY <1>1, <1>2, Zenon DEF Flush

\* WithSchema.
LEMMA EditAlterStep ==
  ASSUME EditInv, NEW next, Alter(next)
  PROVE  EditInv'
<1> DEFINE c == [k \in DOMAIN want |-> convertRow(want[k], next)]
<1>1. CASE \E err : Refuse(err)
  BY Zenon, <1>1, SameInv DEF Refuse
<1>2. CASE /\ pending = noRows /\ alterable(t.schema, next) /\ withSchemaFits(t, next)
           /\ t' = withSchema(t, next) /\ want' = c /\ pending' = pending
  <2>1. want = rowsOf(t)
    BY Zenon, <1>2, NoEdits DEF EditInv
  <2>2. /\ GoodSchema(t.schema) /\ GoodRows(t.schema, want) /\ t = Stored(t.schema, want)
    BY Zenon, <2>1 DEF EditInv
  <2>3. GoodSchema(next) /\ GoodRows(next, c) /\ withSchema(t, next) = Stored(next, c)
    <3>1. withSchemaFits(Stored(t.schema, want), next)
      BY Zenon, <1>2, <2>2
    <3>2. /\ GoodSchema(next) /\ GoodRows(next, c)
          /\ withSchema(Stored(t.schema, want), next) = Stored(next, c)
      BY <1>2, <2>2, <3>1, StoredAltered
    <3>3. QED
      BY Zenon, <2>2, <3>2
  <2> HIDE DEF c
  <2>4. QED
    BY Zenon, <1>2, <2>3, JustStored
<1>3. QED
  BY <1>1, <1>2, Zenon DEF Alter

\* EditInv holds of every table under an editor.
LEMMA EditInvHolds == EditSpec => []EditInv
<1>1. EditInit => EditInv
  BY Zenon, EditInitial
<1>2. EditInv /\ [EditNext]_editVars => EditInv'
  <2>1. SUFFICES ASSUME EditInv, [EditNext]_editVars
                 PROVE  EditInv'
    BY Zenon
  <2>2. CASE \E row \in Rows : Insert(row) \/ \E k \in Keys : Update(k, row)
    BY Zenon, <2>1, <2>2, InsertStep, UpdateStep
  <2>3. CASE \E k \in Keys : Delete(k)
    BY Zenon, <2>1, <2>3, DeleteStep
  <2>4. CASE Flush
    BY Zenon, <2>1, <2>4, EditFlushStep
  <2>5. CASE \E next \in Schemas : Alter(next)
    BY Zenon, <2>1, <2>5, EditAlterStep
  <2>6. CASE UNCHANGED editVars
    BY Zenon, <2>1, <2>6, SameInv DEF editVars
  <2>7. QED
    BY <2>1, <2>2, <2>3, <2>4, <2>5, <2>6, Zenon DEF EditNext
<1>3. QED
  BY <1>1, <1>2, PTL DEF EditSpec

(***************************************************************************)
(* For every set of keys, every schemas with one key column and            *)
(* every cells: whatever was inserted, updated, deleted, flushed or        *)
(* altered, and whichever of it was refused or failed, the table under its *)
(* pending edits is the map the calls describe.                            *)
(***************************************************************************)
THEOREM EditsHeldAlways == EditSpec => []EditsHeld
<1>1. EditInv => EditsHeld
  <2>1. SUFFICES ASSUME EditInv
                 PROVE  EditsHeld
    BY Zenon
  <2> DEFINE rows == rowsOf(t)
  <2>2. /\ GoodRows(t.schema, rows) /\ GoodEdits(t.schema, pending) /\ want = Over(rows, pending)
        /\ DOMAIN rows = DOMAIN t.primary
        /\ \A k \in DOMAIN t.primary : rows[k] = rowOf(t, k)
    BY Zenon, <2>1 DEF EditInv, rowsOf
  <2> HIDE DEF rows
  <2>3. DOMAIN want = (DOMAIN rows \ DOMAIN pending) \cup Puts(pending)
        /\ \A k \in DOMAIN want : want[k] = IF k \in Puts(pending) THEN pending[k] ELSE rows[k]
    BY Zenon, <2>2 DEF Over
  <2>4. DOMAIN rows \subseteq Keys /\ DOMAIN pending \subseteq Keys
    BY Zenon, <2>2 DEF GoodRows, GoodEdits
  <2>5. DOMAIN want = {k \in Keys : exists(t, pending, k)}
    BY Zenon, <2>2, <2>3, <2>4 DEF exists, Puts
  <2>6. \A k \in DOMAIN want : seen(k) = want[k]
    BY Zenon, <2>2, <2>3 DEF seen, Puts
  <2>7. QED
    BY <2>5, <2>6, Zenon DEF EditsHeld
<1>2. QED
  BY <1>1, EditInvHolds, PTL

(***************************************************************************)
(* In the same generality: an index answers every lookup as a scan with a  *)
(* filter would, and the table is one that Open and Validate accept.       *)
(***************************************************************************)
THEOREM IndexIsScanAlways == EditSpec => []IndexIsScan
<1>1. EditInv => IndexIsScan
  <2>1. SUFFICES ASSUME EditInv
                 PROVE  IndexIsScan
    BY Zenon
  <2> DEFINE s == t.schema
             rows == rowsOf(t)
  <2>2. GoodSchema(s) /\ GoodRows(s, rows) /\ t = Stored(s, rows)
    BY Zenon, <2>1 DEF EditInv
  <2>3. {rowOf(t, k) : k \in DOMAIN t.primary} = {rows[k] : k \in DOMAIN rows}
    BY Zenon DEF rowsOf
  <2> HIDE DEF rows
  <2>4. Valid(t)
    BY Zenon, <2>2, ValidStored
  <2>5. DOMAIN t.index = tags(s.indexes)
    BY <2>2, StoredParts
  <2>6. ASSUME NEW x \in tags(s.indexes), NEW n \in 0 .. Len(byTag(s.indexes, x).columns),
               NEW vs \in [1 .. n -> Values]
        PROVE  IndexLookup(t, x, vs) =
                 {r \in {rowOf(t, k) : k \in DOMAIN t.primary} :
                    \A i \in 1 .. n : r[byTag(s.indexes, x).columns[i]] = vs[i]}
    <3>1. DOMAIN vs = 1 .. n
      BY Zenon
    <3>2. IndexLookup(Stored(s, rows), x, vs) = Filtered(s, rows, x, n, vs)
      <4>1. n \in 0 .. Len(byTag(s.indexes, x).columns) /\ x \in tags(s.indexes)
        BY Zenon
      <4> HIDE DEF s
      <4>2. QED
        BY <2>2, <3>1, <4>1, LookupStored, Zenon
    <3>3. IndexLookup(t, x, vs) = IndexLookup(Stored(s, rows), x, vs)
      <4>1. \A y : t = y => IndexLookup(t, x, vs) = IndexLookup(y, x, vs)
        BY Zenon
      <4>2. QED
        BY Zenon, <2>2, <4>1
    <3>4. QED
      BY <2>3, <3>2, <3>3, Zenon DEF Filtered
  <2>7. QED
    BY Zenon, <2>4, <2>5, <2>6 DEF IndexIsScan
<1>2. QED
  BY <1>1, EditInvHolds, PTL

-----------------------------------------------------------------------------
(* The merge.                                                              *)

\* A table that holds its rows, each one of its schema, and nothing else.
Held(x) == /\ GoodSchema(x.schema)
           /\ GoodRows(x.schema, rowsOf(x)) /\ x = Stored(x.schema, rowsOf(x))

\* What a held table is made of: rows of its schema, by key, encoded.
LEMMA HeldParts ==
  ASSUME NEW x, Held(x)
  PROVE  /\ GoodSchema(x.schema) /\ DOMAIN x.primary \subseteq Keys
         /\ DOMAIN rowsOf(x) = DOMAIN x.primary
         /\ \A k \in DOMAIN x.primary :
              /\ rowsOf(x)[k] = rowOf(x, k) /\ GoodRow(x.schema, k, rowOf(x, k))
              /\ x.primary[k] = encodeValue(x.schema, rowOf(x, k))
<1>1. GoodSchema(x.schema) /\ GoodRows(x.schema, rowsOf(x)) /\ x = Stored(x.schema, rowsOf(x))
  BY Zenon DEF Held
<1>2. DOMAIN rowsOf(x) = DOMAIN x.primary /\ \A k \in DOMAIN x.primary : rowsOf(x)[k] = rowOf(x, k)
  BY Zenon DEF rowsOf
<1>3. \A k \in DOMAIN rowsOf(x) : Stored(x.schema, rowsOf(x)).primary[k] = encodeValue(x.schema, rowsOf(x)[k])
  BY <1>1, StoredParts
<1>4. \A k \in DOMAIN rowsOf(x) : x.primary[k] = encodeValue(x.schema, rowsOf(x)[k])
  <2> DEFINE y == Stored(x.schema, rowsOf(x))
  <2>1. x = y /\ \A k \in DOMAIN rowsOf(x) : y.primary[k] = encodeValue(x.schema, rowsOf(x)[k])
    BY Zenon, <1>1, <1>3
  <2> HIDE DEF y
  <2>2. x.primary = y.primary
    BY Zenon, <2>1
  <2>3. QED
    BY Zenon, <2>1, <2>2
<1>5. QED
  BY Zenon, <1>1, <1>2, <1>4 DEF GoodRows

\* Storing rows of a schema makes a held table with those rows.
LEMMA StoredHeld ==
  ASSUME NEW s, NEW rows, GoodSchema(s), GoodRows(s, rows)
  PROVE  Held(Stored(s, rows)) /\ Stored(s, rows).schema = s /\ rowsOf(Stored(s, rows)) = rows
  BY Zenon, StoredParts, RowsBack DEF Held

\* A row under its own schema.
LEMMA ConvertedSame ==
  ASSUME NEW s, NEW k, NEW r, GoodRow(s, k, r)
  PROVE  convertRow(r, s) = r
  BY Zenon DEF GoodRow, convertRow, cellOf

\* A cell that both sides may have changed, and the row of such cells.
MCell(b, o, h, k, c) ==
    mergeCell(c, cellOf(rowAt(b, k), c.tag), cellOf(rowAt(o, k), c.tag), cellOf(rowAt(h, k), c.tag))
MRow(next, b, o, h, k) ==
    [tag \in tags(next.columns) |->
       IF isKey(next, tag) THEN k ELSE decodeCell(MCell(b, o, h, k, column(next, tag)).value)]

\* What a row that both sides changed comes to: gone on both, or a row whose
\* cells merge and which the schema can store.
Settled(next, b, o, h, k, put) ==
    \/ /\ k \notin DOMAIN o.primary /\ k \notin DOMAIN h.primary
       /\ put = {}
    \/ /\ k \in DOMAIN o.primary /\ k \in DOMAIN h.primary
       /\ put = {MRow(next, b, o, h, k)} /\ encodable(next, MRow(next, b, o, h, k))
       /\ \A c \in Range(others(next)) : Clean(MCell(b, o, h, k, c))

\* reconcile without a conflict.
LEMMA Reconciled ==
  ASSUME NEW next, NEW b, NEW o, NEW h, NEW k, reconcile(next, b, o, h, k).at = {}
  PROVE  Settled(next, b, o, h, k, reconcile(next, b, o, h, k).put)
<1> DEFINE inO == k \in DOMAIN o.primary
           inT == k \in DOMAIN h.primary
           rowBad == \E x \in {<<b, rowAt(b, k)>>, <<o, rowAt(o, k)>>, <<h, rowAt(h, k)>>} :
                       ~rowConvertible(x[1].schema, x[2], next)
           bad == {c \in Range(others(next)) :
                     \/ \E r \in {rowAt(b, k), rowAt(o, k), rowAt(h, k)} : ~cellFits(c, cellOf(r, c.tag))
                     \/ ~Clean(MCell(b, o, h, k, c))}
           R == reconcile(next, b, o, h, k)
<1>1. R = IF ~inO /\ ~inT THEN [at |-> {}, put |-> {}]
          ELSE IF ~inO \/ ~inT THEN Conflict({rowLocation(k)})
          ELSE IF rowBad THEN Conflict({rowLocation(k)})
          ELSE IF bad # {} THEN Conflict({cellLocation(k, c.tag) : c \in bad})
          ELSE PutRow(next, k, MRow(next, b, o, h, k))
  BY Zenon DEF reconcile, MRow, MCell
<1>2. bad = {} => \A c \in Range(others(next)) : Clean(MCell(b, o, h, k, c))
  BY Zenon
<1> HIDE DEF rowBad, bad, R
<1>3. bad # {} => {cellLocation(k, c.tag) : c \in bad} # {}
  BY Zenon
<1>4. R.at = {}
  BY Zenon DEF R
<1>5. CASE ~inO /\ ~inT
  BY <1>1, <1>5 DEF R, Settled
<1>6. CASE inO /\ inT
  <2>1. R = PutRow(next, k, MRow(next, b, o, h, k)) /\ bad = {}
    BY Zenon, <1>1, <1>3, <1>4, <1>6 DEF Conflict
  <2>2. R.put = {MRow(next, b, o, h, k)} /\ encodable(next, MRow(next, b, o, h, k))
    BY Zenon, <1>4, <2>1 DEF PutRow, Conflict
  <2>3. QED
    BY Zenon, <1>2, <1>6, <2>1, <2>2 DEF R, Settled
<1>7. CASE ~(inO <=> inT)
  BY Zenon, <1>1, <1>4, <1>7 DEF Conflict
<1>8. QED
  BY Zenon, <1>5, <1>6, <1>7

\* apply without a conflict.
LEMMA Applied ==
  ASSUME NEW next, NEW h, NEW k, apply(next, h, k).at = {}
  PROVE  \/ k \notin DOMAIN h.primary /\ apply(next, h, k).put = {Deleted}
         \/ /\ k \in DOMAIN h.primary
            /\ apply(next, h, k).put = {convertRow(rowOf(h, k), next)}
            /\ encodable(next, convertRow(rowOf(h, k), next))
<1>1. CASE k \notin DOMAIN h.primary
  BY Zenon, <1>1 DEF apply
<1>2. CASE k \in DOMAIN h.primary
  <2> DEFINE r == convertRow(rowOf(h, k), next)
  <2>1. apply(next, h, k) = Conflict({rowLocation(k)}) \/ apply(next, h, k) = PutRow(next, k, r)
    BY Zenon, <1>2 DEF apply
  <2> HIDE DEF r
  <2>2. apply(next, h, k).put = {r} /\ encodable(next, r)
    BY <2>1 DEF PutRow, Conflict
  <2>3. QED
    BY Zenon, <1>2, <2>2 DEF r
<1>3. QED
  BY Zenon, <1>1, <1>2

\* A merged row that can be encoded is a row of the merged schema.
LEMMA MRowGood ==
  ASSUME NEW next, NEW b, NEW o, NEW h, NEW k, GoodSchema(next), encodable(next, MRow(next, b, o, h, k))
  PROVE  GoodRow(next, k, MRow(next, b, o, h, k))
<1> DEFINE m == MRow(next, b, o, h, k)
           d(x) == decodeCell(MCell(b, o, h, k, column(next, x)).value)
<1>1. m = [x \in tags(next.columns) |-> IF isKey(next, x) THEN k ELSE d(x)]
  BY Zenon DEF MRow
<1>2. next.pk[1] \in tags(next.columns) /\ isKey(next, next.pk[1])
  BY Zenon, SchemaParts DEF isKey
<1>3. encodable(next, m)
  BY Zenon
<1> HIDE DEF m, d
<1>4. m = [x \in tags(next.columns) |-> m[x]] /\ m[next.pk[1]] = k
  BY Zenon, <1>1, <1>2
<1>5. GoodRow(next, k, m)
  BY Zenon, <1>3, <1>4 DEF GoodRow
<1>6. QED
  BY Zenon, <1>5 DEF m

\* What the merge of the rows puts over ours: p, by key.
MergePuts(next, b, o, h, p) ==
    /\ GoodEdits(next, p) /\ DOMAIN p \subseteq diffKeys(b, h)
    /\ \A k \in diffKeys(b, h) :
         /\ k \notin diffKeys(b, o) =>
              /\ k \in DOMAIN p
              /\ p[k] = IF k \in DOMAIN h.primary THEN convertRow(rowOf(h, k), next) ELSE Deleted
         /\ k \in diffKeys(b, o) =>
              \/ k \notin DOMAIN o.primary /\ k \notin DOMAIN h.primary /\ k \notin DOMAIN p
              \/ /\ k \in DOMAIN o.primary /\ k \in DOMAIN h.primary
                 /\ k \in DOMAIN p /\ p[k] = MRow(next, b, o, h, k)
                 /\ \A c \in Range(others(next)) : Clean(MCell(b, o, h, k, c))

\* A merge of rows that succeeds flushes one put for each row it decides.
LEMMA MergedRows ==
  ASSUME NEW u, NEW b, NEW o, NEW h, Held(u), Held(b), Held(h),
         u.schema.pk = h.schema.pk, mergeRows(u, b, o, h).did = "merged"
  PROVE  \E p : /\ MergePuts(u.schema, b, o, h, p)
                /\ mergeRows(u, b, o, h) = Merged(flushed(u, p))
<1> DEFINE next == u.schema
           dO == diffKeys(b, o)
           dT == diffKeys(b, h)
           rows == [k \in dT |-> IF k \in dO THEN reconcile(next, b, o, h, k) ELSE apply(next, h, k)]
           at == (UNION {rows[k].at : k \in dT})
                   \cup wroteDropped(b, o, droppedBy(b.schema, h.schema))
                   \cup wroteDropped(b, h, droppedBy(b.schema, o.schema))
           p == [k \in {j \in dT : rows[j].put # {}} |-> CHOOSE r \in rows[k].put : TRUE]
           M == mergeRows(u, b, o, h)
<1>1. M = IF at # {} THEN Conflicted(at) ELSE IF ~flushable(u, p) THEN Failed ELSE Merged(flushed(u, p))
  BY Zenon DEF mergeRows
<1>2. at = {} /\ M = Merged(flushed(u, p))
  <2> HIDE DEF at, p, M
  <2>1. M.did = "merged"
    BY Zenon DEF M
  <2>2. QED
    BY Zenon, <1>1, <2>1 DEF Conflicted, Failed
<1> HIDE DEF next, dO, dT, rows, at, p, M
<1>3. \A k \in dT : rows[k].at = {}
  BY Zenon, <1>2 DEF at
<1>4. \A k \in dT : rows[k] = IF k \in dO THEN reconcile(next, b, o, h, k) ELSE apply(next, h, k)
  BY Zenon DEF rows
<1>5. DOMAIN p = {k \in dT : rows[k].put # {}} /\ p = [k \in DOMAIN p |-> p[k]]
      /\ \A k \in DOMAIN p : p[k] = CHOOSE r \in rows[k].put : TRUE
  BY DEF p
<1>6. GoodSchema(next) /\ dT \subseteq Keys /\ next.pk = h.schema.pk
  BY Zenon, HeldParts DEF diffKeys, dT, next
<1>7. \A k \in dT : \A r : rows[k].put = {r} => k \in DOMAIN p /\ p[k] = r
  BY Zenon, <1>5
<1>8. ASSUME NEW k \in dT, k \notin dO
      PROVE  /\ k \in DOMAIN p
             /\ p[k] = IF k \in DOMAIN h.primary THEN convertRow(rowOf(h, k), next) ELSE Deleted
             /\ p[k] = Deleted \/ GoodRow(next, k, p[k])
  <2>1. rows[k] = apply(next, h, k) /\ apply(next, h, k).at = {}
    BY Zenon, <1>3, <1>4, <1>8
  <2>2. CASE k \notin DOMAIN h.primary
    BY <1>7, <2>1, <2>2, Applied
  <2>3. CASE k \in DOMAIN h.primary
    <3> DEFINE r == rowOf(h, k)
    <3>1. rows[k].put = {convertRow(r, next)} /\ encodable(next, convertRow(r, next))
      BY Zenon, <2>1, <2>3, Applied
    <3>2. k \in DOMAIN p /\ p[k] = convertRow(r, next)
      BY Zenon, <1>7, <3>1
    <3>3. GoodRow(next, k, convertRow(r, next))
      <4>1. GoodRow(h.schema, k, r) /\ h.schema.pk[1] \in tags(h.schema.columns)
        BY Zenon, <2>3, HeldParts, SchemaParts
      <4>2. next.pk[1] \in tags(next.columns) /\ next.pk[1] \in DOMAIN r /\ r[next.pk[1]] = k
        BY Zenon, <1>6, <4>1, SchemaParts DEF GoodRow
      <4> HIDE DEF r
      <4>3. /\ convertRow(r, next) = [x \in tags(next.columns) |-> convertRow(r, next)[x]]
            /\ convertRow(r, next)[next.pk[1]] = k
        BY Zenon, <4>2 DEF convertRow, cellOf
      <4>4. QED
        BY Zenon, <3>1, <4>3 DEF GoodRow
    <3>4. QED
      BY Zenon, <2>3, <3>2, <3>3
  <2>4. QED
    BY Zenon, <2>2, <2>3
<1>9. ASSUME NEW k \in dT, k \in dO
      PROVE  \/ k \notin DOMAIN o.primary /\ k \notin DOMAIN h.primary /\ k \notin DOMAIN p
             \/ /\ k \in DOMAIN o.primary /\ k \in DOMAIN h.primary
                /\ k \in DOMAIN p /\ p[k] = MRow(next, b, o, h, k)
                /\ \A c \in Range(others(next)) : Clean(MCell(b, o, h, k, c))
                /\ GoodRow(next, k, p[k])
  <2> DEFINE R == reconcile(next, b, o, h, k)
  <2>1. rows[k] = R /\ R.at = {}
    BY Zenon, <1>3, <1>4, <1>9
  <2>2. Settled(next, b, o, h, k, R.put)
    BY <2>1, Reconciled, Zenon
  <2> HIDE DEF R
  <2>3. R.put = {} => k \notin DOMAIN p
    BY Zenon, <1>5, <2>1
  <2>4. encodable(next, MRow(next, b, o, h, k)) => GoodRow(next, k, MRow(next, b, o, h, k))
    BY Zenon, <1>6, MRowGood
  <2>5. QED
    BY <1>7, <2>1, <2>2, <2>3, <2>4, Zenon DEF Settled
<1>10. GoodEdits(next, p)
  <2>1. \A k \in DOMAIN p : k \in dT /\ (p[k] = Deleted \/ GoodRow(next, k, p[k]))
    BY Zenon, <1>5, <1>8, <1>9
  <2>2. QED
    BY Zenon, <1>5, <1>6, <2>1 DEF GoodEdits
<1>11. MergePuts(next, b, o, h, p)
  <2>1. DOMAIN p \subseteq dT
    BY Zenon, <1>5
  <2>2. QED
    BY <1>8, <1>9, <1>10, <2>1, Zenon DEF MergePuts, dO, dT
<1>12. QED
  BY Zenon, <1>2, <1>11 DEF M, next

\* The merged schema, where the schemas do not conflict: a side's, or one that
\* validates, under the key they share.
LEMMA SchemaMerged ==
  ASSUME NEW b, NEW o, NEW h, GoodSchema(b), GoodSchema(o), GoodSchema(h),
         mergeSchemas(b, o, h).conflicts = {}
  PROVE  /\ o.pk = b.pk /\ h.pk = b.pk
         /\ GoodSchema(mergeSchemas(b, o, h).schema) /\ mergeSchemas(b, o, h).schema.pk = b.pk
         /\ (o = h \/ h = b) => mergeSchemas(b, o, h).schema = o
         /\ o = b => mergeSchemas(b, o, h).schema = h
<1> DEFINE M == mergeSchemas(b, o, h)
<1>1. PICK w, cs :
        /\ w.pk = b.pk
        /\ M = IF o.pk # b.pk \/ h.pk # b.pk THEN SchemaIs(NoSchema, {schemaLocation})
               ELSE IF o = h \/ h = b THEN SchemaIs(o, {})
               ELSE IF o = b THEN SchemaIs(h, {})
               ELSE IF cs # {} THEN SchemaIs(NoSchema, cs)
               ELSE IF ~Validate(w) THEN SchemaIs(NoSchema, {schemaLocation})
               ELSE SchemaIs(w, {})
  <2> DEFINE kept == keptBy(b.columns, o.columns, h.columns)
             merged == [i \in DOMAIN kept |->
                          mergeColumn(kept[i], column(o, kept[i].tag), column(h, kept[i].tag))]
             add == additions(b.columns, o.columns, h.columns)
             columns == [i \in DOMAIN merged |-> merged[i].column] \o add.added
             ix == mergeIndexes(b.indexes, o.indexes, h.indexes, tags(columns))
             conflicts == {columnLocation(x) :
                             x \in lostChange(b.columns, o.columns, h.columns) \cup add.clash
                               \cup {kept[i].tag : i \in {j \in DOMAIN kept : ~merged[j].clean}}}
                          \cup ix.conflicts
             whole == [columns |-> columns, pk |-> b.pk, indexes |-> ix.indexes]
  <2>1. M = IF o.pk # b.pk \/ h.pk # b.pk THEN SchemaIs(NoSchema, {schemaLocation})
            ELSE IF o = h \/ h = b THEN SchemaIs(o, {})
            ELSE IF o = b THEN SchemaIs(h, {})
            ELSE IF conflicts # {} THEN SchemaIs(NoSchema, conflicts)
            ELSE IF ~Validate(whole) THEN SchemaIs(NoSchema, {schemaLocation})
            ELSE SchemaIs(whole, {})
    BY Zenon DEF mergeSchemas
  <2> HIDE DEF kept, merged, add, columns, ix, conflicts, M
  <2>2. whole.pk = b.pk
    BY Zenon
  <2> HIDE DEF whole
  <2>3. QED
    BY Zenon, <2>1, <2>2
<1>2. M.conflicts = {}
  BY Zenon
<1> HIDE DEF M
<1>3. o.pk = b.pk /\ h.pk = b.pk
  BY Zenon, <1>1, <1>2 DEF SchemaIs
<1>4. /\ (o = h \/ h = b) => M.schema = o
      /\ o = b => M.schema = h
      /\ M.schema \in {o, h} \/ (Validate(w) /\ M.schema = w)
  BY Zenon, <1>1, <1>2, <1>3 DEF SchemaIs
<1>5. GoodSchema(w) <=> Validate(w)
  BY Zenon, <1>1 DEF GoodSchema
<1>6. QED
  BY Zenon, <1>1, <1>3, <1>4, <1>5 DEF M

\* ours under the merged schema.
UnderNext(next, o) == [k \in DOMAIN o.primary |-> convertRow(rowOf(o, k), next)]

\* A merge without conflicts: the merged rows over ours, in one table.
LEMMA MergeIs ==
  ASSUME NEW b, NEW o, NEW h, Held(b), Held(o), Held(h), Merge(b, o, h).did = "merged"
  PROVE  LET next == mergeSchemas(b.schema, o.schema, h.schema).schema
         IN /\ mergeSchemas(b.schema, o.schema, h.schema).conflicts = {}
            /\ GoodSchema(next) /\ GoodRows(next, UnderNext(next, o))
            /\ \E p : /\ MergePuts(next, b, o, h, p)
                      /\ Merge(b, o, h) = Merged(Stored(next, Over(UnderNext(next, o), p)))
<1> DEFINE ms == mergeSchemas(b.schema, o.schema, h.schema)
           next == ms.schema
           M == Merge(b, o, h)
           un == UnderNext(next, o)
<1>1. M = IF ms.conflicts # {} THEN Conflicted(ms.conflicts)
          ELSE IF next = o.schema THEN mergeRows(o, b, o, h)
          ELSE IF \/ ~alterable(o.schema, next)
                  \/ ~alterable(h.schema, next)
                  \/ ~withSchemaFits(o, next)
            THEN Conflicted({schemaLocation})
          ELSE mergeRows(withSchema(o, next), b, o, h)
  BY Zenon DEF Merge
<1>2. M.did = "merged"
  BY Zenon
<1> HIDE DEF M
<1>3. ms.conflicts = {}
  <2> HIDE DEF ms
  <2>1. QED
    BY <1>1, <1>2, Zenon DEF Conflicted
<1>4. GoodSchema(b.schema) /\ GoodSchema(o.schema) /\ GoodSchema(h.schema)
  BY Zenon, HeldParts
<1>5. GoodSchema(next) /\ next.pk = h.schema.pk
  BY <1>3, <1>4, SchemaMerged
<1> HIDE DEF ms, next
<1>6. PICK u : /\ M = mergeRows(u, b, o, h)
               /\ Held(u) /\ u.schema = next /\ rowsOf(u) = un
  <2>1. CASE next = o.schema
    <3>1. M = mergeRows(o, b, o, h)
      BY Zenon, <1>1, <1>3, <2>1
    <3>2. \A k \in DOMAIN o.primary : convertRow(rowOf(o, k), next) = rowOf(o, k)
      BY Zenon, <2>1, HeldParts, ConvertedSame
    <3>3. rowsOf(o) = un
      BY Zenon, <3>2 DEF rowsOf, UnderNext
    <3>4. QED
      BY Zenon, <2>1, <3>1, <3>3
  <2>2. CASE next # o.schema
    <3> DEFINE u == withSchema(o, next)
    <3>1. M = mergeRows(u, b, o, h) /\ alterable(o.schema, next) /\ withSchemaFits(o, next)
      BY Zenon, <1>1, <1>2, <1>3, <2>2 DEF Conflicted
    <3>2. /\ GoodSchema(o.schema) /\ GoodRows(o.schema, rowsOf(o)) /\ o = Stored(o.schema, rowsOf(o))
      BY Zenon DEF Held
    <3>3. un = [k \in DOMAIN rowsOf(o) |-> convertRow(rowsOf(o)[k], next)]
      BY Zenon DEF UnderNext, rowsOf
    <3>4. withSchemaFits(Stored(o.schema, rowsOf(o)), next)
      BY Zenon, <3>1, <3>2
    <3>5. GoodRows(next, un) /\ withSchema(Stored(o.schema, rowsOf(o)), next) = Stored(next, un)
      BY <3>1, <3>2, <3>3, <3>4, StoredAltered
    <3>6. u = Stored(next, un)
      BY Zenon, <3>2, <3>5
    <3> HIDE DEF u, un
    <3>7. Held(u) /\ u.schema = next /\ rowsOf(u) = un
      BY Zenon, <1>5, <3>5, <3>6, StoredHeld
    <3>8. QED
      BY Zenon, <3>1, <3>7
  <2>3. QED
    BY Zenon, <2>1, <2>2
<1> HIDE DEF un
<1>7. PICK p : MergePuts(next, b, o, h, p) /\ M = Merged(flushed(u, p))
  <2>1. mergeRows(u, b, o, h).did = "merged" /\ u.schema.pk = h.schema.pk
    BY Zenon, <1>2, <1>5, <1>6
  <2>2. \E p : MergePuts(u.schema, b, o, h, p) /\ mergeRows(u, b, o, h) = Merged(flushed(u, p))
    BY Zenon, <1>6, <2>1, MergedRows
  <2>3. QED
    BY Zenon, <1>6, <2>2
<1>8. GoodRows(next, un) /\ u = Stored(next, un)
  BY Zenon, <1>6 DEF Held
<1>9. flushed(u, p) = Stored(next, Over(un, p))
  <2>1. GoodEdits(next, p)
    BY Zenon, <1>7 DEF MergePuts
  <2>2. QED
    BY Zenon, <1>5, <1>8, <2>1, StoredFlushed
<1>10. M = Merged(Stored(next, Over(un, p)))
  BY Zenon, <1>7, <1>9
<1>11. QED
  BY <1>3, <1>5, <1>7, <1>8, <1>10, Zenon DEF M, next, ms, un

\* The rows of a merge, by who changed them.
MergeOf(next, b, o, h, rows) ==
    /\ DOMAIN rows = (DOMAIN o.primary \cap DOMAIN h.primary)
                       \cup ((DOMAIN o.primary \cup DOMAIN h.primary) \ DOMAIN b.primary)
    /\ \A k \in DOMAIN rows :
         /\ k \notin diffKeys(b, h) =>
              k \in DOMAIN o.primary /\ rows[k] = convertRow(rowOf(o, k), next)
         /\ (k \in diffKeys(b, h) /\ k \notin diffKeys(b, o)) =>
              k \in DOMAIN h.primary /\ rows[k] = convertRow(rowOf(h, k), next)
         /\ (k \in diffKeys(b, h) /\ k \in diffKeys(b, o)) =>
              /\ k \in DOMAIN o.primary /\ k \in DOMAIN h.primary
              /\ rows[k] = MRow(next, b, o, h, k)
              /\ \A c \in Range(others(next)) : Clean(MCell(b, o, h, k, c))

\* Those puts over our rows are the merge, row by row.
LEMMA MergeOfOver ==
  ASSUME NEW next, NEW b, NEW o, NEW h, NEW p, MergePuts(next, b, o, h, p), GoodSchema(next)
  PROVE  MergeOf(next, b, o, h, Over(UnderNext(next, o), p))
<1> DEFINE B == DOMAIN b.primary
           O == DOMAIN o.primary
           H == DOMAIN h.primary
           dO == diffKeys(b, o)
           dT == diffKeys(b, h)
           un == UnderNext(next, o)
           rows == Over(un, p)
           m(k) == MRow(next, b, o, h, k)
           clean(k) == \A c \in Range(others(next)) : Clean(MCell(b, o, h, k, c))
           co(k) == convertRow(rowOf(o, k), next)
           ch(k) == convertRow(rowOf(h, k), next)
<1>1. /\ \A k : k \in dO => k \in B \cup O
      /\ \A k : k \in dT => k \in B \cup H
      /\ \A k : k \in B \cup O /\ k \notin dO => k \in B /\ k \in O
      /\ \A k : k \in B \cup H /\ k \notin dT => k \in B /\ k \in H
  BY Zenon DEF diffKeys
<1>2. DOMAIN un = O /\ \A k \in O : un[k] = co(k)
  BY Zenon DEF UnderNext
<1>3. /\ DOMAIN p \subseteq dT
      /\ \A k \in dT : k \notin dO => k \in DOMAIN p /\ p[k] = IF k \in H THEN ch(k) ELSE Deleted
      /\ \A k \in dT : k \in dO =>
           \/ k \notin O /\ k \notin H /\ k \notin DOMAIN p
           \/ k \in O /\ k \in H /\ k \in DOMAIN p /\ p[k] = m(k) /\ clean(k)
  BY Zenon DEF MergePuts
<1>4. \A k \in DOMAIN p : k \in H => p[k] # Deleted
  <2>1. SUFFICES ASSUME NEW k \in DOMAIN p, k \in H
                 PROVE  p[k] # Deleted
    BY Zenon
  <2>2. \E x \in tags(next.columns) : TRUE
    BY Zenon, SchemaParts
  <2>3. DOMAIN ch(k) # {} /\ DOMAIN m(k) # {}
    BY Zenon, <2>2 DEF convertRow, MRow
  <2> HIDE DEF ch, m, dO, dT, clean
  <2>4. DOMAIN p[k] # {}
    BY Zenon, <1>3, <2>1, <2>3
  <2>5. QED
    BY Zenon, <2>4 DEF Deleted
<1>5. DOMAIN rows = (O \ DOMAIN p) \cup Puts(p)
      /\ \A k \in DOMAIN rows : rows[k] = IF k \in Puts(p) THEN p[k] ELSE un[k]
  BY Zenon, <1>2 DEF Over
<1>6. \A k : k \in Puts(p) <=> (k \in DOMAIN p /\ k \in H)
  <2> HIDE DEF ch, m, dO, dT, clean, O, H
  <2>1. QED
    BY Zenon, <1>3, <1>4 DEF Puts
<1> HIDE DEF B, O, H, dO, dT, un, rows, m, clean, co, ch
<1>7. DOMAIN rows = (O \cap H) \cup ((O \cup H) \ B)
  <2>1. ASSUME NEW k
        PROVE  k \in DOMAIN rows <=> k \in (O \cap H) \cup ((O \cup H) \ B)
    <3>1. k \in DOMAIN rows <=> ((k \in O /\ k \notin DOMAIN p) \/ (k \in DOMAIN p /\ k \in H))
      BY Zenon, <1>5, <1>6
    <3>2. CASE k \notin dT
      BY Zenon, <1>1, <1>3, <3>1, <3>2
    <3>3. CASE k \in dT /\ k \notin dO
      BY Zenon, <1>1, <1>3, <3>1, <3>3
    <3>4. CASE k \in dT /\ k \in dO
      BY Zenon, <1>1, <1>3, <3>1, <3>4
    <3>5. QED
      BY Zenon, <3>2, <3>3, <3>4
  <2>2. QED
    BY Zenon, <2>1
<1>8. ASSUME NEW k \in DOMAIN rows
      PROVE  /\ k \notin dT => k \in O /\ rows[k] = co(k)
             /\ (k \in dT /\ k \notin dO) => k \in H /\ rows[k] = ch(k)
             /\ (k \in dT /\ k \in dO) => k \in O /\ k \in H /\ rows[k] = m(k) /\ clean(k)
  <2>1. CASE k \notin dT
    BY <1>2, <1>3, <1>5, <1>6, <2>1, Zenon
  <2>2. CASE k \in dT /\ k \notin dO
    BY Zenon, <1>3, <1>5, <1>6, <2>2
  <2>3. CASE k \in dT /\ k \in dO
    BY Zenon, <1>3, <1>5, <1>6, <2>3
  <2>4. QED
    BY Zenon, <2>1, <2>2, <2>3
<1>9. QED
  BY <1>7, <1>8, Zenon DEF MergeOf, B, O, H, dO, dT, un, rows, m, clean, co, ch

=============================================================================
