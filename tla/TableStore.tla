----------------------------- MODULE TableStore -----------------------------
(***************************************************************************)
(* A table as stored, src/model/table/store.go: the primary map from key   *)
(* to the row's other cells, and one map of entries per index.  A cell is  *)
(* NULL or an integer, which for a string stands for its length; a key is  *)
(* the value of the one key column.                                        *)
(***************************************************************************)
EXTENDS TableSchema

CONSTANTS Keys,           \* the keys rows may have
          MaxKeySize,     \* the longest key of a map, index entries included
          Int2Max         \* the largest int2

NULL == 0
Deleted == [tag \in {} |-> NULL]   \* a row always has its key: none is empty

isString(c) == c.type \in {"varchar", "text"}

\* encodeCell refuses what its column cannot hold.
fits(c, v) == IF v = NULL THEN c.nullable
              ELSE /\ c.type = "varchar" => v <= c.maxlen
                   /\ c.type = "int2" => v <= Int2Max

\* A varchar and a text encode alike, integers by their width.
encodeCell(c, v) == IF v = NULL THEN <<"null">>
                    ELSE <<IF isString(c) THEN "string" ELSE c.type, v>>
cellSize(c, v) == IF v # NULL /\ isString(c) THEN v ELSE 1

\* A row is a function from the tags of the schema's columns to cells.
cellOf(row, tag) == IF tag \in DOMAIN row THEN row[tag] ELSE NULL
without(s, i) == SubSeq(s, 1, i - 1) \o SubSeq(s, i + 1, Len(s))
others(schema) ==
  without(schema.columns, CHOOSE i \in DOMAIN schema.columns : isKey(schema, schema.columns[i].tag))

\* encodeValue refuses a column the schema lacks and a cell that does not fit.
encodable(schema, row) ==
  /\ DOMAIN row \subseteq tags(schema.columns)
  /\ \A c \in Range(others(schema)) : fits(c, cellOf(row, c.tag))
encodeValue(schema, row) ==
  LET cs == others(schema) IN [i \in DOMAIN cs |-> encodeCell(cs[i], cellOf(row, cs[i].tag))]

decodeCell(e) == IF e = <<"null">> THEN NULL ELSE e[2]
decodeRow(schema, k, vb) ==
  [tag \in tags(schema.columns) |->
     IF isKey(schema, tag) THEN k
     ELSE decodeCell(vb[CHOOSE i \in DOMAIN vb : others(schema)[i].tag = tag])]
rowOf(t, k) == decodeRow(t.schema, k, t.primary[k])

\* An index entry: the index columns' cells, then the row's key.
indexKey(schema, ix, row, k) ==
  [cells |-> [i \in DOMAIN ix.columns |-> encodeCell(column(schema, ix.columns[i]), cellOf(row, ix.columns[i]))],
   key |-> k]
entryFits(schema, ix, row) ==
  SumFunction([i \in DOMAIN ix.columns |->
                 cellSize(column(schema, ix.columns[i]), cellOf(row, ix.columns[i]))]) + 1
    <= MaxKeySize

empty(schema) == [schema |-> schema, primary |-> [k \in {} |-> <<>>],
                  index |-> [x \in tags(schema.indexes) |-> {}]]

\* exists: the editor's pending rows over the table's.
exists(t, pending, k) == IF k \in DOMAIN pending THEN pending[k] # Deleted
                         ELSE k \in DOMAIN t.primary

\* Flush's in-memory half: the primary map and each index after the pending
\* rows, an entry too long refused.
flushable(t, pending) ==
  \A k \in DOMAIN pending, ix \in Range(t.schema.indexes) :
    pending[k] # Deleted => entryFits(t.schema, ix, pending[k])
\* A replaced row's old entries left in the indexes.
flushed_Fault(t, pending) ==
  LET puts == {k \in DOMAIN pending : pending[k] # Deleted}
  IN [t EXCEPT
        !.primary = [k \in (DOMAIN t.primary \ DOMAIN pending) \cup puts |->
                       IF k \in puts THEN encodeValue(t.schema, pending[k]) ELSE t.primary[k]],
        !.index = [x \in DOMAIN t.index |->
                     {e \in t.index[x] : e.key \notin DOMAIN pending \ puts}
                       \cup {indexKey(t.schema, byTag(t.schema.indexes, x), pending[k], k) : k \in puts}]]

flushed(t, pending) ==
  LET puts == {k \in DOMAIN pending : pending[k] # Deleted}
      had == DOMAIN pending \cap DOMAIN t.primary
      entries(x, ks, row(_)) == {indexKey(t.schema, byTag(t.schema.indexes, x), row(k), k) : k \in ks}
  IN [t EXCEPT
        !.primary = [k \in (DOMAIN t.primary \ DOMAIN pending) \cup puts |->
                       IF k \in puts THEN encodeValue(t.schema, pending[k]) ELSE t.primary[k]],
        !.index = [x \in DOMAIN t.index |->
                     (t.index[x] \ entries(x, had, LAMBDA k : rowOf(t, k)))
                       \cup entries(x, puts, LAMBDA k : pending[k])]]

\* IndexLookup: the rows of the entries whose leading cells are the values'.
IndexLookup(t, x, values) ==
  LET ix == byTag(t.schema.indexes, x)
      lo == [i \in DOMAIN values |-> encodeCell(column(t.schema, ix.columns[i]), values[i])]
  IN {rowOf(t, e.key) : e \in {n \in t.index[x] : \A i \in DOMAIN lo : n.cells[i] = lo[i]}}

\* The row under another schema, columns matched by tag.
convertRow(row, next) ==
  [tag \in tags(next.columns) |-> cellOf(row, tag)]

\* WithSchema, once alterable: every row converted, put and flushed.
converted(t, next) == [k \in DOMAIN t.primary |-> convertRow(rowOf(t, k), next)]
withSchemaFits(t, next) ==
  /\ \A k \in DOMAIN t.primary : encodable(next, converted(t, next)[k])
  /\ flushable(empty(next), converted(t, next))
withSchema(t, next) == flushed(empty(next), converted(t, next))

\* What Open and Validate hold a table to: every row decodes, and every index
\* has as many entries as there are rows, each naming one.
Valid(t) == /\ Validate(t.schema)
            /\ DOMAIN t.index = tags(t.schema.indexes)
            /\ \A x \in DOMAIN t.index :
                 /\ ExistsBijection(t.index[x], DOMAIN t.primary)
                 /\ \A e \in t.index[x] : e.key \in DOMAIN t.primary

\* The table that holds rows, by key, and nothing else.
Stored(schema, rows) ==
  [schema |-> schema,
   primary |-> [k \in DOMAIN rows |-> encodeValue(schema, rows[k])],
   index |-> [x \in tags(schema.indexes) |->
                {indexKey(schema, byTag(schema.indexes, x), rows[k], k) : k \in DOMAIN rows}]]
rowsOf(t) == [k \in DOMAIN t.primary |-> rowOf(t, k)]
=============================================================================
