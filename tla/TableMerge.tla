----------------------------- MODULE TableMerge -----------------------------
(***************************************************************************)
(* The merge of a table, Model.Merge of src/model/table/model.go: the      *)
(* schemas by tag, ours rewritten under the merged one, then the rows that *)
(* differ from the base as they are encoded, cell by cell.                 *)
(***************************************************************************)
EXTENDS TableStore

rowLocation(k) == <<"row", k>>
cellLocation(k, tag) == <<"cell", k, tag>>

\* prolly.Diff: the keys whose record is added, removed or other bytes.
diffKeys(from, to) ==
  {k \in DOMAIN from.primary \cup DOMAIN to.primary :
     (k \in DOMAIN from.primary /\ k \in DOMAIN to.primary) => from.primary[k] # to.primary[k]}

rowAt(t, k) == IF k \in DOMAIN t.primary THEN rowOf(t, k) ELSE [tag \in {} |-> NULL]

\* The conflicts at columns the other side dropped and this side wrote to.
wroteDropped(base, side, dropped) ==
  {columnLocation(tag) : tag \in
     {d \in dropped : \E k \in diffKeys(base, side) \cap DOMAIN side.primary :
        cellOf(rowAt(base, k), d) # cellOf(rowOf(side, k), d)}}

\* diffIter: a change per row added or removed and per cell changed; the
\* locations alone.
diffIter(from, to) ==
  LET both == DOMAIN from.primary \cap DOMAIN to.primary
  IN {rowLocation(k) : k \in diffKeys(from, to) \ both}
     \cup {cellLocation(x[1], x[2].tag) :
             x \in {y \in (diffKeys(from, to) \cap both) \X Range(others(to.schema)) :
                      rowOf(from, y[1])[y[2].tag] # rowOf(to, y[1])[y[2].tag]}}

\* convertRow refuses a cell whose column's type cannot follow.
rowConvertible(schema, row, next) ==
  \A c \in Range(next.columns) :
    (has(schema, c.tag) /\ cellOf(row, c.tag) # NULL) => convertible(column(schema, c.tag), c)

\* One row's outcome: conflicts, and the row to put (or Deleted, or nothing).
Conflict(at) == [at |-> at, put |-> {}]
PutRow(schema, k, row) == IF encodable(schema, row) THEN [at |-> {}, put |-> {row}]
                          ELSE Conflict({rowLocation(k)})

\* A row that does not fit the merged schema put all the same.
apply_Fault(next, theirs, k) ==
  [at |-> {}, put |-> {IF k \in DOMAIN theirs.primary THEN convertRow(rowOf(theirs, k), next) ELSE Deleted}]

apply(next, theirs, k) ==
  IF k \notin DOMAIN theirs.primary THEN [at |-> {}, put |-> {Deleted}]
  ELSE IF ~rowConvertible(theirs.schema, rowOf(theirs, k), next) THEN Conflict({rowLocation(k)})
  ELSE PutRow(next, k, convertRow(rowOf(theirs, k), next))

\* Ours read in the base's place.
mergeCell_Fault(c, b, o, t) ==
  Scalar(encodeCell(c, o), encodeCell(c, o), encodeCell(c, t))

\* mergeCell: a Scalar over the encodings, NULL a value like another.
mergeCell(c, b, o, t) ==
  Scalar(encodeCell(c, b), encodeCell(c, o), encodeCell(c, t))
cellFits(c, v) == fits([c EXCEPT !.nullable = TRUE], v)

\* A row both sides changed a conflict, whichever cells they changed.
reconcile_Fault(next, base, ours, theirs, k) ==
  IF k \notin DOMAIN ours.primary /\ k \notin DOMAIN theirs.primary THEN [at |-> {}, put |-> {}]
  ELSE Conflict({rowLocation(k)})

reconcile(next, base, ours, theirs, k) ==
  LET inO == k \in DOMAIN ours.primary
      inT == k \in DOMAIN theirs.primary
      b == rowAt(base, k)
      o == rowAt(ours, k)
      t == rowAt(theirs, k)
      cols == Range(others(next))
      cell(c) == mergeCell(c, cellOf(b, c.tag), cellOf(o, c.tag), cellOf(t, c.tag))
      bad == {c \in cols : \/ \E r \in {b, o, t} : ~cellFits(c, cellOf(r, c.tag))
                           \/ ~Clean(cell(c))}
      merged == [tag \in tags(next.columns) |->
                   IF isKey(next, tag) THEN k ELSE decodeCell(cell(column(next, tag)).value)]
  IN IF ~inO /\ ~inT THEN [at |-> {}, put |-> {}]
     ELSE IF ~inO \/ ~inT THEN Conflict({rowLocation(k)})
     ELSE IF \E s \in {<<base, b>>, <<ours, o>>, <<theirs, t>>} : ~rowConvertible(s[1].schema, s[2], next)
       THEN Conflict({rowLocation(k)})
     ELSE IF bad # {} THEN Conflict({cellLocation(k, c.tag) : c \in bad})
     ELSE PutRow(next, k, merged)

Conflicted(at) == [did |-> "conflict", at |-> at]
Merged(t) == [did |-> "merged", table |-> t]
Failed == [did |-> "error"]

\* Diff, of two tables of one schema.
Diff(from, to) == IF from.schema # to.schema THEN Failed ELSE [did |-> "diff", at |-> diffIter(from, to)]

\* The rows into mt, ours under the merged schema.
mergeRows(mt, base, ours, theirs) ==
  LET dO == diffKeys(base, ours)
      dT == diffKeys(base, theirs)
      rows == [k \in dT |-> IF k \in dO THEN reconcile(mt.schema, base, ours, theirs, k)
                            ELSE apply(mt.schema, theirs, k)]
      at == (UNION {rows[k].at : k \in dT})
              \cup wroteDropped(base, ours, droppedBy(base.schema, theirs.schema))
              \cup wroteDropped(base, theirs, droppedBy(base.schema, ours.schema))
      edited == {k \in dT : rows[k].put # {}}
      pending == [k \in edited |-> CHOOSE r \in rows[k].put : TRUE]
  IN IF at # {} THEN Conflicted(at)
     ELSE IF ~flushable(mt, pending) THEN Failed
     ELSE Merged(flushed(mt, pending))

Merge(base, ours, theirs) ==
  LET ms == mergeSchemas(base.schema, ours.schema, theirs.schema)
      next == ms.schema
  IN IF ms.conflicts # {} THEN Conflicted(ms.conflicts)
     ELSE IF next = ours.schema THEN mergeRows(ours, base, ours, theirs)
     ELSE IF \/ ~alterable(ours.schema, next)
             \/ ~alterable(theirs.schema, next)
             \/ ~withSchemaFits(ours, next)
       THEN Conflicted({schemaLocation})
     ELSE mergeRows(withSchema(ours, next), base, ours, theirs)
=============================================================================
