----------------------------- MODULE TableEdit -----------------------------
(***************************************************************************)
(* A table under one Editor, src/model/table/store.go: inserts, updates    *)
(* and deletes held until Flush, a Flush that the store may fail at any of *)
(* its writes, and WithSchema (alter.go).                                  *)
(***************************************************************************)
EXTENDS TableStore

CONSTANTS Schemas,        \* the schemas a caller may create or alter to
          Values          \* the cells of the rows a caller hands over

ASSUME SchemasAssumption == \A s \in Schemas : s \in Schema /\ Len(s.pk) = 1

VARIABLES t,              \* the editor's table
          pending,        \* its edits, by key: a row or Deleted
          want,           \* the rows a plain map would hold after the same calls
          told            \* what the last call returned

editVars == <<t, pending, want, told>>

noRows == [k \in {} |-> <<>>]
EditInit == /\ t \in {empty(s) : s \in {x \in Schemas : Validate(x)}}
            /\ pending = noRows /\ want = noRows /\ told = "ok"

with(f, k, v) == [x \in DOMAIN f \cup {k} |-> IF x = k THEN v ELSE f[x]]
minus(f, k) == [x \in DOMAIN f \ {k} |-> f[x]]

\* The rows a caller may hand over, columns left out among them.
Rows == {r \in UNION {[d -> Values \cup Keys] : d \in SUBSET tags(t.schema.columns)} :
           cellOf(r, t.schema.pk[1]) \in Keys \cup {NULL}}
keyOf(row) == cellOf(row, t.schema.pk[1])

Refuse(err) == told' = err /\ UNCHANGED <<t, pending, want>>
Set(k, row) == /\ pending' = with(pending, k, convertRow(row, t.schema))
               /\ want' = with(want, k, convertRow(row, t.schema))
               /\ told' = "ok" /\ UNCHANGED t

Insert(row) ==
  /\ IF keyOf(row) = NULL \/ ~encodable(t.schema, row) THEN Refuse("ErrValue")
     ELSE IF exists(t, pending, keyOf(row)) THEN Refuse("ErrDuplicate")
     ELSE Set(keyOf(row), row)

Update(k, row) ==
  /\ IF (t.schema.pk[1] \in DOMAIN row /\ keyOf(row) # k) \/ ~encodable(t.schema, row)
       THEN Refuse("ErrValue")
     ELSE IF ~exists(t, pending, k) THEN Refuse("ErrNotFound")
     ELSE Set(k, with(row, t.schema.pk[1], k))

Delete(k) ==
  /\ IF ~exists(t, pending, k) THEN Refuse("ErrNotFound")
     ELSE /\ pending' = with(pending, k, Deleted) /\ want' = minus(want, k)
          /\ told' = "ok" /\ UNCHANGED t

\* The edits forgotten when the index refuses them.
Flush_Fault ==
  /\ told' = "ok" /\ pending' = noRows /\ UNCHANGED want
  /\ t' = IF flushable(t, pending) THEN flushed(t, pending) ELSE t

Flush ==
  /\ IF ~flushable(t, pending) THEN Refuse("ErrValue")
     ELSE \/ /\ t' = flushed(t, pending) /\ pending' = noRows
             /\ told' = "ok" /\ UNCHANGED want
          \/ Refuse("store")

\* WithSchema, on the table the last Flush returned; the caller goes on with
\* the table it returns.
Alter(next) ==
  /\ pending = noRows
  /\ IF ~alterable(t.schema, next) THEN Refuse("ErrSchema")
     ELSE IF ~withSchemaFits(t, next) THEN Refuse("ErrValue")
     ELSE /\ t' = withSchema(t, next)
          /\ want' = [k \in DOMAIN want |-> convertRow(want[k], next)]
          /\ told' = "ok" /\ UNCHANGED pending

EditNext == \/ \E row \in Rows : Insert(row) \/ \E k \in Keys : Update(k, row)
            \/ \E k \in Keys : Delete(k)
            \/ Flush
            \/ \E next \in Schemas : Alter(next)
EditSpec == EditInit /\ [][EditNext]_editVars
-----------------------------------------------------------------------------
\* The rows a reader of the table under its pending edits meets.
seen(k) == IF k \in DOMAIN pending THEN pending[k] ELSE rowOf(t, k)

\* The table with its pending edits is the map the calls describe, after a
\* refused call and after a Flush that failed part way too: Flush writes all
\* of the edits or none, and keeps them for the next one when it fails
\* (the comment on Editor).
EditsHeld ==
  /\ DOMAIN want = {k \in Keys : exists(t, pending, k)}
  /\ \A k \in DOMAIN want : seen(k) = want[k]

\* Every index answers as a scan with a filter would: the rows whose leading
\* columns hold the values asked for, none missing, none stale, whatever was
\* inserted, updated, deleted and altered before; and the table validates.
IndexIsScan ==
  /\ Valid(t)
  /\ \A x \in DOMAIN t.index : \A n \in 0 .. Len(byTag(t.schema.indexes, x).columns) : \A vs \in [1 .. n -> Values] :
       IndexLookup(t, x, vs) =
         {r \in {rowOf(t, k) : k \in DOMAIN t.primary} :
            \A i \in 1 .. n : r[byTag(t.schema.indexes, x).columns[i]] = vs[i]}
=============================================================================
