--------------------------- MODULE TableBranches ---------------------------
(***************************************************************************)
(* One table on two branches: each alters it and edits its rows through    *)
(* the table's own operations, then they merge.                            *)
(***************************************************************************)
EXTENDS TableMerge

CONSTANTS Bases,          \* the tables the branches may fork from
          Alters(_),      \* the schemas a schema may be altered to
          Cells,          \* the cells of the rows they write
          MaxAlters, MaxEdits   \* bounds: alterations and row edits of a branch

ASSUME BasesAssumption ==
  \A b \in Bases :
    /\ Validate(b.schema) /\ Len(b.schema.pk) = 1
    /\ b = Stored(b.schema, rowsOf(b))
    /\ \A k \in DOMAIN b.primary : k \in Keys /\ encodable(b.schema, rowOf(b, k))

VARIABLES base, ours, theirs,
          phase,          \* whose turn it is: "ours", "theirs", "done"
          alters, edits,  \* what this branch has done
          out             \* the merge, and the merge from the other branch

vars == <<base, ours, theirs, phase, alters, edits, out>>
None == [did |-> "nothing"]

Init == /\ base \in Bases /\ ours = base /\ theirs = base
        /\ phase = "ours" /\ alters = 0 /\ edits = 0
        /\ out = [got |-> None, swapped |-> None]

Side == IF phase = "ours" THEN ours ELSE theirs
Become(t) == /\ ours' = IF phase = "ours" THEN t ELSE ours
             /\ theirs' = IF phase = "theirs" THEN t ELSE theirs
             /\ UNCHANGED <<base, phase, out>>

AlterTable(next) ==
  /\ phase # "done" /\ alters < MaxAlters
  /\ next # Side.schema /\ alterable(Side.schema, next) /\ withSchemaFits(Side, next)
  /\ Become(withSchema(Side, next))
  /\ alters' = alters + 1 /\ UNCHANGED edits

\* An insert, an update or a delete and its flush.
EditRow(k, p) ==
  /\ phase # "done" /\ edits < MaxEdits
  /\ p = Deleted => k \in DOMAIN Side.primary
  /\ p # Deleted => encodable(Side.schema, p)
  /\ flushable(Side, [x \in {k} |-> p])
  /\ Become(flushed(Side, [x \in {k} |-> p]))
  /\ edits' = edits + 1 /\ UNCHANGED alters

RowsFor(k) == {[tag \in tags(Side.schema.columns) |-> IF isKey(Side.schema, tag) THEN k ELSE f[tag]] :
                 f \in [{c.tag : c \in Range(others(Side.schema))} -> Cells]}

Turn == /\ phase = "ours" /\ phase' = "theirs" /\ alters' = 0 /\ edits' = 0
        /\ UNCHANGED <<base, ours, theirs, out>>

MergeBranches ==
  /\ phase = "theirs"
  /\ phase' = "done" /\ alters' = 0 /\ edits' = 0
  /\ out' = [got |-> Merge(base, ours, theirs), swapped |-> Merge(base, theirs, ours)]
  /\ UNCHANGED <<base, ours, theirs>>

Next == \/ \E next \in Alters(Side.schema) : AlterTable(next)
        \/ \E k \in Keys : \E p \in RowsFor(k) \cup {Deleted} : EditRow(k, p)
        \/ Turn
        \/ MergeBranches
Spec == Init /\ [][Next]_vars

Done == phase = "done"
Clear == Done /\ out.got.did = "merged"
-----------------------------------------------------------------------------
\* A side's row has the bytes of the base's row and not its cells: a column was
\* dropped or moved and another, in its place, given the bytes that were there.
\* prolly.Diff compares bytes, so the merge does not see the change.
Unseen(side, k) ==
  /\ k \in DOMAIN base.primary /\ k \in DOMAIN side.primary
  /\ base.primary[k] = side.primary[k]
  /\ \E tag \in tags(base.schema.columns) \cup tags(side.schema.columns) :
       cellOf(rowOf(base, k), tag) # cellOf(rowOf(side, k), tag)

\* A merged table is a whole table: it validates, every row fits the merged
\* schema, and it holds exactly its rows' bytes and index entries, whichever
\* side an index, a column and a row came from.
MergedWhole ==
  Clear =>
    LET m == out.got.table
    IN /\ Valid(m)
       /\ \A k \in DOMAIN m.primary : encodable(m.schema, rowOf(m, k))
       /\ m = Stored(m.schema, rowsOf(m))

\* A merge that reports no conflict loses no row and no cell: a row is there
\* exactly when neither side deleted it, and a cell is what the side that
\* changed it wrote, a schema change on either side notwithstanding, but for
\* the change that leaves the row's bytes as they were (Unseen).
CellsLand ==
  Clear =>
    LET m == out.got.table
    IN /\ DOMAIN m.primary =
            (DOMAIN ours.primary \cap DOMAIN theirs.primary)
              \cup ((DOMAIN ours.primary \cup DOMAIN theirs.primary) \ DOMAIN base.primary)
       /\ \A side \in {ours, theirs} : \A k \in DOMAIN m.primary \cap DOMAIN side.primary :
            ~Unseen(side, k) =>
              \A tag \in tags(m.schema.columns) \cap tags(side.schema.columns) :
                cellOf(rowAt(base, k), tag) # rowOf(side, k)[tag] => rowOf(m, k)[tag] = rowOf(side, k)[tag]

\* Between tables of one schema a merge conflicts exactly where the two
\* diffs meet: at a cell both changed, or a row one removed and the other
\* changed, and apart from a row added on both sides nowhere else.
DiffsMeet ==
  (Done /\ base.schema = ours.schema /\ base.schema = theirs.schema) =>
    LET o == Diff(base, ours).at
        t == Diff(base, theirs).at
        cells(d, k) == {l \in d : l[1] = "cell" /\ l[2] = k}
        same(l) == \E k \in DOMAIN ours.primary \cap DOMAIN theirs.primary :
                     /\ l[2] = k
                     /\ l[1] = "cell" => rowOf(ours, k)[l[3]] = rowOf(theirs, k)[l[3]]
        gone(l, d) == l[1] = "row" /\ l[2] \in DOMAIN base.primary /\ cells(d, l[2]) # {}
        meet == {l \in o \cap t : l[1] = "cell" /\ ~same(l)}
                  \cup {l \in o : gone(l, t)} \cup {l \in t : gone(l, o)}
        added == {k \in DOMAIN ours.primary \cap DOMAIN theirs.primary : k \notin DOMAIN base.primary}
        at == IF out.got.did = "conflict" THEN out.got.at ELSE {}
    IN {l \in at : l[2] \notin added} = meet

\* The laws of a clean merge: an unchanged side never shows, the merge with the
\* base being the other side's table, its schema whole (DESIGN.md, "the merge
\* identities hold"); and from either side it gives the same table, schema, rows
\* and indexes, though Merge rewrites ours and carries theirs across.  The first
\* holds of theirs unchanged always, the rest but for a change that leaves a
\* row's bytes as they were (Unseen).
MergeLaws ==
  Clear =>
    /\ theirs = base => out.got = Merged(ours)
    /\ (ours = base /\ \A k \in Keys : ~Unseen(theirs, k)) => out.got = Merged(theirs)
    /\ (out.swapped.did = "merged" /\ \A side \in {ours, theirs}, k \in Keys : ~Unseen(side, k))
         => out.got = out.swapped
=============================================================================
