------------------------ MODULE TableBranchesProofs ------------------------
(***************************************************************************)
(* A table on two branches that merge, for every set of keys, every tables *)
(* to fork from and every alterations.                                     *)
(*                                                                         *)
(* BranchInv is inductive: base and branches are tables that hold their    *)
(* rows and nothing else, which is what each operation needs of the table  *)
(* it gets. The properties then follow from what Merge makes of three such *)
(* tables (MergeOf): that it is whole, that what a side wrote is in it,    *)
(* that it is the same from either side, where the schemas merge alike     *)
(* (SchemaTurned) and the rows do (RowsTurned), and that it conflicts      *)
(* where the two diffs meet.                                               *)
(***************************************************************************)
EXTENDS TableProofs, TableBranches

\* The row of x has the bytes of the row of b, and not its cells.
UnseenIn(b, x, k) ==
    /\ k \in DOMAIN b.primary /\ k \in DOMAIN x.primary
    /\ b.primary[k] = x.primary[k]
    /\ \E tag \in tags(b.schema.columns) \cup tags(x.schema.columns) :
         cellOf(rowOf(b, k), tag) # cellOf(rowOf(x, k), tag)

\* A row no diff shows has the base's cells, under every tag.
LEMMA SameCells ==
  ASSUME NEW b, NEW x, Held(b), Held(x), NEW k \in DOMAIN x.primary, ~UnseenIn(b, x, k), k \notin diffKeys(b, x)
  PROVE  /\ k \in DOMAIN b.primary
         /\ \A tag : cellOf(rowOf(b, k), tag) = cellOf(rowOf(x, k), tag)
<1>1. k \in DOMAIN b.primary /\ b.primary[k] = x.primary[k]
  BY Zenon DEF diffKeys
<1>2. \A tag \in tags(b.schema.columns) \cup tags(x.schema.columns) :
        cellOf(rowOf(b, k), tag) = cellOf(rowOf(x, k), tag)
  BY Zenon, <1>1 DEF UnseenIn
<1>3. DOMAIN rowOf(b, k) = tags(b.schema.columns) /\ DOMAIN rowOf(x, k) = tags(x.schema.columns)
  <2>1. GoodRow(b.schema, k, rowOf(b, k)) /\ GoodRow(x.schema, k, rowOf(x, k))
    BY Zenon, <1>1, HeldParts
  <2>2. QED
    BY Zenon, <2>1 DEF GoodRow
<1>4. ASSUME NEW tag, tag \notin tags(b.schema.columns) \cup tags(x.schema.columns)
      PROVE  cellOf(rowOf(b, k), tag) = cellOf(rowOf(x, k), tag)
  BY Zenon, <1>3, <1>4 DEF cellOf
<1>5. QED
  BY Zenon, <1>1, <1>2, <1>4

\* A merge without conflicts is a table that holds the merged rows.
LEMMA MergeTable ==
  ASSUME NEW b, NEW o, NEW h, Held(b), Held(o), Held(h), Merge(b, o, h).did = "merged"
  PROVE  LET next == mergeSchemas(b.schema, o.schema, h.schema).schema
         IN /\ mergeSchemas(b.schema, o.schema, h.schema).conflicts = {} /\ GoodSchema(next)
            /\ \E rows : /\ Merge(b, o, h) = Merged(Stored(next, rows))
                         /\ GoodRows(next, rows) /\ MergeOf(next, b, o, h, rows)
<1> DEFINE next == mergeSchemas(b.schema, o.schema, h.schema).schema
           un == UnderNext(next, o)
<1>1. /\ mergeSchemas(b.schema, o.schema, h.schema).conflicts = {}
      /\ GoodSchema(next) /\ GoodRows(next, un)
      /\ \E p : MergePuts(next, b, o, h, p) /\ Merge(b, o, h) = Merged(Stored(next, Over(un, p)))
  BY Zenon, MergeIs
<1> HIDE DEF next
<1>2. PICK p : MergePuts(next, b, o, h, p) /\ Merge(b, o, h) = Merged(Stored(next, Over(un, p)))
  BY Zenon, <1>1
<1>3. GoodRows(next, Over(un, p))
  <2>1. GoodEdits(next, p)
    BY Zenon, <1>2 DEF MergePuts
  <2>2. QED
    BY Zenon, <1>1, <2>1, OverGood
<1>4. MergeOf(next, b, o, h, Over(un, p))
  BY Zenon, <1>1, <1>2, MergeOfOver
<1>5. QED
  BY Zenon, <1>1, <1>2, <1>3, <1>4 DEF next

\* The column of a tag beside the key.
LEMMA ColumnOf ==
  ASSUME NEW s, GoodSchema(s), NEW x \in tags(s.columns), ~isKey(s, x)
  PROVE  column(s, x).tag = x /\ column(s, x) \in Range(others(s))
<1>1. PICK i \in DOMAIN others(s) : others(s)[i].tag = x
  BY Zenon, Others
<1>2. others(s)[i] \in Range(s.columns)
  BY Zenon, Others
<1>3. PICK n \in DOMAIN s.columns : s.columns[n] = others(s)[i]
  BY Zenon, <1>2 DEF Range
<1>4. byTag(s.columns, s.columns[n].tag) = s.columns[n]
  BY Zenon, SchemaParts, ByTag
<1>5. column(s, x) = others(s)[i]
  BY Zenon, <1>1, <1>3, <1>4 DEF column
<1>6. QED
  BY Zenon, <1>1, <1>5 DEF Range

\* A merged cell: the one a side wrote, and a conflict only where both wrote
\* and not the same.
LEMMA MergedCell ==
  ASSUME NEW c, NEW x, NEW y, NEW z
  PROVE  /\ Clean(mergeCell(c, x, y, z)) <=> (y = z \/ y = x \/ z = x)
         /\ Clean(mergeCell(c, x, y, z)) =>
              decodeCell(mergeCell(c, x, y, z).value) = IF y = x THEN z ELSE y
<1> DEFINE e(v) == encodeCell(c, v)
<1>1. \A v : decodeCell(e(v)) = v
  BY Zenon, CellBack
<1>2. mergeCell(c, x, y, z) = Scalar(e(x), e(y), e(z))
  BY Zenon DEF mergeCell
<1> HIDE DEF e
<1>3. (e(y) = e(z) <=> y = z) /\ (e(y) = e(x) <=> y = x) /\ (e(z) = e(x) <=> z = x)
  BY <1>1
<1>4. QED
  BY <1>1, <1>2, <1>3 DEF Scalar, Result, Clean

\* The cell v that x and its changes y and z merge to.
MergedTo(x, y, z, v) == (y = z \/ y = x \/ z = x) /\ v = IF y = x THEN z ELSE y

\* The cells of a row both sides changed.
LEMMA MRowCells ==
  ASSUME NEW s, NEW b, NEW o, NEW h, NEW k, GoodSchema(s), Held(o), Held(h),
         k \in DOMAIN o.primary, k \in DOMAIN h.primary,
         \A c \in Range(others(s)) : Clean(MCell(b, o, h, k, c)), NEW tag \in tags(s.columns)
  PROVE  /\ isKey(s, tag) => MRow(s, b, o, h, k)[tag] = k
         /\ ~isKey(s, tag) =>
              MergedTo(cellOf(rowAt(b, k), tag), cellOf(rowOf(o, k), tag), cellOf(rowOf(h, k), tag),
                       MRow(s, b, o, h, k)[tag])
<1>1. rowAt(o, k) = rowOf(o, k) /\ rowAt(h, k) = rowOf(h, k)
  BY Zenon DEF rowAt
<1> DEFINE d(a) == decodeCell(MCell(b, o, h, k, column(s, a)).value)
           m == MRow(s, b, o, h, k)
<1>2. m = [a \in tags(s.columns) |-> IF isKey(s, a) THEN k ELSE d(a)]
  BY Zenon DEF MRow
<1>3. m[tag] = IF isKey(s, tag) THEN k ELSE d(tag)
  <2> HIDE DEF m, d
  <2>1. QED
    BY Zenon, <1>2
<1>4. CASE ~isKey(s, tag)
  <2> DEFINE c == column(s, tag)
             x == cellOf(rowAt(b, k), tag)
             y == cellOf(rowOf(o, k), tag)
             z == cellOf(rowOf(h, k), tag)
  <2>1. c.tag = tag /\ c \in Range(others(s))
    BY Zenon, <1>4, ColumnOf
  <2>2. MCell(b, o, h, k, c) = mergeCell(c, x, y, z)
    BY Zenon, <1>1, <2>1 DEF MCell
  <2>3. Clean(mergeCell(c, x, y, z))
    BY Zenon, <2>1, <2>2
  <2>4. (y = z \/ y = x \/ z = x) /\ decodeCell(mergeCell(c, x, y, z).value) = IF y = x THEN z ELSE y
    BY <2>3, MergedCell
  <2>5. m[tag] = IF y = x THEN z ELSE y
    BY Zenon, <1>3, <1>4, <2>2, <2>4
  <2> HIDE DEF x, y, z, m, c
  <2>6. MergedTo(x, y, z, m[tag])
    BY Zenon, <2>4, <2>5 DEF MergedTo
  <2>7. QED
    BY Zenon, <1>4, <2>6 DEF x, y, z, m
<1>5. CASE isKey(s, tag)
  BY Zenon, <1>3, <1>5
<1>6. QED
  BY Zenon, <1>4, <1>5

\* No cell that side x wrote is lost in rows.
Lands(s, b, x, rows) ==
    \A k \in DOMAIN rows \cap DOMAIN x.primary : ~UnseenIn(b, x, k) =>
      \A tag \in tags(s.columns) \cap tags(x.schema.columns) :
        cellOf(rowAt(b, k), tag) # rowOf(x, k)[tag] => rows[k][tag] = rowOf(x, k)[tag]

\* A cell a side wrote is in the merged rows, when the merge could see it.
LEMMA CellLands ==
  ASSUME NEW s, NEW b, NEW o, NEW h, NEW rows, GoodSchema(s), Held(b), Held(o), Held(h),
         GoodRows(s, rows), MergeOf(s, b, o, h, rows),
         s.pk = o.schema.pk, s.pk = h.schema.pk
  PROVE  Lands(s, b, o, rows) /\ Lands(s, b, h, rows)
<1>0. SUFFICES ASSUME NEW x \in {o, h}, NEW k \in DOMAIN rows \cap DOMAIN x.primary, ~UnseenIn(b, x, k),
                      NEW tag \in tags(s.columns) \cap tags(x.schema.columns),
                      cellOf(rowAt(b, k), tag) # rowOf(x, k)[tag]
               PROVE  rows[k][tag] = rowOf(x, k)[tag]
  BY Zenon DEF Lands
<1>1. Held(x) /\ GoodRow(x.schema, k, rowOf(x, k))
  BY Zenon, HeldParts
<1>2. cellOf(rowOf(x, k), tag) = rowOf(x, k)[tag]
  BY Zenon, <1>1 DEF GoodRow, cellOf
<1>3. k \in DOMAIN b.primary => rowAt(b, k) = rowOf(b, k)
  BY Zenon DEF rowAt
<1>4. k \in diffKeys(b, x)
  BY <1>0, <1>1, <1>2, <1>3, SameCells
<1>5. \A y : convertRow(rowOf(y, k), s)[tag] = cellOf(rowOf(y, k), tag)
  BY Zenon DEF convertRow
<1>6. CASE k \notin diffKeys(b, h)
  <2>1. x = o /\ rows[k] = convertRow(rowOf(o, k), s)
    BY Zenon, <1>4, <1>6 DEF MergeOf
  <2>2. QED
    BY Zenon, <1>2, <1>5, <2>1
<1>7. CASE k \in diffKeys(b, h) /\ k \notin diffKeys(b, o)
  <2>1. x = h /\ rows[k] = convertRow(rowOf(h, k), s)
    BY Zenon, <1>4, <1>7 DEF MergeOf
  <2>2. QED
    BY Zenon, <1>2, <1>5, <2>1
<1>8. CASE k \in diffKeys(b, h) /\ k \in diffKeys(b, o)
  <2>1. /\ k \in DOMAIN o.primary /\ k \in DOMAIN h.primary /\ rows[k] = MRow(s, b, o, h, k)
        /\ \A c \in Range(others(s)) : Clean(MCell(b, o, h, k, c))
    BY Zenon, <1>8 DEF MergeOf
  <2>2. CASE isKey(s, tag)
    <3>1. tag = s.pk[1]
      BY Zenon, <2>2, KeyTag
    <3>2. rowOf(x, k)[tag] = k
      BY <1>1, <3>1, Zenon DEF GoodRow
    <3>3. rows[k][tag] = k
      BY Zenon, <3>1 DEF GoodRows, GoodRow
    <3>4. QED
      BY Zenon, <3>2, <3>3
  <2>3. CASE ~isKey(s, tag)
    <3> DEFINE bb == cellOf(rowAt(b, k), tag)
               oo == cellOf(rowOf(o, k), tag)
               hh == cellOf(rowOf(h, k), tag)
    <3>1. MergedTo(bb, oo, hh, rows[k][tag])
      BY <2>1, <2>3, MRowCells
    <3>2. (x = o /\ rowOf(x, k)[tag] = oo) \/ (x = h /\ rowOf(x, k)[tag] = hh)
      BY Zenon, <1>2
    <3>3. rowOf(x, k)[tag] # bb
      BY Zenon, <1>0
    <3> HIDE DEF bb, oo, hh
    <3>4. QED
      BY Zenon, <3>1, <3>2, <3>3 DEF MergedTo
  <2>4. QED
    BY Zenon, <2>2, <2>3
<1>9. QED
  BY Zenon, <1>6, <1>7, <1>8

-----------------------------------------------------------------------------
(* The branches.                                                           *)

\* Base and branches hold their rows, and what the merge made of them is kept.
BranchInv ==
    /\ Held(base) /\ Held(ours) /\ Held(theirs)
    /\ Done => out = [got |-> Merge(base, ours, theirs), swapped |-> Merge(base, theirs, ours)]

\* The tables the branches start from are held.
LEMMA BasesHeld ==
  ASSUME NEW b \in Bases
  PROVE  Held(b)
<1>1. GoodSchema(b.schema) /\ b = Stored(b.schema, rowsOf(b))
  BY Zenon, BasesAssumption DEF GoodSchema
<1>2. \A k \in DOMAIN b.primary : k \in Keys /\ encodable(b.schema, rowOf(b, k))
  BY Zenon, BasesAssumption
<1>3. \A k \in DOMAIN b.primary : GoodRow(b.schema, k, rowOf(b, k))
  BY <1>1, <1>2, DecodedRow DEF GoodRow, rowOf
<1>4. DOMAIN rowsOf(b) = DOMAIN b.primary /\ rowsOf(b) = [k \in DOMAIN rowsOf(b) |-> rowsOf(b)[k]]
      /\ \A k \in DOMAIN b.primary : rowsOf(b)[k] = rowOf(b, k)
  BY Zenon DEF rowsOf
<1>5. GoodRows(b.schema, rowsOf(b))
  BY Zenon, <1>2, <1>3, <1>4 DEF GoodRows
<1>6. QED
  BY Zenon, <1>1, <1>5 DEF Held

\* A branch altered.
LEMMA AlteredHeld ==
  ASSUME NEW x, NEW next, Held(x), alterable(x.schema, next), withSchemaFits(x, next)
  PROVE  Held(withSchema(x, next))
<1> DEFINE s == x.schema
           rows == rowsOf(x)
           c == [k \in DOMAIN rows |-> convertRow(rows[k], next)]
<1>1. GoodSchema(s) /\ GoodRows(s, rows) /\ x = Stored(s, rows)
  BY Zenon DEF Held
<1>2. withSchemaFits(Stored(s, rows), next) /\ withSchema(x, next) = withSchema(Stored(s, rows), next)
  <2>1. \A y : x = y => withSchemaFits(y, next) /\ withSchema(x, next) = withSchema(y, next)
    BY Zenon
  <2>2. QED
    BY Zenon, <1>1, <2>1
<1>3. GoodSchema(next) /\ GoodRows(next, c) /\ withSchema(Stored(s, rows), next) = Stored(next, c)
  BY <1>1, <1>2, StoredAltered
<1> HIDE DEF c, rows, s
<1>4. QED
  BY Zenon, <1>2, <1>3, StoredHeld

\* A branch with a row put or deleted.
LEMMA EditedHeld ==
  ASSUME NEW x, NEW k \in Keys, NEW r, Held(x), r = Deleted \/ GoodRow(x.schema, k, r)
  PROVE  Held(flushed(x, [y \in {k} |-> r]))
<1> DEFINE s == x.schema
           rows == rowsOf(x)
           p == [y \in {k} |-> r]
<1>1. GoodSchema(s) /\ GoodRows(s, rows) /\ x = Stored(s, rows)
  BY Zenon DEF Held
<1>2. GoodEdits(s, p)
  BY Zenon DEF GoodEdits
<1>3. flushed(x, p) = flushed(Stored(s, rows), p)
  <2>1. \A y : x = y => flushed(x, p) = flushed(y, p)
    BY Zenon
  <2>2. QED
    BY Zenon, <1>1, <2>1
<1> HIDE DEF s, rows, p
<1>4. flushed(Stored(s, rows), p) = Stored(s, Over(rows, p)) /\ GoodRows(s, Over(rows, p))
  BY Zenon, <1>1, <1>2, StoredFlushed, OverGood
<1>5. Held(flushed(x, p))
  BY Zenon, <1>1, <1>3, <1>4, StoredHeld
<1>6. QED
  BY Zenon, <1>5 DEF p

\* Every step of a branch, and the merge, keeps the invariant.
LEMMA BranchStep ==
  ASSUME BranchInv, [Next]_vars
  PROVE  BranchInv'
<1>1. Held(Side)
  BY Zenon DEF BranchInv, Side
<1>2. ASSUME NEW x, Held(x), Become(x), phase # "done"
      PROVE  BranchInv'
  <2>1. /\ base' = base /\ phase' = phase
        /\ ours' = x \/ ours' = ours
        /\ theirs' = x \/ theirs' = theirs
    BY Zenon, <1>2 DEF Become
  <2>2. Held(base') /\ Held(ours') /\ Held(theirs')
    BY Zenon, <1>2, <2>1 DEF BranchInv
  <2>3. ~Done'
    BY Zenon, <1>2, <2>1 DEF Done
  <2>4. QED
    BY <2>2, <2>3, Zenon DEF BranchInv
<1>3. CASE \E next \in Alters(Side.schema) : AlterTable(next)
  <2>1. PICK next : AlterTable(next)
    BY Zenon, <1>3
  <2>2. /\ alterable(Side.schema, next) /\ withSchemaFits(Side, next)
        /\ Become(withSchema(Side, next)) /\ phase # "done"
    BY Zenon, <2>1 DEF AlterTable
  <2>3. Held(withSchema(Side, next))
    BY Zenon, <1>1, <2>2, AlteredHeld
  <2>4. QED
    BY Zenon, <1>2, <2>2, <2>3
<1>4. CASE \E k \in Keys : \E p \in RowsFor(k) \cup {Deleted} : EditRow(k, p)
  <2>0. PICK k \in Keys : \E p \in RowsFor(k) \cup {Deleted} : EditRow(k, p)
    BY Zenon, <1>4
  <2>1. PICK p \in RowsFor(k) \cup {Deleted} : EditRow(k, p)
    BY Zenon, <2>0
  <2> DEFINE s == Side.schema
             f == flushed(Side, [x \in {k} |-> p])
  <2>2. (p # Deleted => encodable(s, p)) /\ Become(f) /\ phase # "done"
    BY Zenon, <2>1 DEF EditRow
  <2>3. CASE p # Deleted
    <3>1. PICK g : p = [tag \in tags(s.columns) |-> IF isKey(s, tag) THEN k ELSE g[tag]]
      BY <2>1, <2>3, Zenon DEF RowsFor
    <3>2. GoodSchema(s)
      BY Zenon, <1>1, HeldParts
    <3>3. s.pk[1] \in tags(s.columns) /\ isKey(s, s.pk[1])
      BY <3>2, SchemaParts, Zenon DEF isKey
    <3> HIDE DEF s
    <3>4. p = [tag \in tags(s.columns) |-> p[tag]] /\ p[s.pk[1]] = k
      BY Zenon, <3>1, <3>3
    <3>5. GoodRow(s, k, p)
      BY Zenon, <2>2, <2>3, <3>4 DEF GoodRow
    <3>6. QED
      BY <1>1, <1>2, <2>2, <3>5, EditedHeld, Zenon DEF s
  <2>4. CASE p = Deleted
    <3>1. Held(f)
      BY <1>1, <2>4, EditedHeld, Zenon
    <3>2. QED
      BY Zenon, <1>2, <2>2, <3>1
  <2>5. QED
    BY Zenon, <2>3, <2>4
<1>5. CASE Turn
  <2>1. base' = base /\ ours' = ours /\ theirs' = theirs /\ ~Done'
    BY Zenon, <1>5 DEF Turn, Done
  <2>2. QED
    BY <2>1, Zenon DEF BranchInv
<1>6. CASE MergeBranches
  BY <1>6, Zenon DEF MergeBranches, BranchInv
<1>7. CASE UNCHANGED vars
  <2>1. base' = base /\ ours' = ours /\ theirs' = theirs /\ phase' = phase /\ out' = out
    BY Zenon, <1>7 DEF vars
  <2>2. QED
    BY <2>1, Zenon DEF BranchInv, Done
<1>8. QED
  BY <1>3, <1>4, <1>5, <1>6, <1>7, Zenon DEF Next

\* BranchInv holds of every two branches.
LEMMA BranchInvHolds == Spec => []BranchInv
<1>1. Init => BranchInv
  BY Zenon, BasesHeld DEF Init, BranchInv, Done
<1>2. BranchInv /\ [Next]_vars => BranchInv'
  BY Zenon, BranchStep
<1>3. QED
  BY <1>1, <1>2, PTL DEF Spec

(***************************************************************************)
(* For every set of keys, every base and every alterations: a              *)
(* merged table validates, its rows fit its schema, and it is its rows'    *)
(* bytes and index entries and nothing else.                               *)
(***************************************************************************)
THEOREM MergedWholeAlways == Spec => []MergedWhole
<1>1. BranchInv => MergedWhole
  <2>1. SUFFICES ASSUME BranchInv, Clear
                 PROVE  LET m == out.got.table
                        IN /\ Valid(m)
                           /\ \A k \in DOMAIN m.primary : encodable(m.schema, rowOf(m, k))
                           /\ m = Stored(m.schema, rowsOf(m))
    BY Zenon DEF MergedWhole
  <2>2. out.got = Merge(base, ours, theirs) /\ Merge(base, ours, theirs).did = "merged"
    BY <2>1 DEF BranchInv, Clear
  <2>3. Held(base) /\ Held(ours) /\ Held(theirs)
    BY Zenon, <2>1 DEF BranchInv
  <2>4. \E s, rows : /\ Merge(base, ours, theirs) = Merged(Stored(s, rows))
                     /\ GoodSchema(s) /\ GoodRows(s, rows)
    BY Zenon, <2>2, <2>3, MergeTable
  <2>5. PICK s, rows : /\ Merge(base, ours, theirs) = Merged(Stored(s, rows))
                       /\ GoodSchema(s) /\ GoodRows(s, rows)
    BY Zenon, <2>4
  <2>6. out.got.table = Stored(s, rows)
    BY <2>2, <2>5 DEF Merged
  <2> DEFINE m == Stored(s, rows)
  <2>7. Held(m) /\ m.schema = s /\ rowsOf(m) = rows /\ Valid(m)
    BY Zenon, <2>5, StoredHeld, ValidStored
  <2>8. \A k \in DOMAIN m.primary : encodable(m.schema, rowOf(m, k))
    BY Zenon, <2>7, HeldParts DEF GoodRow
  <2>9. m = Stored(m.schema, rowsOf(m))
    BY Zenon, <2>7
  <2> HIDE DEF m
  <2>10. QED
    BY Zenon, <2>6, <2>7, <2>8, <2>9 DEF m
<1>2. QED
  BY <1>1, BranchInvHolds, PTL

(***************************************************************************)
(* In the same generality: a merge without conflicts loses no row and no   *)
(* cell that a side wrote, but for a change that left the row's bytes as   *)
(* they were.                                                              *)
(***************************************************************************)
THEOREM CellsLandAlways == Spec => []CellsLand
<1>1. BranchInv => CellsLand
  <2>1. SUFFICES ASSUME BranchInv, Clear
                 PROVE  LET m == out.got.table
                        IN /\ DOMAIN m.primary =
                                (DOMAIN ours.primary \cap DOMAIN theirs.primary)
                                  \cup ((DOMAIN ours.primary \cup DOMAIN theirs.primary) \ DOMAIN base.primary)
                           /\ \A side \in {ours, theirs} : \A k \in DOMAIN m.primary \cap DOMAIN side.primary :
                                ~Unseen(side, k) =>
                                  \A tag \in tags(m.schema.columns) \cap tags(side.schema.columns) :
                                    cellOf(rowAt(base, k), tag) # rowOf(side, k)[tag]
                                      => rowOf(m, k)[tag] = rowOf(side, k)[tag]
    BY Zenon DEF CellsLand
  <2>2. out.got = Merge(base, ours, theirs) /\ Merge(base, ours, theirs).did = "merged"
    BY <2>1 DEF BranchInv, Clear
  <2>3. Held(base) /\ Held(ours) /\ Held(theirs)
    BY Zenon, <2>1 DEF BranchInv
  <2>4. \A side, k : Unseen(side, k) <=> UnseenIn(base, side, k)
    BY Zenon DEF Unseen, UnseenIn
  <2> DEFINE ms == mergeSchemas(base.schema, ours.schema, theirs.schema)
             s == ms.schema
  <2>5. /\ ms.conflicts = {} /\ GoodSchema(s)
        /\ \E rows : /\ Merge(base, ours, theirs) = Merged(Stored(s, rows))
                     /\ GoodRows(s, rows) /\ MergeOf(s, base, ours, theirs, rows)
    BY <2>2, <2>3, MergeTable, Zenon
  <2>6. PICK rows : /\ Merge(base, ours, theirs) = Merged(Stored(s, rows))
                    /\ GoodRows(s, rows) /\ MergeOf(s, base, ours, theirs, rows)
    BY Zenon, <2>5
  <2>7. s.pk = ours.schema.pk /\ s.pk = theirs.schema.pk
    <3>1. GoodSchema(base.schema) /\ GoodSchema(ours.schema) /\ GoodSchema(theirs.schema)
      BY Zenon, <2>3 DEF Held
    <3>2. QED
      BY <2>5, <3>1, SchemaMerged
  <2> HIDE DEF s, ms
  <2> DEFINE m == Stored(s, rows)
  <2>8. out.got.table = m
    BY <2>2, <2>6 DEF Merged
  <2>9. m.schema = s /\ DOMAIN m.primary = DOMAIN rows /\ \A k \in DOMAIN rows : rowOf(m, k) = rows[k]
    BY <2>5, <2>6, StoredParts, RowsBack
  <2> HIDE DEF m
  <2>10. DOMAIN rows = (DOMAIN ours.primary \cap DOMAIN theirs.primary)
                         \cup ((DOMAIN ours.primary \cup DOMAIN theirs.primary) \ DOMAIN base.primary)
    BY Zenon, <2>6 DEF MergeOf
  <2>11. Lands(s, base, ours, rows) /\ Lands(s, base, theirs, rows)
    <3>1. GoodSchema(s)
      BY Zenon, <2>5
    <3>2. QED
      BY <2>3, <2>6, <2>7, <3>1, CellLands, Zenon
  <2>12. \A side \in {ours, theirs} : Lands(s, base, side, rows)
    BY Zenon, <2>11
  <2>13. QED
    BY <2>4, <2>8, <2>9, <2>10, <2>12 DEF Lands
<1>2. QED
  BY <1>1, BranchInvHolds, PTL

-----------------------------------------------------------------------------
(* The merge from the other side.                                          *)

\* A clean merge of a scalar does not depend on which side is ours.
LEMMA ScalarTurned ==
  ASSUME NEW x, NEW y, NEW z, Clean(Scalar(x, y, z))
  PROVE  Scalar(x, z, y) = Scalar(x, y, z)
  BY Zenon DEF Scalar, Result, Clean

\* Nor does a clean merge of a column's description.
LEMMA ColumnTurned ==
  ASSUME NEW c, NEW x, NEW y, mergeColumn(c, x, y).clean
  PROVE  mergeColumn(c, y, x) = mergeColumn(c, x, y)
<1>1. /\ Clean(Scalar(c.name, x.name, y.name)) /\ Clean(Scalar(c.type, x.type, y.type))
      /\ Clean(Scalar(c.nullable, x.nullable, y.nullable)) /\ Clean(Scalar(c.maxlen, x.maxlen, y.maxlen))
  BY Zenon DEF mergeColumn
<1>2. /\ Scalar(c.name, y.name, x.name) = Scalar(c.name, x.name, y.name)
      /\ Scalar(c.type, y.type, x.type) = Scalar(c.type, x.type, y.type)
      /\ Scalar(c.nullable, y.nullable, x.nullable) = Scalar(c.nullable, x.nullable, y.nullable)
      /\ Scalar(c.maxlen, y.maxlen, x.maxlen) = Scalar(c.maxlen, x.maxlen, y.maxlen)
  BY Zenon, <1>1, ScalarTurned
<1>3. QED
  BY <1>2, Zenon DEF mergeColumn

\* The items both sides added, from what they have between them.
Added(b, u) ==
    LET new == {x \in u : x.tag \notin tags(b)}
        twice == {x.tag : x \in {y \in new : \E z \in new : z.tag = y.tag /\ z # y}}
    IN [added |-> byTags({x \in new : x.tag \notin twice}), clash |-> twice]

\* Nor which columns or indexes the sides add between them.
LEMMA AdditionsTurned ==
  ASSUME NEW b, NEW o, NEW h
  PROVE  additions(b, h, o) = additions(b, o, h)
<1>1. additions(b, o, h) = Added(b, Range(o) \cup Range(h)) /\ additions(b, h, o) = Added(b, Range(h) \cup Range(o))
  BY Zenon DEF additions, Added
<1>2. Range(o) \cup Range(h) = Range(h) \cup Range(o)
  BY Zenon
<1>3. QED
  BY Zenon, <1>1, <1>2

\* Nor which ones of the base both sides kept.
LEMMA KeptTurned ==
  ASSUME NEW b, NEW o, NEW h
  PROVE  keptBy(b, h, o) = keptBy(b, o, h)
<1>1. tags(o) \cap tags(h) = tags(h) \cap tags(o)
  BY Zenon
<1>2. QED
  BY Zenon, <1>1 DEF keptBy

Covering(q, present) == SelectSeq(q, LAMBDA ix : Range(ix.columns) \subseteq present)

\* Nor what a clean merge of indexes makes.
LEMMA IndexesTurned ==
  ASSUME NEW b, NEW o, NEW h, NEW present, mergeIndexes(b, o, h, present).conflicts = {}
  PROVE  mergeIndexes(b, h, o, present).indexes = mergeIndexes(b, o, h, present).indexes
<1> DEFINE kept == keptBy(b, o, h)
           one(i) == Scalar(kept[i], byTag(o, kept[i].tag), byTag(h, kept[i].tag))
           two(i) == Scalar(kept[i], byTag(h, kept[i].tag), byTag(o, kept[i].tag))
           m1 == [i \in DOMAIN kept |-> one(i)]
           m2 == [i \in DOMAIN kept |-> two(i)]
           add == additions(b, o, h)
           lost == lostChange(b, o, h) \cup add.clash
           unclean == {kept[i].tag : i \in {j \in DOMAIN kept : ~Clean(m1[j])}}
<1>1. mergeIndexes(b, o, h, present) =
        [indexes |-> Covering([i \in DOMAIN m1 |-> m1[i].value] \o add.added, present),
         conflicts |-> {indexLocation(x) : x \in lost \cup unclean}]
  BY Zenon DEF mergeIndexes, Covering
<1>2. mergeIndexes(b, h, o, present).indexes =
        Covering([i \in DOMAIN m2 |-> m2[i].value] \o add.added, present)
  <2> DEFINE kept2 == keptBy(b, h, o)
             add2 == additions(b, h, o)
             m3 == [i \in DOMAIN kept2 |-> Scalar(kept2[i], byTag(h, kept2[i].tag), byTag(o, kept2[i].tag))]
  <2>1. mergeIndexes(b, h, o, present).indexes = Covering([i \in DOMAIN m3 |-> m3[i].value] \o add2.added, present)
    BY Zenon DEF mergeIndexes, Covering
  <2>2. kept2 = kept /\ add2 = add
    BY Zenon, KeptTurned, AdditionsTurned
  <2> HIDE DEF kept2, add2, kept, add
  <2>3. QED
    BY Zenon, <2>1, <2>2
<1>3. \A i \in DOMAIN kept : Clean(one(i))
  <2>1. {indexLocation(x) : x \in lost \cup unclean} = {}
    <3> HIDE DEF lost, unclean, m1, add
    <3>1. QED
      BY <1>1
  <2>2. unclean = {}
    <3> HIDE DEF lost, unclean
    <3>1. QED
      BY Zenon, <2>1
  <2>3. QED
    BY Zenon, <2>2
<1>4. \A i \in DOMAIN kept : one(i) = two(i)
  BY Zenon, <1>3, ScalarTurned
<1> HIDE DEF one, two, kept, lost, unclean, add
<1>5. m1 = m2
  BY Zenon, <1>4
<1> HIDE DEF m1, m2
<1>6. QED
  BY <1>1, <1>2, <1>5

\* The columns and the whole of a merge of schemas that both differ from the
\* base, from the columns kept and what became of them.
ColumnsOf(cols, added) == [i \in DOMAIN cols |-> cols[i].column] \o added
WholeOf(b, o, h, columns) ==
    [columns |-> columns, pk |-> b.pk,
     indexes |-> mergeIndexes(b.indexes, o.indexes, h.indexes, tags(columns)).indexes]
KeptColumns(b, o, h) ==
    LET kept == keptBy(b.columns, o.columns, h.columns)
    IN [i \in DOMAIN kept |-> mergeColumn(kept[i], column(o, kept[i].tag), column(h, kept[i].tag))]

\* A clean merge of schemas, spelled out: the kept columns, the added ones,
\* and the indexes over them.
LEMMA SchemaWhole ==
  ASSUME NEW b, NEW o, NEW h, mergeSchemas(b, o, h).conflicts = {}, o # h, o # b, h # b
  PROVE  LET columns == ColumnsOf(KeptColumns(b, o, h), additions(b.columns, o.columns, h.columns).added)
         IN /\ mergeSchemas(b, o, h).schema = WholeOf(b, o, h, columns)
            /\ mergeIndexes(b.indexes, o.indexes, h.indexes, tags(columns)).conflicts = {}
            /\ \A i \in DOMAIN KeptColumns(b, o, h) : KeptColumns(b, o, h)[i].clean
<1> DEFINE kept == keptBy(b.columns, o.columns, h.columns)
           merged == KeptColumns(b, o, h)
           add == additions(b.columns, o.columns, h.columns)
           columns == ColumnsOf(merged, add.added)
           ix == mergeIndexes(b.indexes, o.indexes, h.indexes, tags(columns))
           unclean == {kept[i].tag : i \in {j \in DOMAIN kept : ~merged[j].clean}}
           atColumns == {columnLocation(x) :
                           x \in lostChange(b.columns, o.columns, h.columns) \cup add.clash \cup unclean}
           conflicts == atColumns \cup ix.conflicts
           whole == WholeOf(b, o, h, columns)
           M == mergeSchemas(b, o, h)
<1>1. M = IF o.pk # b.pk \/ h.pk # b.pk THEN SchemaIs(NoSchema, {schemaLocation})
          ELSE IF o = h \/ h = b THEN SchemaIs(o, {})
          ELSE IF o = b THEN SchemaIs(h, {})
          ELSE IF conflicts # {} THEN SchemaIs(NoSchema, conflicts)
          ELSE IF ~Validate(whole) THEN SchemaIs(NoSchema, {schemaLocation})
          ELSE SchemaIs(whole, {})
  BY Zenon DEF mergeSchemas, WholeOf, ColumnsOf, KeptColumns
<1>2. DOMAIN merged = DOMAIN kept
  BY Zenon DEF KeptColumns
<1>3. M.conflicts = {}
  BY Zenon
<1> HIDE DEF kept, merged, add, columns, ix, whole, M
<1>4. M.schema = whole /\ conflicts = {}
  <2> HIDE DEF conflicts
  <2>1. QED
    BY <1>1, <1>3, Zenon DEF SchemaIs
<1>5. ix.conflicts = {} /\ atColumns = {}
  <2> HIDE DEF atColumns
  <2>1. QED
    BY Zenon, <1>4
<1>6. unclean = {}
  <2> HIDE DEF unclean
  <2>1. QED
    BY Zenon, <1>5
<1>7. \A i \in DOMAIN merged : merged[i].clean
  BY Zenon, <1>2, <1>6
<1>8. QED
  BY <1>4, <1>5, <1>7, Zenon DEF M, whole, ix, columns, merged, add

\* From either side the schemas merge alike.
LEMMA SchemaTurned ==
  ASSUME NEW b, NEW o, NEW h, GoodSchema(b), GoodSchema(o), GoodSchema(h),
         mergeSchemas(b, o, h).conflicts = {}, mergeSchemas(b, h, o).conflicts = {}
  PROVE  mergeSchemas(b, h, o).schema = mergeSchemas(b, o, h).schema
<1>1. CASE o = h \/ o = b \/ h = b
  BY <1>1, SchemaMerged
<1>2. CASE o # h /\ o # b /\ h # b
  <2> DEFINE k1 == KeptColumns(b, o, h)
             k2 == KeptColumns(b, h, o)
             add == additions(b.columns, o.columns, h.columns)
             columns == ColumnsOf(k1, add.added)
  <2>1. /\ mergeSchemas(b, o, h).schema = WholeOf(b, o, h, columns)
        /\ mergeIndexes(b.indexes, o.indexes, h.indexes, tags(columns)).conflicts = {}
        /\ \A i \in DOMAIN k1 : k1[i].clean
    BY Zenon, <1>2, SchemaWhole
  <2>2. mergeSchemas(b, h, o).schema =
          WholeOf(b, h, o, ColumnsOf(k2, additions(b.columns, h.columns, o.columns).added))
    BY Zenon, <1>2, SchemaWhole
  <2>3. k1 = k2
    <3> DEFINE kept == keptBy(b.columns, o.columns, h.columns)
               one(i) == mergeColumn(kept[i], column(o, kept[i].tag), column(h, kept[i].tag))
               two(i) == mergeColumn(kept[i], column(h, kept[i].tag), column(o, kept[i].tag))
    <3>1. k1 = [i \in DOMAIN kept |-> one(i)]
      BY Zenon DEF KeptColumns
    <3>2. k2 = [i \in DOMAIN kept |-> two(i)]
      BY ZenonT(60), KeptTurned DEF KeptColumns
    <3>3. \A i \in DOMAIN kept : one(i).clean
      BY <2>1, <3>1, Zenon
    <3>4. \A i \in DOMAIN kept : one(i) = two(i)
      BY ZenonT(60), <3>3, ColumnTurned
    <3> HIDE DEF kept, one, two, k1, k2
    <3>5. QED
      BY Zenon, <3>1, <3>2, <3>4
  <2>4. additions(b.columns, h.columns, o.columns) = add
    BY ZenonT(60), AdditionsTurned
  <2>5. mergeSchemas(b, h, o).schema = WholeOf(b, h, o, columns)
    <3> HIDE DEF k1, k2, add
    <3>1. QED
      BY Zenon, <2>2, <2>3, <2>4
  <2>6. WholeOf(b, h, o, columns) = WholeOf(b, o, h, columns)
    <3>1. mergeIndexes(b.indexes, h.indexes, o.indexes, tags(columns)).indexes
            = mergeIndexes(b.indexes, o.indexes, h.indexes, tags(columns)).indexes
      BY <2>1, IndexesTurned
    <3>2. QED
      BY <3>1, Zenon DEF WholeOf
  <2>7. QED
    BY Zenon, <2>1, <2>5, <2>6
<1>3. QED
  BY Zenon, <1>1, <1>2

\* Rows with the same cells convert alike.
LEMMA ConvertSame ==
  ASSUME NEW s, NEW x, NEW y, \A tag : cellOf(x, tag) = cellOf(y, tag)
  PROVE  convertRow(x, s) = convertRow(y, s)
  BY Zenon DEF convertRow

\* A row that merges cleanly merges the same with the sides exchanged.
LEMMA MRowTurned ==
  ASSUME NEW s, NEW b, NEW o, NEW h, NEW k, GoodSchema(s),
         \A c \in Range(others(s)) : Clean(MCell(b, o, h, k, c))
  PROVE  MRow(s, b, h, o, k) = MRow(s, b, o, h, k)
<1> DEFINE one(x) == decodeCell(MCell(b, o, h, k, column(s, x)).value)
           two(x) == decodeCell(MCell(b, h, o, k, column(s, x)).value)
           key(x) == isKey(s, x)
<1>1. ASSUME NEW x \in tags(s.columns), ~key(x)
      PROVE  one(x) = two(x)
  <2> DEFINE c == column(s, x)
  <2>1. Clean(MCell(b, o, h, k, c))
    BY Zenon, <1>1, ColumnOf
  <2>2. MCell(b, h, o, k, c) = MCell(b, o, h, k, c)
    BY Zenon, <2>1, ScalarTurned DEF MCell, mergeCell
  <2>3. QED
    BY Zenon, <2>2
<1>2. MRow(s, b, o, h, k) = [x \in tags(s.columns) |-> IF key(x) THEN k ELSE one(x)]
  BY Zenon DEF MRow
<1>3. MRow(s, b, h, o, k) = [x \in tags(s.columns) |-> IF key(x) THEN k ELSE two(x)]
  BY Zenon DEF MRow
<1> HIDE DEF one, two, key
<1>4. QED
  BY Zenon, <1>1, <1>2, <1>3

\* From either side the rows merge alike.
LEMMA RowsTurned ==
  ASSUME NEW s, NEW b, NEW o, NEW h, NEW r1, NEW r2, GoodSchema(s), Held(b), Held(o), Held(h),
         \A k \in Keys : ~UnseenIn(b, o, k) /\ ~UnseenIn(b, h, k), GoodRows(s, r1), GoodRows(s, r2),
         MergeOf(s, b, o, h, r1), MergeOf(s, b, h, o, r2)
  PROVE  r1 = r2
<1> DEFINE dO == diffKeys(b, o)
           dH == diffKeys(b, h)
           co(k) == convertRow(rowOf(o, k), s)
           ch(k) == convertRow(rowOf(h, k), s)
<1>1. DOMAIN r1 = DOMAIN r2
  BY Zenon DEF MergeOf
<1>2. ASSUME NEW k \in DOMAIN r1
      PROVE  r1[k] = r2[k]
  <2>1. CASE k \notin dH /\ k \notin dO
    <3>1. k \in DOMAIN o.primary /\ k \in DOMAIN h.primary /\ r1[k] = co(k) /\ r2[k] = ch(k)
      BY <1>1, <1>2, <2>1, Zenon DEF MergeOf
    <3>2. /\ \A tag : cellOf(rowOf(b, k), tag) = cellOf(rowOf(o, k), tag)
          /\ \A tag : cellOf(rowOf(b, k), tag) = cellOf(rowOf(h, k), tag)
      <4>1. ~UnseenIn(b, o, k) /\ ~UnseenIn(b, h, k)
        BY Zenon, <1>2 DEF GoodRows
      <4>2. k \in DOMAIN o.primary /\ k \in DOMAIN h.primary /\ k \notin diffKeys(b, o) /\ k \notin diffKeys(b, h)
        BY Zenon, <2>1, <3>1
      <4> HIDE DEF dO, dH, co, ch
      <4>3. \A tag : cellOf(rowOf(b, k), tag) = cellOf(rowOf(o, k), tag)
        BY <4>1, <4>2, SameCells
      <4>4. \A tag : cellOf(rowOf(b, k), tag) = cellOf(rowOf(h, k), tag)
        BY <4>1, <4>2, SameCells
      <4>5. QED
        BY Zenon, <4>3, <4>4
    <3>3. \A tag : cellOf(rowOf(o, k), tag) = cellOf(rowOf(h, k), tag)
      BY Zenon, <3>2
    <3>4. co(k) = ch(k)
      BY Zenon, <3>3, ConvertSame
    <3>5. QED
      BY Zenon, <3>1, <3>4
  <2>2. CASE k \in dH /\ k \notin dO
    BY <1>1, <1>2, <2>2, Zenon DEF MergeOf
  <2>3. CASE k \notin dH /\ k \in dO
    BY <1>1, <1>2, <2>3, Zenon DEF MergeOf
  <2>4. CASE k \in dH /\ k \in dO
    <3>1. /\ r1[k] = MRow(s, b, o, h, k) /\ r2[k] = MRow(s, b, h, o, k)
          /\ \A c \in Range(others(s)) : Clean(MCell(b, o, h, k, c))
      BY <1>1, <1>2, <2>4, Zenon DEF MergeOf
    <3>2. QED
      BY Zenon, <3>1, MRowTurned
  <2>5. QED
    BY Zenon, <2>1, <2>2, <2>3, <2>4
<1>3. QED
  BY Zenon, <1>1, <1>2 DEF GoodRows

\* A merge with an unchanged side is the other side's table.
LEMMA OursUnchanged ==
  ASSUME NEW b, NEW h, NEW rows, Held(b), Held(h), \A k \in Keys : ~UnseenIn(b, h, k),
         GoodRows(h.schema, rows), MergeOf(h.schema, b, b, h, rows)
  PROVE  Stored(h.schema, rows) = h
<1>1. DOMAIN rows = DOMAIN h.primary
  BY Zenon DEF MergeOf
<1>2. \A k : k \notin diffKeys(b, b)
  BY Zenon DEF diffKeys
<1>3. ASSUME NEW k \in DOMAIN h.primary
      PROVE  rows[k] = rowsOf(h)[k]
  <2>1. convertRow(rowOf(h, k), h.schema) = rowOf(h, k) /\ rowsOf(h)[k] = rowOf(h, k)
    BY Zenon, HeldParts, ConvertedSame
  <2>2. CASE k \in diffKeys(b, h)
    BY Zenon, <1>1, <1>2, <1>3, <2>1, <2>2 DEF MergeOf
  <2>3. CASE k \notin diffKeys(b, h)
    <3>1. rows[k] = convertRow(rowOf(b, k), h.schema)
      BY Zenon, <1>1, <1>3, <2>3 DEF MergeOf
    <3>2. \A tag : cellOf(rowOf(b, k), tag) = cellOf(rowOf(h, k), tag)
      <4>1. ~UnseenIn(b, h, k)
        BY Zenon, <1>3, HeldParts
      <4>2. QED
        BY <2>3, <4>1, SameCells
    <3>3. QED
      BY Zenon, <2>1, <3>1, <3>2, ConvertSame
  <2>4. QED
    BY Zenon, <2>2, <2>3
<1>4. rows = rowsOf(h)
  BY <1>1, <1>3, HeldParts, Zenon DEF GoodRows, rowsOf
<1>5. QED
  BY Zenon, <1>4 DEF Held

\* A merge with the base itself gives our table back.
LEMMA TheirsUnchanged ==
  ASSUME NEW b, NEW o, NEW rows, Held(b), Held(o),
         GoodRows(o.schema, rows), MergeOf(o.schema, b, o, b, rows)
  PROVE  Stored(o.schema, rows) = o
<1>1. DOMAIN rows = DOMAIN o.primary
  BY Zenon DEF MergeOf
<1>2. \A k : k \notin diffKeys(b, b)
  BY Zenon DEF diffKeys
<1>3. ASSUME NEW k \in DOMAIN o.primary
      PROVE  rows[k] = rowsOf(o)[k]
  <2>1. convertRow(rowOf(o, k), o.schema) = rowOf(o, k) /\ rowsOf(o)[k] = rowOf(o, k)
    BY Zenon, HeldParts, ConvertedSame
  <2>2. QED
    BY Zenon, <1>1, <1>2, <1>3, <2>1 DEF MergeOf
<1>4. rows = rowsOf(o)
  BY <1>1, <1>3, HeldParts, Zenon DEF GoodRows, rowsOf
<1>5. QED
  BY Zenon, <1>4 DEF Held

(***************************************************************************)
(* In the same generality: the merge with an unchanged side is the other   *)
(* side's table, and from either side a clean merge gives the same table,  *)
(* but for a change that left a row's bytes as they were.                  *)
(***************************************************************************)
THEOREM MergeLawsAlways == Spec => []MergeLaws
<1>1. BranchInv => MergeLaws
  <2>1. SUFFICES ASSUME BranchInv, Clear
                 PROVE  /\ theirs = base => out.got = Merged(ours)
                        /\ (ours = base /\ \A k \in Keys : ~Unseen(theirs, k)) => out.got = Merged(theirs)
                        /\ (out.swapped.did = "merged" /\ \A side \in {ours, theirs}, k \in Keys : ~Unseen(side, k))
                             => out.got = out.swapped
    BY Zenon DEF MergeLaws
  <2>2. /\ out.got = Merge(base, ours, theirs) /\ Merge(base, ours, theirs).did = "merged"
        /\ out.swapped = Merge(base, theirs, ours)
    BY <2>1 DEF BranchInv, Clear
  <2>3. Held(base) /\ Held(ours) /\ Held(theirs)
    BY Zenon, <2>1 DEF BranchInv
  <2>4. \A side, k : Unseen(side, k) <=> UnseenIn(base, side, k)
    BY Zenon DEF Unseen, UnseenIn
  <2>5. GoodSchema(base.schema) /\ GoodSchema(ours.schema) /\ GoodSchema(theirs.schema)
    BY Zenon, <2>3 DEF Held
  <2> DEFINE m1 == mergeSchemas(base.schema, ours.schema, theirs.schema)
             m2 == mergeSchemas(base.schema, theirs.schema, ours.schema)
             s == m1.schema
  <2>6. /\ m1.conflicts = {} /\ GoodSchema(s)
        /\ \E rows : /\ Merge(base, ours, theirs) = Merged(Stored(s, rows))
                     /\ GoodRows(s, rows) /\ MergeOf(s, base, ours, theirs, rows)
    BY <2>2, <2>3, MergeTable, Zenon
  <2>7. PICK rows : /\ Merge(base, ours, theirs) = Merged(Stored(s, rows))
                    /\ GoodRows(s, rows) /\ MergeOf(s, base, ours, theirs, rows)
    BY Zenon, <2>6
  <2>8. /\ theirs.schema = base.schema => s = ours.schema
        /\ ours.schema = base.schema => s = theirs.schema
    BY <2>5, <2>6, SchemaMerged
  <2>9. ASSUME out.swapped.did = "merged", \A side \in {ours, theirs}, k \in Keys : ~Unseen(side, k)
        PROVE  out.got = out.swapped
    <3>1. /\ m2.conflicts = {}
          /\ \E r2 : /\ Merge(base, theirs, ours) = Merged(Stored(m2.schema, r2))
                     /\ GoodRows(m2.schema, r2) /\ MergeOf(m2.schema, base, theirs, ours, r2)
      BY <2>2, <2>3, <2>9, MergeTable, Zenon
    <3>2. m2.schema = s
      <4>1. mergeSchemas(base.schema, ours.schema, theirs.schema).conflicts = {}
        BY Zenon, <2>6
      <4>2. mergeSchemas(base.schema, theirs.schema, ours.schema).conflicts = {}
        BY Zenon, <3>1
      <4>3. QED
        BY <2>5, <4>1, <4>2, SchemaTurned
    <3> HIDE DEF s, m1, m2
    <3>3. PICK r2 : /\ Merge(base, theirs, ours) = Merged(Stored(s, r2))
                    /\ GoodRows(s, r2) /\ MergeOf(s, base, theirs, ours, r2)
      BY Zenon, <3>1, <3>2
    <3>4. GoodSchema(s)
      BY Zenon, <2>6
    <3>5. rows = r2
      <4>1. \A k \in Keys : ~UnseenIn(base, ours, k) /\ ~UnseenIn(base, theirs, k)
        BY Zenon, <2>4, <2>9
      <4>2. QED
        BY Zenon, <2>3, <2>7, <3>3, <3>4, <4>1, RowsTurned
    <3>6. QED
      BY Zenon, <2>2, <2>7, <3>3, <3>5
  <2> HIDE DEF s, m1, m2
  <2>10. ASSUME ours = base, \A k \in Keys : ~Unseen(theirs, k)
         PROVE  out.got = Merged(theirs)
    <3>1. s = theirs.schema
      BY Zenon, <2>8, <2>10
    <3>2. GoodRows(theirs.schema, rows) /\ MergeOf(theirs.schema, base, base, theirs, rows)
      BY Zenon, <2>7, <2>10, <3>1
    <3>3. Stored(theirs.schema, rows) = theirs
      <4>1. \A k \in Keys : ~UnseenIn(base, theirs, k)
        BY Zenon, <2>4, <2>10
      <4>2. QED
        BY Zenon, <2>3, <3>2, <4>1, OursUnchanged
    <3>4. QED
      BY Zenon, <2>2, <2>7, <3>1, <3>3
  <2>11. ASSUME theirs = base
         PROVE  out.got = Merged(ours)
    <3>1. s = ours.schema
      BY Zenon, <2>8, <2>11
    <3>2. GoodRows(ours.schema, rows) /\ MergeOf(ours.schema, base, ours, base, rows)
      BY Zenon, <2>7, <2>11, <3>1
    <3>3. Stored(ours.schema, rows) = ours
      BY Zenon, <2>3, <3>2, TheirsUnchanged
    <3>4. QED
      BY Zenon, <2>2, <2>7, <3>1, <3>3
  <2>12. QED
    BY Zenon, <2>9, <2>10, <2>11
<1>2. QED
  BY <1>1, BranchInvHolds, PTL

-----------------------------------------------------------------------------
(* Where a merge of tables of one schema conflicts.                        *)

\* A row that two tables of one schema hold with other bytes has another cell,
\* and one that has another cell has other bytes.
LEMMA CellsDiffer ==
  ASSUME NEW b, NEW x, Held(b), Held(x), b.schema = x.schema,
         NEW k \in DOMAIN b.primary \cap DOMAIN x.primary
  PROVE  k \in diffKeys(b, x) <=>
           \E c \in Range(others(x.schema)) : rowOf(b, k)[c.tag] # rowOf(x, k)[c.tag]
<1> DEFINE s == x.schema
           cs == others(s)
           p == rowOf(b, k)
           q == rowOf(x, k)
<1>1. k \in diffKeys(b, x) <=> b.primary[k] # x.primary[k]
  BY Zenon DEF diffKeys
<1>2. /\ GoodRow(s, k, p) /\ GoodRow(s, k, q)
      /\ b.primary[k] = encodeValue(s, p) /\ x.primary[k] = encodeValue(s, q)
  BY Zenon, HeldParts
<1>3. b.primary[k] = x.primary[k] => p = q
  BY Zenon DEF rowOf
<1>4. \A i \in DOMAIN cs : cs[i] \in Range(cs) /\ cs[i].tag \in tags(s.columns)
  <2>1. \A i \in DOMAIN cs : cs[i] \in Range(s.columns)
    BY Zenon, HeldParts, Others
  <2>2. QED
    BY Zenon, <2>1 DEF Range, tags
<1>5. \A tag \in tags(s.columns) : cellOf(p, tag) = p[tag] /\ cellOf(q, tag) = q[tag]
  BY Zenon, <1>2 DEF GoodRow, cellOf
<1>6. ASSUME \A c \in Range(cs) : p[c.tag] = q[c.tag]
      PROVE  encodeValue(s, p) = encodeValue(s, q)
  <2>1. \A i \in DOMAIN cs : cellOf(p, cs[i].tag) = cellOf(q, cs[i].tag)
    BY Zenon, <1>4, <1>5, <1>6
  <2>2. \A i \in DOMAIN cs : encodeCell(cs[i], cellOf(p, cs[i].tag)) = encodeCell(cs[i], cellOf(q, cs[i].tag))
    BY Zenon, <2>1
  <2> DEFINE e(i) == encodeCell(cs[i], cellOf(p, cs[i].tag))
             f(i) == encodeCell(cs[i], cellOf(q, cs[i].tag))
  <2>3. encodeValue(s, p) = [i \in DOMAIN cs |-> e(i)] /\ encodeValue(s, q) = [i \in DOMAIN cs |-> f(i)]
    BY Zenon DEF encodeValue
  <2>4. \A i \in DOMAIN cs : e(i) = f(i)
    BY Zenon, <2>2
  <2> HIDE DEF e, f, cs
  <2>5. QED
    BY Zenon, <2>3, <2>4
<1> HIDE DEF s, cs, p, q
<1>7. (\E c \in Range(cs) : p[c.tag] # q[c.tag]) <=> b.primary[k] # x.primary[k]
  BY Zenon, <1>2, <1>3, <1>6
<1>8. QED
  BY Zenon, <1>1, <1>7 DEF s, cs, p, q

\* Every row of a schema converts to it.
LEMMA ConvertibleSame ==
  ASSUME NEW s, GoodSchema(s), NEW r
  PROVE  rowConvertible(s, r, s)
<1>1. ASSUME NEW c \in Range(s.columns)
      PROVE  column(s, c.tag) = c
  <2>1. PICK n \in DOMAIN s.columns : s.columns[n] = c
    BY Zenon DEF Range
  <2>2. byTag(s.columns, s.columns[n].tag) = s.columns[n]
    BY Zenon, SchemaParts, ByTag
  <2>3. QED
    BY Zenon, <2>1, <2>2 DEF column
<1>2. QED
  BY Zenon, <1>1 DEF rowConvertible, convertible

\* A row of the table's own schema is applied without a conflict.
LEMMA AppliedSame ==
  ASSUME NEW h, Held(h), NEW k
  PROVE  apply(h.schema, h, k).at = {}
<1>1. CASE k \notin DOMAIN h.primary
  BY Zenon, <1>1 DEF apply
<1>2. CASE k \in DOMAIN h.primary
  <2> DEFINE r == rowOf(h, k)
  <2>1. GoodRow(h.schema, k, r) /\ rowConvertible(h.schema, r, h.schema)
    BY Zenon, <1>2, HeldParts, ConvertibleSame
  <2>2. convertRow(r, h.schema) = r /\ encodable(h.schema, r)
    BY Zenon, <2>1, ConvertedSame DEF GoodRow
  <2>3. apply(h.schema, h, k) = PutRow(h.schema, k, r)
    BY Zenon, <1>2, <2>1, <2>2 DEF apply
  <2>4. QED
    BY <2>2, <2>3 DEF PutRow
<1>3. QED
  BY Zenon, <1>1, <1>2

\* A cell that fits its column fits it made nullable.
LEMMA FitsCell ==
  ASSUME NEW c \in Column, NEW v, fits(c, v)
  PROVE  cellFits(c, v)
  BY Zenon DEF cellFits, fits, Column

\* The cells of one row of the three tables, no two alike.
ThreeWays(b, o, h, k, tag) ==
    /\ rowOf(o, k)[tag] # rowOf(h, k)[tag]
    /\ rowOf(o, k)[tag] # rowOf(b, k)[tag]
    /\ rowOf(h, k)[tag] # rowOf(b, k)[tag]

\* The cells of a row that all three tables hold: each fits its column, and
\* the merge of the three is clean unless no two are alike.
LEMMA CellsMeet ==
  ASSUME NEW s, NEW b, NEW o, NEW h, Held(b), Held(o), Held(h),
         b.schema = s, o.schema = s, h.schema = s,
         NEW k, k \in DOMAIN b.primary, k \in DOMAIN o.primary, k \in DOMAIN h.primary,
         NEW c \in Range(others(s))
  PROVE  /\ \A r \in {rowAt(b, k), rowAt(o, k), rowAt(h, k)} : cellFits(c, cellOf(r, c.tag))
         /\ ~Clean(MCell(b, o, h, k, c)) <=> ThreeWays(b, o, h, k, c.tag)
<1>1. c \in Column /\ c.tag \in tags(s.columns)
  <2>1. GoodSchema(s) /\ s.columns \in Seq(Column)
    BY HeldParts, SchemaParts, Zenon
  <2>2. c \in Range(s.columns)
    BY <2>1, Others DEF Range
  <2>3. PICK n \in DOMAIN s.columns : s.columns[n] = c
    BY Zenon, <2>2 DEF Range
  <2>4. QED
    BY <2>1, <2>3 DEF tags
<1>2. /\ rowAt(b, k) = rowOf(b, k) /\ rowAt(o, k) = rowOf(o, k) /\ rowAt(h, k) = rowOf(h, k)
      /\ GoodRow(s, k, rowOf(b, k)) /\ GoodRow(s, k, rowOf(o, k)) /\ GoodRow(s, k, rowOf(h, k))
  BY Zenon, HeldParts DEF rowAt
<1>3. ASSUME NEW r, GoodRow(s, k, r)
      PROVE  cellFits(c, cellOf(r, c.tag)) /\ cellOf(r, c.tag) = r[c.tag]
  <2>1. fits(c, cellOf(r, c.tag))
    BY Zenon, <1>3 DEF GoodRow, encodable
  <2>2. cellOf(r, c.tag) = r[c.tag]
    BY Zenon, <1>1, <1>3 DEF GoodRow, cellOf
  <2>3. QED
    BY Zenon, <1>1, <2>1, <2>2, FitsCell
<1> DEFINE x == rowOf(b, k)[c.tag]
           y == rowOf(o, k)[c.tag]
           z == rowOf(h, k)[c.tag]
<1>4. MCell(b, o, h, k, c) = mergeCell(c, x, y, z)
  BY <1>2, <1>3, Zenon DEF MCell
<1>5. Clean(mergeCell(c, x, y, z)) <=> (y = z \/ y = x \/ z = x)
  BY MergedCell
<1>6. ThreeWays(b, o, h, k, c.tag) <=> ~(y = z \/ y = x \/ z = x)
  BY Zenon DEF ThreeWays
<1> HIDE DEF x, y, z
<1>7. QED
  BY <1>2, <1>3, <1>4, <1>5, <1>6, Zenon

\* The column of a cell beside the key.
LEMMA OtherColumn ==
  ASSUME NEW s, GoodSchema(s), NEW c \in Range(others(s))
  PROVE  c \in Range(s.columns) /\ ~isKey(s, c.tag) /\ c.tag \in tags(s.columns)
<1>1. PICK i \in DOMAIN others(s) : c = others(s)[i]
  BY Zenon DEF Range
<1>2. c \in Range(s.columns) /\ ~isKey(s, c.tag)
  BY Zenon, <1>1, Others
<1>3. QED
  BY Zenon, <1>2 DEF Range, tags

\* A cell of a clean row is a side's.
LEMMA MRowOf ==
  ASSUME NEW s, NEW b, NEW o, NEW h, NEW k, GoodSchema(s), Held(o), Held(h),
         k \in DOMAIN o.primary, k \in DOMAIN h.primary,
         \A c \in Range(others(s)) : Clean(MCell(b, o, h, k, c)), NEW tag \in tags(s.columns), ~isKey(s, tag)
  PROVE  MRow(s, b, o, h, k)[tag] \in {cellOf(rowOf(o, k), tag), cellOf(rowOf(h, k), tag)}
<1> DEFINE x == cellOf(rowAt(b, k), tag)
           y == cellOf(rowOf(o, k), tag)
           z == cellOf(rowOf(h, k), tag)
           v == MRow(s, b, o, h, k)[tag]
<1>1. MergedTo(x, y, z, v)
  BY Zenon, MRowCells
<1> HIDE DEF x, y, z, v
<1>2. v \in {y, z}
  BY <1>1, Zenon DEF MergedTo
<1>3. QED
  BY <1>2, Zenon DEF v, y, z

\* A clean row of one schema fits it.
LEMMA MRowFits ==
  ASSUME NEW s, NEW b, NEW o, NEW h, NEW k, Held(o), Held(h), o.schema = s, h.schema = s,
         k \in DOMAIN o.primary, k \in DOMAIN h.primary,
         \A c \in Range(others(s)) : Clean(MCell(b, o, h, k, c))
  PROVE  encodable(s, MRow(s, b, o, h, k))
<1> DEFINE m == MRow(s, b, o, h, k)
<1>1. DOMAIN m = tags(s.columns)
  BY Zenon DEF MRow
<1>2. GoodSchema(s)
  BY HeldParts, Zenon
<1>3. \A tag \in tags(s.columns) :
        ~isKey(s, tag) => m[tag] \in {cellOf(rowOf(o, k), tag), cellOf(rowOf(h, k), tag)}
  BY Zenon, <1>2, MRowOf
<1>4. \A x \in {o, h} : \A c \in Range(others(s)) : fits(c, cellOf(rowOf(x, k), c.tag))
  BY Zenon, HeldParts DEF GoodRow, encodable
<1> HIDE DEF m
<1>5. ASSUME NEW c \in Range(others(s))
      PROVE  fits(c, cellOf(m, c.tag))
  <2>1. ~isKey(s, c.tag) /\ c.tag \in tags(s.columns)
    BY Zenon, <1>2, OtherColumn
  <2>2. cellOf(m, c.tag) = m[c.tag]
    BY Zenon, <1>1, <2>1 DEF cellOf
  <2>3. QED
    BY <1>3, <1>4, <2>1, <2>2, Zenon
<1>6. QED
  BY Zenon, <1>1, <1>5 DEF encodable, m

\* Where reconcile conflicts between tables of one schema.
ReconciledAt(b, o, h, k, at) ==
    /\ (k \in DOMAIN b.primary /\ k \in DOMAIN o.primary /\ k \in DOMAIN h.primary) =>
         at = {cellLocation(k, c.tag) : c \in {d \in Range(others(b.schema)) : ThreeWays(b, o, h, k, d.tag)}}
    /\ (k \notin DOMAIN o.primary /\ k \notin DOMAIN h.primary) => at = {}
    /\ ~(k \in DOMAIN o.primary <=> k \in DOMAIN h.primary) => at = {rowLocation(k)}
    /\ \A l \in at : l[2] = k

\* Under one schema, a row both sides changed conflicts at the cells they
\* changed differently, or as a whole when one of them deleted it.
LEMMA ReconciledSame ==
  ASSUME NEW s, NEW b, NEW o, NEW h, Held(b), Held(o), Held(h),
         b.schema = s, o.schema = s, h.schema = s, NEW k
  PROVE  ReconciledAt(b, o, h, k, reconcile(s, b, o, h, k).at)
<1> DEFINE inO == k \in DOMAIN o.primary
           inT == k \in DOMAIN h.primary
           rowBad == \E x \in {<<b, rowAt(b, k)>>, <<o, rowAt(o, k)>>, <<h, rowAt(h, k)>>} :
                       ~rowConvertible(x[1].schema, x[2], s)
           bad == {c \in Range(others(s)) :
                     \/ \E r \in {rowAt(b, k), rowAt(o, k), rowAt(h, k)} : ~cellFits(c, cellOf(r, c.tag))
                     \/ ~Clean(MCell(b, o, h, k, c))}
           at3 == {cellLocation(k, c.tag) : c \in bad}
           R == reconcile(s, b, o, h, k)
<1>1. R = IF ~inO /\ ~inT THEN [at |-> {}, put |-> {}]
          ELSE IF ~inO \/ ~inT THEN Conflict({rowLocation(k)})
          ELSE IF rowBad THEN Conflict({rowLocation(k)})
          ELSE IF bad # {} THEN Conflict(at3)
          ELSE PutRow(s, k, MRow(s, b, o, h, k))
  BY Zenon DEF reconcile, MRow, MCell
<1>2. ~rowBad
  <2>1. GoodSchema(s)
    BY Zenon, HeldParts
  <2>2. \A r : rowConvertible(s, r, s)
    BY Zenon, <2>1, ConvertibleSame
  <2>3. QED
    BY <2>2
<1>3. ASSUME inO, inT, bad = {}
      PROVE  PutRow(s, k, MRow(s, b, o, h, k)).at = {}
  <2>1. \A c \in Range(others(s)) : Clean(MCell(b, o, h, k, c))
    BY Zenon, <1>3
  <2>2. encodable(s, MRow(s, b, o, h, k))
    BY ZenonT(60), <1>3, <2>1, MRowFits
  <2>3. QED
    BY Zenon, <2>2 DEF PutRow
<1>4. /\ rowLocation(k)[2] = k
      /\ \A l \in at3 : l[2] = k
  BY DEF rowLocation, cellLocation
<1>5. ASSUME k \in DOMAIN b.primary, inO, inT
      PROVE  bad = {d \in Range(others(b.schema)) : ThreeWays(b, o, h, k, d.tag)}
  <2>1. \A c \in Range(others(s)) :
          /\ \A r \in {rowAt(b, k), rowAt(o, k), rowAt(h, k)} : cellFits(c, cellOf(r, c.tag))
          /\ ~Clean(MCell(b, o, h, k, c)) <=> ThreeWays(b, o, h, k, c.tag)
    BY Zenon, <1>5, CellsMeet
  <2>2. QED
    BY Zenon, <2>1
<1>6. bad = {} => at3 = {}
  BY Zenon
<1> HIDE DEF bad, rowBad, R
<1>7. R.at = IF ~inO /\ ~inT THEN {} ELSE IF ~inO \/ ~inT THEN {rowLocation(k)} ELSE at3
  <2> HIDE DEF at3
  <2>1. CASE bad = {}
    BY <1>1, <1>2, <1>3, <1>6, <2>1, Zenon DEF Conflict
  <2>2. CASE bad # {}
    BY Zenon, <1>1, <1>2, <2>2 DEF Conflict
  <2>3. QED
    BY Zenon, <2>1, <2>2
<1>8. (k \in DOMAIN b.primary /\ inO /\ inT) =>
        at3 = {cellLocation(k, c.tag) : c \in {d \in Range(others(b.schema)) : ThreeWays(b, o, h, k, d.tag)}}
  BY <1>5, Zenon
<1> HIDE DEF at3
<1>9. \A l \in R.at : l[2] = k
  BY Zenon, <1>4, <1>7
<1>10. QED
  BY <1>7, <1>8, <1>9, Zenon DEF ReconciledAt, R

\* The conflicts of the rows that theirs changed, under the schema of u.
RowConflicts(u, b, o, h) ==
    UNION {IF k \in diffKeys(b, o) THEN reconcile(u.schema, b, o, h, k).at
           ELSE apply(u.schema, h, k).at : k \in diffKeys(b, h)}

\* All the conflicts of the merge of rows into u.
AllConflicts(u, b, o, h) ==
    RowConflicts(u, b, o, h) \cup wroteDropped(b, o, droppedBy(b.schema, h.schema))
                          \cup wroteDropped(b, h, droppedBy(b.schema, o.schema))

\* The merge of rows into u conflicts at all of them.
LEMMA ConflictsAll ==
  ASSUME NEW u, NEW b, NEW o, NEW h
  PROVE  AllConflicts(u, b, o, h) =
           IF mergeRows(u, b, o, h).did = "conflict" THEN mergeRows(u, b, o, h).at ELSE {}
<1> DEFINE s == u.schema
           M == mergeRows(u, b, o, h)
           dO == diffKeys(b, o)
           dT == diffKeys(b, h)
           rows == [k \in dT |-> IF k \in dO THEN reconcile(s, b, o, h, k) ELSE apply(s, h, k)]
           at == (UNION {rows[k].at : k \in dT})
           all == at \cup wroteDropped(b, o, droppedBy(b.schema, h.schema))
                     \cup wroteDropped(b, h, droppedBy(b.schema, o.schema))
           p == [k \in {j \in dT : rows[j].put # {}} |-> CHOOSE r \in rows[k].put : TRUE]
<1>1. M = IF all # {} THEN Conflicted(all) ELSE IF ~flushable(u, p) THEN Failed ELSE Merged(flushed(u, p))
  BY Zenon DEF mergeRows
<1>2. RowConflicts(u, b, o, h) = at
  BY Zenon DEF RowConflicts
<1>3. AllConflicts(u, b, o, h) = all
  <2> HIDE DEF at
  <2>1. QED
    BY Zenon, <1>2 DEF AllConflicts
<1> HIDE DEF M, all, p
<1>4. all = IF M.did = "conflict" THEN M.at ELSE {}
  BY Zenon, <1>1 DEF Conflicted, Failed, Merged
<1>5. QED
  BY Zenon, <1>3, <1>4 DEF M

\* A merge of tables of one schema conflicts at its rows' conflicts alone.
LEMMA ConflictsSame ==
  ASSUME NEW b, NEW o, NEW h, Held(b), Held(o), Held(h),
         b.schema = o.schema, h.schema = o.schema
  PROVE  RowConflicts(o, b, o, h) =
           IF Merge(b, o, h).did = "conflict" THEN Merge(b, o, h).at ELSE {}
<1>1. mergeSchemas(b.schema, o.schema, h.schema) = SchemaIs(o.schema, {})
  BY ZenonT(60) DEF mergeSchemas
<1>2. Merge(b, o, h) = mergeRows(o, b, o, h)
  BY <1>1 DEF Merge, SchemaIs
<1>3. AllConflicts(o, b, o, h) = RowConflicts(o, b, o, h)
  BY Zenon DEF AllConflicts, wroteDropped, droppedBy
<1>4. QED
  BY ZenonT(60), <1>2, <1>3, ConflictsAll

\* A conflict at a cell that both sides changed, and not to the same; and one
\* at a row that x removed and y changed.
AtCell(b, o, h, l) ==
    \E k \in DOMAIN b.primary \cap DOMAIN o.primary \cap DOMAIN h.primary :
      \E c \in Range(others(b.schema)) : l = cellLocation(k, c.tag) /\ ThreeWays(b, o, h, k, c.tag)
AtRow(b, x, y, l) ==
    \E k \in DOMAIN b.primary \cap DOMAIN y.primary :
      k \notin DOMAIN x.primary /\ k \in diffKeys(b, y) /\ l = rowLocation(k)
AddedTwice(b, o, h) == {k \in DOMAIN o.primary \cap DOMAIN h.primary : k \notin DOMAIN b.primary}

\* The conflicts of the rows that the base holds.
LEMMA ConflictsAt ==
  ASSUME NEW b, NEW o, NEW h, Held(b), Held(o), Held(h),
         b.schema = o.schema, h.schema = o.schema, NEW l
  PROVE  (l \in RowConflicts(o, b, o, h) /\ l[2] \notin AddedTwice(b, o, h))
           <=> (AtCell(b, o, h, l) \/ AtRow(b, o, h, l) \/ AtRow(b, h, o, l))
<1> DEFINE s == o.schema
           R(k) == reconcile(s, b, o, h, k).at
<1>1. \A k : apply(s, h, k).at = {}
  BY Zenon, AppliedSame
<1>2. l \in RowConflicts(o, b, o, h) <=> \E k \in diffKeys(b, h) \cap diffKeys(b, o) : l \in R(k)
  BY Zenon, <1>1 DEF RowConflicts
<1>3. \A k : ReconciledAt(b, o, h, k, R(k))
  BY Zenon, ReconciledSame
<1> HIDE DEF R
<1>4. ASSUME NEW k \in diffKeys(b, h) \cap diffKeys(b, o), l \in R(k), l[2] \notin AddedTwice(b, o, h)
      PROVE  AtCell(b, o, h, l) \/ AtRow(b, o, h, l) \/ AtRow(b, h, o, l)
  <2>1. l[2] = k
    BY Zenon, <1>3, <1>4 DEF ReconciledAt
  <2>2. k \in DOMAIN b.primary
    BY Zenon, <1>4, <2>1 DEF AddedTwice, diffKeys
  <2>3. CASE k \in DOMAIN o.primary /\ k \in DOMAIN h.primary
    <3>1. R(k) = {cellLocation(k, c.tag) : c \in {d \in Range(others(b.schema)) : ThreeWays(b, o, h, k, d.tag)}}
      BY Zenon, <1>3, <2>2, <2>3 DEF ReconciledAt
    <3>2. QED
      BY Zenon, <1>4, <2>2, <2>3, <3>1 DEF AtCell
  <2>4. CASE k \notin DOMAIN o.primary /\ k \notin DOMAIN h.primary
    BY Zenon, <1>3, <1>4, <2>4 DEF ReconciledAt
  <2>5. CASE ~(k \in DOMAIN o.primary <=> k \in DOMAIN h.primary)
    <3>1. R(k) = {rowLocation(k)}
      BY Zenon, <1>3, <2>5 DEF ReconciledAt
    <3>2. QED
      BY Zenon, <1>4, <2>2, <2>5, <3>1 DEF AtRow
  <2>6. QED
    BY ZenonT(60), <2>3, <2>4, <2>5
<1>5. ASSUME AtCell(b, o, h, l)
      PROVE  l[2] \notin AddedTwice(b, o, h) /\ \E k \in diffKeys(b, h) \cap diffKeys(b, o) : l \in R(k)
  <2>1. PICK k \in DOMAIN b.primary \cap DOMAIN o.primary \cap DOMAIN h.primary :
          \E c \in Range(others(b.schema)) : l = cellLocation(k, c.tag) /\ ThreeWays(b, o, h, k, c.tag)
    BY Zenon, <1>5 DEF AtCell
  <2>2. PICK c \in Range(others(b.schema)) : l = cellLocation(k, c.tag) /\ ThreeWays(b, o, h, k, c.tag)
    BY Zenon, <2>1
  <2>3. k \in diffKeys(b, h) /\ k \in diffKeys(b, o)
    <3>1. rowOf(o, k)[c.tag] # rowOf(b, k)[c.tag] /\ rowOf(h, k)[c.tag] # rowOf(b, k)[c.tag]
      BY Zenon, <2>2 DEF ThreeWays
    <3>2. QED
      BY ZenonT(60), <3>1, CellsDiffer
  <2>4. R(k) = {cellLocation(k, d.tag) : d \in {e \in Range(others(b.schema)) : ThreeWays(b, o, h, k, e.tag)}}
    BY Zenon, <1>3 DEF ReconciledAt
  <2>5. l \in R(k)
    BY ZenonT(60), <2>2, <2>4
  <2>6. l[2] = k
    BY Zenon, <2>2 DEF cellLocation
  <2>7. QED
    BY Zenon, <2>3, <2>5, <2>6 DEF AddedTwice
<1>6. ASSUME AtRow(b, o, h, l) \/ AtRow(b, h, o, l)
      PROVE  l[2] \notin AddedTwice(b, o, h) /\ \E k \in diffKeys(b, h) \cap diffKeys(b, o) : l \in R(k)
  <2>1. PICK k \in DOMAIN b.primary :
          /\ ~(k \in DOMAIN o.primary <=> k \in DOMAIN h.primary) /\ l = rowLocation(k)
          /\ k \in DOMAIN o.primary => k \in diffKeys(b, o)
          /\ k \in DOMAIN h.primary => k \in diffKeys(b, h)
    BY Zenon, <1>6 DEF AtRow
  <2>2. k \in diffKeys(b, h) /\ k \in diffKeys(b, o)
    BY Zenon, <2>1 DEF diffKeys
  <2>3. R(k) = {rowLocation(k)}
    BY Zenon, <1>3, <2>1 DEF ReconciledAt
  <2>4. l[2] = k
    BY Zenon, <2>1 DEF rowLocation
  <2>5. QED
    BY ZenonT(60), <2>1, <2>2, <2>3, <2>4 DEF AddedTwice
<1>7. QED
  BY Zenon, <1>2, <1>4, <1>5, <1>6

\* What a diff of tables of one schema names.
LEMMA DiffNames ==
  ASSUME NEW b, NEW x, Held(b), Held(x), b.schema = x.schema, NEW l
  PROVE  l \in Diff(b, x).at <=>
           \/ \E k \in diffKeys(b, x) : ~(k \in DOMAIN b.primary /\ k \in DOMAIN x.primary) /\ l = rowLocation(k)
           \/ \E k \in DOMAIN b.primary \cap DOMAIN x.primary : \E c \in Range(others(x.schema)) :
                rowOf(b, k)[c.tag] # rowOf(x, k)[c.tag] /\ l = cellLocation(k, c.tag)
<1> DEFINE both == DOMAIN b.primary \cap DOMAIN x.primary
           cs == Range(others(x.schema))
           differ(k, c) == rowOf(b, k)[c.tag] # rowOf(x, k)[c.tag]
<1>1. Diff(b, x).at = diffIter(b, x)
  BY Zenon DEF Diff
<1>2. diffIter(b, x) = {rowLocation(k) : k \in diffKeys(b, x) \ both}
                         \cup {cellLocation(e[1], e[2].tag) :
                                 e \in {y \in (diffKeys(b, x) \cap both) \X cs : differ(y[1], y[2])}}
  BY Zenon DEF diffIter
<1>3. \A k \in both : k \in diffKeys(b, x) <=> \E c \in cs : differ(k, c)
  BY ZenonT(30), CellsDiffer
<1> HIDE DEF cs, differ
<1>4. l \in {cellLocation(e[1], e[2].tag) : e \in {y \in (diffKeys(b, x) \cap both) \X cs : differ(y[1], y[2])}}
        <=> \E k \in both : \E c \in cs : differ(k, c) /\ l = cellLocation(k, c.tag)
  <2>1. ASSUME NEW k \in both, NEW c \in cs, differ(k, c), l = cellLocation(k, c.tag)
        PROVE  \E e \in (diffKeys(b, x) \cap both) \X cs : differ(e[1], e[2]) /\ l = cellLocation(e[1], e[2].tag)
    <3>1. <<k, c>> \in (diffKeys(b, x) \cap both) \X cs /\ <<k, c>>[1] = k /\ <<k, c>>[2] = c
      BY Zenon, <1>3, <2>1
    <3>2. QED
      BY Zenon, <2>1, <3>1
  <2>2. ASSUME NEW e \in (diffKeys(b, x) \cap both) \X cs, differ(e[1], e[2]), l = cellLocation(e[1], e[2].tag)
        PROVE  \E k \in both : \E c \in cs : differ(k, c) /\ l = cellLocation(k, c.tag)
    BY Zenon, <2>2
  <2>3. QED
    BY Zenon, <2>1, <2>2
<1>5. l \in {rowLocation(k) : k \in diffKeys(b, x) \ both}
        <=> \E k \in diffKeys(b, x) : ~(k \in DOMAIN b.primary /\ k \in DOMAIN x.primary) /\ l = rowLocation(k)
  BY Zenon
<1>6. QED
  BY ZenonT(60), <1>1, <1>2, <1>4, <1>5 DEF differ, cs

\* What Diff(b, x) names, where the schemas are one: the rows of one side
\* only, and the cells that differ.
RowIn(b, x, l) ==
    \E k \in diffKeys(b, x) : ~(k \in DOMAIN b.primary /\ k \in DOMAIN x.primary) /\ l = rowLocation(k)
CellIn(b, x, l) ==
    \E k \in DOMAIN b.primary \cap DOMAIN x.primary : \E c \in Range(others(x.schema)) :
      rowOf(b, k)[c.tag] # rowOf(x, k)[c.tag] /\ l = cellLocation(k, c.tag)

\* A row both sides hold and agree on, at a cell or as a whole.
SameAt(o, h, l) ==
    \E k \in DOMAIN o.primary \cap DOMAIN h.primary :
      l[2] = k /\ (l[1] = "cell" => rowOf(o, k)[l[3]] = rowOf(h, k)[l[3]])

\* A cell of both diffs that the sides changed otherwise, and a row that one
\* diff removes and the other has a cell of.
MeetAtCell(b, o, h, l) ==
    l \in Diff(b, o).at /\ l \in Diff(b, h).at /\ l[1] = "cell" /\ ~SameAt(o, h, l)
MeetAtRow(b, o, h, l) ==
    /\ l \in Diff(b, o).at /\ l[1] = "row" /\ l[2] \in DOMAIN b.primary
    /\ \E m \in Diff(b, h).at : m[1] = "cell" /\ m[2] = l[2]

\* The parts of a location.
LEMMA LocationParts ==
  ASSUME NEW k
  PROVE  /\ rowLocation(k)[1] = "row" /\ rowLocation(k)[2] = k
         /\ \A tag : /\ cellLocation(k, tag)[1] = "cell"
                     /\ cellLocation(k, tag)[2] = k /\ cellLocation(k, tag)[3] = tag
  BY Zenon DEF rowLocation, cellLocation

\* Which of a diff's locations are rows and which are cells.
LEMMA DiffKinds ==
  ASSUME NEW b, NEW x, Held(b), Held(x), b.schema = x.schema, NEW l
  PROVE  /\ l \in Diff(b, x).at <=> RowIn(b, x, l) \/ CellIn(b, x, l)
         /\ RowIn(b, x, l) => l[1] = "row"
         /\ CellIn(b, x, l) => l[1] = "cell"
<1>1. l \in Diff(b, x).at <=> RowIn(b, x, l) \/ CellIn(b, x, l)
  BY DiffNames DEF RowIn, CellIn
<1>2. RowIn(b, x, l) => l[1] = "row"
  BY LocationParts DEF RowIn
<1>3. CellIn(b, x, l) => l[1] = "cell"
  BY LocationParts DEF CellIn
<1>4. QED
  BY ZenonT(60), <1>1, <1>2, <1>3

\* The cells of both diffs, and the cells both sides changed otherwise.
LEMMA CellsIn ==
  ASSUME NEW b, NEW o, NEW h, b.schema = o.schema, h.schema = o.schema, NEW l
  PROVE  CellIn(b, o, l) /\ CellIn(b, h, l) /\ ~SameAt(o, h, l) <=> AtCell(b, o, h, l)
<1>1. ASSUME CellIn(b, o, l), CellIn(b, h, l), ~SameAt(o, h, l)
      PROVE  AtCell(b, o, h, l)
  <2>1. PICK k \in DOMAIN b.primary \cap DOMAIN o.primary : \E c \in Range(others(o.schema)) :
               rowOf(b, k)[c.tag] # rowOf(o, k)[c.tag] /\ l = cellLocation(k, c.tag)
    BY <1>1, Zenon DEF CellIn
  <2>2. PICK c \in Range(others(o.schema)) : rowOf(b, k)[c.tag] # rowOf(o, k)[c.tag] /\ l = cellLocation(k, c.tag)
    BY Zenon, <2>1
  <2>3. PICK j \in DOMAIN b.primary \cap DOMAIN h.primary : \E d \in Range(others(h.schema)) :
               rowOf(b, j)[d.tag] # rowOf(h, j)[d.tag] /\ l = cellLocation(j, d.tag)
    BY Zenon, <1>1 DEF CellIn
  <2>4. PICK d \in Range(others(h.schema)) : rowOf(b, j)[d.tag] # rowOf(h, j)[d.tag] /\ l = cellLocation(j, d.tag)
    BY Zenon, <2>3
  <2>5. l[1] = "cell" /\ l[2] = k /\ l[3] = c.tag /\ j = k /\ d.tag = c.tag
    <3>1. l = cellLocation(k, c.tag) /\ l = cellLocation(j, d.tag)
      BY Zenon, <2>2, <2>4
    <3>2. QED
      BY <3>1 DEF cellLocation
  <2>6. k \in DOMAIN o.primary \cap DOMAIN h.primary
    BY ZenonT(60), <2>1, <2>3, <2>5
  <2>7. rowOf(o, k)[c.tag] # rowOf(h, k)[c.tag]
    BY ZenonT(60), <1>1, <2>5, <2>6 DEF SameAt
  <2>8. ThreeWays(b, o, h, k, c.tag)
    BY ZenonT(60), <2>2, <2>4, <2>5, <2>7 DEF ThreeWays
  <2>9. QED
    BY <2>1, <2>2, <2>6, <2>8, Zenon DEF AtCell
<1>2. ASSUME AtCell(b, o, h, l)
      PROVE  CellIn(b, o, l) /\ CellIn(b, h, l) /\ ~SameAt(o, h, l)
  <2>1. PICK k \in DOMAIN b.primary \cap DOMAIN o.primary \cap DOMAIN h.primary :
          \E c \in Range(others(o.schema)) : l = cellLocation(k, c.tag) /\ ThreeWays(b, o, h, k, c.tag)
    BY Zenon, <1>2 DEF AtCell
  <2>2. PICK c \in Range(others(o.schema)) : l = cellLocation(k, c.tag) /\ ThreeWays(b, o, h, k, c.tag)
    BY Zenon, <2>1
  <2>3. /\ rowOf(b, k)[c.tag] # rowOf(o, k)[c.tag] /\ rowOf(b, k)[c.tag] # rowOf(h, k)[c.tag]
        /\ rowOf(o, k)[c.tag] # rowOf(h, k)[c.tag]
    BY Zenon, <2>2 DEF ThreeWays
  <2>4. l[1] = "cell" /\ l[2] = k /\ l[3] = c.tag
    <3>1. l = cellLocation(k, c.tag)
      BY Zenon, <2>2
    <3>2. QED
      BY Zenon, <3>1 DEF cellLocation
  <2>5. ~SameAt(o, h, l)
    BY Zenon, <2>3, <2>4 DEF SameAt
  <2>6. CellIn(b, o, l)
    <3>1. k \in DOMAIN b.primary \cap DOMAIN o.primary
      BY Zenon, <2>1
    <3>2. QED
      BY ZenonT(60), <2>2, <2>3, <3>1 DEF CellIn
  <2>7. CellIn(b, h, l)
    <3>1. k \in DOMAIN b.primary \cap DOMAIN h.primary /\ c \in Range(others(h.schema))
      BY Zenon, <2>1, <2>2
    <3>2. QED
      BY ZenonT(60), <2>2, <2>3, <3>1 DEF CellIn
  <2>8. QED
    BY ZenonT(60), <2>5, <2>6, <2>7
<1>3. QED
  BY Zenon, <1>1, <1>2

\* A row one diff removes and the other has a cell of.
LEMMA RowsIn ==
  ASSUME NEW b, NEW o, NEW h, Held(b), Held(o), Held(h),
         b.schema = o.schema, h.schema = o.schema, NEW l
  PROVE  (RowIn(b, o, l) /\ l[2] \in DOMAIN b.primary /\ \E m : CellIn(b, h, m) /\ m[2] = l[2])
           <=> AtRow(b, o, h, l)
<1>1. \A k \in DOMAIN b.primary \cap DOMAIN h.primary :
        k \in diffKeys(b, h) <=> \E c \in Range(others(h.schema)) : rowOf(b, k)[c.tag] # rowOf(h, k)[c.tag]
  BY CellsDiffer
<1>2. ASSUME RowIn(b, o, l), l[2] \in DOMAIN b.primary, NEW m, CellIn(b, h, m), m[2] = l[2]
      PROVE  AtRow(b, o, h, l)
  <2>1. PICK k \in diffKeys(b, o) : ~(k \in DOMAIN b.primary /\ k \in DOMAIN o.primary) /\ l = rowLocation(k)
    BY Zenon, <1>2 DEF RowIn
  <2>2. l[2] = k
    BY Zenon, <2>1, LocationParts
  <2>3. PICK j \in DOMAIN b.primary \cap DOMAIN h.primary : \E c \in Range(others(h.schema)) :
               rowOf(b, j)[c.tag] # rowOf(h, j)[c.tag] /\ m = cellLocation(j, c.tag)
    BY Zenon, <1>2 DEF CellIn
  <2>4. m[2] = j
    BY <2>3, LocationParts
  <2>5. j = k /\ k \in diffKeys(b, h)
    BY <1>1, <1>2, <2>2, <2>3, <2>4, Zenon
  <2>6. QED
    BY ZenonT(60), <1>2, <2>1, <2>2, <2>3, <2>5 DEF AtRow
<1>3. ASSUME AtRow(b, o, h, l)
      PROVE  RowIn(b, o, l) /\ l[2] \in DOMAIN b.primary /\ \E m : CellIn(b, h, m) /\ m[2] = l[2]
  <2>1. PICK k \in DOMAIN b.primary \cap DOMAIN h.primary :
          k \notin DOMAIN o.primary /\ k \in diffKeys(b, h) /\ l = rowLocation(k)
    BY Zenon, <1>3 DEF AtRow
  <2>2. PICK c \in Range(others(h.schema)) : rowOf(b, k)[c.tag] # rowOf(h, k)[c.tag]
    BY Zenon, <1>1, <2>1
  <2>3. CellIn(b, h, cellLocation(k, c.tag))
    BY ZenonT(60), <2>1, <2>2 DEF CellIn
  <2>4. l[2] = k /\ cellLocation(k, c.tag)[2] = k
    BY ZenonT(60), <2>1, LocationParts
  <2>5. k \in diffKeys(b, o)
    BY Zenon, <2>1 DEF diffKeys
  <2>6. RowIn(b, o, l)
    BY Zenon, <2>1, <2>5 DEF RowIn
  <2>7. QED
    BY ZenonT(60), <2>1, <2>3, <2>4, <2>6
<1>4. QED
  BY Zenon, <1>2, <1>3

\* The diffs meet where the merge conflicts.
LEMMA MeetsAre ==
  ASSUME NEW b, NEW o, NEW h, Held(b), Held(o), Held(h),
         b.schema = o.schema, h.schema = o.schema, NEW l
  PROVE  /\ MeetAtCell(b, o, h, l) <=> AtCell(b, o, h, l)
         /\ MeetAtRow(b, o, h, l) <=> AtRow(b, o, h, l)
<1> DEFINE D1 == Diff(b, o).at
           D2 == Diff(b, h).at
<1>1. /\ \A n : n \in D1 <=> RowIn(b, o, n) \/ CellIn(b, o, n)
      /\ \A n : n \in D2 <=> RowIn(b, h, n) \/ CellIn(b, h, n)
  BY Zenon, DiffKinds
<1>2. /\ \A n : (RowIn(b, o, n) => n[1] = "row") /\ (CellIn(b, o, n) => n[1] = "cell")
      /\ \A n : (RowIn(b, h, n) => n[1] = "row") /\ (CellIn(b, h, n) => n[1] = "cell")
  BY DiffKinds, Zenon
<1>3. CellIn(b, o, l) /\ CellIn(b, h, l) /\ ~SameAt(o, h, l) <=> AtCell(b, o, h, l)
  BY Zenon, CellsIn
<1>4. (RowIn(b, o, l) /\ l[2] \in DOMAIN b.primary /\ \E m : CellIn(b, h, m) /\ m[2] = l[2])
        <=> AtRow(b, o, h, l)
  BY Zenon, RowsIn
<1>5. MeetAtCell(b, o, h, l) <=> l \in D1 /\ l \in D2 /\ l[1] = "cell" /\ ~SameAt(o, h, l)
  BY Zenon DEF MeetAtCell
<1>6. MeetAtRow(b, o, h, l) <=>
        /\ l \in D1 /\ l[1] = "row" /\ l[2] \in DOMAIN b.primary
        /\ \E m \in D2 : m[1] = "cell" /\ m[2] = l[2]
  BY Zenon DEF MeetAtRow
<1> HIDE DEF D1, D2
<1>7. (\E m \in D2 : m[1] = "cell" /\ m[2] = l[2]) <=> \E m : CellIn(b, h, m) /\ m[2] = l[2]
  BY Zenon, <1>1, <1>2
<1>8. MeetAtCell(b, o, h, l) <=> AtCell(b, o, h, l)
  BY ZenonT(60), <1>1, <1>2, <1>3, <1>5
<1>9. MeetAtRow(b, o, h, l) <=> AtRow(b, o, h, l)
  <2>1. l \in D1 /\ l[1] = "row" <=> RowIn(b, o, l)
    BY <1>1, <1>2, Zenon
  <2>2. QED
    BY <1>4, <1>6, <1>7, <2>1, Zenon
<1>10. QED
  BY Zenon, <1>8, <1>9

(***************************************************************************)
(* In the same generality: between tables of one schema a merge conflicts  *)
(* exactly where the two diffs meet, rows added on both sides apart.       *)
(***************************************************************************)
THEOREM DiffsMeetAlways == Spec => []DiffsMeet
<1>1. BranchInv => DiffsMeet
  <2> DEFINE o == Diff(base, ours).at
             h == Diff(base, theirs).at
             cells(d, k) == {l \in d : l[1] = "cell" /\ l[2] = k}
             same(l) == \E k \in DOMAIN ours.primary \cap DOMAIN theirs.primary :
                          /\ l[2] = k
                          /\ l[1] = "cell" => rowOf(ours, k)[l[3]] = rowOf(theirs, k)[l[3]]
             gone(l, d) == l[1] = "row" /\ l[2] \in DOMAIN base.primary /\ cells(d, l[2]) # {}
             meet == {l \in o \cap h : l[1] = "cell" /\ ~same(l)}
                       \cup {l \in o : gone(l, h)} \cup {l \in h : gone(l, o)}
             at == IF out.got.did = "conflict" THEN out.got.at ELSE {}
  <2>1. SUFFICES ASSUME BranchInv, Done, base.schema = ours.schema, base.schema = theirs.schema
                 PROVE  {l \in at : l[2] \notin AddedTwice(base, ours, theirs)} = meet
    BY Zenon DEF DiffsMeet, AddedTwice
  <2>2. out.got = Merge(base, ours, theirs) /\ Held(base) /\ Held(ours) /\ Held(theirs)
    BY <2>1 DEF BranchInv
  <2>3. base.schema = ours.schema /\ theirs.schema = ours.schema /\ ours.schema = theirs.schema
    BY Zenon, <2>1
  <2>4. at = RowConflicts(ours, base, ours, theirs)
    BY ZenonT(60), <2>2, <2>3, ConflictsSame
  <2>5. ASSUME NEW l
        PROVE  (l \in at /\ l[2] \notin AddedTwice(base, ours, theirs)) <=> l \in meet
    <3>1. (l \in at /\ l[2] \notin AddedTwice(base, ours, theirs)) <=>
            (AtCell(base, ours, theirs, l) \/ AtRow(base, ours, theirs, l) \/ AtRow(base, theirs, ours, l))
      <4> HIDE DEF at
      <4>1. QED
        BY ZenonT(60), <2>2, <2>3, <2>4, ConflictsAt
    <3>2. /\ MeetAtCell(base, ours, theirs, l) <=> AtCell(base, ours, theirs, l)
          /\ MeetAtRow(base, ours, theirs, l) <=> AtRow(base, ours, theirs, l)
          /\ MeetAtRow(base, theirs, ours, l) <=> AtRow(base, theirs, ours, l)
      BY ZenonT(60), <2>2, <2>3, MeetsAre
    <3>3. /\ (l \in o /\ l \in h /\ l[1] = "cell" /\ ~same(l)) <=> MeetAtCell(base, ours, theirs, l)
          /\ (/\ l \in o /\ l[1] = "row" /\ l[2] \in DOMAIN base.primary
              /\ \E m \in h : m[1] = "cell" /\ m[2] = l[2]) <=> MeetAtRow(base, ours, theirs, l)
          /\ (/\ l \in h /\ l[1] = "row" /\ l[2] \in DOMAIN base.primary
              /\ \E m \in o : m[1] = "cell" /\ m[2] = l[2]) <=> MeetAtRow(base, theirs, ours, l)
      BY Zenon DEF MeetAtCell, MeetAtRow, SameAt
    <3>4. \A d : cells(d, l[2]) # {} <=> \E m \in d : m[1] = "cell" /\ m[2] = l[2]
      BY Zenon
    <3> HIDE DEF o, h, same, cells
    <3>5. l \in meet <=> \/ l \in o /\ l \in h /\ l[1] = "cell" /\ ~same(l)
                         \/ l \in o /\ gone(l, h)
                         \/ l \in h /\ gone(l, o)
      BY Zenon
    <3>6. QED
      BY <3>1, <3>2, <3>3, <3>4, <3>5, Zenon
  <2> HIDE DEF at, meet
  <2>6. QED
    BY Zenon, <2>5
<1>2. QED
  BY <1>1, BranchInvHolds, PTL

=============================================================================
