---------------------------- MODULE MCFunctions ----------------------------
(***************************************************************************)
(* The engine's pure functions for TLC, one call a behaviour: Txn.onto     *)
(* (OntoCheck), the merge library, what the key-value and document models  *)
(* store and decide, and the cells of a table.                             *)
(***************************************************************************)
EXTENDS OntoCheck, Sequences, TLC

CONSTANTS s1, s2

VARIABLES in, out     \* the call and its result, of the other four

Upto(n, s) == UNION {[1 .. k -> s] : k \in 0 .. n}
Partial(ns, vs) == UNION {[d -> vs] : d \in SUBSET ns}

-----------------------------------------------------------------------------
(* Namespaces, for onto.                                                   *)

C(n) == [kind |-> "counter", val |-> n]
B(n) == [kind |-> "bytes", val |-> n]
ObjectOf(m, s, v, w) == [model |-> m, schema |-> s, items |-> <<v, w>>]

\* Path 1 holds anything: a map whose keys are counters, other values or
\* absent, a table under either schema, a collection, nothing.
First ==
    {NoObject}
    \cup {ObjectOf("kv", NoSchema, v, w) : v \in {Absent, C(0), C(1), C(2), B(0)}, w \in {C(0), C(1)}}
    \cup {ObjectOf("table", s, v, B(0)) : s \in {s1, s2}, v \in {Absent, B(0)}}
    \cup {ObjectOf("document", NoSchema, v, B(0)) : v \in {Absent, B(0)}}

\* Path 2 holds a table with one of two rows, or nothing.
Second == {NoObject} \cup {ObjectOf("table", s1, v, Absent) : v \in {B(0), B(1)}}

MCInputs == {<<x, y>> : x \in First, y \in Second}

-----------------------------------------------------------------------------
(* Lists and trees.                                                        *)

MaxSequenceEdits == 7
MaxDepth == 2
Int64Half == 4
Val == INSTANCE MergeLib
Num(n) == Val!Num(n)
Arr(s) == Val!Arr(s)
Nodes(ns, vs) == {Val!Obj(fs) : fs \in Partial(ns, vs)}

\* Long lists on one side, for the alignment; three short ones, for the merge.
Lists == {<<b0, o0, <<>>>> : b0, o0 \in Upto(5, {1, 2})}
           \cup {<<b0, o0, t0>> : b0, o0 \in Upto(3, 1 .. 3), t0 \in Upto(2, 1 .. 3)}
\* At f numbers that count, there or below, and one that does not, and lists;
\* less at g; an object too deep.
Counts == {Num(0), Num(1), Num(3)}
AtF == Counts \cup {Val!Fraction(2), Arr(<<1>>), Arr(<<1, 2>>)} \cup Nodes({"g"}, Counts)
AtG == {Num(1), Num(3)}
Trees == {Num(1), Arr(<<1>>)}
           \cup {Val!Obj(fs @@ gs) : fs \in Partial({"f"}, AtF), gs \in Partial({"g"}, AtG)}
           \cup {Val!Obj("f" :> Val!Obj("f" :> Val!Obj("f" :> Num(1))))}
Lib == INSTANCE MergeCheck WITH CounterPaths <- {<<"f">>, <<"f", "g">>}

-----------------------------------------------------------------------------
(* Key-value frames.                                                       *)

MaxMembers == 3
MaxValueSize == 3
Frame == INSTANCE KVMerge
Pair(e, t) == [elem |-> e, tag |-> t]
Scored(m, v, t) == [member |-> m, score |-> v, tag |-> t]
Pairs == {Pair(1, 1), Pair(1, 2), Pair(2, 1)}
Scores == {Frame!Score(0), Frame!Score(1), Frame!NegZero, Frame!NaN}

RawValues ==
  {Frame!BytesOf(n) : n \in 0 .. 4} \cup {Frame!CounterOf(1)}
    \cup {Frame!SetOf(s) : s \in Upto(3, Pairs)}
    \cup {Frame!SortedSetOf(s) : s \in Upto(3, {Scored(1, v, t) : v \in Scores, t \in 1 .. 2})}
    \cup {Frame!SequenceOf(s) : s \in Upto(4, {1, 2})}
KeyFrames ==
  {Frame!Nil, Frame!BytesOf(1), Frame!BytesOf(2)}
    \cup {Frame!CounterOf(n) : n \in {-3, 0, 1, 3}}
    \cup {Frame!SequenceOf(s) : s \in Upto(2, {1, 2})}
    \cup {Frame!fromMembers(s) : s \in SUBSET Pairs}
    \cup {Frame!HashOf(h) : h \in Partial({1, 2}, {1, 2})}
    \cup {Frame!SortedSetOf(Frame!SetToSortSeq({Scored(m.elem, Frame!Score(h[m]), m.tag) : m \in DOMAIN h},
                                               Frame!lessScored)) :
            h \in Partial({Pair(1, 1), Pair(1, 2)}, {1, 2})}
KV == INSTANCE KVCheck WITH Raw <- RawValues, Stored <- KeyFrames

-----------------------------------------------------------------------------
(* Records.                                                                *)

MaxDocument == 3
MaxIDSize == 2
Record == INSTANCE DocumentMerge
RecordNodes == Nodes({"f", "g"}, {Num(1), Num(2), Arr(<<1>>)} \cup Nodes({"g"}, {Num(1)}))
Records == {Record!EncodeRecord(n) : n \in RecordNodes} \cup {Record!Nil, Record!ErrDocument}
Doc == INSTANCE DocumentCheck WITH Bytes <- 0 .. 3, MaxLoc <- 5

-----------------------------------------------------------------------------
(* Cells.                                                                  *)

ByteMax == 5
Inf == 12
Base == 2
MaxNumericLen == 6
MaxNumericDigs == 3
MaxCellLen == 12
Cell == INSTANCE TableCells
Col(type, nullable, maxlen) == [type |-> type, nullable |-> nullable, maxlen |-> maxlen]
Columns == {Col("int", TRUE, 0), Col("float", TRUE, 0), Col("numeric", TRUE, 0),
            Col("bytea", TRUE, 0), Col("varchar", FALSE, 2)}
Keys == {<<c0>> : c0 \in Columns} \cup {<<c0, Col("bytea", FALSE, 0)>> : c0 \in Columns}

Half == Cell!SignBit
Words == {0, 1, Inf, Inf + 1, Half - 1}
Texts(es) == [neg : BOOLEAN, int : Upto(2, 0 .. 1), frac : Upto(2, 0 .. 1), exp : es]
CellValues(col) ==
  CASE col.type = "int" -> {Cell!IntCell(n) : n \in {-Half, -7, -1, 0, 1, 6, Half - 1}}
    [] col.type = "float" -> {Cell!FloatCell(x) : x \in Words \cup {Half + y : y \in Words}}
    [] col.type = "numeric" -> {Cell!NumericCell(Cell!ParseNumeric(t).v) :
                                  t \in {x \in Texts({0}) : Cell!ParseNumeric(x).ok}}
    [] OTHER -> {Cell!BytesCell(s) : s \in Upto(2, {0, 1, ByteMax})}

\* Strings long enough for a numeric of one digit, or an escape and its end.
Strings == Upto(3, 0 .. ByteMax) \cup {<<1>> \o s : s \in [1 .. 5 -> 0 .. ByteMax]}
Spellings == {t \in Texts({-3, 0, 5}) : t.int # <<>>}
\* One byte, the first of two, all ones.
Tags == {1, 6, 7, Cell!Words - 1}
Cells == INSTANCE CellCheck WITH Values <- CellValues

-----------------------------------------------------------------------------
(* A behaviour is one call: of onto, or of one of the others.              *)

Onto0 == [what |-> "onto"]
NoCall == LET n == <<NoObject, NoObject>> IN snapshot = n /\ mine = n /\ current = n /\ result = Pending

MCInit == \/ OntoInit /\ in = Onto0 /\ out = [told |-> FALSE]
          \/ NoCall /\ (Lib!Init \/ KV!Init \/ Doc!Init \/ Cells!Init)

MCNext == \/ in = Onto0 /\ OntoNext /\ UNCHANGED <<in, out>>
          \/ in # Onto0 /\ (Lib!Next \/ KV!Next \/ Doc!Next \/ Cells!Next) /\ UNCHANGED ontoVars

MCSpec == MCInit /\ [][MCNext]_<<ontoVars, in, out>>

-----------------------------------------------------------------------------
\* Of merge.align (MergeCheck): a longest common subsequence, refused beyond
\* MaxSequenceEdits.
AlignIsLongest == Lib!AlignIsLongest
\* Of merge.Sequence, merge.Tree (MergeCheck) and kv's decide (KVCheck): which
\* side is ours shows in nothing they return.
Symmetric == Lib!Symmetric /\ KV!DecideSymmetric
\* Of merge.Sequence (MergeCheck): a clean merge loses no insertion and brings
\* nothing back.
InsertionsLand == Lib!InsertionsLand
\* Of merge.Tree (MergeCheck): where two of three are equal, the third whole.
SameAsComparing == Lib!SameAsComparing
\* Of merge.Tree (MergeCheck): a conflicting path keeps the base's value, and a
\* counter moved to two numbers takes both deltas.
PathsDecided == Lib!ConflictKeepsBase /\ Lib!TreeCounterAdds
\* Of kv's decide (KVCheck): a clean merge holds every change of either side;
\* of document's (DocumentCheck): it yields a document, and fails only for the
\* document's length.
ChangesLand == KV!ChangesLand /\ Doc!MergedIsDocument
\* Of encodeCell and sameCell (CellCheck): byte order is the order of the
\* values, and NaN apart equal bytes are equal values.
KeyOrder == Cells!KeyOrder /\ Cells!SameAsEncoded
\* Of successor and rowKeyOfIndexEntry (CellCheck): a range holds the keys that
\* begin with a value.
PrefixRange == Cells!PrefixRange
\* Of Locate and ParseLocation (CellCheck): a location names one row or cell.
LocationNames == Cells!LocationNames
\* Of the decoders, which root hashes rest on: kv's frames (KVCheck), a
\* document's locations (DocumentCheck), cells and numerics (CellCheck) have one
\* spelling each, the only one that decodes.
OneSpelling == /\ KV!FramesCanonical /\ Doc!OneSpelling
               /\ Cells!CellSpelling /\ Cells!CanonicalNumeric

=============================================================================
