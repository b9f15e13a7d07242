----------------------------- MODULE CellCheck -----------------------------
(***************************************************************************)
(* The cells over bounded inputs: two rows of the same key columns, a byte *)
(* string read as a cell, or two spellings of numerics.                    *)
(***************************************************************************)
EXTENDS TableCells

CONSTANTS Keys,           \* the lists of key columns
          Values(_),      \* the values of a column, NULL aside
          Strings,        \* byte strings
          Columns,        \* the columns a byte string is read under
          Spellings,      \* of numerics
          Tags            \* the columns of the table

VARIABLES in, out
vars == <<in, out>>
None == [told |-> FALSE]

Cells(c) == Values(c) \cup (IF c.nullable THEN {Null} ELSE {})
RowsOf(cols) == IF Len(cols) = 1 THEN {<<v>> : v \in Cells(cols[1])}
                ELSE {<<v, w>> : v \in Cells(cols[1]), w \in Cells(cols[2])}

\* Those of a primary key are never nullable.
keyColumns(cols) == [i \in DOMAIN cols |-> [cols[i] EXCEPT !.nullable = FALSE]]

Init == /\ \/ \E cols \in Keys : \E a, b \in RowsOf(cols) :
                in = [what |-> "keys", cols |-> cols, a |-> a, b |-> b]
           \/ \E cols \in Keys, tag \in Tags \cup {0} : \E key \in RowsOf(keyColumns(cols)) :
                in = [what |-> "location", cols |-> keyColumns(cols), key |-> key, tag |-> tag]
           \/ \E c \in Columns, b \in Strings : in = [what |-> "bytes", col |-> c, b |-> b]
           \/ \E s, t \in Spellings : in = [what |-> "spellings", a |-> s, b |-> t]
        /\ out = None

EncodeKeys ==
  /\ in.what = "keys" /\ out = None
  /\ LET a == encodeKey(in.cols, in.a)
         b == encodeKey(in.cols, in.b)
     IN out' = [told |-> TRUE, a |-> a, b |-> b, prefix |-> encodeCell(in.cols[1], in.a[1]).b,
                same |-> \A i \in DOMAIN in.a : sameCell(in.a[i], in.b[i]),
                skipped |-> rowKeyOfIndexEntry(<<in.cols[1]>>, a)]
  /\ UNCHANGED in

LocateParse ==
  /\ in.what = "location" /\ out = None
  /\ out' = [told |-> TRUE, got |-> ParseLocation(in.cols, Tags, Locate(in.cols, in.key, in.tag))]
  /\ UNCHANGED in

DecodeBytes ==
  /\ in.what = "bytes" /\ out = None
  /\ out' = [told |-> TRUE, got |-> decodeCell(in.col, in.b)]
  /\ UNCHANGED in

ParseSpellings ==
  /\ in.what = "spellings" /\ out = None
  /\ out' = [told |-> TRUE, a |-> ParseNumeric(in.a), b |-> ParseNumeric(in.b)]
  /\ UNCHANGED in

Next == EncodeKeys \/ LocateParse \/ DecodeBytes \/ ParseSpellings
Spec == Init /\ [][Next]_vars

Done(what) == in.what = what /\ out # None
-----------------------------------------------------------------------------
\* Byte order: the first difference decides, a prefix is less.
lessBytes(a, b) ==
  \/ IsStrictPrefix(a, b)
  \/ \E i \in DOMAIN a \cap DOMAIN b : a[i] < b[i] /\ \A j \in 1 .. i - 1 : a[j] = b[j]

\* A numeric as an integer multiple of Base^-Scale.
Scale == 8
digitsValue(ds) == FoldLeft(LAMBDA n, d : n * Base + d, 0, ds)
numericValue(t) ==
  (IF t.neg THEN -1 ELSE 1) * digitsValue(t.int \o t.frac) * Base ^ (Scale + t.exp - Len(t.frac))

\* A float as a number: NaN above Inf, the two zeros one.
floatValue(bits) == IF isNaN(bits) THEN Inf + 1 ELSE IF bits >= SignBit THEN SignBit - bits ELSE bits

\* The order of a type's values, NULL first.
lessValue(v, w) ==
  CASE v = Null -> w # Null
    [] w = Null -> FALSE
    [] v.is = "int" -> v.n < w.n
    [] v.is = "float" -> floatValue(v.bits) < floatValue(w.bits)
    [] v.is = "bytes" -> lessBytes(v.s, w.s)
    [] v.is = "numeric" -> numericValue(v.text) < numericValue(w.text)
sameValue(v, w) == ~lessValue(v, w) /\ ~lessValue(w, v)
lessRow(a, b) == \E i \in DOMAIN a : lessValue(a[i], b[i]) /\ \A j \in 1 .. i - 1 : sameValue(a[j], b[j])

\* Byte order is the types' order, column by column (encodeCell's comment):
\* keys of several cells, of any lengths and with NULLs, sort as their
\* values, and are the same bytes exactly when the values are the same.
KeyOrder ==
  Done("keys") => /\ lessBytes(out.a, out.b) <=> lessRow(in.a, in.b)
                  /\ out.a = out.b <=> \A i \in DOMAIN in.a : sameValue(in.a[i], in.b[i])

NoNaN(v) == v.is = "float" => ~isNaN(v.bits)

\* sameCell "compares two cell values as the encoding would": but for a NaN,
\* which Go's == takes for a change, cells are the same to Update, Diff and
\* wroteDropped exactly when their bytes are.
SameAsEncoded ==
  (Done("keys") /\ \A i \in DOMAIN in.a : NoNaN(in.a[i])) => (out.same <=> out.a = out.b)

\* A range from the bytes of a leading value to their successor holds the
\* keys that begin with that value and none other, and skipping the value
\* leaves the rest of the key: what IndexLookup walks by.
PrefixRange ==
  Done("keys") =>
    LET hi == successor(out.prefix)
        inRange == ~lessBytes(out.b, out.prefix) /\ (hi = NoBytes \/ lessBytes(out.b, hi))
    IN /\ inRange <=> sameValue(in.a[1], in.b[1])
       /\ out.skipped.ok /\ out.prefix \o out.skipped.b = out.a

\* A location names one row or one cell (ParseLocation reads what Locate
\* wrote): with a column's tag after the key it is never taken for the key
\* of another row, nor a key for a shorter key and a tag.
LocationNames ==
  Done("location") =>
    /\ out.got.ok /\ out.got.v[2] = in.tag
    /\ \A i \in DOMAIN in.key : sameValue(out.got.v[1][i], in.key[i])

\* A cell has one spelling: bytes that decode are, up to where the decoder
\* stopped, the bytes the value encodes to, within the column's longest cell.
\* A second spelling would make two keys, or two diffs, of one value.
CellSpelling ==
  (Done("bytes") /\ out.got.ok) =>
    LET e == encodeCell(in.col, out.got.v)
        used == Len(in.b) - Len(out.got.rest)
    IN used <= maxCell(in.col) => e = Enc(SubSeq(in.b, 1, used))

\* ParseNumeric keeps the value and gives each value one text, which the
\* encoder and the decoder accept: no numeric is read that cannot be stored.
CanonicalNumeric ==
  Done("spellings") =>
    /\ \A s \in {<<in.a, out.a>>, <<in.b, out.b>>} : s[2].ok =>
         /\ numericValue(s[2].v) = numericValue(s[1])
         /\ encodeNumeric(s[2].v).ok
         /\ decodeNumeric(encodeNumeric(s[2].v).b) = Dec(s[2].v, <<>>)
    /\ (out.a.ok /\ out.b.ok) => (out.a = out.b <=> numericValue(in.a) = numericValue(in.b))
=============================================================================
