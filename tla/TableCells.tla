----------------------------- MODULE TableCells -----------------------------
(***************************************************************************)
(* The cells of keys and rows as bytes, src/model/table/cell.go: NULL      *)
(* first, then each type in an encoding whose byte order is the type's     *)
(* order, so that a range of a map is a range of rows.                     *)
(*                                                                         *)
(* A byte is 0 .. 0xFF, written ByteMax; a word is two bytes, so integers, *)
(* floats and exponents have Words values.  A float is its bits: the sign, *)
(* then a magnitude up to Inf, and the NaNs above.  A numeric is a text    *)
(* [neg, int, frac, exp] of digits in Base, <<>> the part not written.     *)
(***************************************************************************)
EXTENDS Integers, Sequences, FiniteSets, SequencesExt

CONSTANTS ByteMax,        \* 0xFF, odd
          Inf,            \* the magnitude of the infinite float
          Base,           \* the digits of a numeric
          MaxNumericLen, MaxNumericDigs, MaxCellLen

Words == (ByteMax + 1) * (ByteMax + 1)
SignBit == Words \div 2

Null == [is |-> "null"]
IntCell(n) == [is |-> "int", n |-> n]
FloatCell(bits) == [is |-> "float", bits |-> bits]
BytesCell(s) == [is |-> "bytes", s |-> s]
NumericCell(text) == [is |-> "numeric", text |-> text]

\* Encoding and decoding: a refusal, or the bytes; a refusal, or the value
\* and the bytes after it.
ErrValue == [ok |-> FALSE]
Enc(b) == [ok |-> TRUE, b |-> b]
Dec(v, rest) == [ok |-> TRUE, v |-> v, rest |-> rest]

bigEndian(u) == <<u \div (ByteMax + 1), u % (ByteMax + 1)>>
word(b) == b[1] * (ByteMax + 1) + b[2]
complement(u) == Words - 1 - u
flipSign(u) == (u + SignBit) % Words
signed(u) == IF u >= SignBit THEN u - Words ELSE u

-----------------------------------------------------------------------------
(* Floats.                                                                 *)

isNaN(bits) == bits % SignBit > Inf

\* The minus sign of a zero kept.
orderedFloat_Fault(bits) ==
  IF isNaN(bits) THEN Words - 1
  ELSE IF bits >= SignBit THEN complement(bits) ELSE flipSign(bits)

orderedFloat(bits) ==
  IF isNaN(bits) THEN Words - 1
  ELSE IF bits % SignBit = 0 THEN flipSign(0)
  ELSE IF bits >= SignBit THEN complement(bits) ELSE flipSign(bits)

\* The NaN the standard library makes is the first above Inf.
unorderedFloat(u) ==
  IF u = Words - 1 THEN Inf + 1
  ELSE IF u >= SignBit THEN flipSign(u) ELSE complement(u)

-----------------------------------------------------------------------------
(* Byte strings.                                                           *)

escape(s) == FlattenSeq([i \in DOMAIN s |-> IF s[i] = 0 THEN <<0, ByteMax>> ELSE <<s[i]>>]) \o <<0, 0>>

RECURSIVE unescaped(_, _)
unescaped(out, b) ==
  IF b = <<>> THEN ErrValue
  ELSE IF b[1] # 0 THEN unescaped(Append(out, b[1]), Tail(b))
  ELSE IF Len(b) = 1 THEN ErrValue
  ELSE IF b[2] = 0 THEN Dec(out, SubSeq(b, 3, Len(b)))
  ELSE IF b[2] = ByteMax THEN unescaped(Append(out, 0), SubSeq(b, 3, Len(b)))
  ELSE ErrValue
unescape(b) == unescaped(<<>>, b)

-----------------------------------------------------------------------------
(* Numerics.                                                               *)

\* A text's length: its sign, digits and point, and an exponent of one digit.
spelledLen(t) ==
  Len(t.int) + Len(t.frac) + (IF t.neg THEN 1 ELSE 0) + (IF t.frac # <<>> THEN 1 ELSE 0)
    + (IF t.exp = 0 THEN 0 ELSE IF t.exp > 0 THEN 2 ELSE 3)

\* A spelling's sign, its significant digits and the exponent e that make it
\* 0.d1d2... times Base^e; zero has no digits.
parseDecimal(t) ==
  LET mant == t.int \o t.frac
      sig == {i \in DOMAIN mant : mant[i] # 0}
      first == CHOOSE i \in sig : \A j \in sig : i <= j
      last == CHOOSE i \in sig : \A j \in sig : j <= i
  IN IF mant = <<>> \/ spelledLen(t) > MaxNumericLen THEN ErrValue
     ELSE IF sig = {} THEN [ok |-> TRUE, neg |-> FALSE, digits |-> <<>>, exp |-> 0]
     ELSE IF last - first + 1 > MaxNumericDigs THEN ErrValue
     ELSE [ok |-> TRUE, neg |-> t.neg, digits |-> SubSeq(mant, first, last),
           exp |-> t.exp + Len(t.int) - (first - 1)]

Text(neg, int, frac) == [neg |-> neg, int |-> int, frac |-> frac, exp |-> 0]
zeros(n) == [i \in 1 .. n |-> 0]
canonical(neg, digits, exp) ==
  IF digits = <<>> THEN Text(FALSE, <<0>>, <<>>)
  ELSE IF exp <= 0 THEN Text(neg, <<0>>, zeros(-exp) \o digits)
  ELSE IF exp >= Len(digits) THEN Text(neg, digits \o zeros(exp - Len(digits)), <<>>)
  ELSE Text(neg, SubSeq(digits, 1, exp), SubSeq(digits, exp + 1, Len(digits)))

\* The text's length, from its parts alone.
canonicalLen(neg, n, exp) ==
  (IF neg THEN 1 ELSE 0) + (IF exp <= 0 THEN 2 - exp + n ELSE IF exp >= n THEN exp ELSE n + 1)

ParseNumeric(t) ==
  LET p == parseDecimal(t)
  IN IF ~p.ok THEN ErrValue
     ELSE IF p.digits # <<>> /\ canonicalLen(p.neg, Len(p.digits), p.exp) > MaxNumericLen THEN ErrValue
     ELSE Dec(canonical(p.neg, p.digits, p.exp), <<>>)

encodeNumeric(t) ==
  LET p == parseDecimal(t)
      e == flipSign(p.exp % Words)
  IN IF ~p.ok THEN ErrValue
     ELSE IF canonical(p.neg, p.digits, p.exp) # t THEN ErrValue
     ELSE IF p.digits = <<>> THEN Enc(<<2>>)
     ELSE IF p.exp \notin -SignBit .. SignBit - 1 THEN ErrValue
     ELSE IF p.neg
       THEN Enc(<<1>> \o bigEndian(complement(e)) \o [i \in DOMAIN p.digits |-> Base - p.digits[i]] \o <<ByteMax>>)
     ELSE Enc(<<3>> \o bigEndian(e) \o [i \in DOMAIN p.digits |-> p.digits[i] + 1] \o <<0>>)

decodeNumeric(b) ==
  LET neg == b[1] = 1
      u == word(SubSeq(b, 2, 3))
      exp == signed(flipSign(IF neg THEN complement(u) ELSE u))
      end == IF neg THEN ByteMax ELSE 0
      ends == {i \in 4 .. Len(b) : b[i] = end}
      stop == CHOOSE i \in ends : \A j \in ends : i <= j
      digits == [i \in 1 .. stop - 4 |-> IF neg THEN Base - b[i + 3] ELSE b[i + 3] - 1]
  IN IF b = <<>> THEN ErrValue
     ELSE IF b[1] = 2 THEN Dec(canonical(FALSE, <<>>, 0), Tail(b))
     ELSE IF b[1] \notin {1, 3} \/ Len(b) < 3 \/ ends = {} THEN ErrValue
     ELSE IF \E i \in 4 .. stop - 1 : b[i] \notin 1 .. Base THEN ErrValue
     ELSE IF digits = <<>> \/ Len(digits) > MaxNumericDigs THEN ErrValue
     ELSE IF digits[1] = 0 \/ digits[Len(digits)] = 0 THEN ErrValue
     ELSE IF canonicalLen(neg, Len(digits), exp) > MaxNumericLen THEN ErrValue
     ELSE Dec(canonical(neg, digits, exp), SubSeq(b, stop + 1, Len(b)))

-----------------------------------------------------------------------------
(* Cells.                                                                  *)

encodeCell(c, v) ==
  LET body == CASE v.is = "int" -> Enc(bigEndian(flipSign(v.n % Words)))
                [] v.is = "float" -> Enc(bigEndian(orderedFloat(v.bits)))
                [] v.is = "bytes" -> IF c.type = "varchar" /\ Len(v.s) > c.maxlen THEN ErrValue ELSE Enc(escape(v.s))
                [] v.is = "numeric" -> encodeNumeric(v.text)
  IN IF v = Null THEN (IF c.nullable THEN Enc(<<0>>) ELSE ErrValue)
     ELSE IF ~body.ok THEN ErrValue
     ELSE IF Len(body.b) + 1 > MaxCellLen THEN ErrValue
     ELSE Enc(<<1>> \o body.b)

\* A -0 or a NaN spelled another way is not what the encoder writes.
decodeFloat(u, rest) ==
  IF orderedFloat(unorderedFloat(u)) # u THEN ErrValue ELSE Dec(FloatCell(unorderedFloat(u)), rest)

decodeCell(c, b) ==
  LET r == Tail(b)
      fixed == Len(r) >= 2
      rest == SubSeq(r, 3, Len(r))
      as(d, V(_)) == IF d.ok THEN Dec(V(d.v), d.rest) ELSE ErrValue
      long(d) == d.ok /\ c.type = "varchar" /\ Len(d.v) > c.maxlen
  IN IF b = <<>> THEN ErrValue
     ELSE IF b[1] = 0 THEN (IF c.nullable THEN Dec(Null, r) ELSE ErrValue)
     ELSE IF b[1] # 1 THEN ErrValue
     ELSE CASE c.type = "int" -> IF fixed THEN Dec(IntCell(signed(flipSign(word(r)))), rest) ELSE ErrValue
            [] c.type = "float" -> IF fixed THEN decodeFloat(word(r), rest) ELSE ErrValue
            [] c.type \in {"varchar", "bytea"} -> IF long(unescape(r)) THEN ErrValue ELSE as(unescape(r), BytesCell)
            [] c.type = "numeric" -> as(decodeNumeric(r), NumericCell)

\* sameCell: Go's ==, by which a NaN is no value's equal and the zeros are one.
sameCell(v, w) ==
  IF v.is = "float" /\ w.is = "float"
    THEN ~isNaN(v.bits) /\ ~isNaN(w.bits)
         /\ (v.bits = w.bits \/ (v.bits % SignBit = 0 /\ w.bits % SignBit = 0))
    ELSE v = w

\* The longest cell of a column.
maxCell(c) == IF c.type \in {"int", "float"} THEN 3 ELSE MaxCellLen

\* A key: its cells one after another.
encodeKey(cols, vs) == FlattenSeq([i \in DOMAIN vs |-> encodeCell(cols[i], vs[i]).b])

\* The rest of an index entry once its cells are skipped: the row's key.
RECURSIVE rowKeyOfIndexEntry(_, _)
rowKeyOfIndexEntry(cols, b) ==
  IF cols = <<>> THEN Enc(b)
  ELSE LET d == decodeCell(Head(cols), b)
       IN IF d.ok THEN rowKeyOfIndexEntry(Tail(cols), d.rest) ELSE ErrValue

RECURSIVE decodedKey(_, _, _)
decodedKey(cols, key, b) ==
  IF cols = <<>> THEN Dec(key, b)
  ELSE LET d == decodeCell(Head(cols), b)
       IN IF d.ok THEN decodedKey(Tail(cols), Append(key, d.v), d.rest) ELSE ErrValue

\* What follows the key passed over.
decodeKey_Fault(cols, b) == decodedKey(cols, <<>>, b)
decodeKey(cols, b) ==
  LET d == decodedKey(cols, <<>>, b) IN IF d.ok /\ d.rest # <<>> THEN ErrValue ELSE d

\* The location of a row, or with a tag of its cell; and what it names.
Locate(cols, key, tag) == encodeKey(cols, key) \o (IF tag = 0 THEN <<>> ELSE bigEndian(tag))
ParseLocation(cols, tags, loc) ==
  LET row == decodeKey(cols, loc)
      n == Len(loc) - 2
      cell == decodeKey(cols, SubSeq(loc, 1, n))
      tag == word(SubSeq(loc, n + 1, n + 2))
  IN IF row.ok THEN Dec(<<row.v, 0>>, <<>>)
     ELSE IF n < 0 THEN ErrValue
     ELSE IF ~cell.ok \/ tag \notin tags THEN ErrValue
     ELSE Dec(<<cell.v, tag>>, <<>>)

NoBytes == <<-1>>   \* the nil that ends no range

\* The carry left out.
successor_Fault(p) ==
  IF p = <<>> \/ p[Len(p)] = ByteMax THEN NoBytes ELSE [p EXCEPT ![Len(p)] = @ + 1]

successor(p) ==
  LET up == {i \in DOMAIN p : p[i] # ByteMax}
      i == CHOOSE x \in up : \A y \in up : y <= x
  IN IF up = {} THEN NoBytes ELSE [SubSeq(p, 1, i) EXCEPT ![i] = @ + 1]
=============================================================================
