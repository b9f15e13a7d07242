--------------------------- MODULE DocumentMerge ---------------------------
(***************************************************************************)
(* The document model, src/model/document: a record as stored, what a      *)
(* merge decides for a record both sides changed, and where a conflict is  *)
(* (here and in src/model/kv).  A record's text is its node; its length is *)
(* the node's number of fields and elements.  Bytes are small integers.    *)
(***************************************************************************)
EXTENDS MergeLib

CONSTANTS MaxDocument,    \* the longest text
          MaxIDSize       \* the longest record id, and the longest kv key

Format == 1
ErrDocument == [format |-> 0]

RECURSIVE textLen(_)
textLen(n) == CASE n.kind = "object" -> MapThenSumSet(LAMBDA f : 1 + textLen(n.fields[f]), DOMAIN n.fields)
                [] n.kind = "array" -> Len(n.elems)
                [] OTHER -> 0

\* check and the text's length; a node built from nodes that were checked
\* has its numbers canonical and its fields in order.
EncodeRecord(n) ==
  IF deeper(n, MaxDepth) \/ textLen(n) > MaxDocument THEN ErrDocument
  ELSE [format |-> Format, node |-> n]

Conflicts(cs) == [did |-> "conflict", at |-> cs]
Put(v) == [did |-> "put", value |-> v]
Failed == [did |-> "error"]

\* A record both sides changed from b (Nil: not there) to o and t, frames.
decide(b, o, t) ==
  IF o = t THEN Put(o)
  ELSE IF Nil \in {b, o, t} THEN Conflicts({<<>>})
  ELSE IF \E f \in {b, o, t} : f.format # Format THEN Failed
  ELSE LET r == Tree(b.node, o.node, t.node, {})
           f == EncodeRecord(r.value)
       IN IF ~Clean(r) THEN Conflicts(r.conflicts)
          ELSE IF f = ErrDocument THEN Failed ELSE Put(f)

-----------------------------------------------------------------------------
LenBytes(s) == <<Len(s)>> \o s

\* The id and each segment of the path, each after its length.
Locate(id, path) == LenBytes(id) \o FlattenSeq([i \in DOMAIN path |-> LenBytes(path[i])])

\* The parts of a location, or none when one is cut short.
RECURSIVE parts(_)
parts(loc) == IF loc = <<>> THEN {<<>>}
              ELSE IF Head(loc) > Len(loc) - 1 THEN {}
              ELSE {<<SubSeq(loc, 2, 1 + Head(loc))>> \o rest :
                      rest \in parts(SubSeq(loc, 2 + Head(loc), Len(loc)))}

\* ParseLocation of the document model: an id and a path, or nothing.
ParseLocation(loc) ==
  {[id |-> Head(p), path |-> Tail(p)] :
     p \in {q \in parts(loc) : q # <<>> /\ Len(Head(q)) \in 1 .. MaxIDSize /\ Len(q) - 1 <= MaxDepth}}

\* kv's: the key after its length, then what is below it, as it is.
Location(key, sub) == LenBytes(key) \o sub
ParseKVLocation(loc) ==
  IF loc = <<>> \/ Head(loc) > Len(loc) - 1 \/ Head(loc) \notin 1 .. MaxIDSize THEN {}
  ELSE {[key |-> SubSeq(loc, 2, 1 + Head(loc)), sub |-> SubSeq(loc, 2 + Head(loc), Len(loc))]}
=============================================================================
