---------------------------- MODULE TableSchema ----------------------------
(***************************************************************************)
(* A table's schema, src/model/table: what makes one valid (table.go),     *)
(* what a table may be altered to (alter.go), and the merge of two         *)
(* schemas by tag (schemamerge.go).  A column is [tag, name, type,         *)
(* nullable, maxlen], an index [tag, columns], a schema [columns, pk,      *)
(* indexes], each a sequence in its order.                                 *)
(***************************************************************************)
EXTENDS MergeScalar, Integers, Sequences, FiniteSets, Functions

CONSTANTS MaxColumns, MaxIndexes, MaxVarcharLen

Column == [tag : Nat, name : STRING, type : STRING, nullable : BOOLEAN, maxlen : Nat]
Index == [tag : Nat, columns : Seq(Nat)]
Schema == [columns : Seq(Column), pk : Seq(Nat), indexes : Seq(Index)]

Distinct(s) == \A i, j \in DOMAIN s : s[i] = s[j] => i = j
tags(s) == {s[i].tag : i \in DOMAIN s}
taggedOnce(s) == Distinct([i \in DOMAIN s |-> s[i].tag])

\* The column, or the index, with a tag.
byTag(s, tag) == s[CHOOSE i \in DOMAIN s : s[i].tag = tag]
column(schema, tag) == byTag(schema.columns, tag)
has(schema, tag) == tag \in tags(schema.columns)
isKey(schema, tag) == tag \in Range(schema.pk)

Validate(s) ==
  /\ s \in Schema
  /\ Len(s.columns) \in 1 .. MaxColumns
  /\ 0 \notin tags(s.columns) /\ taggedOnce(s.columns)
  /\ Distinct([i \in DOMAIN s.columns |-> s.columns[i].name])
  /\ \A c \in Range(s.columns) :
       IF c.type = "varchar" THEN c.maxlen \in 1 .. MaxVarcharLen ELSE c.maxlen = 0
  /\ Distinct(s.pk)
  /\ \A t \in Range(s.pk) : has(s, t) /\ ~column(s, t).nullable
  /\ Len(s.indexes) <= MaxIndexes
  /\ 0 \notin tags(s.indexes) /\ taggedOnce(s.indexes)
  /\ \A ix \in Range(s.indexes) :
       ix.columns # <<>> /\ Distinct(ix.columns) /\ \A t \in Range(ix.columns) : has(s, t)

convertible(from, to) ==
  from.type = to.type \/ <<from.type, to.type>> \in
    {<<"int2", "int4">>, <<"int2", "int8">>, <<"int4", "int8">>, <<"float4", "float8">>, <<"varchar", "text">>}

\* Whether a table of this schema can be altered to next.
alterable(schema, next) ==
  /\ Validate(next)
  /\ next.pk = schema.pk
  /\ \A c \in Range(next.columns) :
       IF ~has(schema, c.tag) THEN c.nullable
       ELSE LET from == column(schema, c.tag)
            IN /\ isKey(schema, c.tag) => from.type = c.type /\ from.maxlen = c.maxlen
               /\ convertible(from, c)

-----------------------------------------------------------------------------
(* The merge.  A conflict is at <<"schema">> as a whole, at a column or at *)
(* an index.                                                               *)

schemaLocation == <<"schema">>
columnLocation(tag) == <<"column", tag>>
indexLocation(tag) == <<"index", tag>>

mergeColumn(b, o, t) ==
  LET name == Scalar(b.name, o.name, t.name)
      type == Scalar(b.type, o.type, t.type)
      null == Scalar(b.nullable, o.nullable, t.nullable)
      length == Scalar(b.maxlen, o.maxlen, t.maxlen)
  IN [clean |-> Clean(name) /\ Clean(type) /\ Clean(null) /\ Clean(length),
      column |-> [tag |-> b.tag, name |-> name.value, type |-> type.value,
                  nullable |-> null.value, maxlen |-> length.value]]

\* Theirs' additions after ours', whatever their tags.
additions_Fault(b, o, t) ==
  LET new(s) == SelectSeq(s, LAMBDA x : x.tag \notin tags(b))
      twice == {x.tag : x \in {y \in Range(new(o)) : \E z \in Range(new(t)) : z.tag = y.tag /\ z # y}}
  IN [added |-> SelectSeq(new(o), LAMBDA x : x.tag \notin twice)
                  \o SelectSeq(new(t), LAMBDA x : x.tag \notin tags(new(o))),
      clash |-> twice]

\* The items in the order of their tags, each tag once.
byTags(new) == CHOOSE s \in [1 .. Cardinality(new) -> new] :
                 \A i, j \in DOMAIN s : i < j => s[i].tag < s[j].tag

\* What both sides added under tags the base lacks: by tag, and the tags they
\* added differently.
additions(b, o, t) ==
  LET new == {x \in Range(o) \cup Range(t) : x.tag \notin tags(b)}
      twice == {x.tag : x \in {y \in new : \E z \in new : z.tag = y.tag /\ z # y}}
  IN [added |-> byTags({x \in new : x.tag \notin twice}),
      clash |-> twice]

\* The base's items a side dropped and the other changed.
lostChange(b, o, t) ==
  {x.tag : x \in {y \in Range(b) :
     \/ y.tag \notin tags(o) /\ y.tag \in tags(t) /\ byTag(t, y.tag) # y
     \/ y.tag \notin tags(t) /\ y.tag \in tags(o) /\ byTag(o, y.tag) # y}}

withTags(b, both) == SelectSeq(b, LAMBDA x : x.tag \in both)
keptBy(b, o, t) == withTags(b, tags(o) \cap tags(t))

mergeIndexes(b, o, t, present) ==
  LET kept == keptBy(b, o, t)
      merged == [i \in DOMAIN kept |->
                  Scalar(kept[i], byTag(o, kept[i].tag), byTag(t, kept[i].tag))]
      add == additions(b, o, t)
      covers(ix) == Range(ix.columns) \subseteq present
  IN [indexes |-> SelectSeq([i \in DOMAIN merged |-> merged[i].value] \o add.added, covers),
      conflicts |-> {indexLocation(x) : x \in lostChange(b, o, t) \cup add.clash
                       \cup {kept[i].tag : i \in {j \in DOMAIN kept : ~Clean(merged[j])}}}]

SchemaIs(s, cs) == [schema |-> s, conflicts |-> cs]
NoSchema == [columns |-> <<>>, pk |-> <<>>, indexes |-> <<>>]

mergeSchemas(base, ours, theirs) ==
  LET kept == keptBy(base.columns, ours.columns, theirs.columns)
      merged == [i \in DOMAIN kept |->
                  mergeColumn(kept[i], column(ours, kept[i].tag), column(theirs, kept[i].tag))]
      add == additions(base.columns, ours.columns, theirs.columns)
      columns == [i \in DOMAIN merged |-> merged[i].column] \o add.added
      ix == mergeIndexes(base.indexes, ours.indexes, theirs.indexes, tags(columns))
      conflicts == {columnLocation(x) :
                      x \in lostChange(base.columns, ours.columns, theirs.columns) \cup add.clash
                        \cup {kept[i].tag : i \in {j \in DOMAIN kept : ~merged[j].clean}}}
                   \cup ix.conflicts
      whole == [columns |-> columns, pk |-> base.pk, indexes |-> ix.indexes]
  IN IF ours.pk # base.pk \/ theirs.pk # base.pk THEN SchemaIs(NoSchema, {schemaLocation})
     ELSE IF ours = theirs \/ theirs = base THEN SchemaIs(ours, {})
     ELSE IF ours = base THEN SchemaIs(theirs, {})
     ELSE IF conflicts # {} THEN SchemaIs(NoSchema, conflicts)
     ELSE IF ~Validate(whole) THEN SchemaIs(NoSchema, {schemaLocation})
     ELSE SchemaIs(whole, {})

droppedBy(base, side) == tags(base.columns) \ tags(side.columns)
=============================================================================
