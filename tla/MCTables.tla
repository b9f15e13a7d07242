------------------------------ MODULE MCTables ------------------------------
(***************************************************************************)
(* Tables for TLC: one under an editor, or one on two branches that merge. *)
(***************************************************************************)
EXTENDS TableBranches, TableEdit, TLC

Col(tag, name, type, nullable, maxlen) ==
  [tag |-> tag, name |-> name, type |-> type, nullable |-> nullable, maxlen |-> maxlen]
Id == Col(1, "id", "int8", FALSE, 0)
A == Col(2, "a", "varchar", TRUE, 2)
B == Col(3, "b", "int2", TRUE, 0)
C == Col(4, "c", "int2", TRUE, 0)
On(tag, cs) == [tag |-> tag, columns |-> cs]
Sch(cs, ixs) == [columns |-> cs, pk |-> <<1>>, indexes |-> ixs]

\* One row or two, under a column with an index.
Start == Sch(<<Id, A>>, <<On(9, <<2>>)>>)
SomeBases == {flushed(empty(Start), [k \in ks |-> 1 :> k @@ 2 :> v]) :
                ks \in {{1}, {1, 2}}, v \in {0, 1}}

\* Rename, widen, narrow, make NOT NULL, drop, add a column (three ways) and
\* add or drop an index; and put another column in one's place.
Replace(s, c) == [s EXCEPT !.columns = [i \in DOMAIN s.columns |->
                    IF s.columns[i].tag = c.tag THEN c ELSE s.columns[i]]]
Drop(s, tag) == [s EXCEPT !.columns = SelectSeq(@, LAMBDA c : c.tag # tag),
                          !.indexes = SelectSeq(@, LAMBDA ix : tag \notin Range(ix.columns))]
SomeAlters(s) ==
  LET own == {column(s, x) : x \in tags(s.columns) \ {1}}
  IN {Replace(s, [c EXCEPT !.name = "z"]) : c \in own}
     \cup {Replace(s, [c EXCEPT !.nullable = FALSE]) : c \in own}
     \cup {Replace(s, [c EXCEPT !.type = "text", !.maxlen = 0]) : c \in {x \in own : x.type = "varchar"}}
     \cup {Replace(s, [c EXCEPT !.maxlen = 1]) : c \in {x \in own : x.type = "varchar"}}
     \cup {Drop(s, c.tag) : c \in own}
     \cup {[s EXCEPT !.columns = Append(@, c)] :
             c \in {x \in {B, [B EXCEPT !.type = "int4"], C} : ~has(s, x.tag)}}
     \cup {[s EXCEPT !.indexes = Append(@, On(8, <<c.tag, 1>>))] :
             c \in {x \in own : 8 \notin tags(s.indexes)}}
     \cup {[s EXCEPT !.indexes = <<>>]}
     \cup {[s EXCEPT !.indexes = <<>>, !.columns = [i \in DOMAIN @ |->
             IF @[i] = c THEN [c EXCEPT !.tag = 5, !.name = "d"] ELSE @[i]]] : c \in own}

\* Widen, narrow and make NOT NULL, with an index and without; another column.
SomeSchemas == {
  Start,
  Sch(<<Id, Col(2, "a", "text", TRUE, 0)>>, Start.indexes),
  Sch(<<Id, Col(2, "a", "varchar", FALSE, 1)>>, <<>>),
  Sch(<<B, Id>>, <<On(8, <<3, 1>>)>>)}

\* The one of the two that a behaviour is not about stays as it is.
NoEdit == t = empty(Start) /\ pending = <<>> /\ want = <<>> /\ told = "unused"
NoMerge == /\ base = empty(Start) /\ ours = base /\ theirs = base
           /\ phase = "done" /\ alters = 0 /\ edits = 0
           /\ out = [got |-> None, swapped |-> None]

MCInit == (Init /\ NoEdit) \/ (EditInit /\ NoMerge)
MCNext == \/ told = "unused" /\ Next /\ UNCHANGED editVars
          \/ told # "unused" /\ EditNext /\ UNCHANGED vars
MCSpec == MCInit /\ [][MCNext]_<<vars, editVars>>

=============================================================================
