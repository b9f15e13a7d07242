------------------------------ MODULE Namespace ------------------------------
(***************************************************************************)
(* The content of a branch's working set.  A namespace maps each path to   *)
(* an object or NoObject.  An object is its model, its schema (a table's)  *)
(* and its items: rows, keys or records, Absent where it holds none.       *)
(* Roots are content hashes, so comparing two roots is comparing two       *)
(* values.                                                                 *)
(***************************************************************************)
EXTENDS Integers

CONSTANTS
    Paths,      \* object paths, in the order a namespace diff yields them
    Items,      \* rows, keys and record ids
    Schemas,    \* a table's catalogs
    NoSchema,   \* what the other models have for one
    NoObject,   \* no object at a path
    Absent,     \* no item under a key
    Refused,    \* no namespace: the outcome ErrSerialization
    CounterMod  \* a counter is an int64: its arithmetic wraps at 2^64

ASSUME PathsAssumption == Paths \subseteq Int
ASSUME CounterModAssumption == CounterMod \in Nat \ {0}

Models == {"table", "kv", "document"}

\* An item's content: a kv counter, or anything else, told apart by a number.
Values == [kind : {"counter", "bytes"}, val : 0..CounterMod - 1]

Contents == [Items -> Values \cup {Absent}]

Objects ==
    [model : {"table"}, schema : Schemas, items : Contents] \cup
    [model : {"kv", "document"}, schema : {NoSchema}, items : Contents]

Namespaces == [Paths -> Objects \cup {NoObject}]

ASSUME SentinelsAssumption ==
    /\ NoObject \notin Objects
    /\ Absent \notin Values
    /\ Refused \notin Namespaces \cup Objects \cup {NoObject} \cup Values \cup {Absent}

-----------------------------------------------------------------------------
\* object.Diff and prolly.Diff: the paths, or the items, that differ.
ChangedPaths(from, to) == {p \in Paths : from[p] # to[p]}
ChangedItems(from, to) == {i \in Items : from.items[i] # to.items[i]}

\* A change modified in place: one model before and after.
InPlace(from, to) ==
    /\ from # NoObject
    /\ to # NoObject
    /\ from.model = to.model

\* An object with other items: its model and schema stay.
WithItems(x, items) == [model |-> x.model, schema |-> x.schema, items |-> items]

IsCounter(v) == v # Absent /\ v.kind = "counter"

=============================================================================
