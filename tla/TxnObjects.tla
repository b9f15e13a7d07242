----------------------------- MODULE TxnObjects -----------------------------
(***************************************************************************)
(* A transaction's objects (engine/txn.go): the map objs from names to     *)
(* handles or drops over the namespace it began on, and the handles of the *)
(* three kinds, each with the object as last flushed and an editor that    *)
(* holds the writes since.                                                 *)
(*                                                                         *)
(* An object is its kind, its schema ("indexed": a table with an index;    *)
(* "plain": any other object) and its rows, a function from keys.  The     *)
(* value "long" fits a column and makes an index entry over MaxKeySize.    *)
(***************************************************************************)
EXTENDS Integers, Sequences

CONSTANTS
    Names,        \* object paths
    BadName,      \* a name that is not an object path
    Keys,         \* row keys, kv keys and record ids: integers
    Vals,         \* values, "long" among them or not
    BadValue,     \* a value every model refuses
    Uses          \* bound: the transactions to look at, each a record of
                  \*   base: Txn.base, the namespace it began on: by name, an object or NoObject
                  \*   names, keys, vals: what its calls are given
                  \*   kinds: the kinds it creates, of "table", "kv" and "collection"
                  \*   guarded: the names a grant is revoked on
                  \*   scans: whether it scans, one scan at a time
                  \*   handles: the most handles it opens

Kinds == {"table", "kv", "collection"}
Schemas == {"plain", "indexed"}
Delete == "delete"
NoObject == [kind |-> "none"]
Objects == [kind : Kinds, schema : Schemas, rows : UNION {[K -> Vals] : K \in SUBSET Keys}]

\* A scan has a next row while it has rows, a removal is no value, and a
\* transaction is given names, keys and values and begins on objects.
ASSUME ObjectsAssumption ==
    /\ Keys \subseteq Int
    /\ \A K \in SUBSET Keys : K # {} => \E k \in K : \A x \in K : k <= x
    /\ Delete \notin Vals
    /\ \A u \in Uses :
          /\ u.base \in [Names -> Objects \cup {NoObject}]
          /\ u.names \subseteq Names /\ u.keys \subseteq Keys /\ u.vals \subseteq Vals

VARIABLES
    use,          \* one of Uses
    objs,         \* Txn.objs: by name, an index into handles, or Untouched or Dropped
    handles,      \* the Table, KV and Collection handles given out, open and dropped
    closed,       \* Txn.closed, or the database closed: Txn.check refuses alike
    denied,       \* the names mayRead refuses
    told,         \* what the last call returned
    sent,         \* the namespace handed to the commit queue
    scan          \* the rows the open iterator of a Scan or a Lookup has left

vars == <<use, objs, handles, closed, denied, told, sent, scan>>

Base == use.base

Untouched == 0
Dropped == -1
NoRows == [k \in {} |-> 0]
NoNamespace == [n \in {} |-> NoObject]
Got(v) == [got |-> v]
Handle(i) == [handle |-> i]
Took(v) == [wrote |-> v]
TookSchema(schema) == [schema |-> schema]
Handed(k, v) == [row |-> <<k, v>>]
Said(s) == [said |-> s]
NoEditor == [on |-> NoObject, put |-> NoRows]

Init ==
    /\ use \in Uses
    /\ objs = [n \in Names |-> Untouched]
    /\ handles = <<>> /\ closed = FALSE /\ denied = {}
    /\ told = Said("ok") /\ sent = NoNamespace /\ scan = NoRows

-----------------------------------------------------------------------------
(* The editors of the three models, as the handles use them.               *)

Put(rows, k, v) == [x \in DOMAIN rows \cup {k} |-> IF x = k THEN v ELSE rows[x]]

\* The object an editor's pending writes make of the one it began on.
Edited(ed) ==
    LET left == {k \in DOMAIN ed.on.rows \cup DOMAIN ed.put : k \in DOMAIN ed.put => ed.put[k] # Delete}
    IN  [ed.on EXCEPT !.rows = [k \in left |-> IF k \in DOMAIN ed.put THEN ed.put[k] ELSE ed.on.rows[k]]]

\* An index entry over MaxKeySize is met as the editor flushes.
Fits(obj) == ~(obj.schema = "indexed" /\ \E k \in DOMAIN obj.rows : obj.rows[k] = "long")

\* editor: the pending writes, begun on the first.
editor(h) == IF h.ed = NoEditor THEN [on |-> h.t, put |-> NoRows] ELSE h.ed

\* flush: the object takes the pending writes; it fails where they do not fit.
flushes(h) == h.ed # NoEditor => Fits(Edited(h.ed))
flush(h) == IF h.ed = NoEditor THEN h ELSE [h EXCEPT !.t = Edited(h.ed), !.ed = NoEditor]

\* exists, of the table's editor.
exists(h, k) == k \in DOMAIN Edited(editor(h)).rows

-----------------------------------------------------------------------------
(* Calls on the transaction.                                               *)

\* The first refusal of those listed that applies; "ok" when none does.
First(refusals) ==
    LET on == {i \in DOMAIN refusals : refusals[i][1]}
    IN  IF on = {} THEN "ok" ELSE refusals[CHOOSE i \in on : \A j \in on : i <= j][2]

\* A call that returns r and changes nothing.
Returns(r) ==
    /\ told' = r
    /\ UNCHANGED <<objs, handles, closed, denied, sent, scan>>

\* lookup: the object named n as the transaction sees it; ref is the object
\* as last flushed.
lookup(n) ==
    CASE objs[n] = Untouched -> Base[n]
      [] objs[n] = Dropped -> NoObject
      [] OTHER -> handles[objs[n]].t

NewHandle(n, obj) ==
    /\ Len(handles) < use.handles
    /\ handles' = Append(handles, [name |-> n, kind |-> obj.kind, t |-> obj, ed |-> NoEditor, gone |-> FALSE])
    /\ objs' = [objs EXCEPT ![n] = Len(handles) + 1]
    /\ told' = Handle(Len(handles) + 1)
    /\ UNCHANGED <<closed, denied, sent, scan>>

creatable(n) ==
    First(<<<<closed, "closed">>, <<n = BadName, "invalid">>, <<lookup(n) # NoObject, "exists">>>>)

Create(n, kind, schema) ==
    \/ creatable(n) # "ok" /\ Returns(Said(creatable(n)))
    \/ creatable(n) = "ok" /\ NewHandle(n, [kind |-> kind, schema |-> schema, rows |-> NoRows])

CreateTable(n, schema) == Create(n, "table", schema)
CreateKV(n) == Create(n, "kv", "plain")
CreateCollection(n) == Create(n, "collection", "plain")

\* opened and stored: the handle the transaction holds, or a new one on the
\* object it began on.
openable(n, kind) ==
    First(<<<<closed, "closed">>, <<n \in denied, "denied">>,
            <<lookup(n) = NoObject, "notfound">>, <<lookup(n).kind # kind, "wrongkind">>>>)
Open(n, kind) ==
    \/ openable(n, kind) # "ok" /\ Returns(Said(openable(n, kind)))
    \/ openable(n, kind) = "ok" /\ objs[n] > 0 /\ Returns(Handle(objs[n]))
    \/ openable(n, kind) = "ok" /\ objs[n] = Untouched /\ NewHandle(n, Base[n])

Table(n) == Open(n, "table")
KV(n) == Open(n, "kv")
Collection(n) == Open(n, "collection")

\* Drop that leaves the open handle as it was.
Drop_Fault(n) ==
    /\ ~closed /\ lookup(n) # NoObject
    /\ objs' = [objs EXCEPT ![n] = Dropped]
    /\ told' = Said("ok")
    /\ UNCHANGED <<handles, closed, denied, sent, scan>>

Drop(n) ==
    LET refusal == First(<<<<closed, "closed">>, <<lookup(n) = NoObject, "notfound">>>>)
    IN  \/ refusal # "ok" /\ Returns(Said(refusal))
        \/ /\ refusal = "ok"
           /\ handles' = IF objs[n] > 0 THEN [handles EXCEPT ![objs[n]].gone = TRUE] ELSE handles
           /\ objs' = [objs EXCEPT ![n] = Dropped]
           /\ told' = Said("ok")
           /\ UNCHANGED <<closed, denied, sent, scan>>

-----------------------------------------------------------------------------
(* Calls on a handle.                                                      *)

\* check: the transaction first, then the handle.
check(i) == First(<<<<closed, "closed">>, <<handles[i].gone, "notfound">>>>)

\* A call on handle i that its check refuses.
Barred(i) == check(i) # "ok" /\ Returns(Said(check(i)))

\* A call that leaves handle i as h and returns r.
Leaves(i, h, r) ==
    /\ handles' = [handles EXCEPT ![i] = h]
    /\ told' = r
    /\ UNCHANGED <<objs, closed, denied, sent, scan>>

\* A write: the editor takes it, or refuses it and holds what it held.
Write(i, k, v, refusal) ==
    LET ed == editor(handles[i])
    IN  \/ Barred(i)
        \/ /\ check(i) = "ok"
           /\ IF refusal = "ok"
              THEN Leaves(i, [handles[i] EXCEPT !.ed = [ed EXCEPT !.put = Put(@, k, v)]], Took(v))
              ELSE Leaves(i, [handles[i] EXCEPT !.ed = ed], Said(refusal))

\* A read: the pending writes are flushed first.  The table's flush returns
\* the model's error as it is, which the caller sees as ErrInternal.
Flushed(i, r) ==
    \/ Barred(i)
    \/ /\ check(i) = "ok" /\ flushes(handles[i])
       /\ Leaves(i, flush(handles[i]), r)
    \/ check(i) = "ok" /\ ~flushes(handles[i]) /\ Returns(Said("internal"))

Row(i, k) ==
    LET rows == flush(handles[i]).t.rows
    IN  IF k \in DOMAIN rows THEN rows[k] ELSE "none"

\* A scan's iterator walks the object as flushed when the scan starts,
\* the rows under ks.
Iterate(i, ks) ==
    \/ Barred(i)
    \/ /\ check(i) = "ok" /\ flushes(handles[i])
       /\ LET h == flush(handles[i])
          IN  /\ handles' = [handles EXCEPT ![i] = h]
              /\ scan' = [k \in DOMAIN h.t.rows \cap ks |-> h.t.rows[k]]
       /\ told' = Said("ok")
       /\ UNCHANGED <<objs, closed, denied, sent>>
    \/ check(i) = "ok" /\ ~flushes(handles[i]) /\ Returns(Said("internal"))

TableInsert(i, k, v) ==
    Write(i, k, v, First(<<<<v = BadValue, "invalid">>, <<exists(handles[i], k), "exists">>>>))
TableUpdate(i, k, v) ==
    Write(i, k, v, First(<<<<v = BadValue, "invalid">>, <<~exists(handles[i], k), "notfound">>>>))
TableDelete(i, k) == Write(i, k, Delete, First(<<<<~exists(handles[i], k), "notfound">>>>))
TableGet(i, k) == Flushed(i, Got(Row(i, k)))
TableScan(i) == Iterate(i, Keys)
\* Lookup: the rows the index finds; a table without the index refuses it.
TableLookup(i, v) ==
    LET refused == check(i) = "ok" /\ flushes(handles[i]) /\ flush(handles[i]).t.schema # "indexed"
    IN  \/ refused /\ Leaves(i, flush(handles[i]), Said("invalid"))
        \/ ~refused /\ Iterate(i, {k \in Keys : Row(i, k) = v})

\* Alter without the flush: the editor goes on with the table it began on.
Alter_Fault(i, schema) ==
    /\ check(i) = "ok" /\ Fits([handles[i].t EXCEPT !.schema = schema])
    /\ Leaves(i, [handles[i] EXCEPT !.t.schema = schema], TookSchema(schema))

\* Alter: flushed, then rewritten; rows that do not fit the new schema refuse it.
Alter(i, schema) ==
    LET h == flush(handles[i])
        altered == [h EXCEPT !.t.schema = schema]
    IN  \/ Barred(i)
        \/ check(i) = "ok" /\ ~flushes(handles[i]) /\ Returns(Said("internal"))
        \/ /\ check(i) = "ok" /\ flushes(handles[i])
           /\ IF Fits(altered.t) THEN Leaves(i, altered, TookSchema(schema)) ELSE Leaves(i, h, Said("invalid"))

KVSet(i, k, v) == Write(i, k, v, First(<<<<v = BadValue, "invalid">>>>))
KVDelete(i, k) == Write(i, k, Delete, "ok")
KVGet(i, k) == Flushed(i, Got(Row(i, k)))
KVScan(i, from) == Iterate(i, {k \in Keys : k >= from})

CollectionPut(i, k, v) == Write(i, k, v, First(<<<<v = BadValue, "invalid">>>>))
\* PutJSON: a text that parses is put, and BadValue is one that does not.
CollectionPutJSON(i, k, v) == Write(i, k, v, First(<<<<v = BadValue, "invalid">>>>))
CollectionDelete(i, k) == Write(i, k, Delete, "ok")
CollectionGet(i, k) == Flushed(i, Got(Row(i, k)))
CollectionScan(i, from) == Iterate(i, {k \in Keys : k >= from})

\* drain, and the loops of the other scans: the callback takes the next row
\* and says go on, or stops with or without an error of its own.
drain(goOn) ==
    LET k == CHOOSE x \in DOMAIN scan : \A y \in DOMAIN scan : x <= y
    IN  /\ DOMAIN scan # {}
        /\ told' = Handed(k, scan[k])
        /\ scan' = IF goOn THEN [x \in DOMAIN scan \ {k} |-> scan[x]] ELSE NoRows
        /\ UNCHANGED <<objs, handles, closed, denied, sent>>

-----------------------------------------------------------------------------
(* The end of the transaction, and what happens around it.                 *)

\* namespace: every handle flushed and put, every dropped name removed.
namespace ==
    [n \in Names |->
        CASE objs[n] = Untouched -> Base[n]
          [] objs[n] = Dropped -> NoObject
          [] OTHER -> flush(handles[objs[n]]).t]

Flushable == \A n \in Names : objs[n] > 0 => flushes(handles[objs[n]])

\* Commit, up to enqueue (module CommitQueue).
Commit ==
    \/ closed /\ Returns(Said("closed"))
    \/ /\ ~closed /\ closed' = TRUE
       /\ \/ ~Flushable /\ told' = Said("internal") /\ UNCHANGED sent
          \/ Flushable /\ namespace = Base /\ told' = Said("ok") /\ UNCHANGED sent
          \/ Flushable /\ namespace # Base /\ told' = Said("queued") /\ sent' = namespace
       /\ UNCHANGED <<objs, handles, denied, scan>>

\* Abort; closing the database refuses the same calls.
Abort ==
    \/ closed /\ Returns(Said("closed"))
    \/ /\ ~closed /\ closed' = TRUE
       /\ told' = Said("ok")
       /\ UNCHANGED <<objs, handles, denied, sent, scan>>

\* A read of the store, or a write to it, fails under a call: a read or a
\* flush leaves the handle as it was, a commit finishes the transaction.
StoreFails ==
    /\ ~closed
    /\ closed' \in BOOLEAN
    /\ told' = Said("internal")
    /\ UNCHANGED <<objs, handles, denied, sent, scan>>

\* A grant is revoked, or given back, between two calls.
mayRead(n) ==
    /\ denied' = IF n \in denied THEN denied \ {n} ELSE denied \cup {n}
    /\ UNCHANGED <<objs, handles, closed, told, sent, scan>>

OfKind(kind) == {i \in DOMAIN handles : handles[i].kind = kind}

Step ==
    \/ Commit \/ Abort \/ StoreFails
    \/ \E n \in use.names :
          \/ Table(n) \/ KV(n) \/ Collection(n) \/ Drop(n)
          \/ n \in use.guarded /\ mayRead(n)
          \/ "kv" \in use.kinds /\ CreateKV(n)
          \/ "collection" \in use.kinds /\ CreateCollection(n)
          \/ "table" \in use.kinds /\ \E schema \in Schemas : CreateTable(n, schema)
    \/ \E goOn \in BOOLEAN : drain(goOn)
    \/ \E i \in OfKind("table") :
          \/ \E k \in use.keys : TableGet(i, k) \/ TableDelete(i, k)
          \/ \E k \in use.keys, v \in use.vals : TableInsert(i, k, v) \/ TableUpdate(i, k, v)
          \/ \E schema \in Schemas : Alter(i, schema)
          \/ use.scans /\ scan = NoRows /\ (TableScan(i) \/ \E v \in use.vals : TableLookup(i, v))
    \/ \E i \in OfKind("kv"), k \in use.keys :
          \/ KVGet(i, k) \/ KVDelete(i, k)
          \/ \E v \in use.vals : KVSet(i, k, v)
          \/ use.scans /\ scan = NoRows /\ KVScan(i, k)
    \/ \E i \in OfKind("collection"), k \in use.keys :
          \/ CollectionGet(i, k) \/ CollectionDelete(i, k)
          \/ \E v \in use.vals : CollectionPut(i, k, v) \/ CollectionPutJSON(i, k, v)
          \/ use.scans /\ scan = NoRows /\ CollectionScan(i, k)

Next == Step /\ UNCHANGED use

Spec == Init /\ [][Next]_vars

-----------------------------------------------------------------------------

\* The objects by name with the pending writes in them, and the handles
\* without their objects.
seen ==
    [n \in Names |->
        CASE objs[n] = Untouched -> Base[n]
          [] objs[n] = Dropped -> NoObject
          [] OTHER -> Edited(editor(handles[objs[n]]))]
given ==
    [i \in DOMAIN handles |->
        [name |-> handles[i].name, kind |-> handles[i].kind, gone |-> handles[i].gone]]

View == INSTANCE TxnView WITH view <- seen, hs <- given, over <- closed, base <- Base

\* A transaction is one plain map of objects: every read returns what the
\* accepted writes made, whatever was flushed, dropped, created again, opened
\* again or altered in between, and Commit hands the queue exactly that map.
ReadsItsWrites == View!VSpec

\* A name has at most one handle that takes calls, the one objs holds: no
\* write is taken by a handle Commit does not flush.
OneLiveHandle ==
    \A i \in DOMAIN handles : ~handles[i].gone <=> objs[handles[i].name] = i

=============================================================================
