------------------------------ MODULE TxnView -------------------------------
(***************************************************************************)
(* What a transaction promises its caller (the comments of Txn, Table, KV  *)
(* and Collection in engine/txn.go): one plain map from names to objects   *)
(* that every accepted write changes at once and every read sees, whatever *)
(* is opened, dropped, created again or altered in between; a call on a    *)
(* dropped object or a finished transaction is refused; what a commit      *)
(* hands to the queue is that map.                                         *)
(***************************************************************************)
EXTENDS Integers, Sequences

CONSTANTS Names, Keys, Vals

VARIABLES
    base,      \* the objects the transaction began on
    view,      \* the objects, by name
    hs,        \* the handles given out: name, kind, and whether dropped since
    over,      \* the transaction is finished
    told,      \* what the last call returned
    sent,      \* what was handed to the commit queue; NoNamespace before
    scan       \* the rows a scan has still to hand over

vvars == <<base, view, hs, over, told, sent, scan>>

NoObject == [kind |-> "none"]
NoRows == [k \in {} |-> 0]
NoNamespace == [n \in {} |-> NoObject]
Got(v) == [got |-> v]
Handle(i) == [handle |-> i]
Took(v) == [wrote |-> v]
TookSchema(schema) == [schema |-> schema]
Handed(k, v) == [row |-> <<k, v>>]
Said(s) == [said |-> s]

VInit ==
    /\ view = base /\ hs = <<>> /\ over = FALSE
    /\ told = Said("ok") /\ sent = NoNamespace /\ scan = NoRows

\* A refusal or a failure changes nothing.
Refused ==
    /\ \/ told' = Said("closed") /\ over
       \/ ~over /\ \E s \in {"denied", "invalid", "exists", "notfound", "wrongkind", "internal"} : told' = Said(s)
    /\ UNCHANGED <<view, hs, over, sent, scan>>

Live(i) == ~over /\ ~hs[i].gone
Put(rows, k, v) == [x \in DOMAIN rows \cup {k} |-> IF x = k THEN v ELSE rows[x]]

Made(n, obj) ==
    /\ told' = Handle(Len(hs) + 1)
    /\ ~over /\ view[n] = NoObject
    /\ view' = [view EXCEPT ![n] = obj]
    /\ hs' = Append(hs, [name |-> n, kind |-> obj.kind, gone |-> FALSE])
    /\ UNCHANGED <<over, sent, scan>>

\* Opening gives the handle that is there, or a new one.
Opened(n) ==
    /\ \/ \E i \in DOMAIN hs :
             /\ told' = Handle(i) /\ UNCHANGED hs
             /\ hs[i].name = n /\ ~hs[i].gone
       \/ /\ told' = Handle(Len(hs) + 1)
          /\ \A i \in DOMAIN hs : hs[i].name = n => hs[i].gone
          /\ hs' = Append(hs, [name |-> n, kind |-> view[n].kind, gone |-> FALSE])
    /\ ~over /\ view[n] # NoObject
    /\ UNCHANGED <<view, over, sent, scan>>

Dropped(n) ==
    /\ told' = Said("ok")
    /\ ~over /\ view[n] # NoObject
    /\ view' = [view EXCEPT ![n] = NoObject]
    /\ hs' = [i \in DOMAIN hs |-> IF hs[i].name = n THEN [hs[i] EXCEPT !.gone = TRUE] ELSE hs[i]]
    /\ UNCHANGED <<over, sent, scan>>

\* A write of v under k, or a removal of k, seen by the next read.
Wrote(i, k, v) ==
    /\ told' = Took(v)
    /\ Live(i)
    /\ view' = [view EXCEPT ![hs[i].name].rows = Put(@, k, v)]
    /\ UNCHANGED <<hs, over, sent, scan>>

Removed(i, k) ==
    /\ told' = Took("delete")
    /\ Live(i)
    /\ view' = [view EXCEPT ![hs[i].name].rows = [x \in DOMAIN @ \ {k} |-> @[x]]]
    /\ UNCHANGED <<hs, over, sent, scan>>

Altered(i, schema) ==
    /\ told' = TookSchema(schema)
    /\ Live(i)
    /\ view' = [view EXCEPT ![hs[i].name].schema = schema]
    /\ UNCHANGED <<hs, over, sent, scan>>

Read(i, k) ==
    /\ Live(i)
    /\ LET rows == view[hs[i].name].rows
       IN  told' = Got(IF k \in DOMAIN rows THEN rows[k] ELSE "none")
    /\ UNCHANGED <<view, hs, over, sent, scan>>

\* A scan hands over the rows there are as it starts, whatever its callback
\* goes on to do.
Scanned(i, which) ==
    /\ told' = Said("ok")
    /\ Live(i)
    /\ LET rows == view[hs[i].name].rows
       IN  scan' = [k \in {x \in DOMAIN rows : x \in which} |-> rows[k]]
    /\ UNCHANGED <<view, hs, over, sent>>

HandedOver(k) ==
    /\ k \in DOMAIN scan /\ \A x \in DOMAIN scan : k <= x
    /\ told' = Handed(k, scan[k])
    /\ \/ scan' = [x \in DOMAIN scan \ {k} |-> scan[x]]
       \/ scan' = NoRows
    /\ UNCHANGED <<view, hs, over, sent>>

\* A commit that changed nothing, failed, or reached the queue with the view.
Committed ==
    /\ ~over /\ over' = TRUE
    /\ \/ told' = Said("ok") /\ view = base /\ UNCHANGED sent
       \/ told' = Said("internal") /\ UNCHANGED sent
       \/ told' = Said("queued") /\ view # base /\ sent' = view
    /\ UNCHANGED <<view, hs, scan>>

Ended ==
    /\ ~over /\ over' = TRUE /\ told' = Said("ok")
    /\ UNCHANGED <<view, hs, sent, scan>>

VStep ==
    \/ Refused \/ Committed \/ Ended
    \/ \E n \in Names : Opened(n) \/ Dropped(n)
    \/ \E n \in Names, kind \in {"table", "kv", "collection"}, schema \in {"plain", "indexed"} :
          Made(n, [kind |-> kind, schema |-> schema, rows |-> NoRows])
    \/ \E i \in DOMAIN hs, k \in Keys :
          Read(i, k) \/ Removed(i, k) \/ \E v \in Vals : Wrote(i, k, v)
    \/ \E i \in DOMAIN hs, schema \in {"plain", "indexed"} : Altered(i, schema)
    \/ \E i \in DOMAIN hs, which \in SUBSET Keys : Scanned(i, which)
    \/ \E k \in Keys : HandedOver(k)

VNext == VStep /\ UNCHANGED base

VSpec == VInit /\ [][VNext]_vvars

=============================================================================
