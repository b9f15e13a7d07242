------------------------------- MODULE TxnOnto -------------------------------
(***************************************************************************)
(* What a transaction makes of the working set it commits onto (Txn.onto,  *)
(* engine/txn.go): its own namespace when nothing moved, else its changes  *)
(* rebased item by item (Txn.rebase and the models' Rebase), else, where   *)
(* the rebase declines, the item rule (Txn.writeWrite) and the core's      *)
(* merge through the models.                                               *)
(***************************************************************************)
EXTENDS Namespace

CONSTANT Declined   \* rebase leaves the decision to the merge

ASSUME DeclinedAssumption ==
    Declined \notin Namespaces \cup Objects \cup {NoObject, Refused}

-----------------------------------------------------------------------------
\* The models' Rebase: side's changed items, put into onto where it holds
\* what base did.
RebasedItems(base, side, onto) ==
    [i \in Items |-> IF i \in ChangedItems(base, side) THEN side.items[i]
                                                       ELSE onto.items[i]]

\* A key side changed that onto holds otherwise than base did.
ChangedSince_Fault(base, side, onto) ==
    \E i \in ChangedItems(base, side) : side.items[i] # onto.items[i] /\ onto.items[i] # base.items[i]
ChangedSince(base, side, onto) ==
    \E i \in ChangedItems(base, side) : onto.items[i] # base.items[i]

\* rebase at a path the transaction changed from b to o, where the working
\* set holds c: the object to put, or Declined, or Refused.
RebasePath(b, o, c) ==
    IF ~InPlace(b, o) \/ ~InPlace(b, c) THEN Declined
    ELSE IF c = b THEN o
    ELSE IF b.schema # o.schema \/ b.schema # c.schema THEN Declined
    ELSE IF ~ChangedSince(b, o, c) THEN WithItems(c, RebasedItems(b, o, c))
    ELSE IF b.model = "kv" THEN Declined
    ELSE Refused

\* Txn.rebase: path by path in order, ending at the first it cannot take.
Rebase(base, ours, cur) ==
    LET ends == {p \in ChangedPaths(base, ours) :
                    RebasePath(base[p], ours[p], cur[p]) \in {Declined, Refused}}
    IN  IF ends = {}
        THEN [p \in Paths |-> IF p \in ChangedPaths(base, ours)
                              THEN RebasePath(base[p], ours[p], cur[p])
                              ELSE cur[p]]
        ELSE IF \E p \in ends : /\ \A q \in ends : p <= q
                                /\ RebasePath(base[p], ours[p], cur[p]) = Refused
        THEN Refused
        ELSE Declined

-----------------------------------------------------------------------------
\* Txn.items less Txn.counterDeltas: the items a change wrote, the keys it
\* moved from a counter to a counter aside.
Written(from, to) ==
    {i \in ChangedItems(from, to) :
       ~(to.model = "kv" /\ IsCounter(from.items[i]) /\ IsCounter(to.items[i]))}

\* writeWrite at one path both sides changed in place: an item both wrote,
\* or a table whose schema changed on either side.
WritesMeet(b, o, c) ==
    \/ b.schema # o.schema
    \/ b.schema # c.schema
    \/ \E i \in Written(b, o) : i \in ChangedItems(b, c)

\* Txn.writeWrite.
WriteWrite(base, ours, cur) ==
    \E p \in ChangedPaths(base, ours) \cap ChangedPaths(base, cur) :
       /\ InPlace(base[p], ours[p])
       /\ InPlace(base[p], cur[p])
       /\ WritesMeet(base[p], ours[p], cur[p])

-----------------------------------------------------------------------------
\* merge.Counter: the base plus both deltas, in an int64.  The faulty one
\* takes two equal increments for one.
Counter_Fault(base, ours, theirs) ==
    IF ours = theirs THEN ours ELSE (base + (ours - base) + (theirs - base)) % CounterMod
Counter(base, ours, theirs) ==
    (base + (ours - base) + (theirs - base)) % CounterMod

\* kv's decide, for a key both sides changed: Refused where it conflicts.
\* Two changes of a table's row or of a record never reach a model here: the
\* item rule refused them.
Decide(b, o, c) ==
    IF IsCounter(b) /\ IsCounter(o) /\ IsCounter(c)
    THEN [kind |-> "counter", val |-> Counter(b.val, o.val, c.val)]
    ELSE IF o = c THEN o
    ELSE Refused

\* One item of an object's merge: the side that changed it, or the model's
\* decision.
MergeItem(model, b, o, c) ==
    IF o = b THEN c
    ELSE IF c = b THEN o
    ELSE IF model = "kv" THEN Decide(b, o, c)
    ELSE IF o = c THEN o
    ELSE Refused

MergeItems(b, o, c) ==
    [i \in Items |-> MergeItem(b.model, b.items[i], o.items[i], c.items[i])]

\* The core's merge of one path: the side that changed, the model where both
\* did in place, else a conflict unless the sides agree.
MergePath(b, o, c) ==
    IF o = b THEN c
    ELSE IF c = b THEN o
    ELSE IF ~(InPlace(b, o) /\ InPlace(b, c) /\ (b.model = "kv" \/ o # c))
         THEN IF o = c THEN o ELSE Refused
    ELSE IF \E i \in Items : MergeItems(b, o, c)[i] = Refused THEN Refused
    ELSE WithItems(c, MergeItems(b, o, c))

\* merge.Merge, refused when any path conflicts.
Merge(base, ours, cur) ==
    IF \E p \in Paths : MergePath(base[p], ours[p], cur[p]) = Refused
    THEN Refused
    ELSE [p \in Paths |-> MergePath(base[p], ours[p], cur[p])]

\* Txn.merged.
Merged(base, ours, cur) ==
    IF WriteWrite(base, ours, cur) THEN Refused ELSE Merge(base, ours, cur)

-----------------------------------------------------------------------------
\* Txn.onto.
Onto(base, ours, cur) ==
    IF cur = base THEN ours
    ELSE IF Rebase(base, ours, cur) = Declined THEN Merged(base, ours, cur)
    ELSE Rebase(base, ours, cur)

=============================================================================
