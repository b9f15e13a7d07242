----------------------------- MODULE CommitRule -----------------------------
(***************************************************************************)
(* The rule a commit follows (DESIGN D18), stated without the engine's     *)
(* ways of getting there: a transaction read b and made o of it, and the   *)
(* working set is now c.  Its writes are applied to c unless one of them   *)
(* meets a change since b.                                                 *)
(***************************************************************************)
EXTENDS Namespace

\* An item both sides wrote that is not a counter both moved.
ItemsClash(b, o, c) ==
    \E i \in ChangedItems(b, o) \cap ChangedItems(b, c) :
       ~( /\ b.model = "kv"
          /\ IsCounter(b.items[i]) /\ IsCounter(o.items[i]) /\ IsCounter(c.items[i]) )

\* The two sides' changes of one path cannot both stand: both changed it, and
\* one added, dropped or replaced it (unless the two agree), or a schema
\* changed, or they wrote one item.
PathsClash(b, o, c) ==
    /\ o # b
    /\ c # b
    /\ IF InPlace(b, o) /\ InPlace(b, c)
       THEN b.schema # o.schema \/ b.schema # c.schema \/ ItemsClash(b, o, c)
       ELSE o # c

Clash(b, o, c) == \E p \in Paths : PathsClash(b[p], o[p], c[p])

\* An item of c with the transaction's write: its value, or its delta.
ItemAfter(b, o, c) ==
    IF o = b THEN c
    ELSE IF c = b THEN o
    ELSE [kind |-> "counter", val |-> (c.val + (o.val - b.val)) % CounterMod]

PathAfter(b, o, c) ==
    IF o = b THEN c
    ELSE IF c = b THEN o
    ELSE IF InPlace(b, o) /\ InPlace(b, c)
    THEN WithItems(c, [i \in Items |-> ItemAfter(b.items[i], o.items[i], c.items[i])])
    ELSE o

\* The namespace c with the writes of a transaction that read b and made o
\* of it.
Applied(b, o, c) ==
    IF Clash(b, o, c) THEN Refused
    ELSE [p \in Paths |-> PathAfter(b[p], o[p], c[p])]

=============================================================================
