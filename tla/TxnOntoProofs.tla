---------------------------- MODULE TxnOntoProofs ----------------------------
(***************************************************************************)
(* Txn.onto follows the commit rule for every set of paths, items, schemas *)
(* and every counter width, path by path: what rebase takes is the rule's  *)
(* result, what it refuses the rule refuses, and what it leaves to the     *)
(* merge the item rule and the models decide as the rule does.  The        *)
(* properties OntoCheck checks follow, for every instance.                 *)
(***************************************************************************)
EXTENDS OntoCheck, TLAPS

-----------------------------------------------------------------------------
\* The parts of an object.
LEMMA ObjectParts ==
  ASSUME NEW x \in Objects
  PROVE  /\ x.model \in Models
         /\ x.items \in Contents
         /\ \A i \in Items : x.items[i] \in Values \cup {Absent}
         /\ x # NoObject /\ x # Refused
BY SentinelsAssumption DEF Objects, Contents, Models

\* Two objects of one model that differ do so in their schema or in an item.
LEMMA ObjectsDiffer ==
  ASSUME NEW x \in Objects, NEW y \in Objects, x.model = y.model, x # y
  PROVE  x.schema # y.schema \/ ChangedItems(x, y) # {}
<1> SUFFICES ASSUME x.schema = y.schema, ChangedItems(x, y) = {}
             PROVE  FALSE
  OBVIOUS
<1>1. x.items = y.items
  BY DEF ChangedItems, Objects, Contents
<1>. QED  BY <1>1 DEF Objects

\* A counter's sum is a counter's value.
LEMMA CounterInRange ==
  ASSUME NEW x \in Int, NEW y \in Int, NEW z \in Int
  PROVE  /\ Counter(x, y, z) \in 0..CounterMod - 1
         /\ Counter(x, y, z) = (z + (y - x)) % CounterMod
<1>1. x + (y - x) + (z - x) = z + (y - x)
  OBVIOUS
<1>2. \A n \in Int : n % CounterMod \in 0..CounterMod - 1
  BY CounterModAssumption
<1>. QED  BY <1>1, <1>2 DEF Counter

-----------------------------------------------------------------------------
\* rebase at a path the transaction changed: what it puts is the rule's
\* result, and what it refuses clashes.
LEMMA RebaseAtPath ==
  ASSUME NEW x \in Objects \cup {NoObject}, NEW y \in Objects \cup {NoObject},
         NEW z \in Objects \cup {NoObject}, x # y
  PROVE  /\ RebasePath(x, y, z) = Refused => PathsClash(x, y, z)
         /\ RebasePath(x, y, z) \notin {Declined, Refused} =>
               /\ ~PathsClash(x, y, z)
               /\ RebasePath(x, y, z) = PathAfter(x, y, z)
<1>1. CASE ~InPlace(x, y) \/ ~InPlace(x, z)
  BY <1>1, DeclinedAssumption DEF RebasePath
<1>2. CASE InPlace(x, y) /\ InPlace(x, z)
  <2>0. x \in Objects /\ y \in Objects /\ z \in Objects
    BY <1>2 DEF InPlace
  <2>1. CASE z = x
    <3>1. RebasePath(x, y, z) = y
      BY <1>2, <2>1 DEF RebasePath
    <3>. QED  BY <2>0, <2>1, <3>1, ObjectParts DEF PathsClash, PathAfter
  <2>2. CASE z # x /\ (x.schema # y.schema \/ x.schema # z.schema)
    BY <1>2, <2>2, DeclinedAssumption DEF RebasePath
  <2>3. CASE z # x /\ x.schema = y.schema /\ x.schema = z.schema /\ ~ChangedSince(x, y, z)
    <3>1. RebasePath(x, y, z) = WithItems(z, RebasedItems(x, y, z))
      BY <1>2, <2>3 DEF RebasePath
    <3>2. ~PathsClash(x, y, z)
      BY <1>2, <2>3 DEF PathsClash, ItemsClash, ChangedSince, ChangedItems
    <3>3. RebasedItems(x, y, z) = [i \in Items |-> ItemAfter(x.items[i], y.items[i], z.items[i])]
      BY <2>3 DEF RebasedItems, ItemAfter, ChangedSince, ChangedItems
    <3>4. PathAfter(x, y, z) = WithItems(z, RebasedItems(x, y, z))
      BY <1>2, <2>3, <3>3 DEF PathAfter
    <3>5. WithItems(z, RebasedItems(x, y, z)) \in Objects
      <4>1. RebasedItems(x, y, z) \in Contents
        BY <2>0, ObjectParts DEF RebasedItems, Contents
      <4>. QED  BY <2>0, <4>1 DEF Objects, WithItems
    <3>. QED  BY <3>1, <3>2, <3>4, <3>5, ObjectParts
  <2>4. CASE z # x /\ x.schema = y.schema /\ x.schema = z.schema /\ ChangedSince(x, y, z)
             /\ x.model = "kv"
    BY <1>2, <2>4, DeclinedAssumption DEF RebasePath
  <2>5. CASE z # x /\ x.schema = y.schema /\ x.schema = z.schema /\ ChangedSince(x, y, z)
             /\ x.model # "kv"
    <3>1. RebasePath(x, y, z) = Refused
      BY <1>2, <2>5 DEF RebasePath
    <3>2. ItemsClash(x, y, z)
      BY <2>5 DEF ItemsClash, ChangedSince, ChangedItems
    <3>. QED  BY <1>2, <2>5, <3>1, <3>2 DEF PathsClash
  <2>. QED  BY <2>1, <2>2, <2>3, <2>4, <2>5
<1>. QED  BY <1>1, <1>2

-----------------------------------------------------------------------------
\* The item rule at a path refuses only what clashes.
LEMMA WritesMeetClash ==
  ASSUME NEW x \in Objects, NEW y \in Objects, NEW z \in Objects,
         x # y, x # z, InPlace(x, y), InPlace(x, z), WritesMeet(x, y, z)
  PROVE  PathsClash(x, y, z)
<1>1. CASE x.schema # y.schema \/ x.schema # z.schema
  BY <1>1 DEF PathsClash
<1>2. CASE \E i \in Written(x, y) : i \in ChangedItems(x, z)
  <2>1. PICK i \in Written(x, y) : i \in ChangedItems(x, z)
    BY <1>2
  <2>2. /\ i \in ChangedItems(x, y) \cap ChangedItems(x, z)
        /\ ~(x.model = "kv" /\ IsCounter(x.items[i]) /\ IsCounter(y.items[i]))
    BY <2>1 DEF Written, InPlace
  <2>3. ItemsClash(x, y, z)
    BY <2>2 DEF ItemsClash
  <2>. QED  BY <2>3 DEF PathsClash
<1>. QED  BY <1>1, <1>2 DEF WritesMeet

\* Past the item rule, an item both sides changed is a kv counter the
\* transaction moved.
LEMMA BothChanged ==
  ASSUME NEW x \in Objects, NEW y \in Objects, NEW z \in Objects,
         InPlace(x, y), ~WritesMeet(x, y, z),
         NEW i \in ChangedItems(x, y) \cap ChangedItems(x, z)
  PROVE  x.model = "kv" /\ IsCounter(x.items[i]) /\ IsCounter(y.items[i])
BY DEF WritesMeet, Written, InPlace

\* The merge of an item, past the item rule.
LEMMA MergeAtItem ==
  ASSUME NEW x \in Objects, NEW y \in Objects, NEW z \in Objects,
         InPlace(x, y), InPlace(x, z), ~WritesMeet(x, y, z), NEW i \in Items
  PROVE  LET m == MergeItem(x.model, x.items[i], y.items[i], z.items[i])
             bad == /\ i \in ChangedItems(x, y) \cap ChangedItems(x, z)
                    /\ ~( /\ x.model = "kv" /\ IsCounter(x.items[i])
                          /\ IsCounter(y.items[i]) /\ IsCounter(z.items[i]) )
         IN  /\ bad <=> m = Refused
             /\ ~bad => /\ m = ItemAfter(x.items[i], y.items[i], z.items[i])
                        /\ m \in Values \cup {Absent}
<1> DEFINE b == x.items[i]
           o == y.items[i]
           c == z.items[i]
<1>0. /\ b \in Values \cup {Absent}
      /\ o \in Values \cup {Absent}
      /\ c \in Values \cup {Absent}
      /\ Refused \notin Values \cup {Absent}
  BY ObjectParts, SentinelsAssumption
<1>1. CASE o = b
  BY <1>0, <1>1 DEF MergeItem, ItemAfter, ChangedItems
<1>2. CASE o # b /\ c = b
  BY <1>0, <1>2 DEF MergeItem, ItemAfter, ChangedItems
<1>3. CASE o # b /\ c # b
  <2>1. i \in ChangedItems(x, y) \cap ChangedItems(x, z)
    BY <1>3 DEF ChangedItems
  <2>2. x.model = "kv" /\ IsCounter(b) /\ IsCounter(o)
    BY <2>1, BothChanged
  <2>3. MergeItem(x.model, b, o, c) = Decide(b, o, c)
    BY <1>3, <2>2 DEF MergeItem
  <2>4. CASE IsCounter(c)
    <3>1. b.val \in Int /\ o.val \in Int /\ c.val \in Int
      BY <1>0, <2>2, <2>4, CounterModAssumption DEF Values, IsCounter
    <3>2. Decide(b, o, c) = [kind |-> "counter", val |-> Counter(b.val, o.val, c.val)]
      BY <2>2, <2>4 DEF Decide
    <3>3. Decide(b, o, c) \in Values
      <4> DEFINE v == Counter(b.val, o.val, c.val)
      <4>1. v \in 0..CounterMod - 1
        BY Zenon, <3>1, CounterInRange
      <4> HIDE DEF v, b, o, c
      <4>2. [kind |-> "counter", val |-> v] \in Values
        BY <4>1 DEF Values
      <4>. QED  BY <3>2, <4>2 DEF v
    <3>4. ItemAfter(b, o, c) = Decide(b, o, c)
      BY Zenon, <1>3, <3>1, <3>2, CounterInRange DEF ItemAfter
    <3>. QED  BY <1>0, <2>2, <2>3, <2>4, <3>3, <3>4
  <2>5. CASE ~IsCounter(c)
    <3>1. o # c
      BY <2>2, <2>5
    <3>2. Decide(b, o, c) = Refused
      BY <2>5, <3>1 DEF Decide
    <3>. QED  BY <2>1, <2>3, <2>5, <3>2
  <2>. QED  BY <2>4, <2>5
<1>. QED  BY <1>1, <1>2, <1>3

\* The merge at a path, past the item rule: it conflicts where the sides
\* clash, and otherwise makes what the rule does.
LEMMA MergeAtPath ==
  ASSUME NEW x \in Objects \cup {NoObject}, NEW y \in Objects \cup {NoObject},
         NEW z \in Objects \cup {NoObject},
         x # y /\ x # z /\ InPlace(x, y) /\ InPlace(x, z) => ~WritesMeet(x, y, z)
  PROVE  /\ MergePath(x, y, z) = Refused <=> PathsClash(x, y, z)
         /\ MergePath(x, y, z) # Refused => MergePath(x, y, z) = PathAfter(x, y, z)
<1>0. x # Refused /\ y # Refused /\ z # Refused
  BY SentinelsAssumption
<1>1. CASE y = x \/ z = x
  BY <1>0, <1>1 DEF MergePath, PathsClash, PathAfter
<1>2. CASE y # x /\ z # x /\ ~(InPlace(x, y) /\ InPlace(x, z))
  BY <1>0, <1>2 DEF MergePath, PathsClash, PathAfter
<1>3. CASE y # x /\ z # x /\ InPlace(x, y) /\ InPlace(x, z)
  <2>0. /\ x \in Objects /\ y \in Objects /\ z \in Objects
        /\ ~WritesMeet(x, y, z)
    BY <1>3 DEF InPlace
  <2>s. x.schema = y.schema /\ x.schema = z.schema
    BY <2>0 DEF WritesMeet
  <2>1. x.model = "kv" \/ y # z
    <3>1. SUFFICES ASSUME y = z PROVE x.model = "kv"
      OBVIOUS
    <3>2. PICK i \in Items : i \in ChangedItems(x, y)
      BY Zenon, <1>3, <2>0, <2>s, ObjectsDiffer DEF InPlace, ChangedItems
    <3>. QED  BY <1>3, <2>0, <3>1, <3>2, BothChanged
  <2>2. \A i \in Items :
           /\ MergeItems(x, y, z)[i] = Refused <=>
                 /\ i \in ChangedItems(x, y) \cap ChangedItems(x, z)
                 /\ ~( /\ x.model = "kv" /\ IsCounter(x.items[i])
                       /\ IsCounter(y.items[i]) /\ IsCounter(z.items[i]) )
           /\ MergeItems(x, y, z)[i] # Refused =>
                 /\ MergeItems(x, y, z)[i] = ItemAfter(x.items[i], y.items[i], z.items[i])
                 /\ MergeItems(x, y, z)[i] \in Values \cup {Absent}
    BY <1>3, <2>0, MergeAtItem DEF MergeItems
  <2>3. (\E i \in Items : MergeItems(x, y, z)[i] = Refused) <=> ItemsClash(x, y, z)
    BY <2>2 DEF ItemsClash, ChangedItems
  <2>4. PathsClash(x, y, z) <=> ItemsClash(x, y, z)
    BY <1>3, <2>s DEF PathsClash
  <2>5. CASE ItemsClash(x, y, z)
    <3>1. MergePath(x, y, z) = Refused
      BY <1>3, <2>1, <2>3, <2>5 DEF MergePath
    <3>. QED  BY <2>4, <2>5, <3>1
  <2>6. CASE ~ItemsClash(x, y, z)
    <3>1. MergePath(x, y, z) = WithItems(z, MergeItems(x, y, z))
      BY <1>3, <2>1, <2>3, <2>6 DEF MergePath
    <3>2. MergeItems(x, y, z) = [i \in Items |-> ItemAfter(x.items[i], y.items[i], z.items[i])]
      BY <2>2, <2>3, <2>6 DEF MergeItems
    <3>3. PathAfter(x, y, z) = WithItems(z, MergeItems(x, y, z))
      BY <1>3, <3>2 DEF PathAfter
    <3>4. MergeItems(x, y, z) \in Contents
      BY <2>2, <2>3, <2>6 DEF MergeItems, Contents
    <3>5. WithItems(z, MergeItems(x, y, z)) \in Objects
      BY <2>0, <3>4 DEF Objects, WithItems
    <3>. QED  BY <2>4, <2>6, <3>1, <3>3, <3>5, ObjectParts
  <2>. QED  BY <2>5, <2>6
<1>. QED  BY <1>1, <1>2, <1>3

-----------------------------------------------------------------------------
\* The item rule and the merge together are the rule.
LEMMA MergedIsApplied ==
  ASSUME NEW x \in Namespaces, NEW y \in Namespaces, NEW z \in Namespaces
  PROVE  Merged(x, y, z) = Applied(x, y, z)
<1>0. \A p \in Paths : /\ x[p] \in Objects \cup {NoObject}
                       /\ y[p] \in Objects \cup {NoObject}
                       /\ z[p] \in Objects \cup {NoObject}
  BY DEF Namespaces
<1>1. CASE WriteWrite(x, y, z)
  <2>1. PICK p \in ChangedPaths(x, y) \cap ChangedPaths(x, z) :
           InPlace(x[p], y[p]) /\ InPlace(x[p], z[p]) /\ WritesMeet(x[p], y[p], z[p])
    BY <1>1 DEF WriteWrite
  <2>2. /\ p \in Paths
        /\ x[p] \in Objects /\ y[p] \in Objects /\ z[p] \in Objects
        /\ x[p] # y[p] /\ x[p] # z[p]
    BY <1>0, <2>1 DEF ChangedPaths, InPlace
  <2>3. PathsClash(x[p], y[p], z[p])
    BY <2>1, <2>2, WritesMeetClash
  <2>. QED  BY <1>1, <2>2, <2>3 DEF Merged, Applied, Clash
<1>2. CASE ~WriteWrite(x, y, z)
  <2>1. \A p \in Paths :
           x[p] # y[p] /\ x[p] # z[p] /\ InPlace(x[p], y[p]) /\ InPlace(x[p], z[p])
             => ~WritesMeet(x[p], y[p], z[p])
    BY <1>2 DEF WriteWrite, ChangedPaths
  <2>2. \A p \in Paths :
           /\ MergePath(x[p], y[p], z[p]) = Refused <=> PathsClash(x[p], y[p], z[p])
           /\ MergePath(x[p], y[p], z[p]) # Refused =>
                 MergePath(x[p], y[p], z[p]) = PathAfter(x[p], y[p], z[p])
    BY Zenon, <1>0, <2>1, MergeAtPath
  <2>. QED  BY <1>2, <2>2 DEF Merged, Merge, Applied, Clash
<1>. QED  BY <1>1, <1>2

\* Where the rebase decides, it decides as the rule does.
LEMMA RebaseIsApplied ==
  ASSUME NEW x \in Namespaces, NEW y \in Namespaces, NEW z \in Namespaces,
         Rebase(x, y, z) # Declined
  PROVE  Rebase(x, y, z) = Applied(x, y, z)
<1>0. \A p \in Paths : /\ x[p] \in Objects \cup {NoObject}
                       /\ y[p] \in Objects \cup {NoObject}
                       /\ z[p] \in Objects \cup {NoObject}
  BY DEF Namespaces
<1>1. \A p \in ChangedPaths(x, y) :
         /\ RebasePath(x[p], y[p], z[p]) = Refused => PathsClash(x[p], y[p], z[p])
         /\ RebasePath(x[p], y[p], z[p]) \notin {Declined, Refused} =>
               /\ ~PathsClash(x[p], y[p], z[p])
               /\ RebasePath(x[p], y[p], z[p]) = PathAfter(x[p], y[p], z[p])
  BY Zenon, <1>0, RebaseAtPath DEF ChangedPaths
<1>2. \A p \in Paths \ ChangedPaths(x, y) :
         ~PathsClash(x[p], y[p], z[p]) /\ PathAfter(x[p], y[p], z[p]) = z[p]
  BY DEF ChangedPaths, PathsClash, PathAfter
<1> DEFINE ends == {p \in ChangedPaths(x, y) :
                       RebasePath(x[p], y[p], z[p]) \in {Declined, Refused}}
<1>3. CASE ends = {}
  <2>1. ~Clash(x, y, z)
    BY <1>1, <1>2, <1>3 DEF Clash
  <2>2. \A p \in Paths : (IF p \in ChangedPaths(x, y)
                          THEN RebasePath(x[p], y[p], z[p]) ELSE z[p])
                            = PathAfter(x[p], y[p], z[p])
    BY Zenon, <1>1, <1>2, <1>3
  <2>3. Rebase(x, y, z) = [p \in Paths |-> IF p \in ChangedPaths(x, y)
                                           THEN RebasePath(x[p], y[p], z[p]) ELSE z[p]]
    BY <1>3 DEF Rebase
  <2>. QED  BY <2>1, <2>2, <2>3 DEF Applied
<1>4. CASE ends # {}
  <2>1. PICK p \in ends : RebasePath(x[p], y[p], z[p]) = Refused
    BY <1>4 DEF Rebase
  <2>2. Clash(x, y, z)
    BY <1>1, <2>1 DEF Clash, ChangedPaths
  <2>3. Rebase(x, y, z) = Refused
    BY <1>4 DEF Rebase
  <2>. QED  BY <2>2, <2>3 DEF Applied
<1>. QED  BY <1>3, <1>4

\* Txn.onto follows the commit rule, whichever of its three ways it goes.
THEOREM OntoFollowsRule ==
  ASSUME NEW x \in Namespaces, NEW y \in Namespaces, NEW z \in Namespaces
  PROVE  Onto(x, y, z) = Applied(x, y, z)
<1>1. CASE z = x
  <2>1. ~Clash(x, y, z)
    BY <1>1 DEF Clash, PathsClash
  <2>2. \A p \in Paths : PathAfter(x[p], y[p], z[p]) = y[p]
    BY <1>1 DEF PathAfter
  <2>3. y = [p \in Paths |-> y[p]]
    BY DEF Namespaces
  <2>4. Applied(x, y, z) = y
    BY <2>1, <2>2, <2>3 DEF Applied
  <2>. QED  BY <1>1, <2>4 DEF Onto
<1>2. CASE z # x
  BY <1>2, MergedIsApplied, RebaseIsApplied DEF Onto
<1>. QED  BY <1>1, <1>2

\* What the rule makes of namespaces is one, or a refusal.
THEOREM AppliedType ==
  ASSUME NEW x \in Namespaces, NEW y \in Namespaces, NEW z \in Namespaces
  PROVE  Applied(x, y, z) \in Namespaces \cup {Refused}
<1>1. SUFFICES ASSUME ~Clash(x, y, z), NEW p \in Paths
               PROVE  PathAfter(x[p], y[p], z[p]) \in Objects \cup {NoObject}
  BY DEF Applied, Namespaces
<1>2. /\ x[p] \in Objects \cup {NoObject}
      /\ y[p] \in Objects \cup {NoObject}
      /\ z[p] \in Objects \cup {NoObject}
      /\ ~PathsClash(x[p], y[p], z[p])
  BY <1>1 DEF Namespaces, Clash
<1>3. CASE y[p] = x[p] \/ z[p] = x[p] \/ ~(InPlace(x[p], y[p]) /\ InPlace(x[p], z[p]))
  BY <1>2, <1>3 DEF PathAfter
<1>4. CASE y[p] # x[p] /\ z[p] # x[p] /\ InPlace(x[p], y[p]) /\ InPlace(x[p], z[p])
  <2>1. x[p] \in Objects /\ y[p] \in Objects /\ z[p] \in Objects
    BY <1>2, <1>4 DEF InPlace
  <2>2. \A i \in Items : ItemAfter(x[p].items[i], y[p].items[i], z[p].items[i]) \in Values \cup {Absent}
    <3>1. TAKE i \in Items
    <3>2. /\ x[p].items[i] \in Values \cup {Absent}
          /\ y[p].items[i] \in Values \cup {Absent}
          /\ z[p].items[i] \in Values \cup {Absent}
      BY <2>1, ObjectParts
    <3>3. CASE y[p].items[i] = x[p].items[i] \/ z[p].items[i] = x[p].items[i]
      BY <3>2, <3>3 DEF ItemAfter
    <3>4. CASE y[p].items[i] # x[p].items[i] /\ z[p].items[i] # x[p].items[i]
      <4>1. IsCounter(x[p].items[i]) /\ IsCounter(y[p].items[i]) /\ IsCounter(z[p].items[i])
        BY <1>2, <1>4, <3>4 DEF PathsClash, ItemsClash, ChangedItems
      <4>2. x[p].items[i].val \in Int /\ y[p].items[i].val \in Int /\ z[p].items[i].val \in Int
        BY <3>2, <4>1, CounterModAssumption DEF IsCounter, Values
      <4>3. PICK v : v = (z[p].items[i].val + (y[p].items[i].val - x[p].items[i].val)) % CounterMod
        OBVIOUS
      <4>4. v \in 0..CounterMod - 1
        BY <4>2, <4>3, CounterModAssumption
      <4>5. [kind |-> "counter", val |-> v] \in Values
        BY <4>4 DEF Values
      <4>. QED  BY <3>4, <4>3, <4>5 DEF ItemAfter
    <3>. QED  BY <3>3, <3>4
  <2>3. [i \in Items |-> ItemAfter(x[p].items[i], y[p].items[i], z[p].items[i])] \in Contents
    BY <2>2 DEF Contents
  <2>4. WithItems(z[p], [i \in Items |-> ItemAfter(x[p].items[i], y[p].items[i], z[p].items[i])])
           \in Objects
    BY <2>1, <2>3 DEF Objects, WithItems
  <2>. QED  BY <1>4, <2>4 DEF PathAfter
<1>. QED  BY <1>3, <1>4

-----------------------------------------------------------------------------
\* The three namespaces stay what they were, and the result is onto's.
OntoInv ==
    /\ snapshot \in Namespaces
    /\ mine \in Namespaces
    /\ current \in Namespaces
    /\ result \in {Pending, Onto(snapshot, mine, current)}

\* OntoInv holds in every state of the check.
LEMMA OntoInvHolds == OntoSpec => []OntoInv
<1>1. OntoInit => OntoInv
  BY InputsAssumption DEF OntoInit, OntoInv
<1>2. OntoInv /\ [OntoNext]_ontoVars => OntoInv'
  BY DEF OntoInv, OntoNext, ontoVars
<1>. QED  BY <1>1, <1>2, PTL DEF OntoSpec

(***************************************************************************)
(* onto makes a namespace or refuses: no merge leaves anything else, and a *)
(* counter's sum stays in its width.                                       *)
(***************************************************************************)
THEOREM OntoTypeCorrect == OntoSpec => []OntoTypeOK
<1>1. OntoInv => OntoTypeOK
  BY OntoFollowsRule, AppliedType DEF OntoInv, OntoTypeOK
<1>. QED  BY <1>1, OntoInvHolds, PTL

(***************************************************************************)
(* Whatever a transaction read and made of it, and whatever the working    *)
(* set became, Txn.onto makes what the commit rule says.                   *)
(***************************************************************************)
THEOREM CommitFollowsRule == OntoSpec => []OntoIsApplied
<1>1. OntoInv => OntoIsApplied
  BY OntoFollowsRule DEF OntoInv, OntoIsApplied
<1>. QED  BY <1>1, OntoInvHolds, PTL

(***************************************************************************)
(* Txn.rebase, where it takes or refuses a transaction, does what the      *)
(* merge it replaces does (DESIGN D22), for every path order.              *)
(***************************************************************************)
THEOREM RebaseMakesTheMerge == OntoSpec => []RebaseIsMerge
<1>1. OntoInv => RebaseIsMerge
  BY MergedIsApplied, RebaseIsApplied DEF OntoInv, RebaseIsMerge
<1>. QED  BY <1>1, OntoInvHolds, PTL

(***************************************************************************)
(* Past Txn.writeWrite no merge decides between two writes of an item: an  *)
(* item both sides changed is a counter the transaction moved.             *)
(***************************************************************************)
THEOREM ItemRuleDecidesFirst == OntoSpec => []MergeNeverDecides
<1>1. OntoInv => MergeNeverDecides
  <2>1. SUFFICES ASSUME OntoInv, ~WriteWrite(snapshot, mine, current), NEW p \in Paths,
                        InPlace(snapshot[p], mine[p]), InPlace(snapshot[p], current[p]),
                        NEW i \in ChangedItems(snapshot[p], mine[p]) \cap ChangedItems(snapshot[p], current[p])
                 PROVE  /\ snapshot[p].model = "kv"
                        /\ IsCounter(snapshot[p].items[i]) /\ IsCounter(mine[p].items[i])
    BY DEF MergeNeverDecides
  <2>2. snapshot[p] \in Objects /\ mine[p] \in Objects /\ current[p] \in Objects
    BY <2>1 DEF OntoInv, Namespaces, InPlace
  <2>3. snapshot[p] # mine[p] /\ snapshot[p] # current[p]
    BY <2>1 DEF ChangedItems
  <2>4. ~WritesMeet(snapshot[p], mine[p], current[p])
    BY <2>1, <2>3 DEF WriteWrite, ChangedPaths
  <2>. QED  BY <2>1, <2>2, <2>4, BothChanged
<1>. QED  BY <1>1, OntoInvHolds, PTL

=============================================================================
