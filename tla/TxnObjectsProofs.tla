-------------------------- MODULE TxnObjectsProofs ---------------------------
(***************************************************************************)
(* A transaction's handles and editors keep TxnView's promise for all      *)
(* names, keys, values and objects it begins on: every step of TxnObjects  *)
(* is a step of one plain map of objects, or leaves the map as it was.     *)
(***************************************************************************)
EXTENDS TxnObjects, TLAPS

RowMaps == UNION {[K -> Vals] : K \in SUBSET Keys}
PutMaps == UNION {[K -> Vals \cup {Delete}] : K \in SUBSET Keys}
Editors == [on : Objects, put : PutMaps]
Handles == [name : Names, kind : Kinds, t : Objects, ed : {NoEditor} \cup Editors, gone : BOOLEAN]

\* A handle's object is of its kind, and its editor began on that object.
Sound == {h \in Handles : h.t.kind = h.kind /\ (h.ed # NoEditor => h.ed.on = h.t)}

\* A name objs holds a handle for is that handle's.
Pointed ==
    \A n \in Names :
       \/ objs[n] \in {Untouched, Dropped}
       \/ objs[n] \in DOMAIN handles /\ handles[objs[n]].name = n

\* The inductive invariant.
IInv ==
    /\ use \in Uses /\ closed \in BOOLEAN /\ scan \in RowMaps
    /\ handles \in Seq(Sound)
    /\ objs \in [Names -> Int] /\ Pointed
    /\ OneLiveHandle

-----------------------------------------------------------------------------
(* Rows and objects.                                                       *)

\* What a map of rows, or of pending writes, is.
LEMMA RowMap ==
  ASSUME NEW S, NEW r
  PROVE  r \in UNION {[K -> S] : K \in SUBSET Keys} <=>
            DOMAIN r \subseteq Keys /\ r = [k \in DOMAIN r |-> r[k]] /\ \A k \in DOMAIN r : r[k] \in S
<1>1. ASSUME r \in UNION {[K -> S] : K \in SUBSET Keys}
      PROVE  DOMAIN r \subseteq Keys /\ r = [k \in DOMAIN r |-> r[k]] /\ \A k \in DOMAIN r : r[k] \in S
  BY Zenon, <1>1
<1>2. ASSUME DOMAIN r \subseteq Keys, r = [k \in DOMAIN r |-> r[k]], \A k \in DOMAIN r : r[k] \in S
      PROVE  r \in UNION {[K -> S] : K \in SUBSET Keys}
  <2>1. r \in [DOMAIN r -> S]
    BY Zenon, <1>2
  <2>. QED  BY Zenon, <1>2, <2>1
<1>. QED  BY Zenon, <1>1, <1>2

\* The rows that pending writes make of rows.
Left(rows, put) == {k \in DOMAIN rows \cup DOMAIN put : k \in DOMAIN put => put[k] # Delete}
Taken(rows, put) == [k \in Left(rows, put) |-> IF k \in DOMAIN put THEN put[k] ELSE rows[k]]

\* Pending writes make rows of rows.
LEMMA TakenRows ==
  ASSUME NEW rows \in RowMaps, NEW put \in PutMaps
  PROVE  Taken(rows, put) \in RowMaps
<1>1. /\ DOMAIN rows \subseteq Keys /\ DOMAIN put \subseteq Keys
      /\ \A k \in DOMAIN rows : rows[k] \in Vals
      /\ \A k \in DOMAIN put : put[k] \in Vals \cup {Delete}
  BY Zenon, RowMap DEF RowMaps, PutMaps
<1>2. Left(rows, put) \subseteq Keys
  BY Zenon, <1>1 DEF Left
<1>3. \A k \in Left(rows, put) : (IF k \in DOMAIN put THEN put[k] ELSE rows[k]) \in Vals
  BY Zenon, <1>1 DEF Left
<1>4. Taken(rows, put) \in [Left(rows, put) -> Vals]
  BY Zenon, <1>3 DEF Taken
<1>. QED  BY Zenon, <1>2, <1>4 DEF RowMaps

\* No rows, and no pending writes.
LEMMA NoneAtAll ==
  NoRows \in PutMaps /\ NoRows \in RowMaps /\ DOMAIN NoRows = {}
<1>1. {} \in SUBSET Keys /\ DOMAIN NoRows = {} /\ \A S : NoRows \in [{} -> S]
  BY Zenon DEF NoRows
<1>. QED  BY Zenon, <1>1 DEF PutMaps, RowMaps

\* No pending writes leave the rows as they are.
LEMMA TakenNone ==
  ASSUME NEW rows \in RowMaps
  PROVE  Taken(rows, NoRows) = rows
<1>1. DOMAIN NoRows = {}
  BY Zenon, NoneAtAll
<1>3. rows = [k \in DOMAIN rows |-> rows[k]]
  BY RowMap DEF RowMaps
<1>4. Left(rows, NoRows) = DOMAIN rows
  BY Zenon, <1>1 DEF Left
<1>5. Taken(rows, NoRows) = [k \in DOMAIN rows |-> rows[k]]
  BY Zenon, <1>1, <1>4 DEF Taken
<1>. QED  BY Zenon, <1>3, <1>5

\* A write put last is in the rows.
LEMMA TakenPut ==
  ASSUME NEW rows \in RowMaps, NEW put \in PutMaps, NEW k \in Keys, NEW v \in Vals, v # Delete
  PROVE  Taken(rows, Put(put, k, v)) = Put(Taken(rows, put), k, v)
<1>1. DOMAIN Put(put, k, v) = DOMAIN put \cup {k}
  BY Zenon DEF Put
<1>2. \A x \in DOMAIN put \cup {k} : Put(put, k, v)[x] = IF x = k THEN v ELSE put[x]
  BY Zenon DEF Put
<1>3. DOMAIN Taken(rows, put) = Left(rows, put)
  BY Zenon DEF Taken
<1>4. \A x \in Left(rows, put) : Taken(rows, put)[x] = IF x \in DOMAIN put THEN put[x] ELSE rows[x]
  BY Zenon DEF Taken
<1>5. Left(rows, Put(put, k, v)) = Left(rows, put) \cup {k}
  BY Zenon, <1>1, <1>2 DEF Left
<1>6. ASSUME NEW x \in Left(rows, put) \cup {k}
      PROVE  (IF x \in DOMAIN Put(put, k, v) THEN Put(put, k, v)[x] ELSE rows[x])
               = IF x = k THEN v ELSE Taken(rows, put)[x]
  BY Zenon, <1>1, <1>2, <1>4
<1>. QED  BY Zenon, <1>3, <1>5, <1>6 DEF Taken, Put

\* A key whose removal is put last is not in the rows.
LEMMA TakenDelete ==
  ASSUME NEW rows \in RowMaps, NEW put \in PutMaps, NEW k \in Keys
  PROVE  Taken(rows, Put(put, k, Delete)) = [x \in DOMAIN Taken(rows, put) \ {k} |-> Taken(rows, put)[x]]
<1>1. DOMAIN Put(put, k, Delete) = DOMAIN put \cup {k}
  BY Zenon DEF Put
<1>2. \A x \in DOMAIN put \cup {k} : Put(put, k, Delete)[x] = IF x = k THEN Delete ELSE put[x]
  BY Zenon DEF Put
<1>3. DOMAIN Taken(rows, put) = Left(rows, put)
  BY Zenon DEF Taken
<1>4. \A x \in Left(rows, put) : Taken(rows, put)[x] = IF x \in DOMAIN put THEN put[x] ELSE rows[x]
  BY Zenon DEF Taken
<1>5. Left(rows, Put(put, k, Delete)) = Left(rows, put) \ {k}
  BY Zenon, <1>1, <1>2 DEF Left
<1>6. ASSUME NEW x \in Left(rows, put) \ {k}
      PROVE  (IF x \in DOMAIN Put(put, k, Delete) THEN Put(put, k, Delete)[x] ELSE rows[x])
               = Taken(rows, put)[x]
  BY Zenon, <1>1, <1>2, <1>4
<1>. QED  BY Zenon, <1>3, <1>5, <1>6 DEF Taken

\* Putting a write or a removal in the pending ones.
LEMMA PutPending ==
  ASSUME NEW put \in PutMaps, NEW k \in Keys, NEW v \in Vals \cup {Delete}
  PROVE  Put(put, k, v) \in PutMaps
<1>1. DOMAIN put \subseteq Keys /\ \A x \in DOMAIN put : put[x] \in Vals \cup {Delete}
  BY Zenon, RowMap DEF PutMaps
<1>2. Put(put, k, v) \in [DOMAIN put \cup {k} -> Vals \cup {Delete}]
  BY Zenon, <1>1 DEF Put
<1>. QED  BY Zenon, <1>1, <1>2 DEF PutMaps

\* What an object is.
LEMMA ObjectParts ==
  ASSUME NEW o \in Objects
  PROVE  o.kind \in Kinds /\ o.schema \in Schemas /\ o.rows \in RowMaps /\ o # NoObject
<1>1. o.kind \in Kinds /\ o.schema \in Schemas /\ o.rows \in RowMaps
  BY Zenon DEF Objects, RowMaps
<1>2. NoObject.kind = "none" /\ "none" \notin Kinds
  BY Zenon DEF NoObject, Kinds
<1>. QED  BY Zenon, <1>1, <1>2

\* An object with other rows.
LEMMA ObjectRows ==
  ASSUME NEW o \in Objects, NEW r \in RowMaps
  PROVE  /\ [o EXCEPT !.rows = r] \in Objects
         /\ [o EXCEPT !.rows = r].kind = o.kind /\ [o EXCEPT !.rows = r].schema = o.schema
         /\ [o EXCEPT !.rows = r].rows = r
BY Zenon DEF Objects, RowMaps

\* An object with another schema.
LEMMA ObjectSchema ==
  ASSUME NEW o \in Objects, NEW s \in Schemas
  PROVE  [o EXCEPT !.schema = s] \in Objects /\ [o EXCEPT !.schema = s].kind = o.kind
BY Zenon DEF Objects

\* An object with its own rows is itself.
LEMMA ObjectSame ==
  ASSUME NEW o \in Objects
  PROVE  [o EXCEPT !.rows = o.rows] = o
BY Zenon DEF Objects

\* The same change of rows twice is the last one.
LEMMA ObjectAgain ==
  ASSUME NEW o \in Objects, NEW r \in RowMaps, NEW q
  PROVE  [[o EXCEPT !.rows = r] EXCEPT !.rows = q] = [o EXCEPT !.rows = q]
BY Zenon DEF Objects, RowMaps

-----------------------------------------------------------------------------
(* Handles and their editors.                                              *)

\* The object a handle stands for: the one last flushed with the writes since.
Object(h) == Edited(editor(h))

\* What a handle is.
LEMMA HandleParts ==
  ASSUME NEW h \in Sound
  PROVE  /\ h \in Handles /\ h.name \in Names /\ h.kind \in Kinds /\ h.t \in Objects /\ h.gone \in BOOLEAN
         /\ h.ed \in {NoEditor} \cup Editors /\ h.t.kind = h.kind /\ (h.ed # NoEditor => h.ed.on = h.t)
BY Zenon DEF Sound, Handles

\* An editor is told from none by the object it began on.
LEMMA EditorParts ==
  ASSUME NEW e \in Editors
  PROVE  e.on \in Objects /\ e.put \in PutMaps /\ e # NoEditor
<1>1. e.on \in Objects /\ e.put \in PutMaps
  BY Zenon DEF Editors
<1>2. NoEditor.on = NoObject
  BY Zenon DEF NoEditor
<1>. QED  BY Zenon, <1>1, <1>2, ObjectParts

\* editor begins on the handle's object, or goes on.
LEMMA EditorOf ==
  ASSUME NEW h \in Sound
  PROVE  /\ editor(h) \in Editors /\ editor(h).on = h.t /\ editor(h).put \in PutMaps
         /\ editor(h) # NoEditor
         /\ h.ed = NoEditor => editor(h).put = NoRows
         /\ h.ed # NoEditor => editor(h) = h.ed
<1>1. h.t \in Objects /\ h.ed \in {NoEditor} \cup Editors /\ (h.ed # NoEditor => h.ed.on = h.t)
  BY Zenon, HandleParts
<1>2. NoRows \in PutMaps
  BY Zenon, NoneAtAll
<1>3. CASE h.ed = NoEditor
  <2>1. editor(h) = [on |-> h.t, put |-> NoRows]
    BY Zenon, <1>3 DEF editor
  <2>2. editor(h) \in Editors /\ editor(h).on = h.t /\ editor(h).put = NoRows
    BY <1>1, <1>2, <2>1 DEF Editors
  <2>. QED  BY Zenon, <1>2, <1>3, <2>2, EditorParts
<1>4. CASE h.ed # NoEditor
  <2>1. editor(h) = h.ed /\ h.ed \in Editors
    BY Zenon, <1>1, <1>4 DEF editor
  <2>. QED  BY Zenon, <1>1, <1>4, <2>1, EditorParts
<1>. QED  BY Zenon, <1>3, <1>4

\* What the handle stands for is its object with the pending writes taken.
LEMMA ObjectOf ==
  ASSUME NEW h \in Sound
  PROVE  /\ Object(h) = [h.t EXCEPT !.rows = Taken(h.t.rows, editor(h).put)]
         /\ Object(h) \in Objects /\ Object(h).kind = h.kind /\ Object(h).schema = h.t.schema
         /\ Object(h).rows = Taken(h.t.rows, editor(h).put)
         /\ h.ed = NoEditor => Object(h) = h.t
<1>1. h.t \in Objects /\ h.t.kind = h.kind /\ h.t.rows \in RowMaps /\ h.t.schema \in Schemas
  BY Zenon, HandleParts, ObjectParts
<1>2. Object(h) = [h.t EXCEPT !.rows = Taken(h.t.rows, editor(h).put)]
  BY Zenon, EditorOf DEF Object, Edited, Taken, Left
<1>3. Taken(h.t.rows, editor(h).put) \in RowMaps
  BY Zenon, <1>1, EditorOf, TakenRows
<1>4. ASSUME h.ed = NoEditor  PROVE  Object(h) = h.t
  <2>1. Taken(h.t.rows, editor(h).put) = h.t.rows
    BY Zenon, <1>1, <1>4, EditorOf, TakenNone
  <2>2. [h.t EXCEPT !.rows = h.t.rows] = h.t
    BY Zenon, <1>1, ObjectSame
  <2>. QED  BY Zenon, <1>2, <2>1, <2>2
<1>. QED  BY <1>1, <1>2, <1>3, <1>4, ObjectRows

\* flush keeps what the handle stands for, and makes it the handle's object.
LEMMA FlushKeeps ==
  ASSUME NEW h \in Sound
  PROVE  /\ flush(h) \in Sound /\ flush(h).t = Object(h) /\ Object(flush(h)) = Object(h)
         /\ flush(h).name = h.name /\ flush(h).kind = h.kind /\ flush(h).gone = h.gone
         /\ flush(h).ed = NoEditor
<1>1. CASE h.ed = NoEditor
  <2>1. flush(h) = h
    BY Zenon, <1>1 DEF flush
  <2>. QED  BY Zenon, <1>1, <2>1, ObjectOf
<1>2. CASE h.ed # NoEditor
  <2>1. Object(h) = Edited(h.ed) /\ Object(h) \in Objects /\ Object(h).kind = h.kind
    BY Zenon, <1>2, EditorOf, ObjectOf DEF Object
  <2>2. flush(h) = [h EXCEPT !.t = Object(h), !.ed = NoEditor]
    BY Zenon, <1>2, <2>1 DEF flush
  <2>3. /\ flush(h) \in Sound /\ flush(h).t = Object(h) /\ flush(h).ed = NoEditor
        /\ flush(h).name = h.name /\ flush(h).kind = h.kind /\ flush(h).gone = h.gone
    <3>1. h \in Handles
      BY Zenon, HandleParts
    <3>2. /\ flush(h) \in Handles /\ flush(h).t = Object(h) /\ flush(h).ed = NoEditor
          /\ flush(h).name = h.name /\ flush(h).kind = h.kind /\ flush(h).gone = h.gone
      BY Zenon, <2>1, <2>2, <3>1 DEF Handles
    <3>. QED  BY Zenon, <2>1, <3>2 DEF Sound
  <2>. QED  BY Zenon, <2>3, ObjectOf
<1>. QED  BY Zenon, <1>1, <1>2

\* A handle with an editor begun on its object.
LEMMA Editing ==
  ASSUME NEW h \in Sound, NEW e \in Editors, e.on = h.t
  PROVE  LET g == [h EXCEPT !.ed = e]
         IN  /\ g \in Sound /\ g.t = h.t /\ editor(g) = e
             /\ g.name = h.name /\ g.kind = h.kind /\ g.gone = h.gone
<1> DEFINE g == [h EXCEPT !.ed = e]
<1>1. h \in Handles /\ h.t.kind = h.kind
  BY Zenon, HandleParts
<1>2. g \in Handles /\ g.t = h.t /\ g.ed = e /\ g.name = h.name /\ g.kind = h.kind /\ g.gone = h.gone
  BY Zenon, <1>1 DEF Handles
<1> HIDE DEF g
<1>3. g \in Sound
  BY Zenon, <1>1, <1>2 DEF Sound
<1>4. editor(g) = e
  BY Zenon, <1>2, EditorParts DEF editor
<1>. QED  BY Zenon, <1>2, <1>3, <1>4 DEF g

\* A write the editor takes: the handle stands for the object with it.
LEMMA WriteTaken ==
  ASSUME NEW h \in Sound, NEW k \in Keys, NEW v \in Vals \cup {Delete}
  PROVE  LET g == [h EXCEPT !.ed = [editor(h) EXCEPT !.put = Put(@, k, v)]]
         IN  /\ g \in Sound /\ g.name = h.name /\ g.kind = h.kind /\ g.gone = h.gone
             /\ v # Delete => Object(g) = [Object(h) EXCEPT !.rows = Put(@, k, v)]
             /\ v = Delete => Object(g) = [Object(h) EXCEPT !.rows = [x \in DOMAIN @ \ {k} |-> @[x]]]
<1> DEFINE p == Put(editor(h).put, k, v)
           e == [editor(h) EXCEPT !.put = Put(@, k, v)]
           g == [h EXCEPT !.ed = e]
           old == Taken(h.t.rows, editor(h).put)
<1>1. p \in PutMaps
  BY Zenon, EditorOf, PutPending
<1>2. e \in Editors /\ e.on = h.t /\ e.put = p
  <2>1. editor(h) \in Editors /\ editor(h).on = h.t
    BY Zenon, EditorOf
  <2>2. e = [editor(h) EXCEPT !.put = p]
    BY Zenon
  <2> HIDE DEF p, e
  <2>. QED  BY Zenon, <1>1, <2>1, <2>2 DEF Editors
<1> HIDE DEF p, e
<1>3. /\ g \in Sound /\ g.t = h.t /\ editor(g) = e
      /\ g.name = h.name /\ g.kind = h.kind /\ g.gone = h.gone
  BY Zenon, <1>2, Editing
<1>4. Object(g) = [h.t EXCEPT !.rows = Taken(h.t.rows, p)]
  BY Zenon, <1>2, <1>3, ObjectOf
<1>5. /\ h.t \in Objects /\ old \in RowMaps
      /\ Object(h) = [h.t EXCEPT !.rows = old] /\ Object(h).rows = old
  BY Zenon, HandleParts, ObjectParts, EditorOf, TakenRows, ObjectOf
<1>6. \A q : [Object(h) EXCEPT !.rows = q] = [h.t EXCEPT !.rows = q]
  BY Zenon, <1>5, ObjectAgain
<1>7. ASSUME v # Delete  PROVE  Object(g) = [Object(h) EXCEPT !.rows = Put(@, k, v)]
  <2>1. Taken(h.t.rows, p) = Put(old, k, v)
    <3>1. h.t.rows \in RowMaps /\ editor(h).put \in PutMaps /\ v \in Vals
      BY Zenon, <1>5, <1>7, ObjectParts, EditorOf
    <3>. QED  BY Zenon, <1>7, <3>1, TakenPut DEF p
  <2>2. [Object(h) EXCEPT !.rows = Put(old, k, v)] = [h.t EXCEPT !.rows = Put(old, k, v)]
    BY Zenon, <1>6
  <2> HIDE DEF g, old
  <2>. QED  BY Zenon, <1>4, <1>5, <2>1, <2>2
<1>8. ASSUME v = Delete  PROVE  Object(g) = [Object(h) EXCEPT !.rows = [x \in DOMAIN @ \ {k} |-> @[x]]]
  <2>1. Taken(h.t.rows, p) = [x \in DOMAIN old \ {k} |-> old[x]]
    <3>1. h.t.rows \in RowMaps /\ editor(h).put \in PutMaps
      BY Zenon, <1>5, ObjectParts, EditorOf
    <3>. QED  BY Zenon, <1>8, <3>1, TakenDelete DEF p
  <2> DEFINE new == [x \in DOMAIN old \ {k} |-> old[x]]
  <2>2. [Object(h) EXCEPT !.rows = new] = [h.t EXCEPT !.rows = new]
    BY Zenon, <1>6
  <2> HIDE DEF g, old
  <2>. QED  BY Zenon, <1>4, <1>5, <2>1, <2>2
<1>. QED  BY Zenon, <1>3, <1>7, <1>8 DEF e, g

\* A write the editor refuses: the handle stands for what it stood for.
LEMMA WriteRefused ==
  ASSUME NEW h \in Sound
  PROVE  LET g == [h EXCEPT !.ed = editor(h)]
         IN  /\ g \in Sound /\ g.name = h.name /\ g.kind = h.kind /\ g.gone = h.gone
             /\ Object(g) = Object(h)
<1>1. editor(h) \in Editors /\ editor(h).on = h.t
  BY Zenon, EditorOf
<1>. QED  BY Zenon, <1>1, Editing DEF Object

\* Alter, of a handle that is flushed: its object has the other schema.
LEMMA AlterTaken ==
  ASSUME NEW h \in Sound, h.ed = NoEditor, NEW schema \in Schemas
  PROVE  LET g == [h EXCEPT !.t.schema = schema]
         IN  /\ g \in Sound /\ g.name = h.name /\ g.kind = h.kind /\ g.gone = h.gone
             /\ Object(g) = [Object(h) EXCEPT !.schema = schema]
<1> DEFINE o == [h.t EXCEPT !.schema = schema]
           g == [h EXCEPT !.t.schema = schema]
<1>1. h \in Handles /\ h.t \in Objects /\ h.t.kind = h.kind
  BY Zenon, HandleParts
<1>2. o \in Objects /\ o.kind = h.kind
  BY Zenon, <1>1, ObjectSchema
<1>3. g = [h EXCEPT !.t = o]
  BY Zenon, <1>1 DEF Handles
<1> HIDE DEF o, g
<1>4. g \in Handles /\ g.t = o /\ g.ed = NoEditor /\ g.name = h.name /\ g.kind = h.kind /\ g.gone = h.gone
  BY Zenon, <1>1, <1>2, <1>3 DEF Handles
<1>5. g \in Sound
  BY Zenon, <1>2, <1>4 DEF Sound
<1>6. Object(h) = h.t /\ Object(g) = o
  BY Zenon, <1>4, <1>5, ObjectOf
<1>. QED  BY Zenon, <1>4, <1>5, <1>6 DEF o, g

-----------------------------------------------------------------------------
(* The transaction's map, and what the calls do to it.                     *)

\* The handles are numbered from 1.
LEMMA Numbered ==
  ASSUME IInv
  PROVE  /\ Len(handles) \in Nat /\ DOMAIN handles = 1..Len(handles)
         /\ \A i \in DOMAIN handles : handles[i] \in Sound
<1>1. handles \in Seq(Sound)
  BY Zenon DEF IInv
<1>. QED  BY <1>1

\* The map by the three things objs may hold for a name.
LEMMA SeenBy ==
    /\ DOMAIN seen = Names
    /\ \A n \in Names : seen[n] =
          IF objs[n] = Untouched THEN use.base[n]
          ELSE IF objs[n] = Dropped THEN NoObject ELSE Object(handles[objs[n]])
BY DEF seen, Object, Base, Untouched, Dropped

\* What the transaction began on is objects.
LEMMA BaseObjects ==
  ASSUME IInv, NEW n \in Names
  PROVE  Base[n] \in Objects \cup {NoObject}
<1>1. use.base \in [Names -> Objects \cup {NoObject}]
  BY Zenon, ObjectsAssumption DEF IInv
<1>. QED  BY Zenon, <1>1 DEF Base

\* A name objs holds a handle for: the handle is its own and takes calls.
LEMMA PointedAt ==
  ASSUME IInv, NEW n \in Names
  PROVE  /\ objs[n] \in Int
         /\ objs[n] \in {Untouched, Dropped} \/ objs[n] > 0
         /\ objs[n] > 0 =>
               /\ objs[n] \in DOMAIN handles /\ handles[objs[n]] \in Sound
               /\ handles[objs[n]].name = n /\ ~handles[objs[n]].gone
<1>1. objs[n] \in Int /\ (objs[n] \in {Untouched, Dropped} \/ (objs[n] \in DOMAIN handles /\ handles[objs[n]].name = n))
  BY Zenon DEF IInv, Pointed
<1>2. Untouched = 0 /\ Dropped = -1
  BY Zenon DEF Untouched, Dropped
<1>3. objs[n] \in DOMAIN handles => objs[n] > 0 /\ handles[objs[n]] \in Sound
  BY <1>1, Numbered
<1>4. objs[n] \in DOMAIN handles /\ handles[objs[n]].name = n => ~handles[objs[n]].gone
  BY Zenon DEF IInv, OneLiveHandle
<1>. QED  BY <1>1, <1>2, <1>3, <1>4

\* What the transaction sees of a name is an object or nothing, as lookup says.
LEMMA SeenIs ==
  ASSUME IInv, NEW n \in Names
  PROVE  /\ seen[n] \in Objects \cup {NoObject}
         /\ lookup(n) = NoObject <=> seen[n] = NoObject
         /\ objs[n] = Untouched => seen[n] = Base[n] /\ lookup(n) = Base[n]
         /\ objs[n] = Dropped => seen[n] = NoObject
         /\ objs[n] > 0 => seen[n] = Object(handles[objs[n]]) /\ seen[n] \in Objects
<1>1. Untouched = 0 /\ Dropped = -1
  BY Zenon DEF Untouched, Dropped
<1>2. CASE objs[n] = Untouched
  BY <1>1, <1>2, SeenBy, BaseObjects DEF lookup, Base
<1>3. CASE objs[n] = Dropped
  BY <1>1, <1>3, SeenBy DEF lookup
<1>4. CASE objs[n] > 0
  <2>1. handles[objs[n]] \in Sound
    BY Zenon, <1>4, PointedAt
  <2>2. handles[objs[n]].t \in Objects /\ Object(handles[objs[n]]) \in Objects
    BY Zenon, <2>1, HandleParts, ObjectOf
  <2>3. handles[objs[n]].t # NoObject /\ Object(handles[objs[n]]) # NoObject
    BY Zenon, <2>2, ObjectParts
  <2>4. lookup(n) = handles[objs[n]].t
    BY <1>1, <1>4, PointedAt DEF lookup
  <2>5. seen[n] = Object(handles[objs[n]])
    BY <1>1, <1>4, SeenBy
  <2>. QED  BY <1>1, <1>4, <2>2, <2>3, <2>4, <2>5
<1>. QED  BY Zenon, <1>2, <1>3, <1>4, PointedAt

\* A handle that takes calls stands for the object of its name.
LEMMA LiveSeen ==
  ASSUME IInv, NEW i \in DOMAIN handles, ~handles[i].gone
  PROVE  /\ handles[i] \in Sound /\ handles[i].name \in Names /\ objs[handles[i].name] = i
         /\ seen[handles[i].name] = Object(handles[i])
<1>1. handles[i] \in Sound /\ i > 0
  BY Numbered
<1>2. handles[i].name \in Names
  BY Zenon, <1>1, HandleParts
<1>3. objs[handles[i].name] = i
  BY Zenon DEF IInv, OneLiveHandle
<1>. QED  BY Zenon, <1>1, <1>2, <1>3, SeenIs

\* The handles as the caller knows them.
LEMMA GivenIs ==
  ASSUME IInv
  PROVE  /\ DOMAIN given = DOMAIN handles /\ Len(given) = Len(handles)
         /\ \A i \in DOMAIN handles :
               /\ given[i].name = handles[i].name /\ given[i].kind = handles[i].kind
               /\ given[i].gone = handles[i].gone
<1>1. Len(handles) \in Nat /\ DOMAIN handles = 1..Len(handles)
  BY Zenon, Numbered
<1>2. /\ DOMAIN given = DOMAIN handles
      /\ \A i \in DOMAIN handles :
            /\ given[i].name = handles[i].name /\ given[i].kind = handles[i].kind
            /\ given[i].gone = handles[i].gone
  BY Zenon DEF given
<1>3. Len(given) = Len(handles)
  BY <1>1, <1>2
<1>. QED  BY Zenon, <1>2, <1>3

\* A change of the map at one name, name by name.
LEMMA SeenNext ==
    /\ seen = [n \in Names |-> seen[n]]
    /\ seen' = [n \in Names |->
          IF objs'[n] = Untouched THEN use'.base[n]
          ELSE IF objs'[n] = Dropped THEN NoObject ELSE Object(handles'[objs'[n]])]
BY DEF seen, Object, Base, Untouched, Dropped

\* A step that leaves the handles and objs leaves the map.
LEMMA NothingChanges ==
  ASSUME IInv, UNCHANGED <<use, objs, handles>>, closed' \in BOOLEAN, scan' \in RowMaps
  PROVE  IInv' /\ seen' = seen /\ given' = given /\ Base' = Base
<1>1. IInv'
  BY Zenon DEF IInv, Pointed, OneLiveHandle
<1>. QED  BY <1>1 DEF seen, given, Base

\* A call that leaves handle i as h, which a live handle takes.
LEMMA HandleChanges ==
  ASSUME IInv, NEW i \in DOMAIN handles, ~handles[i].gone,
         NEW h \in Sound, h.name = handles[i].name, h.kind = handles[i].kind, h.gone = handles[i].gone,
         handles' = [handles EXCEPT ![i] = h],
         UNCHANGED <<use, objs>>, closed' \in BOOLEAN, scan' \in RowMaps
  PROVE  /\ IInv' /\ given' = given /\ Base' = Base
         /\ seen' = [seen EXCEPT ![handles[i].name] = Object(h)]
<1>1. handles' \in Seq(Sound) /\ DOMAIN handles' = DOMAIN handles
  BY DEF IInv
<1>2. \A j \in DOMAIN handles : handles'[j] = IF j = i THEN h ELSE handles[j]
  BY Zenon, <1>1
<1>3. Pointed' /\ OneLiveHandle'
  BY <1>1, <1>2 DEF IInv, Pointed, OneLiveHandle
<1>4. IInv'
  BY Zenon, <1>1, <1>3 DEF IInv
<1>5. given' = given
  <2>1. given' = [j \in DOMAIN handles |-> [name |-> handles'[j].name, kind |-> handles'[j].kind, gone |-> handles'[j].gone]]
    BY Zenon, <1>1 DEF given
  <2>2. \A j \in DOMAIN handles : handles'[j].name = handles[j].name /\ handles'[j].kind = handles[j].kind
                                    /\ handles'[j].gone = handles[j].gone
    BY Zenon, <1>2
  <2>. QED  BY Zenon, <2>1, <2>2 DEF given
<1>6. seen' = [seen EXCEPT ![handles[i].name] = Object(h)]
  <2> DEFINE m == handles[i].name
             Then(n) == IF objs'[n] = Untouched THEN use'.base[n]
                        ELSE IF objs'[n] = Dropped THEN NoObject ELSE Object(handles'[objs'[n]])
  <2>1. m \in Names /\ objs[m] = i /\ i > 0
    BY Numbered, LiveSeen
  <2>2. ASSUME NEW n \in Names, n = m
        PROVE  Then(n) = Object(h)
    BY <1>2, <2>1, <2>2 DEF Untouched, Dropped
  <2>3. ASSUME NEW n \in Names, n # m
        PROVE  Then(n) = seen[n]
    <3>1. objs[n] > 0 => objs[n] \in DOMAIN handles /\ objs[n] # i
      BY Zenon, <2>3, PointedAt
    <3>2. objs[n] > 0 => handles'[objs[n]] = handles[objs[n]]
      BY Zenon, <1>2, <3>1
    <3>. QED  BY Zenon, <3>2, PointedAt, SeenBy
  <2> HIDE DEF Then
  <2>4. seen' = [n \in Names |-> Then(n)]
    BY Zenon, SeenNext DEF Then
  <2>5. \A n \in Names : Then(n) = IF n = m THEN Object(h) ELSE seen[n]
    BY Zenon, <2>2, <2>3
  <2>6. seen = [n \in Names |-> seen[n]]
    BY Zenon, SeenNext
  <2> HIDE DEF m
  <2>7. seen' = [seen EXCEPT ![m] = Object(h)]
    BY Zenon, <2>4, <2>5, <2>6
  <2>. QED  BY Zenon, <2>7 DEF m
<1>. QED  BY Zenon, <1>4, <1>5, <1>6 DEF Base

\* The same of a handle that goes on to stand for its object.
LEMMA HandleKeeps ==
  ASSUME IInv, NEW i \in DOMAIN handles, ~handles[i].gone,
         NEW h \in Sound, h.name = handles[i].name, h.kind = handles[i].kind, h.gone = handles[i].gone,
         Object(h) = Object(handles[i]),
         handles' = [handles EXCEPT ![i] = h],
         UNCHANGED <<use, objs>>, closed' \in BOOLEAN, scan' \in RowMaps
  PROVE  IInv' /\ given' = given /\ Base' = Base /\ seen' = seen
<1>1. /\ IInv' /\ given' = given /\ Base' = Base
      /\ seen' = [seen EXCEPT ![handles[i].name] = Object(h)]
  BY Zenon, HandleChanges
<1>2. seen[handles[i].name] = Object(h) /\ handles[i].name \in Names
  BY Zenon, LiveSeen
<1>3. seen = [n \in Names |-> seen[n]]
  BY Zenon, SeenNext
<1>. QED  BY Zenon, <1>1, <1>2, <1>3

\* A new handle on obj under a name that has none.
LEMMA HandleGiven ==
  ASSUME IInv, NEW n \in Names, NEW obj \in Objects, objs[n] \in {Untouched, Dropped},
         NewHandle(n, obj), UNCHANGED use
  PROVE  /\ IInv' /\ Base' = Base
         /\ given' = Append(given, [name |-> n, kind |-> obj.kind, gone |-> FALSE])
         /\ seen' = [seen EXCEPT ![n] = obj]
<1> DEFINE h == [name |-> n, kind |-> obj.kind, t |-> obj, ed |-> NoEditor, gone |-> FALSE]
           l == Len(handles) + 1
<1>1. handles' = Append(handles, h) /\ objs' = [objs EXCEPT ![n] = l] /\ UNCHANGED <<closed, scan>>
  BY Zenon DEF NewHandle
<1>2. /\ h \in Sound /\ h.name = n /\ h.kind = obj.kind /\ h.gone = FALSE /\ h.ed = NoEditor /\ h.t = obj
      /\ h \in Handles
  BY Zenon, ObjectParts DEF Sound, Handles
<1>3. Object(h) = obj
  BY Zenon, <1>2, ObjectOf
<1> HIDE DEF h
<1>4. Len(handles) \in Nat /\ DOMAIN handles = 1..Len(handles) /\ handles \in Seq(Sound)
  BY Zenon, Numbered DEF IInv
<1>5. /\ handles' \in Seq(Sound) /\ DOMAIN handles' = DOMAIN handles \cup {l} /\ l \notin DOMAIN handles
      /\ handles'[l] = h /\ \A i \in DOMAIN handles : handles'[i] = handles[i]
      /\ DOMAIN handles' = 1..Len(handles) + 1
  BY <1>1, <1>2, <1>4
<1>6. objs' \in [Names -> Int] /\ \A m \in Names : objs'[m] = IF m = n THEN l ELSE objs[m]
  BY <1>1, <1>4 DEF IInv
<1>7. Pointed'
  BY <1>2, <1>5, <1>6 DEF IInv, Pointed
<1>8. OneLiveHandle'
  <2>1. ASSUME NEW i \in DOMAIN handles  PROVE  ~handles'[i].gone <=> objs'[handles'[i].name] = i
    <3>1. handles[i] \in Sound /\ handles[i].name \in Names
      BY Zenon, Numbered, HandleParts
    <3>2. ~handles[i].gone <=> objs[handles[i].name] = i
      BY Zenon DEF IInv, OneLiveHandle
    <3>3. objs[n] # i /\ i # l
      BY <1>4 DEF Untouched, Dropped
    <3>. QED  BY <1>5, <1>6, <3>1, <3>2, <3>3
  <2>2. ~handles'[l].gone <=> objs'[handles'[l].name] = l
    BY Zenon, <1>2, <1>5, <1>6
  <2>. QED  BY Zenon, <1>5, <2>1, <2>2 DEF OneLiveHandle
<1>9. IInv'
  BY Zenon, <1>1, <1>5, <1>6, <1>7, <1>8 DEF IInv
<1>10. given' = Append(given, [name |-> n, kind |-> obj.kind, gone |-> FALSE])
  <2> DEFINE Known(x) == [name |-> x.name, kind |-> x.kind, gone |-> x.gone]
  <2>1. given = [i \in 1..Len(handles) |-> Known(handles[i])]
    BY Zenon, <1>4 DEF given
  <2>2. given' = [i \in 1..Len(handles) + 1 |-> Known(handles'[i])]
    BY Zenon, <1>5 DEF given
  <2>3. Known(h) = [name |-> n, kind |-> obj.kind, gone |-> FALSE]
    BY Zenon, <1>2
  <2> HIDE DEF Known
  <2>4. Append(given, Known(h)) = [i \in 1..Len(handles) + 1 |-> IF i = l THEN Known(h) ELSE Known(handles[i])]
    BY <1>4, <2>1
  <2>5. \A i \in 1..Len(handles) + 1 : Known(handles'[i]) = IF i = l THEN Known(h) ELSE Known(handles[i])
    BY Zenon, <1>4, <1>5
  <2>. QED  BY Zenon, <2>2, <2>3, <2>4, <2>5
<1>11. seen' = [seen EXCEPT ![n] = obj]
  <2> DEFINE Then(m) == IF objs'[m] = Untouched THEN use'.base[m]
                        ELSE IF objs'[m] = Dropped THEN NoObject ELSE Object(handles'[objs'[m]])
  <2>2. Then(n) = obj
    BY <1>3, <1>4, <1>5, <1>6 DEF Untouched, Dropped
  <2>3. ASSUME NEW m \in Names, m # n
        PROVE  Then(m) = seen[m]
    <3>1. objs[m] > 0 => handles'[objs[m]] = handles[objs[m]]
      BY Zenon, <1>5, PointedAt
    <3>2. objs'[m] = objs[m]
      BY Zenon, <1>6, <2>3
    <3>. QED  BY Zenon, <3>1, <3>2, PointedAt, SeenBy
  <2> HIDE DEF Then
  <2>4. seen' = [m \in Names |-> Then(m)]
    BY Zenon, SeenNext DEF Then
  <2>5. \A m \in Names : Then(m) = IF m = n THEN obj ELSE seen[m]
    BY Zenon, <2>2, <2>3
  <2>6. seen = [m \in Names |-> seen[m]]
    BY Zenon, SeenNext
  <2>. QED  BY Zenon, <2>4, <2>5, <2>6
<1>. QED  BY Zenon, <1>9, <1>10, <1>11 DEF Base

\* Drop of a name that is there, and what becomes of its handle.
Taking(n) ==
    /\ handles' = IF objs[n] > 0 THEN [handles EXCEPT ![objs[n]].gone = TRUE] ELSE handles
    /\ objs' = [objs EXCEPT ![n] = Dropped]
Gone(h) == [h EXCEPT !.gone = TRUE]

\* What a caller knows of a handle, and of one that is dropped.
Knowns == [name : Names, kind : Kinds, gone : BOOLEAN]

\* What is known of a handle is its name, its kind and whether it is dropped.
LEMMA KnownSame ==
  ASSUME NEW r \in Knowns, NEW s \in Knowns, r.name = s.name, r.kind = s.kind, r.gone = s.gone
  PROVE  r = s
BY DEF Knowns

\* What is known of a handle that is dropped.
LEMMA KnownGone ==
  ASSUME NEW r \in Knowns
  PROVE  LET g == [r EXCEPT !.gone = TRUE]
         IN  g \in Knowns /\ g.name = r.name /\ g.kind = r.kind /\ g.gone = TRUE
BY Zenon DEF Knowns

\* Drop takes the name out of the map and bars the handle it had.
LEMMA NameDropped ==
  ASSUME IInv, NEW n \in Names, Taking(n), UNCHANGED <<use, closed, scan>>
  PROVE  /\ IInv' /\ Base' = Base
         /\ given' = [i \in DOMAIN given |->
                         IF given[i].name = n THEN [given[i] EXCEPT !.gone = TRUE] ELSE given[i]]
         /\ seen' = [seen EXCEPT ![n] = NoObject]
<1>1. \A h \in Sound : /\ Gone(h) \in Sound /\ Gone(h).name = h.name /\ Gone(h).kind = h.kind
                       /\ Gone(h).gone = TRUE
  BY ZenonT(60) DEF Sound, Handles, Gone
<1>2. Len(handles) \in Nat /\ DOMAIN handles = 1..Len(handles) /\ handles \in Seq(Sound)
      /\ \A i \in DOMAIN handles : handles[i] \in Sound
  BY Zenon, Numbered DEF IInv
<1>3. /\ handles' \in Seq(Sound) /\ DOMAIN handles' = DOMAIN handles
      /\ \A i \in DOMAIN handles : handles'[i] = IF i = objs[n] THEN Gone(handles[i]) ELSE handles[i]
  <2>1. CASE objs[n] > 0
    <3>1. handles' = [handles EXCEPT ![objs[n]] = Gone(handles[objs[n]])]
      BY Zenon, <2>1 DEF Taking, Gone
    <3>2. objs[n] \in DOMAIN handles /\ Gone(handles[objs[n]]) \in Sound
      BY Zenon, <1>1, <1>2, <2>1, PointedAt
    <3>. QED  BY <1>2, <3>1, <3>2
  <2>2. CASE ~(objs[n] > 0)
    <3>1. handles' = handles
      BY Zenon, <2>2 DEF Taking
    <3>. QED  BY <1>2, <2>2, <3>1, PointedAt
  <2>. QED  BY Zenon, <2>1, <2>2
<1>5. objs' \in [Names -> Int] /\ \A m \in Names : objs'[m] = IF m = n THEN Dropped ELSE objs[m]
  BY DEF IInv, Dropped, Taking
<1>6. \A i \in DOMAIN handles : handles'[i].name = handles[i].name /\ handles'[i].kind = handles[i].kind
  BY Zenon, <1>1, <1>2, <1>3
<1>7. Pointed'
  BY <1>3, <1>5, <1>6 DEF IInv, Pointed
<1>8. ASSUME NEW i \in DOMAIN handles
      PROVE  handles'[i].gone = IF handles[i].name = n THEN TRUE ELSE handles[i].gone
  <2>1. handles[i] \in Sound /\ handles[i].gone \in BOOLEAN
    BY Zenon, <1>2, HandleParts
  <2>2. ~handles[i].gone <=> objs[handles[i].name] = i
    BY Zenon DEF IInv, OneLiveHandle
  <2>3. objs[n] = i => handles[i].name = n
    BY <1>2, PointedAt
  <2>4. CASE i = objs[n]
    BY Zenon, <1>1, <1>3, <2>1, <2>3, <2>4
  <2>5. CASE i # objs[n]
    BY Zenon, <1>3, <2>1, <2>2, <2>5
  <2>. QED  BY Zenon, <2>4, <2>5
<1>9. OneLiveHandle'
  <2>1. ASSUME NEW i \in DOMAIN handles  PROVE  ~handles'[i].gone <=> objs'[handles'[i].name] = i
    <3>1. handles[i].name \in Names /\ handles[i].gone \in BOOLEAN
      BY Zenon, <1>2, HandleParts
    <3>2. ~handles[i].gone <=> objs[handles[i].name] = i
      BY Zenon DEF IInv, OneLiveHandle
    <3>3. Dropped # i
      BY <1>2 DEF Dropped
    <3>. QED  BY ZenonT(60), <1>5, <1>6, <1>8, <3>1, <3>2, <3>3
  <2>. QED  BY Zenon, <1>3, <2>1 DEF OneLiveHandle
<1>10. IInv'
  BY Zenon, <1>3, <1>5, <1>7, <1>9 DEF IInv
<1>11. given' = [i \in DOMAIN given |->
                    IF given[i].name = n THEN [given[i] EXCEPT !.gone = TRUE] ELSE given[i]]
  <2> DEFINE Then(i) == IF given[i].name = n THEN [given[i] EXCEPT !.gone = TRUE] ELSE given[i]
  <2>1. DOMAIN given = DOMAIN handles /\ given' = [i \in DOMAIN handles |-> given'[i]]
    BY Zenon, <1>3 DEF given
  <2>2. ASSUME NEW i \in DOMAIN handles
        PROVE  given'[i] = Then(i)
    <3>1. /\ given[i].name = handles[i].name /\ given[i].kind = handles[i].kind
          /\ given[i].gone = handles[i].gone
      BY Zenon, GivenIs
    <3>2. given[i] \in Knowns
      BY Zenon, <1>2, HandleParts DEF given, Knowns
    <3>3. /\ given'[i].name = handles'[i].name /\ given'[i].kind = handles'[i].kind
          /\ given'[i].gone = handles'[i].gone
      BY Zenon, <1>3 DEF given
    <3>4. given'[i] \in Knowns
      <4>1. handles'[i] \in Sound
        BY <1>2, <1>3
      <4>. QED  BY Zenon, <1>3, <4>1, HandleParts DEF given, Knowns
    <3>5. CASE given[i].name = n
      <4> DEFINE g == [given[i] EXCEPT !.gone = TRUE]
      <4>1. g \in Knowns /\ g.name = given[i].name /\ g.kind = given[i].kind /\ g.gone = TRUE
        BY Zenon, <3>2, KnownGone
      <4>2. handles'[i].gone = TRUE
        BY Zenon, <1>8, <3>1, <3>5
      <4> HIDE DEF g
      <4>3. given'[i] = g
        BY ZenonT(60), <1>6, <3>1, <3>3, <3>4, <4>1, <4>2, KnownSame
      <4>. QED  BY Zenon, <3>5, <4>3 DEF g
    <3>6. CASE given[i].name # n
      <4>1. handles'[i].gone = given[i].gone
        BY Zenon, <1>8, <3>1, <3>6
      <4>2. given'[i] = given[i]
        BY ZenonT(60), <1>6, <3>1, <3>2, <3>3, <3>4, <4>1, KnownSame
      <4>. QED  BY Zenon, <3>6, <4>2
    <3>. QED  BY Zenon, <3>5, <3>6
  <2>. QED  BY Zenon, <2>1, <2>2
<1>12. seen' = [seen EXCEPT ![n] = NoObject]
  <2> DEFINE Then(m) == IF objs'[m] = Untouched THEN use'.base[m]
                        ELSE IF objs'[m] = Dropped THEN NoObject ELSE Object(handles'[objs'[m]])
  <2>2. Then(n) = NoObject
    BY <1>5 DEF Untouched, Dropped
  <2>3. ASSUME NEW m \in Names, m # n
        PROVE  Then(m) = seen[m]
    <3>1. objs[m] > 0 => handles'[objs[m]] = handles[objs[m]]
      <4>1. ASSUME objs[m] > 0  PROVE  objs[m] # objs[n] /\ objs[m] \in DOMAIN handles
        BY Zenon, <2>3, <4>1, PointedAt
      <4>. QED  BY Zenon, <1>3, <4>1
    <3>2. objs'[m] = objs[m]
      BY Zenon, <1>5, <2>3
    <3>. QED  BY SMTT(60), <3>1, <3>2, PointedAt, SeenBy
  <2> HIDE DEF Then
  <2>4. seen' = [m \in Names |-> Then(m)]
    BY Zenon, SeenNext DEF Then
  <2>5. \A m \in Names : Then(m) = IF m = n THEN NoObject ELSE seen[m]
    BY Zenon, <2>2, <2>3
  <2>6. seen = [m \in Names |-> seen[m]]
    BY Zenon, SeenNext
  <2>. QED  BY Zenon, <2>4, <2>5, <2>6
<1>. QED  BY Zenon, <1>10, <1>11, <1>12 DEF Base

-----------------------------------------------------------------------------
(* What the calls are refused.                                             *)

\* The refusal that applies before the others is the one returned.
LEMMA FirstIs ==
  ASSUME NEW r, DOMAIN r \subseteq Int, NEW i \in DOMAIN r, r[i][1], \A j \in DOMAIN r : r[j][1] => i <= j
  PROVE  First(r) = r[i][2]
<1> DEFINE on == {j \in DOMAIN r : r[j][1]}
           k == CHOOSE x \in on : \A j \in on : x <= j
<1>1. i \in on /\ (\A j \in on : i <= j) /\ on \subseteq Int
  BY Zenon
<1> HIDE DEF on
<1>2. k \in on /\ (\A j \in on : k <= j)
  BY Zenon, <1>1
<1>3. k = i
  BY <1>1, <1>2
<1> HIDE DEF k
<1>4. First(r) = r[k][2]
  BY Zenon, <1>1 DEF First, on, k
<1>. QED  BY Zenon, <1>3, <1>4

\* A call that nothing refuses.
LEMMA FirstNone ==
  ASSUME NEW r, \A i \in DOMAIN r : ~r[i][1]
  PROVE  First(r) = "ok"
BY Zenon DEF First

\* One refusal.
LEMMA First1 ==
  ASSUME NEW p \in BOOLEAN, NEW a
  PROVE  First(<<<<p, a>>>>) = IF p THEN a ELSE "ok"
<1> DEFINE r == <<<<p, a>>>>
<1>1. DOMAIN r = 1..1 /\ DOMAIN r \subseteq Int
  OBVIOUS
<1>2. r[1] = <<p, a>>
  BY Zenon
<1>3. \A x \in BOOLEAN : \A y : <<x, y>>[1] = x /\ <<x, y>>[2] = y
  BY Zenon
<1> HIDE DEF r
<1>4. /\ (r[1][1] <=> p) /\ r[1][2] = a
  BY <1>2, <1>3
<1>5. CASE p
  <2>1. 1 \in DOMAIN r /\ r[1][1] /\ \A j \in DOMAIN r : r[j][1] => 1 <= j
    BY <1>1, <1>4, <1>5
  <2>2. First(r) = a
    BY Zenon, <1>1, <1>4, <2>1, FirstIs
  <2>. QED  BY Zenon, <1>5, <2>2 DEF r
<1>6. CASE ~p
  <2>1. \A j \in DOMAIN r : ~r[j][1]
    BY <1>1, <1>4, <1>6
  <2>2. First(r) = "ok"
    BY Zenon, <2>1, FirstNone
  <2>. QED  BY Zenon, <1>6, <2>2 DEF r
<1>. QED  BY Zenon, <1>5, <1>6

\* Two refusals.
LEMMA First2 ==
  ASSUME NEW p \in BOOLEAN, NEW q \in BOOLEAN, NEW a, NEW b
  PROVE  First(<<<<p, a>>, <<q, b>>>>) = IF p THEN a ELSE IF q THEN b ELSE "ok"
<1> DEFINE r == <<<<p, a>>, <<q, b>>>>
<1>1. DOMAIN r = 1..2 /\ DOMAIN r \subseteq Int
  OBVIOUS
<1>2. r[1] = <<p, a>> /\ r[2] = <<q, b>>
  BY Zenon
<1>3. \A x \in BOOLEAN : \A y : <<x, y>>[1] = x /\ <<x, y>>[2] = y
  BY Zenon
<1> HIDE DEF r
<1>4. /\ (r[1][1] <=> p) /\ r[1][2] = a
      /\ (r[2][1] <=> q) /\ r[2][2] = b
  BY <1>2, <1>3
<1>5. CASE p
  <2>1. 1 \in DOMAIN r /\ r[1][1] /\ \A j \in DOMAIN r : r[j][1] => 1 <= j
    BY <1>1, <1>4, <1>5
  <2>2. First(r) = a
    BY Zenon, <1>1, <1>4, <2>1, FirstIs
  <2>. QED  BY Zenon, <1>5, <2>2 DEF r
<1>6. CASE ~p /\ q
  <2>1. 2 \in DOMAIN r /\ r[2][1] /\ \A j \in DOMAIN r : r[j][1] => 2 <= j
    BY <1>1, <1>4, <1>6
  <2>2. First(r) = b
    BY Zenon, <1>1, <1>4, <2>1, FirstIs
  <2>. QED  BY Zenon, <1>6, <2>2 DEF r
<1>7. CASE ~p /\ ~q
  <2>1. \A j \in DOMAIN r : ~r[j][1]
    BY <1>1, <1>4, <1>7
  <2>2. First(r) = "ok"
    BY Zenon, <2>1, FirstNone
  <2>. QED  BY Zenon, <1>7, <2>2 DEF r
<1>. QED  BY Zenon, <1>5, <1>6, <1>7

\* Three refusals.
LEMMA First3 ==
  ASSUME NEW p \in BOOLEAN, NEW q \in BOOLEAN, NEW s \in BOOLEAN, NEW a, NEW b, NEW c
  PROVE  First(<<<<p, a>>, <<q, b>>, <<s, c>>>>) = IF p THEN a ELSE IF q THEN b ELSE IF s THEN c ELSE "ok"
<1> DEFINE r == <<<<p, a>>, <<q, b>>, <<s, c>>>>
<1>1. DOMAIN r = 1..3 /\ DOMAIN r \subseteq Int
  OBVIOUS
<1>2. r[1] = <<p, a>> /\ r[2] = <<q, b>> /\ r[3] = <<s, c>>
  BY Zenon
<1>3. \A x \in BOOLEAN : \A y : <<x, y>>[1] = x /\ <<x, y>>[2] = y
  BY Zenon
<1> HIDE DEF r
<1>4. /\ (r[1][1] <=> p) /\ r[1][2] = a
      /\ (r[2][1] <=> q) /\ r[2][2] = b
      /\ (r[3][1] <=> s) /\ r[3][2] = c
  BY <1>2, <1>3
<1>5. CASE p
  <2>1. 1 \in DOMAIN r /\ r[1][1] /\ \A j \in DOMAIN r : r[j][1] => 1 <= j
    BY <1>1, <1>4, <1>5
  <2>2. First(r) = a
    BY Zenon, <1>1, <1>4, <2>1, FirstIs
  <2>. QED  BY Zenon, <1>5, <2>2 DEF r
<1>6. CASE ~p /\ q
  <2>1. 2 \in DOMAIN r /\ r[2][1] /\ \A j \in DOMAIN r : r[j][1] => 2 <= j
    BY <1>1, <1>4, <1>6
  <2>2. First(r) = b
    BY Zenon, <1>1, <1>4, <2>1, FirstIs
  <2>. QED  BY Zenon, <1>6, <2>2 DEF r
<1>7. CASE ~p /\ ~q /\ s
  <2>1. 3 \in DOMAIN r /\ r[3][1] /\ \A j \in DOMAIN r : r[j][1] => 3 <= j
    BY <1>1, <1>4, <1>7
  <2>2. First(r) = c
    BY Zenon, <1>1, <1>4, <2>1, FirstIs
  <2>. QED  BY Zenon, <1>7, <2>2 DEF r
<1>8. CASE ~p /\ ~q /\ ~s
  <2>1. \A j \in DOMAIN r : ~r[j][1]
    BY <1>1, <1>4, <1>8
  <2>2. First(r) = "ok"
    BY Zenon, <2>1, FirstNone
  <2>. QED  BY Zenon, <1>8, <2>2 DEF r
<1>. QED  BY Zenon, <1>5, <1>6, <1>7, <1>8

\* Four refusals.
LEMMA First4 ==
  ASSUME NEW p \in BOOLEAN, NEW q \in BOOLEAN, NEW s \in BOOLEAN, NEW u \in BOOLEAN, NEW a, NEW b, NEW c, NEW d
  PROVE  First(<<<<p, a>>, <<q, b>>, <<s, c>>, <<u, d>>>>) = IF p THEN a ELSE IF q THEN b ELSE IF s THEN c ELSE IF u THEN d ELSE "ok"
<1> DEFINE r == <<<<p, a>>, <<q, b>>, <<s, c>>, <<u, d>>>>
<1>1. DOMAIN r = 1..4 /\ DOMAIN r \subseteq Int
  OBVIOUS
<1>2. r[1] = <<p, a>> /\ r[2] = <<q, b>> /\ r[3] = <<s, c>> /\ r[4] = <<u, d>>
  BY Zenon
<1>3. \A x \in BOOLEAN : \A y : <<x, y>>[1] = x /\ <<x, y>>[2] = y
  BY Zenon
<1> HIDE DEF r
<1>4. /\ (r[1][1] <=> p) /\ r[1][2] = a
      /\ (r[2][1] <=> q) /\ r[2][2] = b
      /\ (r[3][1] <=> s) /\ r[3][2] = c
      /\ (r[4][1] <=> u) /\ r[4][2] = d
  BY <1>2, <1>3
<1>5. CASE p
  <2>1. 1 \in DOMAIN r /\ r[1][1] /\ \A j \in DOMAIN r : r[j][1] => 1 <= j
    BY <1>1, <1>4, <1>5
  <2>2. First(r) = a
    BY Zenon, <1>1, <1>4, <2>1, FirstIs
  <2>. QED  BY Zenon, <1>5, <2>2 DEF r
<1>6. CASE ~p /\ q
  <2>1. 2 \in DOMAIN r /\ r[2][1] /\ \A j \in DOMAIN r : r[j][1] => 2 <= j
    BY <1>1, <1>4, <1>6
  <2>2. First(r) = b
    BY Zenon, <1>1, <1>4, <2>1, FirstIs
  <2>. QED  BY Zenon, <1>6, <2>2 DEF r
<1>7. CASE ~p /\ ~q /\ s
  <2>1. 3 \in DOMAIN r /\ r[3][1] /\ \A j \in DOMAIN r : r[j][1] => 3 <= j
    BY <1>1, <1>4, <1>7
  <2>2. First(r) = c
    BY Zenon, <1>1, <1>4, <2>1, FirstIs
  <2>. QED  BY Zenon, <1>7, <2>2 DEF r
<1>8. CASE ~p /\ ~q /\ ~s /\ u
  <2>1. 4 \in DOMAIN r /\ r[4][1] /\ \A j \in DOMAIN r : r[j][1] => 4 <= j
    BY <1>1, <1>4, <1>8
  <2>2. First(r) = d
    BY Zenon, <1>1, <1>4, <2>1, FirstIs
  <2>. QED  BY Zenon, <1>8, <2>2 DEF r
<1>9. CASE ~p /\ ~q /\ ~s /\ ~u
  <2>1. \A j \in DOMAIN r : ~r[j][1]
    BY <1>1, <1>4, <1>9
  <2>2. First(r) = "ok"
    BY Zenon, <2>1, FirstNone
  <2>. QED  BY Zenon, <1>9, <2>2 DEF r
<1>. QED  BY Zenon, <1>5, <1>6, <1>7, <1>8, <1>9

Refusals == {"denied", "invalid", "exists", "notfound", "wrongkind", "internal"}

\* The check of a handle.
LEMMA CheckIs ==
  ASSUME IInv, NEW i \in DOMAIN handles
  PROVE  check(i) = IF closed THEN "closed" ELSE IF handles[i].gone THEN "notfound" ELSE "ok"
<1>1. closed \in BOOLEAN /\ handles[i].gone \in BOOLEAN
  BY Zenon, Numbered, HandleParts DEF IInv
<1>. QED  BY <1>1, First2 DEF check

-----------------------------------------------------------------------------
(* The steps of the map that the calls are.                                *)

\* A call that returns a refusal and leaves the map is a refusal of the map.
LEMMA Refusing ==
  ASSUME NEW s, told' = Said(s), (closed /\ s = "closed") \/ (~closed /\ s \in Refusals),
         UNCHANGED <<closed, sent, scan>>, seen' = seen, given' = given, Base' = Base
  PROVE  View!VNext
<1>1. View!Refused
  BY Zenon DEF View!Refused, Refusals, Said, View!Said
<1>. QED  BY Zenon, <1>1 DEF View!VNext, View!VStep

\* A call that returns a refusal and does nothing.
LEMMA ReturnsRefusal ==
  ASSUME IInv, NEW s, Returns(Said(s)), (closed /\ s = "closed") \/ (~closed /\ s \in Refusals), UNCHANGED use
  PROVE  IInv' /\ View!VNext
<1>1. told' = Said(s) /\ UNCHANGED <<use, objs, handles, closed, sent, scan>>
  BY Zenon DEF Returns
<1>2. IInv' /\ seen' = seen /\ given' = given /\ Base' = Base
  BY Zenon, <1>1, NothingChanges DEF IInv
<1>. QED  BY Zenon, <1>1, <1>2, Refusing

\* A call that the handle's check refuses.
LEMMA BarredStep ==
  ASSUME IInv, NEW i \in DOMAIN handles, Barred(i), UNCHANGED use
  PROVE  IInv' /\ View!VNext
<1>1. check(i) # "ok" /\ Returns(Said(check(i)))
  BY Zenon DEF Barred
<1>2. (closed /\ check(i) = "closed") \/ (~closed /\ check(i) \in Refusals)
  BY Zenon, <1>1, CheckIs DEF Refusals
<1>. QED  BY Zenon, <1>1, <1>2, ReturnsRefusal

\* A call on a live handle that leaves it standing for its object and returns
\* a refusal.
LEMMA LeavesRefusal ==
  ASSUME IInv, NEW i \in DOMAIN handles, check(i) = "ok",
         NEW h \in Sound, h.name = handles[i].name, h.kind = handles[i].kind, h.gone = handles[i].gone,
         Object(h) = Object(handles[i]),
         NEW s \in Refusals, Leaves(i, h, Said(s)), UNCHANGED use
  PROVE  IInv' /\ View!VNext
<1>1. ~closed /\ ~handles[i].gone
  BY Zenon, CheckIs
<1>2. /\ handles' = [handles EXCEPT ![i] = h] /\ told' = Said(s)
      /\ UNCHANGED <<use, objs, closed, sent, scan>>
  BY Zenon DEF Leaves
<1>3. closed' \in BOOLEAN /\ scan' \in RowMaps
  BY Zenon, <1>2 DEF IInv
<1>4. IInv' /\ given' = given /\ Base' = Base /\ seen' = seen
  BY Zenon, <1>1, <1>2, <1>3, HandleKeeps
<1>. QED  BY Zenon, <1>1, <1>2, <1>4, Refusing

\* A write that the editor takes is a write, or a removal, of the map.
LEMMA WriteStep ==
  ASSUME IInv, NEW i \in DOMAIN handles, NEW k \in Keys, NEW v \in Vals \cup {Delete},
         NEW refusal \in {"ok"} \cup Refusals, Write(i, k, v, refusal), UNCHANGED use
  PROVE  IInv' /\ View!VNext
<1> DEFINE h == handles[i]
           taken == [h EXCEPT !.ed = [editor(h) EXCEPT !.put = Put(@, k, v)]]
           refused == [h EXCEPT !.ed = editor(h)]
<1>1. CASE Barred(i)
  BY Zenon, <1>1, BarredStep
<1>2. CASE check(i) = "ok" /\ refusal # "ok" /\ Leaves(i, refused, Said(refusal))
  <2>1. h \in Sound
    BY Zenon, Numbered
  <2>2. /\ refused \in Sound /\ refused.name = h.name /\ refused.kind = h.kind /\ refused.gone = h.gone
        /\ Object(refused) = Object(h)
    BY Zenon, <2>1, WriteRefused
  <2> HIDE DEF refused
  <2>. QED  BY Zenon, <1>2, <2>2, LeavesRefusal
<1>3. CASE check(i) = "ok" /\ Leaves(i, taken, Took(v))
  <2>1. h \in Sound /\ ~closed /\ ~h.gone
    BY Zenon, <1>3, Numbered, CheckIs
  <2>2. /\ taken \in Sound /\ taken.name = h.name /\ taken.kind = h.kind /\ taken.gone = h.gone
        /\ v # Delete => Object(taken) = [Object(h) EXCEPT !.rows = Put(@, k, v)]
        /\ v = Delete => Object(taken) = [Object(h) EXCEPT !.rows = [x \in DOMAIN @ \ {k} |-> @[x]]]
    BY ZenonT(60), <2>1, WriteTaken
  <2> HIDE DEF taken
  <2>3. /\ handles' = [handles EXCEPT ![i] = taken] /\ told' = Took(v)
        /\ UNCHANGED <<use, objs, closed, sent, scan>>
    BY Zenon, <1>3 DEF Leaves
  <2>4. closed' \in BOOLEAN /\ scan' \in RowMaps
    BY Zenon, <2>3 DEF IInv
  <2>5. IInv' /\ given' = given /\ Base' = Base /\ seen' = [seen EXCEPT ![h.name] = Object(taken)]
    BY Zenon, <2>1, <2>2, <2>3, <2>4, HandleChanges
  <2>6. seen[h.name] = Object(h) /\ given[i].name = h.name /\ ~given[i].gone /\ i \in DOMAIN given
    BY Zenon, <2>1, LiveSeen, GivenIs
  <2>7. CASE v # Delete
    <3>1. View!Wrote(i, k, v)
      BY ZenonT(60), <2>1, <2>2, <2>3, <2>5, <2>6, <2>7 DEF View!Wrote, View!Live, View!Put, Put, View!Took, Took
    <3>2. v \in Vals
      BY Zenon, <2>7
    <3>. QED  BY Zenon, <2>5, <2>6, <3>1, <3>2 DEF View!VNext, View!VStep
  <2>8. CASE v = Delete
    <3> DEFINE o == seen[given[i].name]
    <3>1. Object(taken) = [o EXCEPT !.rows = [x \in DOMAIN @ \ {k} |-> @[x]]]
      BY Zenon, <2>2, <2>6, <2>8
    <3>2. seen' = [seen EXCEPT ![given[i].name] = Object(taken)]
      BY Zenon, <2>5, <2>6
    <3>3. seen' = [seen EXCEPT ![given[i].name].rows = [x \in DOMAIN @ \ {k} |-> @[x]]]
      BY Zenon, <3>1, <3>2
    <3>4. told' = View!Took("delete") /\ View!Live(i)
      BY Zenon, <2>1, <2>3, <2>6, <2>8 DEF View!Live, View!Took, Took, Delete
    <3>5. View!Removed(i, k)
      BY Zenon, <2>3, <2>5, <3>3, <3>4 DEF View!Removed
    <3>. QED  BY Zenon, <2>5, <2>6, <3>5 DEF View!VNext, View!VStep
  <2>. QED  BY Zenon, <2>7, <2>8
<1>. QED  BY Zenon, <1>1, <1>2, <1>3 DEF Write

\* A flush of a live handle, and what the map makes of it.
LEMMA FlushStep ==
  ASSUME IInv, NEW i \in DOMAIN handles, check(i) = "ok",
         handles' = [handles EXCEPT ![i] = flush(handles[i])],
         UNCHANGED <<use, objs, closed>>, scan' \in RowMaps
  PROVE  /\ IInv' /\ given' = given /\ Base' = Base /\ seen' = seen
         /\ View!Live(i) /\ i \in DOMAIN given
         /\ flush(handles[i]).t = seen[given[i].name] /\ seen[given[i].name].rows \in RowMaps
<1>1. handles[i] \in Sound /\ ~closed /\ ~handles[i].gone
  BY Zenon, Numbered, CheckIs
<1>2. /\ flush(handles[i]) \in Sound /\ flush(handles[i]).t = Object(handles[i])
      /\ Object(flush(handles[i])) = Object(handles[i])
      /\ flush(handles[i]).name = handles[i].name /\ flush(handles[i]).kind = handles[i].kind
      /\ flush(handles[i]).gone = handles[i].gone
  BY Zenon, <1>1, FlushKeeps
<1>3. closed' \in BOOLEAN
  BY Zenon DEF IInv
<1>4. IInv' /\ given' = given /\ Base' = Base /\ seen' = seen
  BY Zenon, <1>1, <1>2, <1>3, HandleKeeps
<1>5. /\ seen[handles[i].name] = Object(handles[i]) /\ given[i].name = handles[i].name
      /\ ~given[i].gone /\ i \in DOMAIN given
  BY Zenon, <1>1, LiveSeen, GivenIs
<1>6. Object(handles[i]).rows \in RowMaps
  BY Zenon, <1>1, ObjectOf, ObjectParts
<1>. QED  BY Zenon, <1>1, <1>2, <1>4, <1>5, <1>6 DEF View!Live

\* A flush that fails.
LEMMA FlushFails ==
  ASSUME IInv, NEW i \in DOMAIN handles, check(i) = "ok", Returns(Said("internal")), UNCHANGED use
  PROVE  IInv' /\ View!VNext
<1>1. ~closed /\ "internal" \in Refusals
  BY Zenon, CheckIs DEF Refusals
<1>. QED  BY Zenon, <1>1, ReturnsRefusal

\* A read by key is a read of the map.
LEMMA ReadStep ==
  ASSUME IInv, NEW i \in DOMAIN handles, NEW k \in Keys, Flushed(i, Got(Row(i, k))), UNCHANGED use
  PROVE  IInv' /\ View!VNext
<1>1. CASE Barred(i)
  BY Zenon, <1>1, BarredStep
<1>2. CASE check(i) = "ok" /\ Leaves(i, flush(handles[i]), Got(Row(i, k)))
  <2>1. /\ handles' = [handles EXCEPT ![i] = flush(handles[i])] /\ told' = Got(Row(i, k))
        /\ UNCHANGED <<use, objs, closed, sent, scan>>
    BY Zenon, <1>2 DEF Leaves
  <2>2. scan' \in RowMaps
    BY Zenon, <2>1 DEF IInv
  <2>3. /\ IInv' /\ given' = given /\ Base' = Base /\ seen' = seen
        /\ View!Live(i) /\ i \in DOMAIN given /\ flush(handles[i]).t = seen[given[i].name]
    BY Zenon, <1>2, <2>1, <2>2, FlushStep
  <2>4. View!Read(i, k)
    BY Zenon, <2>1, <2>3 DEF View!Read, View!Got, Got, Row
  <2>. QED  BY Zenon, <2>3, <2>4 DEF View!VNext, View!VStep
<1>3. CASE check(i) = "ok" /\ Returns(Said("internal"))
  BY Zenon, <1>3, FlushFails
<1>. QED  BY Zenon, <1>1, <1>2, <1>3 DEF Flushed

\* A scan of the rows under the keys in W: it starts on the rows of the map.
LEMMA ScanStarts ==
  ASSUME IInv, NEW i \in DOMAIN handles, NEW W \in SUBSET Keys, check(i) = "ok",
         handles' = [handles EXCEPT ![i] = flush(handles[i])],
         scan' = [k \in DOMAIN flush(handles[i]).t.rows \cap W |-> flush(handles[i]).t.rows[k]],
         told' = Said("ok"), UNCHANGED <<use, objs, closed, sent>>
  PROVE  IInv' /\ View!VNext
<1>1. scan' \in RowMaps
  <2> DEFINE rows == flush(handles[i]).t.rows
  <2>1. rows \in RowMaps
    BY Zenon, Numbered, FlushKeeps, ObjectOf, ObjectParts
  <2>2. DOMAIN rows \subseteq Keys /\ \A k \in DOMAIN rows : rows[k] \in Vals
    BY <2>1, RowMap DEF RowMaps
  <2> HIDE DEF rows
  <2>3. scan' \in [(DOMAIN rows \cap W) -> Vals] /\ (DOMAIN rows \cap W) \in SUBSET Keys
    BY Zenon, <2>2 DEF rows
  <2>. QED  BY Zenon, <2>3 DEF RowMaps
<1>2. /\ IInv' /\ given' = given /\ Base' = Base /\ seen' = seen
      /\ View!Live(i) /\ i \in DOMAIN given /\ flush(handles[i]).t = seen[given[i].name]
  BY Zenon, <1>1, FlushStep
<1>3. View!Scanned(i, W)
  BY Zenon, <1>2 DEF View!Scanned, View!Said, Said
<1>. QED  BY Zenon, <1>2, <1>3 DEF View!VNext, View!VStep

\* Every scan.
LEMMA IterateStep ==
  ASSUME IInv, NEW i \in DOMAIN handles, NEW W \in SUBSET Keys, Iterate(i, W), UNCHANGED use
  PROVE  IInv' /\ View!VNext
<1>1. CASE Barred(i)
  BY Zenon, <1>1, BarredStep
<1>2. CASE check(i) = "ok" /\ Returns(Said("internal"))
  BY Zenon, <1>2, FlushFails
<1>3. CASE /\ check(i) = "ok" /\ told' = Said("ok") /\ UNCHANGED <<objs, closed, sent>>
           /\ handles' = [handles EXCEPT ![i] = flush(handles[i])]
           /\ scan' = [k \in DOMAIN flush(handles[i]).t.rows \cap W |-> flush(handles[i]).t.rows[k]]
  BY Zenon, <1>3, ScanStarts
<1>. QED  BY Zenon, <1>1, <1>2, <1>3 DEF Iterate

\* Scan of a table.
LEMMA TableScanStep ==
  ASSUME IInv, NEW i \in DOMAIN handles, TableScan(i), UNCHANGED use
  PROVE  IInv' /\ View!VNext
<1>1. Keys \in SUBSET Keys /\ Iterate(i, Keys)
  BY Zenon DEF TableScan
<1>. QED  BY Zenon, <1>1, IterateStep

\* Scan of a map or a collection.
LEMMA ScanFromStep ==
  ASSUME IInv, NEW i \in DOMAIN handles, NEW from \in Keys,
         KVScan(i, from) \/ CollectionScan(i, from), UNCHANGED use
  PROVE  IInv' /\ View!VNext
<1> DEFINE W == {k \in Keys : k >= from}
<1>1. Iterate(i, W)
  BY Zenon DEF KVScan, CollectionScan
<1>2. W \in SUBSET Keys
  BY Zenon
<1> HIDE DEF W
<1>. QED  BY Zenon, <1>1, <1>2, IterateStep

\* Lookup of a table with the index, and without it.
LEMMA TableLookupStep ==
  ASSUME IInv, NEW i \in DOMAIN handles, NEW v \in Vals, TableLookup(i, v), UNCHANGED use
  PROVE  IInv' /\ View!VNext
<1> DEFINE W == {k \in Keys : Row(i, k) = v}
<1>1. CASE Iterate(i, W)
  <2>1. W \in SUBSET Keys
    BY Zenon
  <2> HIDE DEF W
  <2>. QED  BY Zenon, <1>1, <2>1, IterateStep
<1>2. CASE check(i) = "ok" /\ Leaves(i, flush(handles[i]), Said("invalid"))
  <2>1. "invalid" \in Refusals
    BY Zenon DEF Refusals
  <2>2. handles[i] \in Sound
    BY Zenon, Numbered
  <2>. QED  BY Zenon, <1>2, <2>1, <2>2, FlushKeeps, LeavesRefusal
<1>. QED  BY Zenon, <1>1, <1>2 DEF TableLookup

\* Alter is a change of the schema of the map's object.
LEMMA AlterStep ==
  ASSUME IInv, NEW i \in DOMAIN handles, NEW schema \in Schemas, Alter(i, schema), UNCHANGED use
  PROVE  IInv' /\ View!VNext
<1> DEFINE h == flush(handles[i])
           altered == [h EXCEPT !.t.schema = schema]
<1>0. handles[i] \in Sound
  BY Zenon, Numbered
<1>1. CASE Barred(i)
  BY Zenon, <1>1, BarredStep
<1>2. CASE check(i) = "ok" /\ Returns(Said("internal"))
  BY Zenon, <1>2, FlushFails
<1>3. CASE check(i) = "ok" /\ Leaves(i, h, Said("invalid"))
  <2>1. "invalid" \in Refusals
    BY Zenon DEF Refusals
  <2>. QED  BY Zenon, <1>0, <1>3, <2>1, FlushKeeps, LeavesRefusal
<1>4. CASE check(i) = "ok" /\ Leaves(i, altered, TookSchema(schema))
  <2>1. /\ h \in Sound /\ h.name = handles[i].name /\ h.kind = handles[i].kind /\ h.gone = handles[i].gone
        /\ h.ed = NoEditor /\ Object(h) = Object(handles[i])
    BY Zenon, <1>0, FlushKeeps
  <2>2. ~closed /\ ~handles[i].gone
    BY Zenon, <1>4, CheckIs
  <2> HIDE DEF h
  <2>3. /\ altered \in Sound /\ altered.name = handles[i].name /\ altered.kind = handles[i].kind
        /\ altered.gone = handles[i].gone /\ Object(altered) = [Object(h) EXCEPT !.schema = schema]
    BY Zenon, <2>1, AlterTaken
  <2> HIDE DEF altered
  <2>4. /\ handles' = [handles EXCEPT ![i] = altered] /\ told' = TookSchema(schema)
        /\ UNCHANGED <<use, objs, closed, sent, scan>>
    BY Zenon, <1>4 DEF Leaves
  <2>5. closed' \in BOOLEAN /\ scan' \in RowMaps
    BY Zenon, <2>4 DEF IInv
  <2>6. IInv' /\ given' = given /\ Base' = Base /\ seen' = [seen EXCEPT ![handles[i].name] = Object(altered)]
    BY Zenon, <2>2, <2>3, <2>4, <2>5, HandleChanges
  <2>7. /\ seen[handles[i].name] = Object(handles[i]) /\ given[i].name = handles[i].name /\ ~given[i].gone
        /\ i \in DOMAIN given
    BY Zenon, <2>2, LiveSeen, GivenIs
  <2>8. View!Altered(i, schema)
    BY Zenon, <2>1, <2>2, <2>3, <2>4, <2>6, <2>7 DEF View!Altered, View!Live, View!TookSchema, TookSchema
  <2>. QED  BY Zenon, <2>6, <2>7, <2>8 DEF View!VNext, View!VStep, Schemas
<1>. QED  BY Zenon, <1>1, <1>2, <1>3, <1>4 DEF Alter

\* Create makes an object of the map under a name that has none.
LEMMA CreateStep ==
  ASSUME IInv, NEW n \in Names, NEW kind \in Kinds, NEW schema \in Schemas,
         Create(n, kind, schema), UNCHANGED use
  PROVE  IInv' /\ View!VNext
<1> DEFINE obj == [kind |-> kind, schema |-> schema, rows |-> NoRows]
<1>1. creatable(n) = IF closed THEN "closed" ELSE IF n = BadName THEN "invalid"
                     ELSE IF lookup(n) # NoObject THEN "exists" ELSE "ok"
  <2> DEFINE bad == n = BadName
             there == lookup(n) # NoObject
  <2>1. closed \in BOOLEAN /\ bad \in BOOLEAN /\ there \in BOOLEAN
    BY Zenon DEF IInv
  <2>2. creatable(n) = First(<<<<closed, "closed">>, <<bad, "invalid">>, <<there, "exists">>>>)
    BY Zenon DEF creatable
  <2> HIDE DEF bad, there
  <2>3. creatable(n) = IF closed THEN "closed" ELSE IF bad THEN "invalid" ELSE IF there THEN "exists" ELSE "ok"
    BY <2>1, <2>2, First3
  <2>. QED  BY Zenon, <2>3 DEF bad, there
<1>2. CASE creatable(n) # "ok" /\ Returns(Said(creatable(n)))
  <2>1. (closed /\ creatable(n) = "closed") \/ (~closed /\ creatable(n) \in Refusals)
    BY Zenon, <1>1, <1>2 DEF Refusals
  <2>. QED  BY Zenon, <1>2, <2>1, ReturnsRefusal
<1>3. CASE creatable(n) = "ok" /\ NewHandle(n, obj)
  <2>1. ~closed /\ lookup(n) = NoObject
    BY Zenon, <1>1, <1>3
  <2>2. seen[n] = NoObject
    BY Zenon, <2>1, SeenIs
  <2>3. objs[n] \in {Untouched, Dropped}
    BY Zenon, <2>2, PointedAt, SeenIs, ObjectParts
  <2>4. obj \in Objects /\ obj.kind = kind
    <3>1. NoRows \in RowMaps
      BY Zenon, NoneAtAll
    <3>. QED  BY Zenon, <3>1 DEF Objects, RowMaps
  <2> HIDE DEF obj
  <2>5. /\ IInv' /\ Base' = Base
        /\ given' = Append(given, [name |-> n, kind |-> obj.kind, gone |-> FALSE])
        /\ seen' = [seen EXCEPT ![n] = obj]
    BY Zenon, <1>3, <2>3, <2>4, HandleGiven
  <2>6. told' = Handle(Len(handles) + 1) /\ UNCHANGED <<closed, sent, scan>>
    BY Zenon, <1>3 DEF NewHandle
  <2>7. Len(given) = Len(handles)
    BY Zenon, GivenIs
  <2>8. View!Made(n, obj)
    BY Zenon, <2>1, <2>2, <2>5, <2>6, <2>7 DEF View!Made, View!Handle, Handle, View!NoObject, NoObject
  <2>9. View!Made(n, [kind |-> kind, schema |-> schema, rows |-> View!NoRows])
    BY Zenon, <2>8 DEF obj, View!NoRows, NoRows
  <2>. QED  BY Zenon, <2>5, <2>9 DEF View!VNext, View!VStep, Kinds, Schemas
<1>. QED  BY Zenon, <1>2, <1>3 DEF Create

\* Opening gives the handle there is on the object, or a new one.
LEMMA OpenStep ==
  ASSUME IInv, NEW n \in Names, NEW kind \in Kinds, Open(n, kind), UNCHANGED use
  PROVE  IInv' /\ View!VNext
<1>1. openable(n, kind) = IF closed THEN "closed" ELSE IF n \in denied THEN "denied"
                          ELSE IF lookup(n) = NoObject THEN "notfound"
                          ELSE IF lookup(n).kind # kind THEN "wrongkind" ELSE "ok"
  <2> DEFINE barred == n \in denied
             missing == lookup(n) = NoObject
             other == lookup(n).kind # kind
  <2>1. closed \in BOOLEAN /\ barred \in BOOLEAN /\ missing \in BOOLEAN /\ other \in BOOLEAN
    BY DEF IInv
  <2>2. openable(n, kind) =
           First(<<<<closed, "closed">>, <<barred, "denied">>, <<missing, "notfound">>, <<other, "wrongkind">>>>)
    BY Zenon DEF openable
  <2> HIDE DEF barred, missing, other
  <2>3. openable(n, kind) = IF closed THEN "closed" ELSE IF barred THEN "denied"
                            ELSE IF missing THEN "notfound" ELSE IF other THEN "wrongkind" ELSE "ok"
    BY <2>1, <2>2, First4
  <2>. QED  BY Zenon, <2>3 DEF barred, missing, other
<1>2. CASE openable(n, kind) # "ok" /\ Returns(Said(openable(n, kind)))
  <2>1. (closed /\ openable(n, kind) = "closed") \/ (~closed /\ openable(n, kind) \in Refusals)
    BY Zenon, <1>1, <1>2 DEF Refusals
  <2>. QED  BY Zenon, <1>2, <2>1, ReturnsRefusal
<1>3. ASSUME openable(n, kind) = "ok"
      PROVE  ~closed /\ lookup(n) # NoObject /\ seen[n] # NoObject
  BY Zenon, <1>1, <1>3, SeenIs
<1>4. CASE openable(n, kind) = "ok" /\ objs[n] > 0 /\ Returns(Handle(objs[n]))
  <2>1. told' = Handle(objs[n]) /\ UNCHANGED <<use, objs, handles, closed, sent, scan>>
    BY Zenon, <1>4 DEF Returns
  <2>2. closed' \in BOOLEAN /\ scan' \in RowMaps
    BY Zenon, <2>1 DEF IInv
  <2>3. IInv' /\ seen' = seen /\ given' = given /\ Base' = Base
    BY Zenon, <2>1, <2>2, NothingChanges
  <2>4. objs[n] \in DOMAIN handles /\ handles[objs[n]].name = n /\ ~handles[objs[n]].gone
    BY Zenon, <1>4, PointedAt
  <2>5. objs[n] \in DOMAIN given /\ given[objs[n]].name = n /\ ~given[objs[n]].gone
    BY Zenon, <2>4, GivenIs
  <2>6. View!Opened(n)
    BY Zenon, <1>3, <1>4, <2>1, <2>3, <2>5 DEF View!Opened, View!Handle, Handle, View!NoObject, NoObject
  <2>. QED  BY Zenon, <2>3, <2>6 DEF View!VNext, View!VStep
<1>5. CASE openable(n, kind) = "ok" /\ objs[n] = Untouched /\ NewHandle(n, Base[n])
  <2>1. seen[n] = Base[n] /\ Base[n] \in Objects
    BY Zenon, <1>3, <1>5, SeenIs
  <2>2. /\ IInv' /\ Base' = Base
        /\ given' = Append(given, [name |-> n, kind |-> Base[n].kind, gone |-> FALSE])
        /\ seen' = [seen EXCEPT ![n] = Base[n]]
    BY Zenon, <1>5, <2>1, HandleGiven
  <2>3. seen' = seen
    BY Zenon, <2>1, <2>2, SeenNext
  <2>4. told' = Handle(Len(handles) + 1) /\ UNCHANGED <<closed, sent, scan>>
    BY Zenon, <1>5 DEF NewHandle
  <2>5. Len(given) = Len(handles) /\ DOMAIN given = DOMAIN handles
    BY Zenon, GivenIs
  <2>6. ASSUME NEW i \in DOMAIN given, given[i].name = n  PROVE  given[i].gone
    <3>1. i \in DOMAIN handles /\ handles[i].name = n /\ i # 0
      BY <2>5, <2>6, GivenIs, Numbered
    <3>2. handles[i].gone
      BY Zenon, <1>5, <3>1 DEF IInv, OneLiveHandle, Untouched
    <3>. QED  BY Zenon, <3>1, <3>2, GivenIs
  <2>7. View!Opened(n)
    BY Zenon, <1>3, <1>5, <2>1, <2>2, <2>3, <2>4, <2>5, <2>6 DEF View!Opened, View!Handle, Handle, View!NoObject, NoObject
  <2>. QED  BY Zenon, <2>2, <2>7 DEF View!VNext, View!VStep
<1>. QED  BY Zenon, <1>2, <1>4, <1>5 DEF Open

\* Drop takes the object out of the map.
LEMMA DropStep ==
  ASSUME IInv, NEW n \in Names, Drop(n), UNCHANGED use
  PROVE  IInv' /\ View!VNext
<1> DEFINE missing == lookup(n) = NoObject
           refusal == First(<<<<closed, "closed">>, <<missing, "notfound">>>>)
<1>1. refusal = IF closed THEN "closed" ELSE IF missing THEN "notfound" ELSE "ok"
  <2>1. closed \in BOOLEAN /\ missing \in BOOLEAN
    BY Zenon DEF IInv
  <2> HIDE DEF missing
  <2>. QED  BY <2>1, First2
<1>2. CASE refusal # "ok" /\ Returns(Said(refusal))
  <2> HIDE DEF refusal
  <2>1. (closed /\ refusal = "closed") \/ (~closed /\ refusal \in Refusals)
    BY Zenon, <1>1, <1>2 DEF Refusals
  <2>. QED  BY Zenon, <1>2, <2>1, ReturnsRefusal
<1>3. CASE refusal = "ok" /\ Taking(n) /\ told' = Said("ok") /\ UNCHANGED <<closed, sent, scan>>
  <2>1. ~closed /\ lookup(n) # NoObject
    <3> HIDE DEF refusal
    <3>. QED  BY Zenon, <1>1, <1>3
  <2>2. seen[n] # NoObject
    BY Zenon, <2>1, SeenIs
  <2>3. /\ IInv' /\ Base' = Base
        /\ given' = [i \in DOMAIN given |->
                        IF given[i].name = n THEN [given[i] EXCEPT !.gone = TRUE] ELSE given[i]]
        /\ seen' = [seen EXCEPT ![n] = NoObject]
    BY Zenon, <1>3, NameDropped
  <2>4. NoObject = View!NoObject /\ told' = View!Said("ok")
    BY Zenon, <1>3 DEF NoObject, View!NoObject, Said, View!Said
  <2>5. View!Dropped(n)
    BY Zenon, <1>3, <2>1, <2>2, <2>3, <2>4 DEF View!Dropped
  <2>. QED  BY Zenon, <2>3, <2>5 DEF View!VNext, View!VStep
<1>. QED  BY Zenon, <1>2, <1>3 DEF Drop, Taking

\* A scan hands over the next row.
LEMMA DrainStep ==
  ASSUME IInv, NEW goOn \in BOOLEAN, drain(goOn), UNCHANGED use
  PROVE  IInv' /\ View!VNext
<1> DEFINE k == CHOOSE x \in DOMAIN scan : \A y \in DOMAIN scan : x <= y
<1>1. /\ DOMAIN scan # {} /\ told' = Handed(k, scan[k])
      /\ scan' = IF goOn THEN [x \in DOMAIN scan \ {k} |-> scan[x]] ELSE NoRows
      /\ UNCHANGED <<objs, handles, closed, sent>>
  BY Zenon DEF drain
<1>2. scan \in RowMaps /\ closed \in BOOLEAN
  BY Zenon DEF IInv
<1>3. DOMAIN scan \subseteq Keys /\ \A x \in DOMAIN scan : scan[x] \in Vals
  BY Zenon, <1>2, RowMap DEF RowMaps
<1>4. k \in DOMAIN scan /\ \A y \in DOMAIN scan : k <= y
  <2>1. \E x \in DOMAIN scan : \A y \in DOMAIN scan : x <= y
    BY Zenon, <1>1, <1>3, ObjectsAssumption
  <2>. QED  BY Zenon, <2>1
<1> HIDE DEF k
<1>5. scan' \in RowMaps
  <2>1. [x \in DOMAIN scan \ {k} |-> scan[x]] \in [DOMAIN scan \ {k} -> Vals] /\ DOMAIN scan \ {k} \in SUBSET Keys
    BY Zenon, <1>3
  <2>2. [x \in DOMAIN scan \ {k} |-> scan[x]] \in RowMaps
    BY Zenon, <2>1 DEF RowMaps
  <2>. QED  BY Zenon, <1>1, <2>2, NoneAtAll
<1>6. IInv' /\ seen' = seen /\ given' = given /\ Base' = Base
  BY Zenon, <1>1, <1>2, <1>5, NothingChanges
<1>7. View!HandedOver(k)
  BY Zenon, <1>1, <1>4, <1>6 DEF View!HandedOver, View!Handed, Handed, View!NoRows, NoRows
<1>8. k \in Keys
  BY Zenon, <1>3, <1>4
<1>. QED  BY Zenon, <1>6, <1>7, <1>8 DEF View!VNext, View!VStep

\* Commit hands the queue the map, or nothing when the map is the base.
LEMMA CommitStep ==
  ASSUME IInv, Commit, UNCHANGED use
  PROVE  IInv' /\ View!VNext
<1>1. namespace = seen
  <2>1. ASSUME NEW n \in Names
        PROVE  (CASE objs[n] = Untouched -> Base[n]
                  [] objs[n] = Dropped -> NoObject
                  [] OTHER -> flush(handles[objs[n]]).t) = seen[n]
    <3>1. CASE objs[n] = Untouched
      BY Zenon, <3>1, SeenIs DEF Untouched, Dropped
    <3>2. CASE objs[n] = Dropped
      BY Zenon, <3>2, SeenIs DEF Untouched, Dropped
    <3>3. CASE objs[n] > 0
      <4>1. handles[objs[n]] \in Sound /\ seen[n] = Object(handles[objs[n]])
        BY Zenon, <3>3, PointedAt, SeenIs
      <4>2. flush(handles[objs[n]]).t = seen[n]
        BY Zenon, <4>1, FlushKeeps
      <4>. QED  BY <3>3, <4>2 DEF Untouched, Dropped
    <3>. QED  BY Zenon, <3>1, <3>2, <3>3, PointedAt
  <2>2. seen = [n \in Names |-> seen[n]]
    BY Zenon, SeenNext
  <2>. QED  BY Zenon, <2>1, <2>2 DEF namespace
<1>2. CASE closed /\ Returns(Said("closed"))
  BY Zenon, <1>2, ReturnsRefusal
<1>3. CASE /\ ~closed /\ closed' = TRUE
           /\ \/ told' = Said("internal") /\ UNCHANGED sent
              \/ namespace = Base /\ told' = Said("ok") /\ UNCHANGED sent
              \/ namespace # Base /\ told' = Said("queued") /\ sent' = namespace
           /\ UNCHANGED <<objs, handles, scan>>
  <2>1. scan' \in RowMaps /\ closed' \in BOOLEAN
    BY Zenon, <1>3 DEF IInv
  <2>2. IInv' /\ seen' = seen /\ given' = given /\ Base' = Base
    BY Zenon, <1>3, <2>1, NothingChanges
  <2>3. View!Committed
    BY Zenon, <1>1, <1>3, <2>2 DEF View!Committed, View!Said, Said
  <2>. QED  BY Zenon, <2>2, <2>3 DEF View!VNext, View!VStep
<1>. QED  BY Zenon, <1>2, <1>3 DEF Commit

\* Abort, and the closing of the database.
LEMMA AbortStep ==
  ASSUME IInv, Abort, UNCHANGED use
  PROVE  IInv' /\ View!VNext
<1>1. CASE closed /\ Returns(Said("closed"))
  BY Zenon, <1>1, ReturnsRefusal
<1>2. CASE ~closed /\ closed' = TRUE /\ told' = Said("ok") /\ UNCHANGED <<objs, handles, sent, scan>>
  <2>1. scan' \in RowMaps /\ closed' \in BOOLEAN
    BY Zenon, <1>2 DEF IInv
  <2>2. IInv' /\ seen' = seen /\ given' = given /\ Base' = Base
    BY Zenon, <1>2, <2>1, NothingChanges
  <2>3. View!Ended
    BY Zenon, <1>2, <2>2 DEF View!Ended, View!Said, Said
  <2>. QED  BY Zenon, <2>2, <2>3 DEF View!VNext, View!VStep
<1>. QED  BY Zenon, <1>1, <1>2 DEF Abort

\* A store that fails refuses a read, or fails a commit.
LEMMA StoreFailsStep ==
  ASSUME IInv, StoreFails, UNCHANGED use
  PROVE  IInv' /\ View!VNext
<1>1. ~closed /\ closed' \in BOOLEAN /\ told' = Said("internal") /\ UNCHANGED <<objs, handles, sent, scan>>
  BY Zenon DEF StoreFails
<1>2. scan' \in RowMaps /\ "internal" \in Refusals
  BY Zenon, <1>1 DEF IInv, Refusals
<1>3. IInv' /\ seen' = seen /\ given' = given /\ Base' = Base
  BY Zenon, <1>1, <1>2, NothingChanges
<1>4. CASE closed' = closed
  BY Zenon, <1>1, <1>2, <1>3, <1>4, Refusing
<1>5. CASE closed' = TRUE
  <2>1. View!Committed
    BY Zenon, <1>1, <1>3, <1>5 DEF View!Committed, View!Said, Said
  <2>. QED  BY Zenon, <1>3, <2>1 DEF View!VNext, View!VStep
<1>6. closed' = closed \/ closed' = TRUE
  BY Zenon, <1>1 DEF IInv
<1>. QED  BY Zenon, <1>4, <1>5, <1>6

\* What a transaction's calls are given.
LEMMA Used ==
  ASSUME IInv
  PROVE  use.names \subseteq Names /\ use.keys \subseteq Keys /\ use.vals \subseteq Vals
BY Zenon, ObjectsAssumption DEF IInv

\* A write refused by one thing or by two.
LEMMA WriteRefusals ==
  ASSUME IInv, NEW i \in DOMAIN handles, NEW k, NEW v
  PROVE  LET there == exists(handles[i], k)
             bad == v = BadValue
         IN  /\ First(<<<<bad, "invalid">>, <<there, "exists">>>>) \in {"ok"} \cup Refusals
             /\ First(<<<<bad, "invalid">>, <<~there, "notfound">>>>) \in {"ok"} \cup Refusals
             /\ First(<<<<~there, "notfound">>>>) \in {"ok"} \cup Refusals
             /\ First(<<<<bad, "invalid">>>>) \in {"ok"} \cup Refusals
<1> DEFINE there == exists(handles[i], k)
           bad == v = BadValue
           absent == ~there
<1>1. there \in BOOLEAN /\ bad \in BOOLEAN /\ absent \in BOOLEAN
  BY DEF exists
<1> HIDE DEF there, bad, absent
<1>2. /\ First(<<<<bad, "invalid">>, <<there, "exists">>>>) = IF bad THEN "invalid" ELSE IF there THEN "exists" ELSE "ok"
      /\ First(<<<<bad, "invalid">>, <<absent, "notfound">>>>) = IF bad THEN "invalid" ELSE IF absent THEN "notfound" ELSE "ok"
  BY <1>1, First2
<1>3. /\ First(<<<<absent, "notfound">>>>) = IF absent THEN "notfound" ELSE "ok"
      /\ First(<<<<bad, "invalid">>>>) = IF bad THEN "invalid" ELSE "ok"
  BY Zenon, <1>1, First1
<1>4. /\ First(<<<<bad, "invalid">>, <<there, "exists">>>>) \in {"ok"} \cup Refusals
      /\ First(<<<<bad, "invalid">>, <<absent, "notfound">>>>) \in {"ok"} \cup Refusals
      /\ First(<<<<absent, "notfound">>>>) \in {"ok"} \cup Refusals
      /\ First(<<<<bad, "invalid">>>>) \in {"ok"} \cup Refusals
  BY Zenon, <1>2, <1>3 DEF Refusals
<1>. QED  BY Zenon, <1>4 DEF there, bad, absent

\* The writes of the three kinds of handle.
LEMMA WritesStep ==
  ASSUME IInv, UNCHANGED use, NEW i \in DOMAIN handles, NEW k \in Keys, NEW v \in Vals,
         \/ TableInsert(i, k, v) \/ TableUpdate(i, k, v)
         \/ KVSet(i, k, v) \/ CollectionPut(i, k, v) \/ CollectionPutJSON(i, k, v)
  PROVE  IInv' /\ View!VNext
<1>1. v \in Vals \cup {Delete}
  BY Zenon
<1>2. CASE TableInsert(i, k, v)
  BY Zenon, <1>1, <1>2, WriteRefusals, WriteStep DEF TableInsert
<1>3. CASE TableUpdate(i, k, v)
  BY Zenon, <1>1, <1>3, WriteRefusals, WriteStep DEF TableUpdate
<1>4. CASE KVSet(i, k, v) \/ CollectionPut(i, k, v) \/ CollectionPutJSON(i, k, v)
  BY Zenon, <1>1, <1>4, WriteRefusals, WriteStep DEF KVSet, CollectionPut, CollectionPutJSON
<1>. QED  BY Zenon, <1>2, <1>3, <1>4

\* The removals of the three kinds of handle.
LEMMA RemovalsStep ==
  ASSUME IInv, UNCHANGED use, NEW i \in DOMAIN handles, NEW k \in Keys,
         TableDelete(i, k) \/ KVDelete(i, k) \/ CollectionDelete(i, k)
  PROVE  IInv' /\ View!VNext
<1>1. Delete \in Vals \cup {Delete} /\ "ok" \in {"ok"} \cup Refusals
  BY Zenon
<1>2. CASE TableDelete(i, k)
  BY Zenon, <1>1, <1>2, WriteRefusals, WriteStep DEF TableDelete
<1>3. CASE KVDelete(i, k) \/ CollectionDelete(i, k)
  BY Zenon, <1>1, <1>3, WriteStep DEF KVDelete, CollectionDelete
<1>. QED  BY Zenon, <1>2, <1>3

\* The reads by key of the three kinds of handle.
LEMMA ReadsStep ==
  ASSUME IInv, UNCHANGED use, NEW i \in DOMAIN handles, NEW k \in Keys,
         TableGet(i, k) \/ KVGet(i, k) \/ CollectionGet(i, k)
  PROVE  IInv' /\ View!VNext
BY Zenon, ReadStep DEF TableGet, KVGet, CollectionGet

\* A grant revoked or given back changes nothing a caller sees.
LEMMA MayReadStep ==
  ASSUME IInv, NEW n, mayRead(n), UNCHANGED use
  PROVE  IInv' /\ UNCHANGED View!vvars
<1>1. UNCHANGED <<objs, handles, closed, told, sent, scan>>
  BY Zenon DEF mayRead
<1>2. closed' \in BOOLEAN /\ scan' \in RowMaps
  BY Zenon, <1>1 DEF IInv
<1>3. IInv' /\ seen' = seen /\ given' = given /\ Base' = Base
  BY Zenon, <1>1, <1>2, NothingChanges
<1>. QED  BY Zenon, <1>1, <1>3 DEF View!vvars

\* Every step keeps the invariant and is a step of the map, or leaves it.
LEMMA Stepping ==
  ASSUME IInv, Next
  PROVE  IInv' /\ (View!VNext \/ UNCHANGED View!vvars)
<1>1. Step /\ UNCHANGED use
  BY Zenon DEF Next
<1>2. use.names \subseteq Names /\ use.keys \subseteq Keys /\ use.vals \subseteq Vals
  BY Zenon, Used
<1>3. \A kind : OfKind(kind) \subseteq DOMAIN handles
  BY Zenon DEF OfKind
<1>4. "table" \in Kinds /\ "kv" \in Kinds /\ "collection" \in Kinds /\ "plain" \in Schemas
  BY Zenon DEF Kinds, Schemas
<1>5. CASE Commit \/ Abort \/ StoreFails
  BY Zenon, <1>1, <1>5, CommitStep, AbortStep, StoreFailsStep
<1>6. ASSUME NEW n \in use.names, Table(n) \/ KV(n) \/ Collection(n)
      PROVE  IInv' /\ View!VNext
  BY Zenon, <1>1, <1>2, <1>4, <1>6, OpenStep DEF Table, KV, Collection
<1>7. ASSUME NEW n \in use.names, Drop(n)
      PROVE  IInv' /\ View!VNext
  BY Zenon, <1>1, <1>2, <1>7, DropStep
<1>8. ASSUME NEW n \in use.names, mayRead(n)
      PROVE  IInv' /\ UNCHANGED View!vvars
  BY Zenon, <1>1, <1>8, MayReadStep
<1>9. ASSUME NEW n \in use.names, CreateKV(n) \/ CreateCollection(n)
      PROVE  IInv' /\ View!VNext
  BY Zenon, <1>1, <1>2, <1>4, <1>9, CreateStep DEF CreateKV, CreateCollection
<1>10. ASSUME NEW n \in use.names, NEW schema \in Schemas, CreateTable(n, schema)
       PROVE  IInv' /\ View!VNext
  BY Zenon, <1>1, <1>2, <1>4, <1>10, CreateStep DEF CreateTable
<1>11. ASSUME NEW goOn \in BOOLEAN, drain(goOn)
       PROVE  IInv' /\ View!VNext
  BY Zenon, <1>1, <1>11, DrainStep
<1>12. ASSUME NEW i \in DOMAIN handles, NEW k \in use.keys,
              \/ TableGet(i, k) \/ KVGet(i, k) \/ CollectionGet(i, k)
              \/ TableDelete(i, k) \/ KVDelete(i, k) \/ CollectionDelete(i, k)
       PROVE  IInv' /\ View!VNext
  BY Zenon, <1>1, <1>2, <1>12, ReadsStep, RemovalsStep
<1>13. ASSUME NEW i \in DOMAIN handles, NEW k \in use.keys, NEW v \in use.vals,
              \/ TableInsert(i, k, v) \/ TableUpdate(i, k, v)
              \/ KVSet(i, k, v) \/ CollectionPut(i, k, v) \/ CollectionPutJSON(i, k, v)
       PROVE  IInv' /\ View!VNext
  BY Zenon, <1>1, <1>2, <1>13, WritesStep
<1>14. ASSUME NEW i \in DOMAIN handles, NEW schema \in Schemas, Alter(i, schema)
       PROVE  IInv' /\ View!VNext
  BY Zenon, <1>1, <1>14, AlterStep
<1>15. ASSUME NEW i \in DOMAIN handles, TableScan(i)
       PROVE  IInv' /\ View!VNext
  BY Zenon, <1>1, <1>15, TableScanStep
<1>16. ASSUME NEW i \in DOMAIN handles, NEW v \in use.vals, TableLookup(i, v)
       PROVE  IInv' /\ View!VNext
  BY Zenon, <1>1, <1>2, <1>16, TableLookupStep
<1>17. ASSUME NEW i \in DOMAIN handles, NEW k \in use.keys, KVScan(i, k) \/ CollectionScan(i, k)
       PROVE  IInv' /\ View!VNext
  BY Zenon, <1>1, <1>2, <1>17, ScanFromStep
<1>18. CASE \E n \in use.names :
              \/ Table(n) \/ KV(n) \/ Collection(n) \/ Drop(n)
              \/ n \in use.guarded /\ mayRead(n)
              \/ "kv" \in use.kinds /\ CreateKV(n)
              \/ "collection" \in use.kinds /\ CreateCollection(n)
              \/ "table" \in use.kinds /\ \E schema \in Schemas : CreateTable(n, schema)
  BY Zenon, <1>6, <1>7, <1>8, <1>9, <1>10, <1>18
<1>19. CASE \E i \in OfKind("table") :
              \/ \E k \in use.keys : TableGet(i, k) \/ TableDelete(i, k)
              \/ \E k \in use.keys, v \in use.vals : TableInsert(i, k, v) \/ TableUpdate(i, k, v)
              \/ \E schema \in Schemas : Alter(i, schema)
              \/ use.scans /\ scan = NoRows /\ (TableScan(i) \/ \E v \in use.vals : TableLookup(i, v))
  <2>1. PICK i \in DOMAIN handles :
              \/ \E k \in use.keys : TableGet(i, k) \/ TableDelete(i, k)
              \/ \E k \in use.keys, v \in use.vals : TableInsert(i, k, v) \/ TableUpdate(i, k, v)
              \/ \E schema \in Schemas : Alter(i, schema)
              \/ TableScan(i) \/ \E v \in use.vals : TableLookup(i, v)
    BY Zenon, <1>3, <1>19
  <2>. QED  BY Zenon, <1>12, <1>13, <1>14, <1>15, <1>16, <2>1
<1>20. CASE \E i \in OfKind("kv"), k \in use.keys :
              \/ KVGet(i, k) \/ KVDelete(i, k)
              \/ \E v \in use.vals : KVSet(i, k, v)
              \/ use.scans /\ scan = NoRows /\ KVScan(i, k)
  <2>1. PICK i \in DOMAIN handles, k \in use.keys :
              KVGet(i, k) \/ KVDelete(i, k) \/ KVScan(i, k) \/ \E v \in use.vals : KVSet(i, k, v)
    BY Zenon, <1>3, <1>20
  <2>. QED  BY Zenon, <1>12, <1>13, <1>17, <2>1
<1>21. CASE \E i \in OfKind("collection"), k \in use.keys :
              \/ CollectionGet(i, k) \/ CollectionDelete(i, k)
              \/ \E v \in use.vals : CollectionPut(i, k, v) \/ CollectionPutJSON(i, k, v)
              \/ use.scans /\ scan = NoRows /\ CollectionScan(i, k)
  <2>1. PICK i \in DOMAIN handles, k \in use.keys :
              \/ CollectionGet(i, k) \/ CollectionDelete(i, k) \/ CollectionScan(i, k)
              \/ \E v \in use.vals : CollectionPut(i, k, v) \/ CollectionPutJSON(i, k, v)
    BY Zenon, <1>3, <1>21
  <2>. QED  BY Zenon, <1>12, <1>13, <1>17, <2>1
<1>. QED  BY Zenon, <1>1, <1>5, <1>11, <1>18, <1>19, <1>20, <1>21 DEF Step

-----------------------------------------------------------------------------
(* The theorems.                                                           *)

\* A transaction begins with the invariant, on the map it began on.
LEMMA Beginning ==
  ASSUME Init
  PROVE  IInv /\ View!VInit
<1>1. /\ use \in Uses /\ objs = [n \in Names |-> Untouched] /\ handles = <<>> /\ closed = FALSE
      /\ told = Said("ok") /\ sent = NoNamespace /\ scan = NoRows
  BY Zenon DEF Init
<1>2. handles \in Seq(Sound) /\ DOMAIN handles = {}
  BY <1>1
<1>3. objs \in [Names -> Int] /\ \A n \in Names : objs[n] = Untouched
  BY <1>1 DEF Untouched
<1>4. IInv
  BY Zenon, <1>1, <1>2, <1>3, NoneAtAll DEF IInv, Pointed, OneLiveHandle
<1>5. seen = Base
  <2>1. Base = [n \in Names |-> Base[n]]
    BY Zenon, <1>1, ObjectsAssumption DEF Base
  <2>2. \A n \in Names : seen[n] = Base[n]
    BY Zenon, <1>3, <1>4, SeenIs
  <2>. QED  BY Zenon, <2>1, <2>2, SeenNext
<1>6. given = <<>>
  BY <1>2 DEF given
<1>. QED  BY Zenon, <1>1, <1>4, <1>5, <1>6 DEF View!VInit, View!Said, Said, View!NoNamespace, NoNamespace,
                                        View!NoObject, NoObject, View!NoRows, NoRows

\* A step that changes nothing.
LEMMA Stuttering ==
  ASSUME IInv, UNCHANGED vars
  PROVE  IInv' /\ UNCHANGED View!vvars
<1>1. UNCHANGED <<use, objs, handles, closed, told, sent, scan>>
  BY Zenon DEF vars
<1>2. closed' \in BOOLEAN /\ scan' \in RowMaps
  BY Zenon, <1>1 DEF IInv
<1>3. IInv' /\ seen' = seen /\ given' = given /\ Base' = Base
  BY Zenon, <1>1, <1>2, NothingChanges
<1>. QED  BY Zenon, <1>1, <1>3 DEF View!vvars

\* The invariant holds throughout: each name's handle is its own, and each
\* editor goes on with the object its handle holds.
THEOREM Invariant == Spec => []IInv
<1>1. Init => IInv
  BY Zenon, Beginning
<1>2. IInv /\ [Next]_vars => IInv'
  BY Zenon, Stepping, Stuttering
<1>. QED  BY <1>1, <1>2, PTL DEF Spec

\* A name has at most one handle that takes calls, the one Commit flushes.
THEOREM OneLiveHandleHolds == Spec => []OneLiveHandle
<1>1. IInv => OneLiveHandle
  BY Zenon DEF IInv
<1>. QED  BY <1>1, Invariant, PTL

\* The handles, their editors and their flushes implement one plain map of
\* objects: reads see the writes before them, and Commit hands over the map.
THEOREM ReadsItsWritesHolds == Spec => ReadsItsWrites
<1>1. Init => View!VInit
  BY Zenon, Beginning
<1>2. IInv /\ [Next]_vars => [View!VNext]_(View!vvars)
  BY Zenon, Stepping, Stuttering
<1>. QED  BY <1>1, <1>2, Invariant, PTL DEF Spec, ReadsItsWrites, View!VSpec

=============================================================================
