------------------------------ MODULE KVMerge ------------------------------
(***************************************************************************)
(* The values of the key-value model, src/model/kv: their frames           *)
(* (EncodeValue, DecodeValue) and what a merge decides for a key both      *)
(* sides changed.  A value's slices are sequences in the caller's order; a *)
(* frame is the value with its members in the canonical order.  Elements,  *)
(* names and tags are integers, a string of bytes its length.              *)
(***************************************************************************)
EXTENDS MergeLib

CONSTANTS MaxMembers, MaxValueSize

\* A score is a number, a negative zero or not a number at all.
Score(v) == [v |-> v, odd |-> "no"]
NegZero == [v |-> 0, odd |-> "neg"]
NaN == [v |-> 0, odd |-> "nan"]

BytesOf(b) == [kind |-> "bytes", bytes |-> b]
CounterOf(n) == [kind |-> "counter", counter |-> n]
SetOf(ms) == [kind |-> "set", members |-> ms]
HashOf(fs) == [kind |-> "hash", fields |-> fs]
SortedSetOf(ss) == [kind |-> "sorted", scores |-> ss]
SequenceOf(s) == [kind |-> "sequence", seq |-> s]
ErrValue == [kind |-> "refused"]

lessMember(a, b) == a.elem < b.elem \/ (a.elem = b.elem /\ a.tag < b.tag)

lessScored(a, b) ==
  IF a.score.v # b.score.v THEN a.score.v < b.score.v
  ELSE IF a.member # b.member THEN a.member < b.member ELSE a.tag < b.tag

sameScored(a, b) == a.score.v = b.score.v /\ a.tag = b.tag /\ a.member = b.member

sortedMembers(ms) == SortSeq(ms, lessMember)
sortedScores(ss) ==
  SortSeq([i \in DOMAIN ss |-> IF ss[i].score = NegZero THEN [ss[i] EXCEPT !.score = Score(0)]
                               ELSE ss[i]], lessScored)

\* The members a frame counts, and the length of its payload.
held(v) == CASE v.kind = "set" -> Len(v.members)
             [] v.kind = "hash" -> Cardinality(DOMAIN v.fields)
             [] v.kind = "sorted" -> Len(v.scores)
             [] v.kind = "sequence" -> Len(v.seq)
             [] OTHER -> 0
size(v) == IF v.kind = "bytes" THEN v.bytes ELSE held(v)

EncodeValue(v) ==
  LET ms == sortedMembers(v.members)
      ss == sortedScores(v.scores)
      f == CASE v.kind = "set" -> IF \E i \in 2 .. Len(ms) : ms[i - 1] = ms[i] THEN ErrValue ELSE SetOf(ms)
             [] v.kind = "sorted" ->
                  IF \/ \E i \in 2 .. Len(ss) : sameScored(ss[i - 1], ss[i])
                     \/ \E i \in DOMAIN ss : ss[i].score = NaN
                    THEN ErrValue ELSE SortedSetOf(ss)
             [] OTHER -> v
  IN IF held(v) > MaxMembers \/ size(v) > MaxValueSize THEN ErrValue ELSE f

\* The order checked with repeats let through.
DecodeValue_Fault(f) ==
  IF /\ size(f) <= MaxValueSize
     /\ held(f) <= MaxMembers
     /\ f.kind = "set" => \A i \in 2 .. Len(f.members) : ~lessMember(f.members[i], f.members[i - 1])
     /\ f.kind = "sorted" =>
          /\ \A i \in DOMAIN f.scores : f.scores[i].score \notin {NaN, NegZero}
          /\ \A i \in 2 .. Len(f.scores) : lessScored(f.scores[i - 1], f.scores[i])
    THEN f ELSE ErrValue

\* A frame's members must come strictly in order, each score a score.
DecodeValue(f) ==
  IF /\ size(f) <= MaxValueSize
     /\ held(f) <= MaxMembers
     /\ f.kind = "set" => \A i \in 2 .. Len(f.members) : lessMember(f.members[i - 1], f.members[i])
     /\ f.kind = "sorted" =>
          /\ \A i \in DOMAIN f.scores : f.scores[i].score \notin {NaN, NegZero}
          /\ \A i \in 2 .. Len(f.scores) : lessScored(f.scores[i - 1], f.scores[i])
    THEN f ELSE ErrValue

-----------------------------------------------------------------------------
(* A decision: the conflicts, at the key (<<>>) or at the field or member  *)
(* below it; or the value to put, Nil for a removal; or an error.          *)

Conflicts(cs) == [did |-> "conflict", at |-> cs]
Put(v) == [did |-> "put", value |-> v]
Failed == [did |-> "error"]
atKey == Conflicts({<<>>})

\* mapobject.Disagreement: two equal changes are one, others conflict.
disagreement(o, t) == IF o = t THEN Put(o) ELSE atKey

toMembers(v) == ToSet(v.members)
fromMembers(s) == SetOf(SetToSortSeq(s, lessMember))

fieldIn(v, n) == IF n \in DOMAIN v.fields THEN [present |-> TRUE, value |-> v.fields[n]]
                 ELSE [present |-> FALSE]

mergeHash(b, o, t) ==
  LET all == DOMAIN b.fields \cup DOMAIN o.fields \cup DOMAIN t.fields
      merged == [n \in all |-> Scalar(fieldIn(b, n), fieldIn(o, n), fieldIn(t, n))]
      kept == {n \in all : merged[n].value.present}
  IN [value |-> HashOf([n \in kept |-> merged[n].value.value]),
      conflicts |-> {<<n>> : n \in {m \in all : ~Clean(merged[m])}}]

tagged(s) == [elem |-> s.member, tag |-> s.tag]
scoredMembers(v) == {tagged(s) : s \in ToSet(v.scores)}

\* The last score under a tagged member, as a map filled in order holds it.
scoreIn(v, m) ==
  LET at == {i \in DOMAIN v.scores : tagged(v.scores[i]) = m}
  IN IF at = {} THEN [present |-> FALSE] ELSE [present |-> TRUE, value |-> v.scores[Max(at)].score]

mergeSortedSet(b, o, t) ==
  LET present == Set(scoredMembers(b), scoredMembers(o), scoredMembers(t))
      merged == [m \in present |-> Scalar(scoreIn(b, m), scoreIn(o, m), scoreIn(t, m))]
      clean == {m \in present : Clean(merged[m])}
      found(m) == IF merged[m].value.present THEN merged[m].value
                  ELSE IF scoreIn(o, m).present THEN scoreIn(o, m) ELSE scoreIn(t, m)
  IN [value |-> SortedSetOf(SetToSortSeq({[member |-> m.elem, score |-> found(m).value, tag |-> m.tag]
                                          : m \in clean}, lessScored)),
      conflicts |-> {<<m.elem>> : m \in present \ clean}]

mergeSequence(b, o, t) ==
  LET r == Sequence(b.seq, o.seq, t.seq)
  IN [value |-> SequenceOf(r.value), conflicts |-> IF Clean(r) THEN {} ELSE {<<>>}]

whole(v) == [value |-> v, conflicts |-> {}]
mergeKind(b, o, t) ==
  CASE o.kind = "counter" -> whole(CounterOf(Counter(b.counter, o.counter, t.counter)))
    [] o.kind = "set" -> whole(fromMembers(Set(toMembers(b), toMembers(o), toMembers(t))))
    [] o.kind = "hash" -> mergeHash(b, o, t)
    [] o.kind = "sorted" -> mergeSortedSet(b, o, t)
    [] o.kind = "sequence" -> mergeSequence(b, o, t)

\* Equal changes are one change, for a counter too.
decide_Fault(b, o, t) ==
  IF o = t THEN disagreement(o, t)
  ELSE IF Nil \in {o, t} \/ b.kind # o.kind \/ o.kind # t.kind \/ o.kind = "bytes" THEN atKey
  ELSE LET m == mergeKind(b, o, t)
       IN IF m.conflicts # {} THEN Conflicts(m.conflicts) ELSE Put(EncodeValue(m.value))

\* A key both sides changed from frame b (Nil: not there) to o and t.
decide(b, o, t) ==
  IF Nil \in {o, t} THEN disagreement(o, t)
  ELSE IF \E f \in {b, o, t} \ {Nil} : DecodeValue(f) = ErrValue THEN Failed
  ELSE IF o.kind # t.kind THEN atKey
  ELSE IF b.kind # o.kind \/ (o.kind # "counter" /\ o = t) \/ o.kind = "bytes"
    THEN disagreement(o, t)
  ELSE LET m == mergeKind(b, o, t)
           f == EncodeValue(m.value)
       IN IF m.conflicts # {} THEN Conflicts(m.conflicts)
          ELSE IF f = ErrValue THEN Failed ELSE Put(f)
=============================================================================
