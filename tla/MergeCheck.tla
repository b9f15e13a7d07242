----------------------------- MODULE MergeCheck -----------------------------
(***************************************************************************)
(* The merge library over bounded inputs.  A call has a base and two       *)
(* sides, lists or trees; the step runs the library's function on them.    *)
(***************************************************************************)
EXTENDS MergeLib

CONSTANTS Lists,          \* the lists a call may be given: its base and two sides
          Trees,          \* the trees, any three
          CounterPaths    \* the paths TreeOptions.Counter accepts

VARIABLES in,             \* the call's base, ours and theirs
          out             \* its results, and the same call with the sides swapped

vars == <<in, out>>
None == [told |-> FALSE]

Init == /\ in \in {[what |-> "list", b |-> l[1], o |-> l[2], t |-> l[3]] : l \in Lists}
                  \cup [what : {"tree"}, b : Trees, o : Trees, t : Trees]
        /\ out = None

MergeLists == /\ in.what = "list" /\ out = None
              /\ out' = [told |-> TRUE, ours |-> align(in.b, in.o),
                         got |-> Sequence(in.b, in.o, in.t),
                         swapped |-> Sequence(in.b, in.t, in.o)]
              /\ UNCHANGED in

MergeTrees == /\ in.what = "tree" /\ out = None
              /\ out' = [told |-> TRUE,
                         got |-> Tree(in.b, in.o, in.t, CounterPaths),
                         swapped |-> Tree(in.b, in.t, in.o, CounterPaths)]
              /\ UNCHANGED in

Next == MergeLists \/ MergeTrees
Spec == Init /\ [][Next]_vars

List == in.what = "list" /\ out # None
Tree3 == in.what = "tree" /\ out # None
-----------------------------------------------------------------------------
\* The length of a longest common subsequence, by its textbook recursion.
RECURSIVE lcs(_, _)
lcs(a, b) == IF a = <<>> \/ b = <<>> THEN 0
             ELSE IF Head(a) = Head(b) THEN 1 + lcs(Tail(a), Tail(b))
             ELSE Max({lcs(Tail(a), b), lcs(a, Tail(b))})

\* align is an alignment by a longest common subsequence: it matches equal
\* keys, in order, as many as can be, and it refuses exactly the sides that
\* are more than MaxSequenceEdits insertions and deletions from the base.
\* The arrays of the middle-snake search are never cleared between the parts
\* it is split into, so this also says no part reads what another left there.
AlignIsLongest ==
  List =>
    LET a == out.ours
        at == {x \in DOMAIN a.out : a.out[x] >= 0}
    IN /\ a.ok <=> Len(in.b) + Len(in.o) - 2 * lcs(in.b, in.o) <= MaxSequenceEdits
       /\ a.ok => /\ Cardinality(at) = lcs(in.b, in.o)
                  /\ \A x \in at : At(in.b, x) = At(in.o, a.out[x])
                  /\ \A x, y \in at : x < y => a.out[x] < a.out[y]

\* Every policy is symmetric: with ours and theirs swapped, Sequence and Tree
\* return the same value, the same conflicts and the same flags, so a merge
\* does not depend on which branch it is made from (lessKeys orders two
\* inserted blocks by their keys and never by their side).
Symmetric == (List \/ Tree3) => out.got = out.swapped

count(s, k) == Cardinality({i \in DOMAIN s : s[i] = k})

\* A clean Sequence loses no insertion and brings nothing back: a key the
\* base does not have is there at least as often as on the side that has it
\* most and at most as often as on both together, and a key both sides
\* deleted is gone.
InsertionsLand ==
  (List /\ Clean(out.got)) =>
    \A k \in ToSet(in.b) \cup ToSet(in.o) \cup ToSet(in.t) :
      LET n == count(out.got.value, k)
          o == count(in.o, k)
          t == count(in.t, k)
      IN /\ count(in.b, k) = 0 => n \in Max({o, t}) .. o + t
         /\ (o = 0 /\ t = 0) => n = 0

\* Tree merges objects field by field before it compares them; where two of
\* the three are equal that yields what comparing them first would: the other
\* side whole, without a conflict (the comment on mergeNode, and doc.go's
\* "returns a side unchanged when the other side made no change").
SameAsComparing ==
  (Tree3 /\ ~ \E n \in {in.b, in.o, in.t} : deeper(n, MaxDepth)) =>
    /\ in.o = in.t => out.got = Result(in.o, {}, {})
    /\ in.o = in.b => out.got = Result(in.t, {}, {})
    /\ in.t = in.b => out.got = Result(in.o, {}, {})

RECURSIVE look(_, _)
look(n, path) == IF path = <<>> \/ n.kind # "object" THEN n
                 ELSE look(fieldOf(n, Head(path)), Tail(path))

\* A conflict is located where it is and the value keeps the base there: at
\* every conflicting path of objects the merged tree holds what the base
\* holds, whatever merged around it.
ConflictKeepsBase ==
  Tree3 => \A c \in out.got.conflicts :
             look(in.b, c).kind # "array" => look(out.got.value, c) = look(in.b, c)

\* A counter both sides moved, to different numbers, is the base plus both
\* deltas (doc.go, of the counter paths of a tree).  Sides that agree are
\* taken as they are before the path is looked up, so two equal increments
\* count once.
TreeCounterAdds ==
  Tree3 => \A p \in CounterPaths :
    LET b == look(in.b, p)
        o == look(in.o, p)
        t == look(in.t, p)
    IN (/\ Clean(out.got) /\ o # t
        /\ \A n \in {b, o, t} : n.kind = "number" /\ n.whole)
         => look(out.got.value, p) = Num(Counter(b.num, o.num, t.num))
=============================================================================
