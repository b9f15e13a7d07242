------------------------------ MODULE MergeLib ------------------------------
(***************************************************************************)
(* The merge library, src/merge: Counter, Set, Sequence and Tree over a    *)
(* base and the two sides that grew from it.  Keys are integers that stand *)
(* for the key text by its order, and an array element is its Canonical    *)
(* text.                                                                   *)
(***************************************************************************)
EXTENDS MergeScalar, Integers, Sequences, FiniteSets, FiniteSetsExt, SequencesExt

CONSTANTS MaxSequenceEdits, MaxDepth,
          Int64Half       \* half the range of an int64: values are -h .. h-1

int64(x) == ((x + Int64Half) % (2 * Int64Half)) - Int64Half

\* base + (ours - base) + (theirs - base), each operation in 64 bits.
Counter(base, ours, theirs) ==
  int64(int64(base + int64(ours - base)) + int64(theirs - base))

\* Members are sets of tagged elements.
Set(base, ours, theirs) ==
  {t \in ours : t \in theirs \/ t \notin base} \cup {t \in theirs : t \notin base}

-----------------------------------------------------------------------------
(* The alignment: Myers' middle snake.  Positions are counted from zero as *)
(* in the code.  fwd and bwd are the arrays of one aligner, carried from   *)
(* one search to the next with what the last one left in them.             *)

At(s, i) == s[i + 1]

\* How far a run of matches goes, forward from (x, y) or backward from
\* before it, inside the corners given.
runOn(a, b, x, y, x1, y1) ==
  LET most == Min({x1 - x, y1 - y})
  IN Max({r \in 0 .. most : \A i \in 0 .. r - 1 : At(a, x + i) = At(b, y + i)} \cup {0})

runBack(a, b, x, y, x0, y0) ==
  LET most == Min({x - x0, y - y0})
  IN Max({r \in 0 .. most : \A i \in 1 .. r : At(a, x - i) = At(b, y - i)} \cup {0})

\* The x the path on diagonal k starts its run from, in round dd.
reach(v, off, dd, k) ==
  IF k # -dd /\ (k = dd \/ v[off + k - 1] >= v[off + k + 1])
    THEN v[off + k - 1] + 1
    ELSE v[off + k + 1]

RECURSIVE forward(_, _, _, _, _, _), backward(_, _, _, _, _, _)
\* One diagonal of a round: a run of r matches from x = bx on.
forwardFrom(p, off, fwd, bwd, dd, k, bx, r) ==
  LET n == p.x1 - p.x0
      delta == n - (p.y1 - p.y0)
      now == [fwd EXCEPT ![off + k] = bx + r]
  IN IF delta % 2 = 1 /\ delta - k \in 1 - dd .. dd - 1 /\ bx + r + bwd[off + delta - k] >= n
       THEN [d |-> 2 * dd - 1, sx |-> p.x0 + bx, sy |-> p.y0 + bx - k,
             ex |-> p.x0 + bx + r, ey |-> p.y0 + bx - k + r, fwd |-> now, bwd |-> bwd]
       ELSE forward(p, off, now, bwd, dd, k + 2)
backwardFrom(p, off, fwd, bwd, dd, k, bx, r) ==
  LET n == p.x1 - p.x0
      delta == n - (p.y1 - p.y0)
      now == [bwd EXCEPT ![off + k] = bx + r]
  IN IF delta % 2 = 0 /\ delta - k \in -dd .. dd /\ bx + r + fwd[off + delta - k] >= n
       THEN [d |-> 2 * dd, sx |-> p.x1 - bx - r, sy |-> p.y1 - bx + k - r,
             ex |-> p.x1 - bx, ey |-> p.y1 - bx + k, fwd |-> fwd, bwd |-> now]
       ELSE backward(p, off, fwd, now, dd, k + 2)
forward(p, off, fwd, bwd, dd, k) ==
  LET from(bx) == forwardFrom(p, off, fwd, bwd, dd, k, bx,
                              runOn(p.a, p.b, p.x0 + bx, p.y0 + bx - k, p.x1, p.y1))
  IN IF dd = off
       THEN [d |-> MaxSequenceEdits + 1, sx |-> 0, sy |-> 0, ex |-> 0, ey |-> 0,
             fwd |-> fwd, bwd |-> bwd]
     ELSE IF k > dd THEN backward(p, off, fwd, bwd, dd, -dd)
     ELSE from(reach(fwd, off, dd, k))
backward(p, off, fwd, bwd, dd, k) ==
  LET from(bx) == backwardFrom(p, off, fwd, bwd, dd, k, bx,
                               runBack(p.a, p.b, p.x1 - bx, p.y1 - bx + k, p.x0, p.y0))
  IN IF k > dd THEN forward(p, off, fwd, bwd, dd + 1, -(dd + 1))
     ELSE from(reach(bwd, off, dd, k))

\* The middle snake of one part p = [a, b, x0, x1, y0, y1] under aligner s.
middle(s, p) ==
  forward(p, s.off, [s.fwd EXCEPT ![s.off + 1] = 0], [s.bwd EXCEPT ![s.off + 1] = 0], 0, 0)

\* out with the run of r matches from (x, y) on set.
matched(out, x, y, r) == [i \in DOMAIN out |-> IF i \in x .. x + r - 1 THEN y + i - x ELSE out[i]]

RECURSIVE diff(_, _, _)
\* The parts on either side of a middle snake, the left one first.
split(s, p, limit, mid) ==
  LET right(left) == IF ~left.ok THEN left
                     ELSE diff(left, [p EXCEPT !.x0 = mid.ex, !.y0 = mid.ey], mid.d)
  IN IF mid.d > limit THEN [s EXCEPT !.ok = FALSE]
     ELSE right(diff([s EXCEPT !.fwd = mid.fwd, !.bwd = mid.bwd,
                               !.out = matched(@, mid.sx, mid.sy, mid.ex - mid.sx)],
                     [p EXCEPT !.x1 = mid.sx, !.y1 = mid.sy], mid.d))

\* A part whose first pre and last post keys match.
trimmed(s, q, limit, pre, post) ==
  LET p == [q EXCEPT !.x0 = @ + pre, !.x1 = @ - post, !.y0 = @ + pre, !.y1 = @ - post]
      ends == [s EXCEPT !.out = matched(matched(@, q.x0, q.y0, pre), q.x1 - post, q.y1 - post, post)]
  IN IF p.x0 = p.x1 \/ p.y0 = p.y1 THEN ends
     ELSE split(ends, p, limit, middle(ends, p))

diff(s, q, limit) ==
  LET from(pre) == trimmed(s, q, limit, pre, runBack(q.a, q.b, q.x1, q.y1, q.x0 + pre, q.y0 + pre))
  IN from(runOn(q.a, q.b, q.x0, q.y0, q.x1, q.y1))

\* The arrays sized for half the edits rounded down.
align_Fault(base, side) ==
  LET half == Min({Len(base) + Len(side), MaxSequenceEdits}) \div 2
      off == half + 1
      zeros == [i \in 0 .. 2 * off |-> 0]
  IN diff([out |-> [i \in 0 .. Len(base) - 1 |-> -1], fwd |-> zeros, bwd |-> zeros,
           off |-> off, ok |-> TRUE],
          [a |-> base, b |-> side, x0 |-> 0, x1 |-> Len(base), y0 |-> 0, y1 |-> Len(side)],
          MaxSequenceEdits)

\* For each base position the side position it is matched to, or -1.
align(base, side) ==
  LET half == (Min({Len(base) + Len(side), MaxSequenceEdits}) + 1) \div 2
      off == half + 1
      zeros == [i \in 0 .. 2 * off |-> 0]
  IN diff([out |-> [i \in 0 .. Len(base) - 1 |-> -1], fwd |-> zeros, bwd |-> zeros,
           off |-> off, ok |-> TRUE],
          [a |-> base, b |-> side, x0 |-> 0, x1 |-> Len(base), y0 |-> 0, y1 |-> Len(side)],
          MaxSequenceEdits)

-----------------------------------------------------------------------------
(* Sequence: diff3 over the two alignments.                                *)

\* The blocks ordered by length before keys: not total on distinct blocks.
lessKeys_Fault(a, b) == Len(a) <= Len(b)

lessKeys(a, b) ==
  LET differ == {i \in 1 .. Min({Len(a), Len(b)}) : a[i] # b[i]}
  IN IF differ = {} THEN Len(a) < Len(b) ELSE a[Min(differ)] < b[Min(differ)]

\* A side that left its stretch alone wins over the change.
resolve_Fault(r, b, o, t) ==
  IF o = b \/ t = b \/ o = t THEN [r EXCEPT !.value = @ \o o]
  ELSE [r EXCEPT !.value = @ \o b, !.conflicts = @ \cup {<<Len(r.value)>>}]

\* One unstable stretch, appended to the result so far.
resolve(r, b, o, t) ==
  IF o = b THEN [r EXCEPT !.value = @ \o t]
  ELSE IF t = b \/ o = t THEN [r EXCEPT !.value = @ \o o]
  ELSE IF b = <<>>
    THEN [r EXCEPT !.value = @ \o (IF lessKeys(o, t) THEN o \o t ELSE t \o o),
                   !.flagged = @ \cup {<<Len(r.value)>>}]
    ELSE [r EXCEPT !.value = @ \o b, !.conflicts = @ \cup {<<Len(r.value)>>}]

\* base, ours and theirs from positions i, j and k on.
RECURSIVE stretches(_, _, _, _, _, _, _, _, _)
stretches(r, base, ours, theirs, mo, mt, i, j, k) ==
  LET shared == {s \in i .. Len(base) - 1 : mo[s] >= 0 /\ mt[s] >= 0}
      s == Min(shared \cup {Len(base)})
      oj == IF shared = {} THEN Len(ours) ELSE mo[s]
      tk == IF shared = {} THEN Len(theirs) ELSE mt[s]
      done == resolve(r, SubSeq(base, i + 1, s), SubSeq(ours, j + 1, oj), SubSeq(theirs, k + 1, tk))
  IN IF shared = {} THEN done
     ELSE stretches([done EXCEPT !.value = Append(@, At(ours, oj))],
                    base, ours, theirs, mo, mt, s + 1, oj + 1, tk + 1)

\* The two alignments woven into one result; one refused is a conflict.
woven(base, ours, theirs, mo, mt) ==
  IF ~mo.ok \/ ~mt.ok THEN Result(base, {<<>>}, {})
  ELSE stretches(Result(<<>>, {}, {}), base, ours, theirs, mo.out, mt.out, 0, 0, 0)

Sequence(base, ours, theirs) ==
  IF theirs = base \/ ours = theirs THEN Result(ours, {}, {})
  ELSE IF ours = base THEN Result(theirs, {}, {})
  ELSE woven(base, ours, theirs, align(base, ours), align(base, theirs))

-----------------------------------------------------------------------------
(* Tree.  A node is Null, a Number (num, and whether its text is an        *)
(* integer's), an Array of keys or an Object: a function from its field    *)
(* names to nodes.  Nil is the nil node.                                   *)

Nil == [kind |-> "absent"]
Null == [kind |-> "null"]
Num(n) == [kind |-> "number", num |-> n, whole |-> TRUE]
Fraction(n) == [kind |-> "number", num |-> n, whole |-> FALSE]
Arr(ks) == [kind |-> "array", elems |-> ks]
Obj(fs) == [kind |-> "object", fields |-> fs]

\* A field that is not there read as null.
fieldOf_Fault(n, f) == IF n # Nil /\ f \in DOMAIN n.fields THEN n.fields[f] ELSE Null

fieldOf(n, f) == IF n # Nil /\ f \in DOMAIN n.fields THEN n.fields[f] ELSE Nil
names(n) == IF n = Nil THEN {} ELSE DOMAIN n.fields

RECURSIVE deeper(_, _)
deeper(n, limit) ==
  /\ n.kind \in {"array", "object"}
  /\ limit > 0 => /\ n.kind = "object"
                  /\ \E f \in DOMAIN n.fields : deeper(n.fields[f], limit - 1)

\* base, ours and theirs are numbers, or base is absent and counts from zero.
mergeCounter(path, b, o, t) ==
  IF (b # Nil /\ ~b.whole) \/ ~o.whole \/ ~t.whole
    THEN Result(b, {path}, {})
    ELSE Result(Num(Counter(IF b = Nil THEN 0 ELSE b.num, o.num, t.num)), {}, {})

under(path, r) == [r EXCEPT !.conflicts = {path \o c : c \in @},
                            !.flagged = {path \o c : c \in @}]

\* A field's deletion kept as the base had it: conflicts lose their value.
mergeFields_Fault(merged) ==
  LET kept == {f \in DOMAIN merged : merged[f].value # Nil /\ merged[f].conflicts = {}}
  IN Result(Obj([f \in kept |-> merged[f].value]),
            UNION {merged[f].conflicts : f \in DOMAIN merged},
            UNION {merged[f].flagged : f \in DOMAIN merged})

\* The fields of two objects merged name by name, given what each came to.
mergeFields(merged) ==
  LET kept == {f \in DOMAIN merged : merged[f].value # Nil}
  IN Result(Obj([f \in kept |-> merged[f].value]),
            UNION {merged[f].conflicts : f \in DOMAIN merged},
            UNION {merged[f].flagged : f \in DOMAIN merged})

\* counters is the set of paths TreeOptions.Counter accepts.
RECURSIVE mergeNode(_, _, _, _, _)
mergeNode(path, b, o, t, counters) ==
  IF o.kind = "object" /\ t.kind = "object" /\ b.kind \in {"absent", "object"}
    THEN mergeFields([f \in names(b) \cup names(o) \cup names(t) |->
           mergeNode(Append(path, f), fieldOf(b, f), fieldOf(o, f), fieldOf(t, f), counters)])
  ELSE IF o = t THEN Result(o, {}, {})
  ELSE IF o = b THEN Result(t, {}, {})
  ELSE IF t = b THEN Result(o, {}, {})
  ELSE IF o = Nil \/ t = Nil THEN Result(b, {path}, {})
  ELSE IF o.kind = "number" /\ t.kind = "number" /\ b.kind \in {"absent", "number"}
          /\ path \in counters
    THEN mergeCounter(path, b, o, t)
  ELSE IF o.kind = "array" /\ t.kind = "array" /\ b.kind = "array"
    THEN LET r == Sequence(b.elems, o.elems, t.elems)
         IN under(path, [r EXCEPT !.value = Arr(@)])
  ELSE Result(b, {path}, {})

Tree(base, ours, theirs, counters) ==
  IF \E n \in {base, ours, theirs} : deeper(n, MaxDepth)
    THEN Result(base, {<<>>}, {})
    ELSE mergeNode(<<>>, base, ours, theirs, counters)

=============================================================================
