------------------------------ MODULE KVCheck ------------------------------
(***************************************************************************)
(* The key-value model over bounded inputs: a value a caller hands to      *)
(* MapEditor.Set, or the three frames of a key both branches changed.      *)
(***************************************************************************)
EXTENDS KVMerge

CONSTANTS Raw,            \* values as a caller may build them
          Stored          \* frames a key may hold

VARIABLES in, out
vars == <<in, out>>
None == [told |-> FALSE]

Init == /\ in \in [what : {"set"}, v : Raw]
                  \cup {[what |-> "key", b |-> b, o |-> o, t |-> t] :
                          b \in Stored, o \in Stored, t \in Stored}
        /\ in.what = "key" => in.o # in.b /\ in.t # in.b
        /\ out = None

\* MapEditor.Set encodes the value; a later read decodes what was stored.
SetValue == /\ in.what = "set" /\ out = None
            /\ out' = [told |-> TRUE, frame |-> EncodeValue(in.v), read |-> DecodeValue(in.v)]
            /\ UNCHANGED in

Decide == /\ in.what = "key" /\ out = None
          /\ out' = [told |-> TRUE, got |-> decide(in.b, in.o, in.t),
                     swapped |-> decide(in.b, in.t, in.o)]
          /\ UNCHANGED in

Next == SetValue \/ Decide
Spec == Init /\ [][Next]_vars

Encoded == in.what = "set" /\ out # None
Decided == in.what = "key" /\ out # None
InPlace == Decided /\ Nil \notin {in.b, in.o, in.t} /\ in.b.kind = in.o.kind /\ in.o.kind = in.t.kind
-----------------------------------------------------------------------------
\* A frame decodes exactly when it is the frame EncodeValue gives its own
\* value (the comment on DecodeValue: "every other byte string is refused"),
\* so equal values are equal bytes and a merge may compare frames.
FramesCanonical ==
  Encoded => /\ out.read # ErrValue <=> out.frame = in.v
             /\ out.frame # ErrValue => DecodeValue(out.frame) = out.frame

\* What a merge decides for a key does not depend on which side is ours.
DecideSymmetric == Decided => out.got = out.swapped

\* r has every change the side s made to the base b.
landed(b, s, r) ==
  CASE s.kind = "set" ->
         /\ toMembers(s) \ toMembers(b) \subseteq toMembers(r)
         /\ (toMembers(b) \ toMembers(s)) \cap toMembers(r) = {}
    [] s.kind = "hash" ->
         \A n \in DOMAIN b.fields \cup DOMAIN s.fields :
           fieldIn(s, n) # fieldIn(b, n) => fieldIn(r, n) = fieldIn(s, n)
    [] s.kind = "sorted" ->
         /\ scoredMembers(s) \ scoredMembers(b) \subseteq scoredMembers(r)
         /\ (scoredMembers(b) \ scoredMembers(s)) \cap scoredMembers(r) = {}
         /\ \A m \in scoredMembers(r) \cap scoredMembers(s) :
              scoreIn(s, m) # scoreIn(b, m) => scoreIn(r, m) = scoreIn(s, m)
    [] OTHER -> TRUE

\* A key changed in place on both sides and merged without a conflict holds
\* every change of either: a set or sorted set each tag added and none
\* removed, a hash each field and a sorted set each score as the side that
\* changed it left it, a counter both deltas, equal ones included.
ChangesLand ==
  (InPlace /\ out.got.did = "put") =>
    /\ landed(in.b, in.o, out.got.value)
    /\ landed(in.b, in.t, out.got.value)
    /\ in.o.kind = "counter" =>
         out.got.value.counter = int64(in.o.counter + in.t.counter - in.b.counter)
=============================================================================
