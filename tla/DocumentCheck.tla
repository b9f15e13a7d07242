--------------------------- MODULE DocumentCheck ---------------------------
(***************************************************************************)
(* The document model over bounded inputs: the three frames of a record    *)
(* both branches changed, and the locations of a conflict.                 *)
(***************************************************************************)
EXTENDS DocumentMerge

CONSTANTS Records,        \* frames a record may have
          Bytes, MaxLoc   \* the bytes a location is made of, and its length

VARIABLES in, out
vars == <<in, out>>
None == [told |-> FALSE]
Strings(n) == UNION {[1 .. k -> Bytes] : k \in 0 .. n}

Init == /\ in \in {[what |-> "record", b |-> b, o |-> o, t |-> t] :
                     b \in Records, o \in Records, t \in Records}
                  \cup [what : {"place"}, loc : Strings(MaxLoc)]
        /\ in.what = "record" => in.o # in.b /\ in.t # in.b
        /\ out = None

Decide == /\ in.what = "record" /\ out = None
          /\ out' = [told |-> TRUE, got |-> decide(in.b, in.o, in.t)]
          /\ UNCHANGED in

Parse == /\ in.what = "place" /\ out = None
         /\ out' = [told |-> TRUE, doc |-> ParseLocation(in.loc), kv |-> ParseKVLocation(in.loc)]
         /\ UNCHANGED in

Next == Decide \/ Parse
Spec == Init /\ [][Next]_vars

Decided == in.what = "record" /\ out # None
Parsed == in.what = "place" /\ out # None
Stored == Decided /\ \A f \in {in.b, in.o, in.t} : f = Nil \/ f.format = Format
-----------------------------------------------------------------------------
\* A place has one spelling: a location that parses is the one Locate (kv:
\* Location) writes for what it parsed to, and an id or key never runs into
\* what is below it: every id and path comes back from its own location.
OneSpelling ==
  Parsed =>
    /\ \A p \in out.doc : Locate(p.id, p.path) = in.loc
    /\ \A p \in out.kv : Location(p.key, p.sub) = in.loc
    /\ \A id \in Strings(MaxIDSize) \ {<<>>} : \A a \in Strings(1) :
         /\ Locate(id, <<a>>) = in.loc => out.doc = {[id |-> id, path |-> <<a>>]}
         /\ Location(id, a) = in.loc => out.kv = {[key |-> id, sub |-> a]}

\* A merge of records this model stored fails only for the length of its
\* text: merging by field never nests deeper than a side and never meets a
\* record it cannot read, and a record it puts can be read back.
MergedIsDocument ==
  Stored => /\ out.got.did = "put" => out.got.value = Nil \/ EncodeRecord(out.got.value.node) = out.got.value
            /\ out.got.did = "error" =>
                 textLen(in.o.node) + textLen(in.t.node) > MaxDocument
=============================================================================
