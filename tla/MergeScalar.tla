---------------------------- MODULE MergeScalar ----------------------------
(***************************************************************************)
(* The result of a merge, src/merge/merge.go, and the merge of a scalar.   *)
(* A result is [value, conflicts, flagged] as merge.Result is; a conflict  *)
(* is its path, its wording left out.                                      *)
(***************************************************************************)
Result(v, cs, fs) == [value |-> v, conflicts |-> cs, flagged |-> fs]
Clean(r) == r.conflicts = {}

Scalar(base, ours, theirs) ==
  IF ours = theirs THEN Result(ours, {}, {})
  ELSE IF ours = base THEN Result(theirs, {}, {})
  ELSE IF theirs = base THEN Result(ours, {}, {})
  ELSE Result(base, {<<>>}, {})
=============================================================================
