---------------------------- MODULE MCCommitQueue ----------------------------
(***************************************************************************)
(* CommitQueue for TLC: callers and queue objects are interchangeable.     *)
(***************************************************************************)
EXTENDS CommitQueue, TLC

Symmetry == Permutations(Callers) \cup Permutations(Queues)

=============================================================================
