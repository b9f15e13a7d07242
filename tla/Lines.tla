-------------------------------- MODULE Lines --------------------------------
(***************************************************************************)
(* The operation on a waiting line that the queue's models share.  It is   *)
(* written out, and not taken from SequencesExt, because that module would *)
(* add its whole library to every proof obligation about the queue.        *)
(***************************************************************************)
EXTENDS Integers, Sequences

\* slices.DeleteFunc in enqueue: s without the call c, which is in it at most
\* once; a line that does not hold c is left as it is.
Without(s, c) ==
    IF \E k \in 1..Len(s) : s[k] = c
    THEN LET k == CHOOSE k \in 1..Len(s) : s[k] = c
         IN  SubSeq(s, 1, k - 1) \o SubSeq(s, k + 1, Len(s))
    ELSE s

==============================================================================
