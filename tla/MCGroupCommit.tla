---------------------------- MODULE MCGroupCommit ----------------------------
EXTENDS GroupCommit, TLC

CONSTANTS t1, t2, t3

C(n) == [kind |-> "counter", val |-> n]
B(n) == [kind |-> "bytes", val |-> n]

\* Path 1 holds a map with a counter, path 2 a collection with a record.
Space(n, m) == << [model |-> "kv", schema |-> NoSchema, items |-> <<C(n)>>],
                  [model |-> "document", schema |-> NoSchema, items |-> <<B(m)>>] >>

MCFirst == Space(0, 0)

MCDomain == {Space(n, m) : n, m \in {0, 1}}

\* Fewer, for three transactions: either path moved or neither.
FewDomain == {Space(0, 0), Space(1, 0), Space(0, 1)}

FewOthers == {Space(1, 0)}

\* Other writers move both paths, or put them back.
MCOthers == {Space(0, 0), Space(1, 1)}

\* One record, changed and put back.
OneRecord == {Space(0, 0), Space(0, 1)}

Full == [read |-> TRUE, write |-> TRUE, paths |-> Paths]

AllFull == {Full}

\* Principals that may do everything, not write path 2, not write at all, not
\* read the branch.
Mixed == {Full,
          [read |-> TRUE, write |-> TRUE, paths |-> {1}],
          [read |-> TRUE, write |-> FALSE, paths |-> Paths],
          [read |-> FALSE, write |-> FALSE, paths |-> {}]}

Symmetry == Permutations(Txns)

=============================================================================
