---------------------------- MODULE MCTxnObjects ----------------------------
EXTENDS TxnObjects

row1 == [k \in {1} |-> "a"]
\* The transaction begins on one object; the other names are free.
OneTable == [n \in Names |-> IF n = "t" THEN [kind |-> "table", schema |-> "indexed", rows |-> row1] ELSE NoObject]
OneKV == [n \in Names |-> IF n = "t" THEN [kind |-> "kv", schema |-> "plain", rows |-> row1] ELSE NoObject]

\* Objects made, dropped and made again under two names; a table altered and
\* its grant revoked, with values an index refuses; a table, and a map or a
\* collection, scanned, with writes while the scan goes on.
MCUses == {
    [base |-> OneTable, names |-> Names, keys |-> {1}, vals |-> {"a"}, kinds |-> {"kv"},
     guarded |-> {}, scans |-> FALSE, handles |-> 2],
    [base |-> OneTable, names |-> {"t"}, keys |-> {1}, vals |-> {"a", "long"}, kinds |-> {"table"},
     guarded |-> {"t"}, scans |-> FALSE, handles |-> 2],
    [base |-> OneTable, names |-> {"t"}, keys |-> {1, 2}, vals |-> {"a", "long"}, kinds |-> {"table"},
     guarded |-> {}, scans |-> TRUE, handles |-> 1],
    [base |-> OneKV, names |-> {"t"}, keys |-> {1, 2}, vals |-> {"a", "bad"}, kinds |-> {"collection"},
     guarded |-> {}, scans |-> TRUE, handles |-> 1]}
=============================================================================
