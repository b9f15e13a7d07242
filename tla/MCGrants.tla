------------------------------ MODULE MCGrants ------------------------------
EXTENDS Grants

main == <<"main">>
dev == <<"dev">>
t == <<"t">>
tu == <<"t", "u">>

MCBranches == {main, dev}
\* A table, and an object whose path holds a colon.
MCPaths == {t, tu}
\* One at a time, none, and two that only the database takes together.
MCPermSets == {{k} : k \in Permissions} \cup {{}, {"write", "admin"}}
\* A transaction and a read of the object, and a merge, on main.
MCCalls == {qs \in Questions : Len(qs) > 1 /\ \A i \in 1..Len(qs) : qs[i].resource[2] = "main" /\ Len(qs[i].resource) # 3}
\* The database, the branches, an object of one; a scope without its branch
\* and one whose branch holds a colon, both refused.
MCScopes ==
    {Database, BranchScope(main), BranchScope(dev),
     [branch |-> main, object |-> tu],
     [branch |-> Unnamed, object |-> t], BranchScope(<<"a", "b">>)}

=============================================================================
