----------------------------- MODULE MCSessions -----------------------------
EXTENDS Sessions, TLC

CONSTANTS s1, s2, p1, p2, x, y

\* Two sessions of one Database, that do everything.
Together(aborters, closable) ==
    [processOf |-> [s \in Callers |-> p1], edits |-> {x, y}, managers |-> Callers,
     deletes |-> TRUE, aborters |-> aborters, closable |-> closable]
\* Each in a process of its own, s the one that makes branches.
Apart(s) ==
    [processOf |-> [o \in Callers |-> IF o = s THEN p1 ELSE p2], edits |-> {y}, managers |-> {s},
     deletes |-> FALSE, aborters |-> {}, closable |-> {}]

MCSettings == {Together(Callers, {p1})} \cup {Apart(s) : s \in Callers}
StayOpen == {Together(Callers, {})}

\* No name spells a hash, no tag.
Nothing == [n \in Names |-> 0]

\* x is inserted on main, y on dev, where they do not merge.
MCHome == [e \in Edits |-> IF e = x THEN "main" ELSE "dev"]
XYClash == {{x, y}}

Symmetry == Permutations(Callers)

=============================================================================
