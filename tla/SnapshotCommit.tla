--------------------------- MODULE SnapshotCommit ---------------------------
(***************************************************************************)
(* What the engine promises of a branch's transactions: each reads the     *)
(* working set of its Begin, and commits by applying what it wrote to the  *)
(* working set of one moment of its Commit, all of it or, told an error,   *)
(* none.  Commits take effect one after the other, in the order of log.    *)
(* How the engine batches them, retries a swap or merges is not visible    *)
(* here.                                                                   *)
(***************************************************************************)
EXTENDS CommitRule, Sequences

CONSTANTS
    Txns,       \* transactions, each used once
    First,      \* the working namespace to start from
    NoMoment    \* a Commit that has looked at no working set yet

VARIABLES
    ws,         \* the branch's working namespace
    base,       \* by transaction: the namespace of its Begin
    ours,       \* by transaction: that namespace with its writes
    state,      \* by transaction: see States
    seen,       \* by transaction: the namespace its Commit last looked at
    log         \* the commits that took effect: [t, before, after]

svars == <<ws, base, ours, state, seen, log>>

\* What a Commit that did not take effect is told.
Refusals == {"serialization", "denied", "merging", "failed"}

States == {"new", "open", "committing", "ok", "empty", "unknown"} \cup Refusals

Init ==
    /\ ws = First
    /\ base = [t \in Txns |-> First]
    /\ ours = [t \in Txns |-> First]
    /\ state = [t \in Txns |-> "new"]
    /\ seen = [t \in Txns |-> NoMoment]
    /\ log = <<>>

Begin(t) ==
    /\ state[t] = "new"
    /\ state' = [state EXCEPT ![t] = "open"]
    /\ base' = [base EXCEPT ![t] = ws]
    /\ UNCHANGED <<ws, ours, seen, log>>

Abandon(t) ==
    /\ state[t] = "open"
    /\ state' = [state EXCEPT ![t] = "failed"]
    /\ UNCHANGED <<ws, base, ours, seen, log>>

\* Commit is called; one that wrote nothing is done.
Commit(t) ==
    /\ state[t] = "open"
    /\ ours'[t] \in Namespaces
    /\ ours' = [ours EXCEPT ![t] = ours'[t]]
    /\ state' = [state EXCEPT ![t] = IF ours'[t] = base[t] THEN "empty" ELSE "committing"]
    /\ UNCHANGED <<ws, base, seen, log>>

Committing == {t \in Txns : state[t] = "committing"}

\* The Commits of T look at the working set, or drop what they saw.
Look(T) ==
    /\ seen' = [t \in Txns |-> IF t \in T THEN ws ELSE seen[t]]
    /\ UNCHANGED <<ws, base, ours, state, log>>

Forget(T) ==
    /\ seen' = [t \in Txns |-> IF t \in T THEN NoMoment ELSE seen[t]]
    /\ UNCHANGED <<ws, base, ours, state, log>>

Landed == {k \in DOMAIN log' : k > Len(log)}

\* The commits that now take effect follow each other from the namespace
\* they all saw, each applying its writes by the commit rule.
Chained(T) ==
    /\ Len(log) <= Len(log')
    /\ \A k \in 1..Len(log) : log'[k] = log[k]
    /\ \A k \in Landed :
          LET e == log'[k] IN
          /\ e.t \in T
          /\ e.after = Applied(base[e.t], ours[e.t], e.before)
          /\ e.after # Refused
          /\ e.before = IF k = Len(log) + 1 THEN seen[e.t] ELSE log'[k - 1].after
          /\ \A j \in Landed : log'[j].t = e.t => j = k

\* Their effect is the working set's, from the one they saw; or, when they
\* leave it as they saw it, none.
Effect ==
    LET from == log'[Len(log) + 1].before
        to   == log'[Len(log')].after
    IN  IF Landed = {} THEN ws' = ws
        ELSE \/ ws = from /\ ws' = to
             \/ to = from /\ ws' = ws

\* The Commits of T are answered, those that take effect "ok" or "unknown".
Settle(T) ==
    /\ T \subseteq Committing
    /\ Chained(T)
    /\ Effect
    /\ state' \in [Txns -> States]
    /\ \A t \in Txns \ T : state'[t] = state[t]
    /\ \A t \in T : IF \E k \in Landed : log'[k].t = t
                    THEN state'[t] \in {"ok", "unknown"}
                    ELSE state'[t] \in Refusals \cup {"unknown"}
    /\ seen' = [t \in Txns |-> IF t \in T THEN NoMoment ELSE seen[t]]
    /\ UNCHANGED <<base, ours>>

\* Another process, or a session's own call, moves the working set.
Elsewhere ==
    /\ ws' \in Namespaces
    /\ UNCHANGED <<base, ours, state, seen, log>>

Next ==
    \/ \E t \in Txns : Begin(t) \/ Abandon(t) \/ Commit(t)
    \/ \E T \in SUBSET Committing : Look(T) \/ Forget(T) \/ Settle(T)
    \/ Elsewhere

Spec == Init /\ [][Next]_svars

=============================================================================
