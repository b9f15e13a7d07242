----------------------------- MODULE GroupCommit -----------------------------
(***************************************************************************)
(* How a branch's transactions are published (engine/txn.go begin and      *)
(* Commit; engine/queue.go run, publish, attempt, mayWrite).  The calls in *)
(* line are taken a batch at a time by one leader (module CommitQueue).    *)
(* An attempt reads the working set, applies each member to what the ones  *)
(* before it made, and swaps the result in once; a swap lost to another    *)
(* writer starts over, MaxAttempts times.  Sessions' own calls and other   *)
(* processes are Elsewhere: they move the working set at any moment.       *)
(***************************************************************************)
EXTENDS TxnOnto, Lines, Functions

CONSTANTS
    Txns,         \* transactions, each used once
    MaxBatch,     \* maxBatch
    MaxAttempts,  \* maxCommitAttempts
    Domain,       \* the namespaces transactions make of their snapshots
    Others,       \* the ones other writers make
    First,        \* the working namespace to start from
    Grants,       \* the rights a principal may have, a subset of Rights
    NoMoment      \* see SnapshotCommit

\* A principal's grants on the branch: to read it, to write it, and the
\* paths it may write.
Rights == [read : BOOLEAN, write : BOOLEAN, paths : SUBSET Paths]

ASSUME BatchAssumption == MaxBatch \in Nat \ {0}
ASSUME AttemptsAssumption == MaxAttempts \in Nat \ {0}
ASSUME DomainAssumption == Domain \cup Others \cup {First} \subseteq Namespaces
ASSUME GrantsAssumption == Grants \subseteq Rights

VARIABLES
    ws, merging,  \* the branch's working set: its namespace, ws.Merge # nil
    may,          \* by transaction: the grants of its session's principal
    base, ours,   \* by transaction: Txn.base, and queued.ours
    state,        \* by transaction: where its call is, or what it was told
    line,         \* branchQueue.waiting
    pc,           \* the leader's: "idle", "read" or "apply"
    batch,        \* the calls it took
    attempts,     \* the swaps it lost
    cur, w,       \* the namespace it read, and what it makes of it
    i,            \* the member it applies next
    readers,      \* the members allowed to read the branch
    errs,         \* by member: its failure, or "nil"
    g,            \* granted: what the members were allowed
    chain,        \* ghost: the members applied, as [t, before, after]
    log,          \* ghost: the commits that took effect, in their order
    began,        \* ghost: by transaction, log's length at its Begin
    held          \* ghost: by transaction, the rights it had while it committed

branchVars == <<ws, merging>>
txnVars == <<may, held, base, ours, began>>
attemptVars == <<cur, w, i, readers, errs, g, chain>>
vars == <<ws, merging, may, base, ours, state, line, pc, batch, attempts,
          cur, w, i, readers, errs, g, chain, log, began, held>>

Members == Range(batch)

NoGrants == [write |-> FALSE, paths |-> {}]

Init ==
    /\ ws = First
    /\ merging = FALSE
    /\ may \in [Txns -> Grants]
    /\ held = may
    /\ base = [t \in Txns |-> First]
    /\ ours = [t \in Txns |-> First]
    /\ state = [t \in Txns |-> "new"]
    /\ line = <<>>
    /\ pc = "idle"
    /\ batch = <<>>
    /\ attempts = 0
    /\ cur = First
    /\ w = First
    /\ i = 1
    /\ readers = {}
    /\ errs = [t \in Txns |-> "nil"]
    /\ g = NoGrants
    /\ chain = <<>>
    /\ log = <<>>
    /\ began = [t \in Txns |-> 0]

-----------------------------------------------------------------------------
\* begin: refused mid-merge, and to a principal that may not read.
Begin(t) ==
    /\ state[t] = "new"
    /\ may[t].read
    /\ ~merging
    /\ base' = [base EXCEPT ![t] = ws]
    /\ state' = [state EXCEPT ![t] = "open"]
    /\ began' = [began EXCEPT ![t] = Len(log)]
    /\ UNCHANGED <<ws, merging, may, held, ours, line, pc, batch, attempts, attemptVars, log>>

\* Rollback, or a Commit that fails before it is queued.
Abandon(t) ==
    /\ state[t] = "open"
    /\ state' = [state EXCEPT ![t] = "failed"]
    /\ UNCHANGED <<branchVars, txnVars, line, pc, batch, attempts, attemptVars, log>>

\* Txn.Commit: its handles made the namespace n of its snapshot.
Commit(t, n) ==
    /\ state[t] = "open"
    /\ ours' = [ours EXCEPT ![t] = n]
    /\ \/ /\ n = base[t]
          /\ state' = [state EXCEPT ![t] = "empty"]
          /\ UNCHANGED line
       \/ /\ n # base[t]
          /\ state' = [state EXCEPT ![t] = "committing"]
          /\ line' = Append(line, t)
    /\ held' = [held EXCEPT ![t] = may[t]]
    /\ UNCHANGED <<branchVars, may, base, began, pc, batch, attempts, attemptVars, log>>

\* enqueue's ctx case, for a call no leader took: out of the queue.
Cancel(t) ==
    /\ t \in Range(line)
    /\ line' = Without(line, t)
    /\ state' = [state EXCEPT ![t] = "failed"]
    /\ UNCHANGED <<branchVars, txnVars, pc, batch, attempts, attemptVars, log>>

\* take: the calls in line, at most MaxBatch of them.
Take ==
    /\ pc = "idle"
    /\ line # <<>>
    /\ LET n == IF Len(line) < MaxBatch THEN Len(line) ELSE MaxBatch
       IN  /\ batch' = SubSeq(line, 1, n)
           /\ line' = SubSeq(line, n + 1, Len(line))
    /\ pc' = "read"
    /\ attempts' = 0
    /\ UNCHANGED <<branchVars, txnVars, state, attemptVars, log>>

-----------------------------------------------------------------------------
\* run's end: every member is told its own outcome, and what the attempt
\* made of the working set is dropped.
Told(e) ==
    [t \in Txns |-> IF t \notin Members THEN state[t]
                    ELSE IF e[t] = "nil" THEN "ok" ELSE e[t]]

Answer(e) ==
    /\ state' = Told(e)
    /\ pc' = "idle"
    /\ batch' = <<>>
    /\ attempts' = 0
    /\ cur' = First
    /\ w' = First
    /\ i' = 1
    /\ readers' = {}
    /\ errs' = [t \in Txns |-> "nil"]
    /\ g' = NoGrants
    /\ chain' = <<>>
    /\ UNCHANGED <<merging, txnVars, line>>

\* failAll: the members not refused for their own sake fail together.
FailAll(e, err) ==
    [t \in Txns |-> IF t \in Members /\ e[t] = "nil" THEN err ELSE e[t]]

\* attempt's first loop: each member must be allowed to read the branch; the
\* check fails those of gone (a context that ended, an authorizer's error).
\* What an earlier attempt said is forgotten.
ReadErrs(gone) ==
    [t \in Txns |-> IF t \in Members /\ ~may[t].read THEN "denied"
                    ELSE IF t \in gone THEN "failed" ELSE "nil"]

Readers(e) == {t \in Members : e[t] = "nil"}

\* The attempt ends before it reads: nobody may, or the read fails, or the
\* branch is mid-merge.
ReadNone(gone) ==
    /\ pc = "read"
    /\ Readers(ReadErrs(gone)) = {}
    /\ Answer(ReadErrs(gone))
    /\ UNCHANGED <<ws, log>>

ReadFails(gone) ==
    /\ pc = "read"
    /\ Readers(ReadErrs(gone)) # {}
    /\ Answer(FailAll(ReadErrs(gone), "failed"))
    /\ UNCHANGED <<ws, log>>

ReadMerging(gone) ==
    /\ pc = "read"
    /\ Readers(ReadErrs(gone)) # {}
    /\ merging
    /\ Answer(FailAll(ReadErrs(gone), "merging"))
    /\ UNCHANGED <<ws, log>>

Read(gone) ==
    /\ pc = "read"
    /\ Readers(ReadErrs(gone)) # {}
    /\ ~merging
    /\ pc' = "apply"
    /\ cur' = ws
    /\ w' = ws
    /\ i' = 1
    /\ readers' = Readers(ReadErrs(gone))
    /\ errs' = ReadErrs(gone)
    /\ g' = NoGrants
    /\ chain' = <<>>
    /\ UNCHANGED <<branchVars, txnVars, state, line, batch, attempts, log>>

-----------------------------------------------------------------------------
\* mayWrite's questions: the branch, and each path that differs.  The faulty
\* one asks the batch's authorizer, which allows what earlier members were.
MayWrite_Fault(t, from, to) ==
    /\ may[t].write \/ g.write
    /\ ChangedPaths(from, to) \subseteq may[t].paths \cup g.paths
MayWrite(t, from, to) ==
    /\ may[t].write
    /\ ChangedPaths(from, to) \subseteq may[t].paths

\* mayWrite's record of what it was allowed.
Allow_Fault(from, to) == [write |-> TRUE, paths |-> ChangedPaths(from, to)]
Allow(from, to) == [write |-> TRUE, paths |-> g.paths \cup ChangedPaths(from, to)]

\* attempt's second loop at member i: skipped when it failed already; else
\* applied, or failed for its own sake with the others untouched.
Skip ==
    /\ pc = "apply"
    /\ i <= Len(batch)
    /\ errs[batch[i]] # "nil"
    /\ i' = i + 1
    /\ UNCHANGED <<branchVars, txnVars, state, line, pc, batch, attempts,
                   cur, w, readers, errs, g, chain, log>>

Apply ==
    /\ pc = "apply"
    /\ i <= Len(batch)
    /\ LET t    == batch[i]
           next == Onto(base[t], ours[t], w)
       IN  /\ errs[t] = "nil"
           /\ next # Refused
           /\ MayWrite(t, w, next)
           /\ w' = next
           /\ g' = Allow(w, next)
           /\ chain' = Append(chain, [t |-> t, before |-> w, after |-> next])
    /\ i' = i + 1
    /\ UNCHANGED <<branchVars, txnVars, state, line, pc, batch, attempts,
                   cur, readers, errs, log>>

\* onto refuses it, or mayWrite does, or either fails (its own context ended,
\* a read failed).
Fail(t, err) ==
    \/ err = "failed"
    \/ /\ err = "serialization"
       /\ Onto(base[t], ours[t], w) = Refused
    \/ /\ err = "denied"
       /\ Onto(base[t], ours[t], w) # Refused
       /\ ~MayWrite(t, w, Onto(base[t], ours[t], w))

ApplyFails ==
    /\ pc = "apply"
    /\ i <= Len(batch)
    /\ errs[batch[i]] = "nil"
    /\ \E err \in {"failed", "serialization", "denied"} :
          /\ Fail(batch[i], err)
          /\ errs' = [errs EXCEPT ![batch[i]] = err]
    /\ i' = i + 1
    /\ UNCHANGED <<branchVars, txnVars, state, line, pc, batch, attempts,
                   cur, w, readers, g, chain, log>>

-----------------------------------------------------------------------------
\* Nothing to publish: no member applied, or together they changed nothing.
Unpublished ==
    /\ pc = "apply"
    /\ i > Len(batch)
    /\ chain = <<>> \/ w = cur
    /\ log' = log \o chain
    /\ Answer(errs)
    /\ UNCHANGED ws

Publishing ==
    /\ pc = "apply"
    /\ i > Len(batch)
    /\ chain # <<>>
    /\ w # cur

\* The core's questions at the swap, made as the first member that may read:
\* batchAuthorizer allows what is in g and asks the Authorizer the rest.
Lead == SelectSeq(batch, LAMBDA t : t \in readers)[1]

SwapAllowed ==
    /\ g.write \/ may[Lead].write
    /\ ChangedPaths(cur, w) \subseteq g.paths \cup may[Lead].paths

\* UpdateWorkingSet, a compare and swap of the whole working set; the faulty
\* one compares nothing.
Unmoved_Fault == ~merging
Unmoved == ws = cur /\ ~merging

Swap ==
    /\ Publishing
    /\ Unmoved
    /\ IF SwapAllowed
       THEN ws' = w /\ log' = log \o chain /\ Answer(errs)
       ELSE UNCHANGED <<ws, log>> /\ Answer(FailAll(errs, "denied"))

\* The swap fails in the core, having landed or not: nobody can tell.
SwapFails(landed) ==
    /\ Publishing
    /\ landed => Unmoved /\ SwapAllowed
    /\ ws' = IF landed THEN w ELSE ws
    /\ log' = IF landed THEN log \o chain ELSE log
    /\ Answer(FailAll(errs, "unknown"))

\* The swap is lost to another writer: the batch is rebuilt from the new root,
\* unless that was the last attempt.
Again == attempts + 1 < MaxAttempts

Counted_Fault(n) == n
Counted(n) == n + 1

Lost ==
    /\ Publishing
    /\ ~Unmoved
    /\ Again
    /\ attempts' = Counted(attempts)
    /\ pc' = "read"
    /\ UNCHANGED <<branchVars, txnVars, state, line, batch, attemptVars, log>>

\* publish's last loop; the faulty one leaves the outcomes of the attempt.
GivenUp_Fault(e) == e
GivenUp(e) == FailAll(e, "serialization")

GiveUp ==
    /\ Publishing
    /\ ~Unmoved
    /\ ~Again
    /\ Answer(GivenUp(errs))
    /\ UNCHANGED <<ws, log>>

-----------------------------------------------------------------------------
\* Another process, or a session's own call, moves the working set, or begins
\* or ends a merge.
Elsewhere(n, m) ==
    /\ ws' = n
    /\ merging' = m
    /\ UNCHANGED <<txnVars, state, line, pc, batch, attempts, attemptVars, log>>

\* The grants of a principal change: the Authorizer answers otherwise.
Regrant(t, r) ==
    /\ may' = [may EXCEPT ![t] = r]
    /\ held' = [held EXCEPT ![t] =
                  IF state[t] # "committing" THEN held[t]
                  ELSE [read  |-> held[t].read \/ r.read,
                        write |-> held[t].write \/ r.write,
                        paths |-> held[t].paths \cup r.paths]]
    /\ UNCHANGED <<branchVars, base, ours, began, state, line, pc, batch, attempts,
                   attemptVars, log>>

Leader ==
    \/ Take
    \/ \E gone \in SUBSET Members :
          ReadNone(gone) \/ ReadFails(gone) \/ ReadMerging(gone) \/ Read(gone)
    \/ Skip \/ Apply \/ ApplyFails
    \/ Unpublished \/ Swap \/ (\E landed \in BOOLEAN : SwapFails(landed))
    \/ Lost \/ GiveUp

Next ==
    \/ \E t \in Txns : Begin(t) \/ Abandon(t) \/ Cancel(t) \/ \E n \in Domain : Commit(t, n)
    \/ Leader
    \/ \E t \in Txns, r \in Grants : Regrant(t, r)
    \/ \E n \in Others, m \in BOOLEAN : Elsewhere(n, m)

Spec == Init /\ [][Next]_vars

\* The leader runs: CommitQueue hands the lead on whenever calls wait.
FairSpec == Spec /\ WF_vars(Leader)

-----------------------------------------------------------------------------
Entries == [t : Txns, before : Namespaces, after : Namespaces]

Refusals == {"serialization", "denied", "merging", "failed"}

Errors == Refusals \cup {"nil", "unknown"}

\* The working set and every namespace on the way to it are namespaces, an
\* attempt stays below maxCommitAttempts, and an outcome is one Commit returns.
TypeOK ==
    /\ ws \in Namespaces /\ merging \in BOOLEAN
    /\ may \in [Txns -> Rights] /\ held \in [Txns -> Rights]
    /\ base \in [Txns -> Namespaces] /\ ours \in [Txns -> Namespaces]
    /\ state \in [Txns -> Refusals \cup {"new", "open", "committing", "ok", "empty", "unknown"}]
    /\ line \in Seq(Txns) /\ batch \in Seq(Txns)
    /\ pc \in {"idle", "read", "apply"}
    /\ attempts \in 0..MaxAttempts - 1
    /\ cur \in Namespaces /\ w \in Namespaces
    /\ i \in 1..Len(batch) + 1
    /\ readers \subseteq Txns
    /\ errs \in [Txns -> Errors]
    /\ g \in [write : BOOLEAN, paths : SUBSET Paths]
    /\ chain \in Seq(Entries) /\ log \in Seq(Entries)
    /\ began \in [Txns -> Nat]

\* The moment of a Commit is its attempt's read of the working set.
Seen == [t \in Txns |-> IF pc = "apply" /\ t \in Members THEN cur ELSE NoMoment]

Promise == INSTANCE SnapshotCommit WITH seen <- Seen

(***************************************************************************)
(* The engine keeps SnapshotCommit's promise: whatever the batches, the    *)
(* retries and the writers elsewhere, commits take effect one after the    *)
(* other from a working set each of them saw, each applying exactly its    *)
(* writes by the commit rule; a member that failed leaves nothing behind   *)
(* in what the others publish.                                             *)
(***************************************************************************)
KeepsPromise == Promise!Spec

\* The times t's commit took effect.
Landings(t) == {k \in 1..Len(log) : log[k].t = t}

(***************************************************************************)
(* A Commit is told the truth: one told nil took effect, once; one told an *)
(* error never did and never will, except when the swap itself failed in   *)
(* the core.                                                               *)
(***************************************************************************)
ToldTruth ==
    \A t \in Txns :
       /\ state[t] = "ok" => \E k \in Landings(t) : Landings(t) = {k}
       /\ state[t] \notin {"ok", "unknown"} => Landings(t) = {}

(***************************************************************************)
(* The swap is made as one member, for all of them: everything the core    *)
(* asks at it has been asked of the members whose writes it carries        *)
(* (mayWrite's comment), so it is never refused for the leader's sake.     *)
(***************************************************************************)
SwapAsksNothingNew ==
    pc = "apply" => /\ ChangedPaths(cur, w) \subseteq g.paths
                    /\ chain # <<>> => g.write

(***************************************************************************)
(* Being published by another member widens nobody's grants: a commit that *)
(* takes effect changed only paths its own principal was allowed to write, *)
(* on a branch it was allowed to write, at a moment of its Commit.         *)
(***************************************************************************)
OwnGrantsOnly ==
    \A k \in 1..Len(log) :
       /\ held[log[k].t].write
       /\ ChangedPaths(log[k].before, log[k].after) \subseteq held[log[k].t].paths

(***************************************************************************)
(* Every Commit is answered, though other writers may move the working set *)
(* for ever: a batch gives up after maxCommitAttempts lost swaps.          *)
(***************************************************************************)
EveryCommitAnswered ==
    \A t \in Txns : state[t] = "committing" ~> state[t] # "committing"

\* The item x of p is one t wrote, a counter it moved aside.
WroteItem(t, p, x) ==
    /\ InPlace(base[t][p], ours[t][p])
    /\ x \in Written(base[t][p], ours[t][p])

(***************************************************************************)
(* First committer wins, as the documents state it (DESIGN D18: "An item   *)
(* both wrote is ErrSerialization, whatever the values"): of two           *)
(* transactions that wrote one item, a counter both moved aside, the one   *)
(* that began before the other's commit does not commit after it.          *)
(***************************************************************************)
FirstCommitterWins ==
    \A k \in 1..Len(log) : \A j \in 1..k - 1 :
       ~ /\ state[log[j].t] = "ok"
         /\ state[log[k].t] = "ok"
         /\ began[log[k].t] < j
         /\ \E p \in Paths, x \in Items : WroteItem(log[j].t, p, x) /\ WroteItem(log[k].t, p, x)

=============================================================================
