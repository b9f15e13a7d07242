------------------------------ MODULE Sessions ------------------------------
(***************************************************************************)
(* Sessions on branches (engine/session.go, engine/database.go): checkout, *)
(* the making and deleting of branches, commit, and merge, whose work is a *)
(* row of calls to the core that other sessions, and other processes on    *)
(* the same store, may interleave with.                                    *)
(*                                                                         *)
(* A namespace is the set of insertions that made it, so a three-way merge *)
(* is their union; it conflicts where the sides hold insertions that       *)
(* Clash.  A commit is its number in commits.  The branch's commit queue   *)
(* (module CommitQueue) is the turn a process's queued calls take.  The    *)
(* core's calls are atomic: each ends in one swap of the repository root.  *)
(***************************************************************************)
EXTENDS Integers, Sequences

CONSTANTS
    Names,        \* what branches, tags and commit hashes are spelled as
    Main,         \* the branch of a new database
    Spells,       \* by name: the commit whose hash it spells in full, or 0
    Tag,          \* by name: the commit the tag of that name is at, or 0
    Callers,      \* sessions
    Edits, Clash, \* insertions; the pairs {e, f} that do not merge
    Home,         \* bound: by insertion, the branch it is made on
    Settings,     \* bound: the settings to look at, each a record of
                  \*   processOf: by session, the process whose Database it is of
                  \*   edits: the insertions made
                  \*   managers: the sessions that check out, close and make branches
                  \*   deletes: whether they delete branches too, all of one process
                  \*   aborters: the sessions that call AbortMerge
                  \*   closable: the processes that may close their Database
    MaxCommits    \* bound: commits ever made

ASSUME SessionsAssumption ==
    /\ Main \in Names /\ Spells \in [Names -> Nat] /\ Tag \in [Names -> 0..1]
    /\ MaxCommits \in Nat \ {0} /\ Clash \subseteq SUBSET Edits
    /\ "closed" \notin Names
    /\ \A g \in Settings :
          /\ g.edits \subseteq Edits
          /\ g.deletes => \A s, o \in Callers : g.processOf[s] = g.processOf[o]

VARIABLES
    setting,          \* one of Settings
    commits,          \* by number: [parents, tree]
    head,             \* by name: the branch's head, 0 when there is no branch
    work, merge,      \* by branch: WorkingSet.Working, and .Merge or NoMerge
    branch, hold,     \* by session: its branch, and the branch its co holds
    closed,           \* the processes whose Database was closed
    call,             \* by session: its Merge, or Idle: where it is, the ref or
                      \* the commit it merges, and its context, "live" or "done"
    told,             \* what a Merge returned with the last step; Quiet otherwise
    acked,            \* ghost: by branch, the insertions reported committed
    undone            \* ghost: sessions whose merge was aborted under them

vars == <<setting, commits, head, work, merge, branch, hold, closed, call, told, acked, undone>>
branchVars == <<commits, head, work, merge, acked, undone>>
sessionVars == <<branch, hold, closed>>

ProcessOf == setting.processOf

NoMerge == [theirs |-> 0]
Closed == "closed"
Idle == [pc |-> "idle"]
Quiet == [is |-> "quiet"]

Init ==
    /\ setting \in Settings
    /\ commits = <<[parents |-> {}, tree |-> {}]>>
    /\ head = [n \in Names |-> IF n = Main THEN 1 ELSE 0]
    /\ work = [n \in Names |-> {}]
    /\ merge = [n \in Names |-> NoMerge]
    /\ branch = [s \in Callers |-> Closed]
    /\ hold = [s \in Callers |-> Closed]
    /\ closed = {}
    /\ call = [s \in Callers |-> Idle]
    /\ told = Quiet
    /\ acked = [n \in Names |-> {}]
    /\ undone = {}

Branches == {n \in Names : head[n] # 0}

\* The commits c reaches, itself among them: those in every history that
\* holds c, a history being commits with their parents.
Histories(cs) == {h \in SUBSET DOMAIN cs : \A i \in h : cs[i].parents \subseteq h}
ReachedIn(cs, c) == {i \in DOMAIN cs : \A h \in Histories(cs) : c \in h => i \in h}
Reaches(c) == ReachedIn(commits, c)

\* ready: neither the session nor its database is closed.
ready(s) == branch[s] # Closed /\ ProcessOf[s] \notin closed

\* A session makes one call at a time.
Calls(s) == ready(s) /\ call[s] = Idle

\* A call that is done, or returns an error having changed nothing.
Refuse == told' = Quiet
Succeed == told' = Quiet

\* The commit a ref names: the commit whose hash it spells, when there is one,
\* else a branch's head, else a tag's commit; 0 when it names nothing.
resolve(ref) ==
    IF Spells[ref] \in 1..Len(commits) THEN Spells[ref]
    ELSE IF ref \in Branches THEN head[ref]
    ELSE Tag[ref]

-----------------------------------------------------------------------------
(* Sessions and branches.                                                  *)

\* Database.Session.
OpenSession(s, n) ==
    /\ branch[s] = Closed /\ ProcessOf[s] \notin closed
    /\ n \in Branches
    /\ branch' = [branch EXCEPT ![s] = n]
    /\ hold' = [hold EXCEPT ![s] = n]
    /\ Succeed
    /\ UNCHANGED <<closed, branchVars, call>>

\* Checkout that lets go of the session it has just stored.
Checkout_Fault(s, n) ==
    /\ Calls(s) /\ n \in Branches
    /\ branch' = [branch EXCEPT ![s] = n]
    /\ hold' = [hold EXCEPT ![s] = Closed]
    /\ Succeed
    /\ UNCHANGED <<closed, branchVars, call>>

\* Session.Checkout: the new branch is held before the old one is let go.
Checkout(s, n) ==
    /\ Calls(s)
    /\ IF n \in Branches
       THEN /\ branch' = [branch EXCEPT ![s] = n]
            /\ hold' = [hold EXCEPT ![s] = n]
            /\ Succeed
       ELSE Refuse /\ UNCHANGED <<branch, hold>>
    /\ UNCHANGED <<closed, branchVars, call>>

\* Session.Close; the session is not used again, another may be opened.
Close(s) ==
    /\ branch[s] # Closed /\ call[s] = Idle
    /\ branch' = [branch EXCEPT ![s] = Closed]
    /\ hold' = [hold EXCEPT ![s] = Closed]
    /\ Succeed
    /\ UNCHANGED <<closed, branchVars, call>>

\* Database.Close, which a call in flight may meet at its next step.
CloseDatabase(p) ==
    /\ p \notin closed
    /\ closed' = closed \cup {p}
    /\ Succeed
    /\ UNCHANGED <<branch, hold, branchVars, call>>

\* Session.CreateBranch; at is the session's branch when no ref is given.
CreateBranch(s, n, at) ==
    /\ Calls(s)
    /\ CASE resolve(at) = 0 ->
              Refuse /\ UNCHANGED <<head, work, merge, acked>>
         [] resolve(at) # 0 /\ n \in Branches ->
              Refuse /\ UNCHANGED <<head, work, merge, acked>>
         [] OTHER ->
              /\ Succeed
              /\ head' = [head EXCEPT ![n] = resolve(at)]
              /\ work' = [work EXCEPT ![n] = commits[resolve(at)].tree]
              /\ merge' = [merge EXCEPT ![n] = NoMerge]
              /\ acked' = [acked EXCEPT ![n] = {}]
    /\ UNCHANGED <<commits, branch, hold, closed, undone, call>>

\* Session.DeleteBranch: not its own, nor one another session holds.  The core
\* knows what the sessions of its own process hold.
DeleteBranch(s, n) ==
    /\ Calls(s)
    /\ IF n = branch[s] \/ n \notin Branches \/ \E o \in Callers : ProcessOf[o] = ProcessOf[s] /\ hold[o] = n
       THEN Refuse /\ UNCHANGED branchVars
       ELSE /\ head' = [head EXCEPT ![n] = 0]
            /\ work' = [work EXCEPT ![n] = {}]
            /\ merge' = [merge EXCEPT ![n] = NoMerge]
            /\ acked' = [acked EXCEPT ![n] = {}]
            /\ Succeed
            /\ UNCHANGED <<commits, undone>>
    /\ UNCHANGED <<sessionVars, call>>

-----------------------------------------------------------------------------
(* What takes its turn in the branch's commit queue.                       *)

\* enqueue: no call of s's process is at work on its branch.
Turn(s) ==
    /\ Calls(s)
    /\ \A o \in Callers \ {s} :
          ProcessOf[o] = ProcessOf[s] /\ branch[o] = branch[s] => call[o] = Idle

\* A transaction's commit that does not ask whether the branch is mid-merge.
TxnCommit_Fault(s, e) ==
    LET n == branch[s]
    IN  /\ Turn(s) /\ Home[e] = n /\ e \notin work[n]
        /\ work' = [work EXCEPT ![n] = @ \cup {e}]
        /\ acked' = [acked EXCEPT ![n] = @ \cup {e}]
        /\ Succeed
        /\ UNCHANGED <<commits, head, merge, undone, sessionVars, call>>

\* A transaction's commit: it inserts what the working set does not hold.
TxnCommit(s, e) ==
    LET n == branch[s]
    IN  /\ Turn(s) /\ Home[e] = n
        /\ \A f \in work[n] : f # e /\ {e, f} \notin Clash
        /\ IF merge[n] = NoMerge
           THEN /\ work' = [work EXCEPT ![n] = @ \cup {e}]
                /\ acked' = [acked EXCEPT ![n] = @ \cup {e}]
                /\ Succeed
           ELSE Refuse /\ UNCHANGED <<work, acked>>
        /\ UNCHANGED <<commits, head, merge, undone, sessionVars, call>>

\* CommitWorkingSet, of a working set with no conflict unresolved.
CommitWorkingSet(n) ==
    /\ commits' = Append(commits, [parents |-> {head[n], merge[n].theirs} \ {0},
                                   tree |-> work[n]])
    /\ head' = [head EXCEPT ![n] = Len(commits')]
    /\ merge' = [merge EXCEPT ![n] = NoMerge]
    /\ UNCHANGED <<work, acked>>

Unresolved(n) == merge[n] # NoMerge /\ merge[n].conflicts

\* Session.Commit.
Commit(s) ==
    LET n == branch[s]
    IN  /\ Turn(s) /\ Len(commits) < MaxCommits
        /\ IF Unresolved(n)
           THEN Refuse /\ UNCHANGED <<commits, head, work, merge, acked>>
           ELSE CommitWorkingSet(n) /\ Succeed
        /\ UNCHANGED <<undone, sessionVars, call>>

\* A step of Merge ends: the call returns what, or goes on with a commit.
Return(s, what) == told' = what /\ call' = [call EXCEPT ![s] = Idle]
GoOn(s, step) == call' = [call EXCEPT ![s].pc = step] /\ told' = Quiet

\* A step of Merge whose context is live and whose database is open.
At(s, step) ==
    /\ call[s].pc = step
    /\ call[s].ctx = "live" /\ ProcessOf[s] \notin closed

\* Merge in its turn: no merge may be in progress.
MergeStart(s, ref) ==
    /\ Turn(s)
    /\ IF merge[branch[s]] = NoMerge
       THEN /\ call' = [call EXCEPT ![s] = [pc |-> "resolve", of |-> ref, ctx |-> "live"]]
            /\ Succeed
       ELSE Return(s, Quiet)
    /\ undone' = undone \ {s}
    /\ UNCHANGED <<commits, head, work, merge, acked, sessionVars>>

MergeResolve(s) ==
    LET c == resolve(call[s].of)
    IN  /\ At(s, "resolve")
        /\ IF c = 0
           THEN Return(s, Quiet)
           ELSE call' = [call EXCEPT ![s].pc = "merge", ![s].of = c] /\ Succeed
        /\ UNCHANGED <<branchVars, sessionVars>>

\* The core's Merge: of a branch that is not mid-merge, with a commit it does
\* not hold, into the working set; a conflict leaves the branch mid-merge.
MergeApply(s) ==
    LET n == branch[s]
        tree == commits[call[s].of].tree
        conflicts == \E e \in work[n], f \in tree : {e, f} \in Clash
    IN  /\ At(s, "merge")
        /\ CASE merge[n] # NoMerge ->
                  Return(s, Quiet) /\ UNCHANGED <<work, merge>>
             [] merge[n] = NoMerge /\ call[s].of \in Reaches(head[n]) ->
                  GoOn(s, "reread") /\ UNCHANGED <<work, merge>>
             [] OTHER ->
                  /\ merge' = [merge EXCEPT ![n] = [theirs |-> call[s].of, conflicts |-> conflicts,
                                                    before |-> work[n], by |-> s]]
                  /\ work' = [work EXCEPT ![n] = IF conflicts THEN @ ELSE @ \cup tree]
                  /\ IF conflicts THEN Return(s, Quiet) ELSE GoOn(s, "reread")
        /\ UNCHANGED <<commits, head, acked, undone, sessionVars>>

\* A Merge that takes every clean merge for one with nothing to do.
MergeReread_Fault(s) ==
    /\ At(s, "reread")
    /\ GoOn(s, "head")
    /\ UNCHANGED <<branchVars, sessionVars>>

\* The working set again: no merge in it means that there was nothing to do.
MergeReread(s) ==
    /\ At(s, "reread")
    /\ GoOn(s, IF merge[branch[s]] = NoMerge THEN "head" ELSE "commit")
    /\ UNCHANGED <<branchVars, sessionVars>>

\* MergeResult of a clean merge, with what it is about.
Merged(s, c) ==
    [is |-> "merged", commit |-> c, theirs |-> call[s].of, undone |-> s \in undone]

MergeHead(s) ==
    /\ At(s, "head")
    /\ Return(s, Merged(s, head[branch[s]]))
    /\ UNCHANGED <<branchVars, sessionVars>>

MergeCommit(s) ==
    LET n == branch[s]
    IN  /\ At(s, "commit") /\ Len(commits) < MaxCommits
        /\ IF Unresolved(n)
           THEN GoOn(s, "abort") /\ UNCHANGED <<commits, head, work, merge, acked>>
           ELSE /\ CommitWorkingSet(n)
                /\ Return(s, Merged(s, Len(commits')))
        /\ UNCHANGED <<undone, sessionVars>>

\* The core's AbortMerge puts the working set back as it was before the merge.
Abort(n) ==
    /\ work' = [work EXCEPT ![n] = merge[n].before]
    /\ merge' = [merge EXCEPT ![n] = NoMerge]
    /\ undone' = undone \cup {o \in Callers : branch[o] = n /\ call[o].pc \in {"reread", "head", "commit"}}
    /\ UNCHANGED <<commits, head, acked>>

\* Merge undoes a merge it could not commit.
MergeAbort(s) ==
    /\ At(s, "abort")
    /\ IF merge[branch[s]] = NoMerge THEN UNCHANGED branchVars ELSE Abort(branch[s])
    /\ Return(s, [is |-> "failed", at |-> "aborted", by |-> s])
    /\ UNCHANGED sessionVars

\* A Merge that does not abort what it could not commit.
MergeFails_Fault(s) ==
    /\ call[s] # Idle
    /\ Return(s, [is |-> "failed", at |-> call[s].pc, by |-> s])
    /\ UNCHANGED <<branchVars, sessionVars>>

\* A step fails: its context ended, its database closed, or, but for the
\* abort, its principal is refused.  Merge returns the error, after trying to
\* abort when it was the commit that failed.
MergeFails(s) ==
    /\ call[s] # Idle
    /\ call[s].pc = "abort" => ~At(s, "abort")
    /\ IF call[s].pc = "commit"
       THEN GoOn(s, "abort")
       ELSE Return(s, [is |-> "failed", at |-> call[s].pc, by |-> s])
    /\ UNCHANGED <<branchVars, sessionVars>>

\* The context of a call ends.
Cancel(s) ==
    /\ call[s] # Idle /\ call[s].ctx = "live"
    /\ call' = [call EXCEPT ![s].ctx = "done"]
    /\ Succeed
    /\ UNCHANGED <<branchVars, sessionVars>>

\* Session.AbortMerge, which does not take a turn in the queue.
AbortMerge(s) ==
    /\ Calls(s)
    /\ IF merge[branch[s]] = NoMerge
       THEN Refuse /\ UNCHANGED branchVars
       ELSE Abort(branch[s]) /\ Succeed
    /\ UNCHANGED <<sessionVars, call>>

-----------------------------------------------------------------------------

Manage(s, n) ==
    \/ Checkout(s, n)
    \/ setting.deletes /\ DeleteBranch(s, n)
    \/ \E at \in Names : CreateBranch(s, n, at)

Step ==
    \/ \E s \in Callers :
          \/ \E n \in Names : OpenSession(s, n) \/ MergeStart(s, n)
          \/ s \in setting.managers /\ (Close(s) \/ \E n \in Names : Manage(s, n))
          \/ \E e \in setting.edits : TxnCommit(s, e)
          \/ s \in setting.aborters /\ AbortMerge(s)
          \/ Commit(s) \/ Cancel(s)
          \/ MergeResolve(s) \/ MergeApply(s) \/ MergeReread(s) \/ MergeHead(s)
          \/ MergeCommit(s) \/ MergeAbort(s) \/ MergeFails(s)
    \/ \E p \in setting.closable : CloseDatabase(p)

Next == Step /\ UNCHANGED setting
Spec == Init /\ [][Next]_vars

-----------------------------------------------------------------------------

\* A session's branch is not deleted from under it (Session.co, DESIGN D15),
\* whatever other sessions check out, close, create and delete meanwhile.
SessionOnBranch == \A s \in Callers : ready(s) => branch[s] \in Branches

\* What a transaction was told is committed stays in the branch's working set
\* through every merge, abort, commit and failure of every session.
NothingLost == \A n \in Branches : acked[n] \subseteq work[n]

\* A Merge that reports a commit and no conflict has from's commit in that
\* commit's history, unless the merge was aborted under it.
MergeHonest ==
    told.is = "merged" /\ ~told.undone => told.theirs \in Reaches(told.commit)

\* A Merge that failed before it touched the branch, had nothing to merge, or
\* could not commit and then aborted, leaves no merge of its making.
FailedMergeUndone ==
    told.is = "failed" /\ told.at \in {"resolve", "merge", "head", "commit", "aborted"}
    => merge[branch[told.by]] = NoMerge \/ merge[branch[told.by]].by # told.by

\* A branch mid-merge takes no transaction, no commit while conflicts are
\* unresolved, and no second merge: until the merge goes, nothing of the
\* branch changes.
MidMergeStill ==
    [][\A n \in Names : merge[n] # NoMerge /\ merge'[n] = merge[n]
                        => work'[n] = work[n] /\ head'[n] = head[n]]_vars

\* Merge's comment: "a commit the branch already holds merges to nothing and
\* returns the head"; what it reports as merged is held by the branch.
MergeMeansHeld == told.is = "merged" => told.theirs \in Reaches(told.commit)

=============================================================================
