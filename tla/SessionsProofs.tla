--------------------------- MODULE SessionsProofs ---------------------------
(***************************************************************************)
(* The safety of Sessions for every set of sessions, names, insertions and *)
(* settings, and every bound on commits.                                   *)
(*                                                                         *)
(* None of the properties is inductive alone.  That a reported insertion   *)
(* is never lost needs the working set an abort would put back (Kept);     *)
(* that a merge reported done is held, and a failed one undone, needs what *)
(* each step of Session.Merge may count on after the others of its branch  *)
(* have come between (Own, Landing); and all need that no branch goes away *)
(* under a session on it (Held).  The facts about ancestry rest on a       *)
(* commit's parents being commits, which a new commit never disturbs.      *)
(***************************************************************************)
EXTENDS Sessions, TLAPS

\* A Session.Merge under way: it looks its ref up first, and has a commit after.
MergeCall ==
    [pc : {"resolve"}, of : Names, ctx : {"live", "done"}]
    \cup [pc : {"merge", "reread", "head", "commit", "abort"}, of : DOMAIN commits, ctx : {"live", "done"}]

\* A merge in progress on a branch.
InProgress == [theirs : DOMAIN commits, conflicts : BOOLEAN, before : SUBSET Edits, by : Callers]

\* A session whose merge is under way is on a branch.
CallsOn == \A s \in Callers : call[s] # Idle => branch[s] # Closed

CommitRecord == [parents : SUBSET Nat, tree : SUBSET Edits]
CommitsOK == commits \in Seq(CommitRecord) /\ 1 \in DOMAIN commits
HeadOK == head \in [Names -> 0..Len(commits)]
WorkOK == work \in [Names -> SUBSET Edits] /\ acked \in [Names -> SUBSET Edits]
MergeOK == merge \in [Names -> {NoMerge} \cup InProgress]
OnOK == branch \in [Callers -> Names \cup {Closed}] /\ hold \in [Callers -> Names \cup {Closed}]
CallOK == call \in [Callers -> {Idle} \cup MergeCall]

TypeOK ==
    /\ setting \in Settings /\ undone \subseteq Callers
    /\ CommitsOK /\ HeadOK /\ WorkOK /\ MergeOK /\ OnOK /\ CallOK /\ CallsOn

\* A commit's parents are commits.
ParentsThere == \A i \in DOMAIN commits : commits[i].parents \subseteq DOMAIN commits

\* A session holds the branch it is on, and the branch is there.
Held ==
    \A s \in Callers :
        /\ hold[s] = branch[s]
        /\ branch[s] # Closed => branch[s] \in Branches

\* What is reported committed is in the working set, and in the one an abort
\* of the merge in progress would put back.
Kept ==
    \A n \in Names :
        /\ acked[n] \subseteq work[n]
        /\ merge[n] # NoMerge => acked[n] \subseteq merge[n].before

\* A call that has not merged yet, or merged nothing, has no merge on its branch.
Own ==
    \A s \in Callers : call[s].pc \in {"resolve", "merge", "head"} =>
        merge[branch[s]] = NoMerge \/ merge[branch[s]].by # s

\* What a call merged, and was not aborted under it, is in the history of its
\* branch or in the merge in progress there.
Landing ==
    \A s \in Callers : s \notin undone =>
        /\ call[s].pc = "head" => call[s].of \in Reaches(head[branch[s]])
        /\ call[s].pc \in {"reread", "commit"} =>
              \/ call[s].of \in Reaches(head[branch[s]])
              \/ merge[branch[s]].theirs = call[s].of

\* The inductive invariant.
IInv == TypeOK /\ ParentsThere /\ Held /\ Kept /\ Own /\ Landing

-----------------------------------------------------------------------------
(* Facts about the definitions.                                            *)

\* The commits are numbered from 1.
LEMMA Numbered ==
    ASSUME TypeOK
    PROVE  /\ Len(commits) \in Nat /\ DOMAIN commits = 1..Len(commits)
           /\ \A c \in DOMAIN commits : commits[c].tree \in SUBSET Edits
<1>1. commits \in Seq(CommitRecord)
  BY Zenon DEF TypeOK, CommitsOK
<1>2. Len(commits) \in Nat /\ DOMAIN commits = 1..Len(commits)
  BY <1>1
<1>3. \A c \in DOMAIN commits : commits[c] \in CommitRecord
  BY <1>1, <1>2
<1>4. QED
  BY Zenon, <1>2, <1>3 DEF CommitRecord

\* A record of a merge is told from none by the commit it merges.
LEMMA MergeRecord ==
    ASSUME TypeOK, NEW n \in Names
    PROVE  /\ merge[n] # NoMerge => merge[n] \in InProgress
           /\ merge[n] = NoMerge <=> merge[n].theirs = 0
<1>1. merge[n] \in {NoMerge} \cup InProgress
  BY Zenon DEF TypeOK, MergeOK
<1>2. merge[n] \in InProgress => merge[n].theirs # 0
  BY Numbered DEF InProgress
<1>3. NoMerge.theirs = 0
  BY Zenon DEF NoMerge
<1>4. QED
  BY Zenon, <1>1, <1>2, <1>3

\* A call under way is one of Merge, its steps after the first have a commit,
\* and it is on a branch.
LEMMA CallRecord ==
    ASSUME TypeOK, NEW s \in Callers, call[s] # Idle
    PROVE  /\ call[s] \in MergeCall
           /\ call[s].pc = "resolve" => call[s].of \in Names
           /\ call[s].pc # "resolve" => call[s].of \in DOMAIN commits
           /\ branch[s] \in Names
<1>1. call[s] \in MergeCall
  BY Zenon DEF TypeOK, CallOK
<1>2. branch[s] \in Names
  BY Zenon DEF TypeOK, OnOK, CallsOn
<1>3. QED
  BY Zenon, <1>1, <1>2 DEF MergeCall

\* The step of a call that is under way.
LEMMA Stepping ==
    ASSUME TypeOK, NEW s \in Callers
    PROVE  call[s] = Idle <=> call[s].pc = "idle"
<1>1. call[s] \in MergeCall => call[s].pc # "idle"
  BY Zenon DEF MergeCall
<1>2. call[s] = Idle \/ call[s] \in MergeCall
  BY Zenon DEF TypeOK, CallOK
<1>3. Idle.pc = "idle"
  BY Zenon DEF Idle
<1>4. QED
  BY Zenon, <1>1, <1>2, <1>3

\* A ref names a commit or nothing.
LEMMA Resolved ==
    ASSUME TypeOK, NEW ref \in Names
    PROVE  resolve(ref) \in {0} \cup DOMAIN commits
<1>1. head[ref] \in 0..Len(commits) /\ Tag[ref] \in 0..1 /\ 1 \in DOMAIN commits
  BY Zenon, SessionsAssumption DEF TypeOK, HeadOK, CommitsOK
<1>2. QED
  BY <1>1, Numbered DEF resolve

\* A session making a call is on a branch.
LEMMA CallerOn ==
    ASSUME TypeOK, NEW s \in Callers, Calls(s)
    PROVE  branch[s] \in Names /\ branch[s] # Closed /\ call[s] = Idle
BY Zenon DEF Calls, ready, TypeOK, OnOK

\* Committing the working set of a branch appends one commit, whose parents
\* are the branch's head and the commit being merged.
LEMMA CommitAppends ==
    ASSUME TypeOK, NEW n \in Names, CommitWorkingSet(n)
    PROVE  /\ commits' \in Seq(CommitRecord)
           /\ Len(commits') = Len(commits) + 1
           /\ DOMAIN commits \subseteq DOMAIN commits'
           /\ DOMAIN commits' = DOMAIN commits \cup {Len(commits')}
           /\ \A i \in DOMAIN commits : commits'[i] = commits[i]
           /\ commits'[Len(commits')].parents = {head[n], merge[n].theirs} \ {0}
           /\ {head[n], merge[n].theirs} \ {0} \subseteq DOMAIN commits
<1> DEFINE c == [parents |-> {head[n], merge[n].theirs} \ {0}, tree |-> work[n]]
<1>1. DOMAIN commits = 1..Len(commits) /\ Len(commits) \in Nat
  BY Zenon, Numbered
<1>2. head[n] \in 0..Len(commits)
  BY Zenon DEF TypeOK, HeadOK
<1>3. merge[n].theirs \in {0} \cup DOMAIN commits
  BY Zenon, MergeRecord DEF InProgress
<1>4. {head[n], merge[n].theirs} \ {0} \subseteq DOMAIN commits
  BY <1>1, <1>2, <1>3
<1>5. c \in CommitRecord
  BY <1>1, <1>4 DEF TypeOK, WorkOK, CommitRecord
<1>6. commits' = Append(commits, c)
  BY Zenon DEF CommitWorkingSet
<1>7. c.parents = {head[n], merge[n].theirs} \ {0}
  BY Zenon
<1> HIDE DEF c
<1>8. commits \in Seq(CommitRecord)
  BY Zenon DEF TypeOK, CommitsOK
<1>9. /\ commits' \in Seq(CommitRecord)
      /\ Len(commits') = Len(commits) + 1 /\ DOMAIN commits' = 1..(Len(commits) + 1)
      /\ \A i \in DOMAIN commits : commits'[i] = commits[i]
      /\ commits'[Len(commits')] = c
  BY <1>1, <1>5, <1>6, <1>8
<1>10. QED
  BY <1>1, <1>4, <1>7, <1>9

\* Types are kept when a branch's working set is committed.
LEMMA CommitTypes ==
    ASSUME TypeOK, NEW n \in Names, CommitWorkingSet(n)
    PROVE  CommitsOK' /\ HeadOK' /\ WorkOK' /\ MergeOK' /\ MergeCall \subseteq MergeCall'
<1>1. CommitsOK'
  BY Zenon, CommitAppends DEF CommitsOK, TypeOK
<1>2. HeadOK'
  BY CommitAppends, Numbered DEF TypeOK, HeadOK, CommitWorkingSet
<1>3. InProgress \subseteq InProgress' /\ MergeCall \subseteq MergeCall'
  BY Zenon, CommitAppends DEF InProgress, MergeCall
<1>4. MergeOK'
  BY Zenon, <1>3 DEF TypeOK, MergeOK, CommitWorkingSet
<1>5. WorkOK'
  BY Zenon DEF TypeOK, WorkOK, CommitWorkingSet
<1>6. QED
  BY Zenon, <1>1, <1>2, <1>3, <1>4, <1>5

-----------------------------------------------------------------------------
(* Types.                                                                  *)

\* The initial state is well typed.
LEMMA TypesInit == Init => TypeOK
<1> SUFFICES ASSUME Init PROVE TypeOK
  BY Zenon
<1>1. [parents |-> {}, tree |-> {}] \in CommitRecord
  BY Zenon DEF CommitRecord
<1>2. CommitsOK
  BY <1>1 DEF Init, CommitsOK
<1>3. Len(commits) = 1
  BY Zenon DEF Init
<1>4. HeadOK
  BY <1>3 DEF Init, HeadOK
<1>5. QED
  BY Zenon, <1>2, <1>4 DEF Init, TypeOK, WorkOK, MergeOK, OnOK, CallOK, CallsOn

\* A step that makes no commit keeps the types when what it changes has them.
LEMMA TypesKept ==
    ASSUME TypeOK, UNCHANGED <<setting, commits>>,
           head' \in [Names -> 0..Len(commits)],
           work' \in [Names -> SUBSET Edits], acked' \in [Names -> SUBSET Edits],
           merge' \in [Names -> {NoMerge} \cup InProgress],
           branch' \in [Callers -> Names \cup {Closed}], hold' \in [Callers -> Names \cup {Closed}],
           call' \in [Callers -> {Idle} \cup MergeCall],
           undone' \subseteq Callers, CallsOn'
    PROVE  TypeOK'
<1>1. InProgress' = InProgress /\ MergeCall' = MergeCall
  BY Zenon DEF InProgress, MergeCall
<1>2. QED
  BY Zenon, <1>1 DEF TypeOK, CommitsOK, HeadOK, WorkOK, MergeOK, OnOK, CallOK

\* The same of a step of a call of Merge, which the session goes on with or ends.
LEMMA TypesOfCall ==
    ASSUME TypeOK, UNCHANGED <<setting, commits, head, acked, branch, hold>>,
           work' \in [Names -> SUBSET Edits], merge' \in [Names -> {NoMerge} \cup InProgress],
           undone' \subseteq Callers,
           NEW s \in Callers, call[s] # Idle,
           \/ call' = [call EXCEPT ![s] = Idle]
           \/ \E h \in MergeCall : call' = [call EXCEPT ![s] = h]
    PROVE  TypeOK'
<1>1. call' \in [Callers -> {Idle} \cup MergeCall]
  BY Zenon DEF TypeOK, CallOK
<1>2. \A o \in Callers : call'[o] # Idle => call[o] # Idle
  BY Zenon DEF TypeOK, CallOK
<1>3. CallsOn'
  BY Zenon, <1>2 DEF TypeOK, CallsOn
<1>4. QED
  BY Zenon, <1>1, <1>3, TypesKept DEF TypeOK, HeadOK, WorkOK, OnOK

\* A call of Merge goes on to another step, or its context ends.
LEMMA CallGoesOn ==
    ASSUME TypeOK, NEW s \in Callers, call[s] # Idle
    PROVE  /\ [call[s] EXCEPT !.ctx = "done"] \in MergeCall
           /\ \A step \in {"merge", "reread", "head", "commit", "abort"} :
                 call[s].pc # "resolve" => [call[s] EXCEPT !.pc = step] \in MergeCall
           /\ \A c \in DOMAIN commits : [call[s] EXCEPT !.pc = "merge", !.of = c] \in MergeCall
<1>1. call[s] \in MergeCall
  BY Zenon, CallRecord
<1>2. QED
  BY Zenon, <1>1 DEF MergeCall

\* An abort of a merge in progress keeps the types.
LEMMA AbortTypes ==
    ASSUME TypeOK, NEW n \in Names, merge[n] # NoMerge, Abort(n)
    PROVE  /\ work' \in [Names -> SUBSET Edits] /\ merge' \in [Names -> {NoMerge} \cup InProgress]
           /\ undone' \subseteq Callers /\ UNCHANGED <<commits, head, acked>>
<1>1. merge[n].before \in SUBSET Edits
  BY Zenon, MergeRecord DEF InProgress
<1>2. work' \in [Names -> SUBSET Edits]
  BY Zenon, <1>1 DEF Abort, TypeOK, WorkOK
<1>3. QED
  BY Zenon, <1>2 DEF Abort, TypeOK, MergeOK

\* Every step keeps the types.
LEMMA TypesStep ==
    ASSUME TypeOK, Next
    PROVE  TypeOK'
<1>0. setting' = setting /\ setting \in Settings
  BY Zenon DEF Next, TypeOK
<1>1. ASSUME NEW s \in Callers, NEW n \in Names, OpenSession(s, n) PROVE TypeOK'
  <2>1. n # Closed
    BY Zenon, SessionsAssumption DEF Closed
  <2>2. branch' \in [Callers -> Names \cup {Closed}] /\ hold' \in [Callers -> Names \cup {Closed}]
    BY Zenon, <1>1 DEF OpenSession, TypeOK, OnOK
  <2>3. CallsOn'
    BY Zenon, <1>1, <2>1 DEF OpenSession, TypeOK, OnOK, CallsOn
  <2>4. UNCHANGED <<branchVars, call>>
    BY Zenon, <1>1 DEF OpenSession
  <2>5. QED
    BY Zenon, <1>0, <2>2, <2>3, <2>4, TypesKept DEF branchVars, TypeOK, HeadOK, WorkOK, MergeOK, CallOK
<1>2. ASSUME NEW s \in Callers, NEW n \in Names, Checkout(s, n) PROVE TypeOK'
  <2>1. n # Closed
    BY Zenon, SessionsAssumption DEF Closed
  <2>2. branch' \in [Callers -> Names \cup {Closed}] /\ hold' \in [Callers -> Names \cup {Closed}]
    BY Zenon, <1>2 DEF Checkout, TypeOK, OnOK
  <2>3. CallsOn'
    BY Zenon, <1>2, <2>1 DEF Checkout, TypeOK, OnOK, CallsOn
  <2>4. UNCHANGED <<branchVars, call>>
    BY Zenon, <1>2 DEF Checkout
  <2>5. QED
    BY Zenon, <1>0, <2>2, <2>3, <2>4, TypesKept DEF branchVars, TypeOK, HeadOK, WorkOK, MergeOK, CallOK
<1>3. ASSUME NEW s \in Callers, Close(s) PROVE TypeOK'
  <2>1. branch' \in [Callers -> Names \cup {Closed}] /\ hold' \in [Callers -> Names \cup {Closed}]
    BY Zenon, <1>3 DEF Close, TypeOK, OnOK
  <2>2. CallsOn'
    BY Zenon, <1>3 DEF Close, TypeOK, OnOK, CallsOn
  <2>3. UNCHANGED <<branchVars, call>>
    BY Zenon, <1>3 DEF Close
  <2>4. QED
    BY Zenon, <1>0, <2>1, <2>2, <2>3, TypesKept DEF branchVars, TypeOK, HeadOK, WorkOK, MergeOK, CallOK
<1>4. ASSUME NEW p, CloseDatabase(p) PROVE TypeOK'
  BY Zenon, <1>0, <1>4, TypesKept
     DEF CloseDatabase, branchVars, TypeOK, HeadOK, WorkOK, MergeOK, OnOK, CallOK, CallsOn
<1>5. ASSUME NEW s \in Callers, NEW n \in Names, NEW at \in Names, CreateBranch(s, n, at) PROVE TypeOK'
  <2>1. resolve(at) # 0 => resolve(at) \in 0..Len(commits) /\ commits[resolve(at)].tree \in SUBSET Edits
    BY Resolved, Numbered
  <2>2. head' \in [Names -> 0..Len(commits)]
    BY Zenon, <1>5, <2>1 DEF CreateBranch, TypeOK, HeadOK
  <2>3. merge' \in [Names -> {NoMerge} \cup InProgress]
    BY Zenon, <1>5 DEF CreateBranch, TypeOK, MergeOK
  <2>4. work' \in [Names -> SUBSET Edits] /\ acked' \in [Names -> SUBSET Edits]
    BY Zenon, <1>5, <2>1 DEF CreateBranch, TypeOK, WorkOK
  <2>5. UNCHANGED <<commits, branch, hold, undone, call>>
    BY Zenon, <1>5 DEF CreateBranch
  <2>6. QED
    BY Zenon, <1>0, <2>2, <2>3, <2>4, <2>5, TypesKept DEF TypeOK, OnOK, CallOK, CallsOn
<1>6. ASSUME NEW s \in Callers, NEW n \in Names, DeleteBranch(s, n) PROVE TypeOK'
  <2>1. head' \in [Names -> 0..Len(commits)]
    BY <1>6, Numbered DEF DeleteBranch, branchVars, TypeOK, HeadOK
  <2>2. merge' \in [Names -> {NoMerge} \cup InProgress]
    BY Zenon, <1>6 DEF DeleteBranch, branchVars, TypeOK, MergeOK
  <2>3. work' \in [Names -> SUBSET Edits] /\ acked' \in [Names -> SUBSET Edits]
    BY Zenon, <1>6 DEF DeleteBranch, branchVars, TypeOK, WorkOK
  <2>4. UNCHANGED <<commits, branch, hold, undone, call>>
    BY Zenon, <1>6 DEF DeleteBranch, branchVars, sessionVars
  <2>5. QED
    BY Zenon, <1>0, <2>1, <2>2, <2>3, <2>4, TypesKept DEF TypeOK, OnOK, CallOK, CallsOn
<1>7. ASSUME NEW s \in Callers, NEW e \in setting.edits, TxnCommit(s, e) PROVE TypeOK'
  <2>1. e \in Edits
    BY Zenon, <1>0, SessionsAssumption
  <2>2. work' \in [Names -> SUBSET Edits] /\ acked' \in [Names -> SUBSET Edits]
    BY <1>7, <2>1 DEF TxnCommit, TypeOK, WorkOK
  <2>3. UNCHANGED <<commits, head, merge, undone, branch, hold, call>>
    BY Zenon, <1>7 DEF TxnCommit, sessionVars
  <2>4. QED
    BY Zenon, <1>0, <2>2, <2>3, TypesKept DEF TypeOK, HeadOK, MergeOK, OnOK, CallOK, CallsOn
<1>8. ASSUME NEW s \in Callers, Commit(s) PROVE TypeOK'
  <2> DEFINE n == branch[s]
  <2>1. n \in Names
    BY Zenon, <1>8, CallerOn DEF Commit, Turn
  <2>2. UNCHANGED <<undone, branch, hold, call>>
    BY Zenon, <1>8 DEF Commit, sessionVars
  <2>3. CASE Unresolved(n)
    BY Zenon, <1>0, <1>8, <2>2, <2>3, TypesKept DEF Commit, TypeOK, HeadOK, WorkOK, MergeOK, OnOK, CallOK, CallsOn
  <2>4. CASE ~Unresolved(n)
    <3>1. CommitWorkingSet(n)
      BY Zenon, <1>8, <2>4 DEF Commit
    <3>2. CallOK'
      BY Zenon, <2>1, <2>2, <3>1, CommitTypes DEF TypeOK, CallOK
    <3>3. QED
      BY Zenon, <1>0, <2>1, <2>2, <3>1, <3>2, CommitTypes DEF TypeOK, OnOK, CallsOn
  <2>5. QED
    BY Zenon, <2>3, <2>4
<1>9. ASSUME NEW s \in Callers, NEW n \in Names, MergeStart(s, n) PROVE TypeOK'
  <2>1. [pc |-> "resolve", of |-> n, ctx |-> "live"] \in MergeCall
    BY Zenon DEF MergeCall
  <2>2. branch[s] # Closed
    BY Zenon, <1>9, CallerOn DEF MergeStart, Turn
  <2>3. call' \in [Callers -> {Idle} \cup MergeCall]
    BY Zenon, <1>9, <2>1 DEF MergeStart, Return, TypeOK, CallOK
  <2>4. \A o \in Callers : call'[o] # call[o] => o = s
    BY Zenon, <1>9 DEF MergeStart, Return, TypeOK, CallOK
  <2>5. UNCHANGED <<commits, head, work, merge, acked, branch, hold>> /\ undone' \subseteq Callers
    BY Zenon, <1>9 DEF MergeStart, sessionVars, TypeOK
  <2>6. CallsOn'
    BY Zenon, <2>2, <2>4, <2>5 DEF TypeOK, CallsOn
  <2>7. QED
    BY Zenon, <1>0, <2>3, <2>5, <2>6, TypesKept DEF TypeOK, HeadOK, WorkOK, MergeOK, OnOK
<1>10. ASSUME NEW s \in Callers, MergeResolve(s) PROVE TypeOK'
  <2>1. call[s] # Idle /\ call[s].pc = "resolve"
    BY Zenon, <1>10, Stepping DEF MergeResolve, At
  <2>2. resolve(call[s].of) \in {0} \cup DOMAIN commits
    BY Zenon, <2>1, CallRecord, Resolved
  <2>3. UNCHANGED <<branchVars, sessionVars>>
    BY Zenon, <1>10 DEF MergeResolve
  <2>4. \/ call' = [call EXCEPT ![s] = Idle]
        \/ \E h \in MergeCall : call' = [call EXCEPT ![s] = h]
    BY Zenon, <1>10, <2>1, <2>2, CallGoesOn DEF MergeResolve, Return
  <2>5. QED
    BY Zenon, <1>0, <2>1, <2>3, <2>4, TypesOfCall DEF branchVars, sessionVars, TypeOK, WorkOK, MergeOK
<1>11. ASSUME NEW s \in Callers, MergeApply(s) PROVE TypeOK'
  <2> DEFINE n == branch[s]
             tree == commits[call[s].of].tree
             conflicts == \E e \in work[n], f \in tree : {e, f} \in Clash
  <2>1. call[s] # Idle /\ call[s].pc = "merge" /\ call[s].of \in DOMAIN commits /\ n \in Names
    BY Zenon, <1>11, Stepping, CallRecord DEF MergeApply, At
  <2>2. tree \in SUBSET Edits /\ work[n] \in SUBSET Edits
    BY Zenon, <2>1, Numbered DEF TypeOK, WorkOK
  <2>3. [theirs |-> call[s].of, conflicts |-> conflicts, before |-> work[n], by |-> s] \in InProgress
    BY Zenon, <2>1, <2>2 DEF InProgress
  <2>4. merge' \in [Names -> {NoMerge} \cup InProgress]
    BY Zenon, <1>11, <2>3 DEF MergeApply, TypeOK, MergeOK
  <2>5. work' \in [Names -> SUBSET Edits]
    BY <1>11, <2>2 DEF MergeApply, TypeOK, WorkOK
  <2>6. \/ call' = [call EXCEPT ![s] = Idle]
        \/ \E h \in MergeCall : call' = [call EXCEPT ![s] = h]
    BY Zenon, <1>11, <2>1, CallGoesOn DEF MergeApply, Return, GoOn
  <2>7. UNCHANGED <<commits, head, acked, undone, branch, hold>>
    BY Zenon, <1>11 DEF MergeApply, sessionVars
  <2>8. QED
    BY Zenon, <1>0, <2>1, <2>4, <2>5, <2>6, <2>7, TypesOfCall DEF TypeOK
<1>12. ASSUME NEW s \in Callers, MergeReread(s) PROVE TypeOK'
  <2>1. call[s] # Idle /\ call[s].pc = "reread"
    BY Zenon, <1>12, Stepping DEF MergeReread, At
  <2>2. \E h \in MergeCall : call' = [call EXCEPT ![s] = h]
    BY Zenon, <1>12, <2>1, CallGoesOn DEF MergeReread, GoOn
  <2>3. UNCHANGED <<branchVars, sessionVars>>
    BY Zenon, <1>12 DEF MergeReread
  <2>4. QED
    BY Zenon, <1>0, <2>1, <2>2, <2>3, TypesOfCall DEF branchVars, sessionVars, TypeOK, WorkOK, MergeOK
<1>13. ASSUME NEW s \in Callers, MergeHead(s) PROVE TypeOK'
  <2>1. call[s] # Idle
    BY Zenon, <1>13, Stepping DEF MergeHead, At
  <2>2. call' = [call EXCEPT ![s] = Idle] /\ UNCHANGED <<branchVars, sessionVars>>
    BY Zenon, <1>13 DEF MergeHead, Return
  <2>3. QED
    BY Zenon, <1>0, <2>1, <2>2, TypesOfCall DEF branchVars, sessionVars, TypeOK, WorkOK, MergeOK
<1>14. ASSUME NEW s \in Callers, MergeCommit(s) PROVE TypeOK'
  <2> DEFINE n == branch[s]
  <2>1. call[s] # Idle /\ call[s].pc = "commit" /\ n \in Names
    BY Zenon, <1>14, Stepping, CallRecord DEF MergeCommit, At
  <2>2. UNCHANGED <<undone, branch, hold>>
    BY Zenon, <1>14 DEF MergeCommit, sessionVars
  <2>3. CASE Unresolved(n)
    <3>1. UNCHANGED <<commits, head, work, merge, acked>>
      BY Zenon, <1>14, <2>3 DEF MergeCommit
    <3>2. \E h \in MergeCall : call' = [call EXCEPT ![s] = h]
      BY Zenon, <1>14, <2>1, <2>3, CallGoesOn DEF MergeCommit, GoOn
    <3>3. QED
      BY Zenon, <1>0, <2>1, <2>2, <3>1, <3>2, TypesOfCall DEF TypeOK, WorkOK, MergeOK
  <2>4. CASE ~Unresolved(n)
    <3>1. CommitWorkingSet(n) /\ call' = [call EXCEPT ![s] = Idle]
      BY Zenon, <1>14, <2>4 DEF MergeCommit, Return
    <3>2. CallOK'
      BY Zenon, <2>1, <3>1, CommitTypes DEF TypeOK, CallOK
    <3>3. CallsOn'
      BY Zenon, <2>2, <3>1 DEF TypeOK, CallOK, CallsOn
    <3>4. QED
      BY Zenon, <1>0, <2>1, <2>2, <3>1, <3>2, <3>3, CommitTypes DEF TypeOK, OnOK
  <2>5. QED
    BY Zenon, <2>3, <2>4
<1>15. ASSUME NEW s \in Callers, MergeAbort(s) PROVE TypeOK'
  <2>1. call[s] # Idle /\ branch[s] \in Names
    BY Zenon, <1>15, Stepping, CallRecord DEF MergeAbort, At
  <2>2. call' = [call EXCEPT ![s] = Idle] /\ UNCHANGED <<branch, hold>>
    BY Zenon, <1>15 DEF MergeAbort, Return, sessionVars
  <2>3. CASE merge[branch[s]] = NoMerge
    BY Zenon, <1>0, <1>15, <2>1, <2>2, <2>3, TypesOfCall DEF MergeAbort, branchVars, TypeOK, WorkOK, MergeOK
  <2>4. CASE merge[branch[s]] # NoMerge
    BY Zenon, <1>0, <1>15, <2>1, <2>2, <2>4, AbortTypes, TypesOfCall DEF MergeAbort
  <2>5. QED
    BY Zenon, <2>3, <2>4
<1>16. ASSUME NEW s \in Callers, MergeFails(s) PROVE TypeOK'
  <2>1. call[s] # Idle /\ UNCHANGED <<branchVars, sessionVars>>
    BY Zenon, <1>16 DEF MergeFails
  <2>2. \/ call' = [call EXCEPT ![s] = Idle]
        \/ \E h \in MergeCall : call' = [call EXCEPT ![s] = h]
    BY Zenon, <1>16, <2>1, CallGoesOn DEF MergeFails, Return, GoOn
  <2>3. QED
    BY Zenon, <1>0, <2>1, <2>2, TypesOfCall DEF branchVars, sessionVars, TypeOK, WorkOK, MergeOK
<1>17. ASSUME NEW s \in Callers, Cancel(s) PROVE TypeOK'
  <2>1. call[s] # Idle /\ UNCHANGED <<branchVars, sessionVars>>
    BY Zenon, <1>17 DEF Cancel
  <2>2. \E h \in MergeCall : call' = [call EXCEPT ![s] = h]
    BY Zenon, <1>17, <2>1, CallGoesOn DEF Cancel
  <2>3. QED
    BY Zenon, <1>0, <2>1, <2>2, TypesOfCall DEF branchVars, sessionVars, TypeOK, WorkOK, MergeOK
<1>18. ASSUME NEW s \in Callers, AbortMerge(s) PROVE TypeOK'
  <2>1. branch[s] \in Names /\ UNCHANGED <<branch, hold, call>>
    BY Zenon, <1>18, CallerOn DEF AbortMerge, sessionVars
  <2>2. CASE merge[branch[s]] = NoMerge
    BY Zenon, <1>0, <1>18, <2>1, <2>2, TypesKept
       DEF AbortMerge, branchVars, TypeOK, HeadOK, WorkOK, MergeOK, OnOK, CallOK, CallsOn
  <2>3. CASE merge[branch[s]] # NoMerge
    BY Zenon, <1>0, <1>18, <2>1, <2>3, AbortTypes, TypesKept
       DEF AbortMerge, TypeOK, HeadOK, WorkOK, OnOK, CallOK, CallsOn
  <2>4. QED
    BY Zenon, <2>2, <2>3
<1>19. QED
  BY Zenon, <1>1, <1>2, <1>3, <1>4, <1>5, <1>6, <1>7, <1>8, <1>9, <1>10, <1>11, <1>12, <1>13, <1>14,
     <1>15, <1>16, <1>17, <1>18 DEF Next, Step, Manage

-----------------------------------------------------------------------------
(* Branches are held: SessionOnBranch.                                     *)

\* Every step keeps the branches of sessions.
LEMMA HeldStep ==
    ASSUME TypeOK, Held, Next
    PROVE  Held'
<1>0. /\ setting' = setting /\ setting \in Settings
      /\ branch \in [Callers -> Names \cup {Closed}] /\ hold \in [Callers -> Names \cup {Closed}]
      /\ head \in [Names -> 0..Len(commits)] /\ Len(commits) \in Nat
  BY Zenon, Numbered DEF Next, TypeOK, OnOK, HeadOK
\* The steps that leave the sessions where they are and take no branch away.
<1>a. ASSUME UNCHANGED <<branch, hold>>, \A n \in Names : head[n] # 0 => head'[n] # 0
      PROVE  Held'
  BY Zenon, <1>0, <1>a DEF Held, Branches
<1>1. ASSUME NEW s \in Callers, NEW n \in Names, OpenSession(s, n) \/ Checkout(s, n) \/ Close(s) PROVE Held'
  BY <1>0, <1>1 DEF Held, OpenSession, Checkout, Close, branchVars, Branches
<1>2. ASSUME NEW s \in Callers, NEW n \in Names, NEW at \in Names, CreateBranch(s, n, at) PROVE Held'
  BY Zenon, <1>0, <1>2, <1>a DEF CreateBranch
<1>3. ASSUME NEW s \in Callers, NEW n \in Names, setting.deletes, DeleteBranch(s, n) PROVE Held'
  <2>1. CASE \E o \in Callers : hold[o] = n
    <3>1. \E o \in Callers : ProcessOf[o] = ProcessOf[s] /\ hold[o] = n
      BY <1>0, <1>3, <2>1, SessionsAssumption DEF ProcessOf
    <3>2. UNCHANGED <<branchVars, sessionVars>>
      BY Zenon, <1>3, <3>1 DEF DeleteBranch
    <3>3. QED
      BY Zenon, <1>a, <3>2 DEF branchVars, sessionVars
  <2>2. CASE \A o \in Callers : hold[o] # n
    <3>1. UNCHANGED <<branch, hold>> /\ \A m \in Names : m # n => head'[m] = head[m]
      BY Zenon, <1>0, <1>3 DEF DeleteBranch, branchVars, sessionVars
    <3>2. QED
      BY Zenon, <1>0, <2>2, <3>1 DEF Held, Branches
  <2>3. QED
    BY Zenon, <2>1, <2>2
<1>4. ASSUME NEW s \in Callers, Commit(s) \/ MergeCommit(s) PROVE Held'
  <2>1. branch[s] \in Names
    BY Zenon, <1>4, CallerOn, CallRecord, Stepping DEF Commit, Turn, MergeCommit, At
  <2>2. CASE UNCHANGED <<commits, head, work, merge, acked>>
    BY Zenon, <1>4, <2>2, <1>a DEF Commit, MergeCommit, sessionVars
  <2>3. CASE CommitWorkingSet(branch[s])
    <3>1. head' = [head EXCEPT ![branch[s]] = Len(commits')] /\ Len(commits') # 0
      BY <1>0, <2>1, <2>3, CommitAppends DEF CommitWorkingSet
    <3>2. QED
      BY Zenon, <1>0, <1>4, <3>1, <1>a DEF Commit, MergeCommit, sessionVars
  <2>4. QED
    BY Zenon, <1>4, <2>2, <2>3 DEF Commit, MergeCommit
<1>5. ASSUME UNCHANGED <<head, branch, hold>> PROVE Held'
  BY Zenon, <1>5, <1>a
<1>6. ASSUME NEW s \in Callers, AbortMerge(s) \/ MergeAbort(s) PROVE Held'
  BY Zenon, <1>5, <1>6 DEF AbortMerge, MergeAbort, Abort, branchVars, sessionVars
<1>7. ASSUME NEW s \in Callers, NEW n \in Names, MergeStart(s, n) PROVE Held'
  BY Zenon, <1>5, <1>7 DEF MergeStart, sessionVars
<1>8. ASSUME NEW s \in Callers, NEW e, TxnCommit(s, e) PROVE Held'
  BY Zenon, <1>5, <1>8 DEF TxnCommit, sessionVars
<1>9. ASSUME NEW s \in Callers, MergeApply(s) PROVE Held'
  BY Zenon, <1>5, <1>9 DEF MergeApply, sessionVars
<1>10. ASSUME NEW s \in Callers,
              MergeResolve(s) \/ MergeReread(s) \/ MergeHead(s) \/ MergeFails(s) \/ Cancel(s)
       PROVE  Held'
  BY Zenon, <1>5, <1>10 DEF MergeResolve, MergeReread, MergeHead, MergeFails, Cancel, branchVars, sessionVars
<1>11. ASSUME NEW p, CloseDatabase(p) PROVE Held'
  BY Zenon, <1>5, <1>11 DEF CloseDatabase, branchVars
<1>12. QED
  BY Zenon, <1>1, <1>2, <1>3, <1>4, <1>6, <1>7, <1>8, <1>9, <1>10, <1>11, SessionsAssumption DEF Next, Step, Manage

-----------------------------------------------------------------------------
(* What is acknowledged is kept: NothingLost.                              *)

\* Every step keeps what was reported committed.
LEMMA KeptStep ==
    ASSUME TypeOK, Kept, Next
    PROVE  Kept'
<1>0. work \in [Names -> SUBSET Edits] /\ acked \in [Names -> SUBSET Edits] /\ DOMAIN merge = Names
  BY Zenon DEF TypeOK, WorkOK, MergeOK
<1>1. ASSUME UNCHANGED <<work, merge, acked>> PROVE Kept'
  BY Zenon, <1>1 DEF Kept
<1>2. ASSUME NEW s \in Callers, NEW n \in Names, NEW at \in Names, CreateBranch(s, n, at) PROVE Kept'
  BY Zenon, <1>0, <1>2 DEF Kept, CreateBranch
<1>3. ASSUME NEW s \in Callers, NEW n \in Names, DeleteBranch(s, n) PROVE Kept'
  BY Zenon, <1>0, <1>3 DEF Kept, DeleteBranch, branchVars
<1>4. ASSUME NEW s \in Callers, NEW e, TxnCommit(s, e) PROVE Kept'
  <2>1. CASE merge[branch[s]] = NoMerge
    <3>1. /\ work' = [work EXCEPT ![branch[s]] = @ \cup {e}]
          /\ acked' = [acked EXCEPT ![branch[s]] = @ \cup {e}]
          /\ UNCHANGED merge
      BY Zenon, <1>4, <2>1 DEF TxnCommit
    <3>2. QED
      BY Zenon, <1>0, <2>1, <3>1 DEF Kept
  <2>2. CASE merge[branch[s]] # NoMerge
    BY Zenon, <1>1, <1>4, <2>2 DEF TxnCommit
  <2>3. QED
    BY Zenon, <2>1, <2>2
<1>5. ASSUME NEW s \in Callers, Commit(s) \/ MergeCommit(s) PROVE Kept'
  BY Zenon, <1>0, <1>5 DEF Kept, Commit, MergeCommit, CommitWorkingSet
<1>6. ASSUME NEW s \in Callers, MergeApply(s) PROVE Kept'
  <2> DEFINE n == branch[s]
  <2>1. \A m \in Names : m # n => work'[m] = work[m] /\ merge'[m] = merge[m]
    BY Zenon, <1>0, <1>6 DEF MergeApply
  <2>2. n \in Names
    BY Zenon, <1>6, CallRecord, Stepping DEF MergeApply, At
  <2>3. \/ UNCHANGED <<work, merge>>
        \/ merge'[n].before = work[n] /\ work[n] \subseteq work'[n]
    BY <1>0, <1>6, <2>2 DEF MergeApply
  <2>4. UNCHANGED acked
    BY Zenon, <1>6 DEF MergeApply
  <2>5. QED
    BY Zenon, <2>1, <2>2, <2>3, <2>4 DEF Kept
<1>7. ASSUME NEW s \in Callers, AbortMerge(s) \/ MergeAbort(s) PROVE Kept'
  <2>1. CASE UNCHANGED branchVars
    BY Zenon, <1>1, <2>1 DEF branchVars
  <2>2. CASE merge[branch[s]] # NoMerge /\ Abort(branch[s])
    BY Zenon, <1>0, <2>2 DEF Kept, Abort
  <2>3. QED
    BY Zenon, <1>7, <2>1, <2>2 DEF AbortMerge, MergeAbort
<1>8. ASSUME NEW s \in Callers, NEW n \in Names, MergeStart(s, n) PROVE Kept'
  BY Zenon, <1>1, <1>8 DEF MergeStart
<1>9. ASSUME NEW s \in Callers, NEW n \in Names, OpenSession(s, n) \/ Checkout(s, n) \/ Close(s) PROVE Kept'
  BY Zenon, <1>1, <1>9 DEF OpenSession, Checkout, Close, branchVars
<1>10. ASSUME NEW s \in Callers,
              MergeResolve(s) \/ MergeReread(s) \/ MergeHead(s) \/ MergeFails(s) \/ Cancel(s)
       PROVE  Kept'
  BY Zenon, <1>1, <1>10 DEF MergeResolve, MergeReread, MergeHead, MergeFails, Cancel, branchVars
<1>11. ASSUME NEW p, CloseDatabase(p) PROVE Kept'
  BY Zenon, <1>1, <1>11 DEF CloseDatabase, branchVars
<1>12. QED
  BY Zenon, <1>2, <1>3, <1>4, <1>5, <1>6, <1>7, <1>8, <1>9, <1>10, <1>11, SessionsAssumption DEF Next, Step, Manage

-----------------------------------------------------------------------------
(* Histories.                                                              *)

\* A commit reaches itself.
LEMMA ReachesSelf ==
    ASSUME NEW cs, NEW c \in DOMAIN cs
    PROVE  c \in ReachedIn(cs, c)
BY Zenon DEF ReachedIn

\* A commit reaches what its parents reach.
LEMMA ReachesParents ==
    ASSUME NEW cs, NEW c \in DOMAIN cs, NEW p \in cs[c].parents, NEW i \in ReachedIn(cs, p)
    PROVE  i \in ReachedIn(cs, c)
BY Zenon DEF ReachedIn, Histories

\* What a commit reaches it reaches still when commits are added.
LEMMA ReachesGrows ==
    ASSUME NEW cs, NEW ds, DOMAIN cs \subseteq DOMAIN ds, \A i \in DOMAIN cs : ds[i] = cs[i],
           \A i \in DOMAIN cs : cs[i].parents \subseteq DOMAIN cs,
           NEW c \in DOMAIN cs, NEW i \in ReachedIn(cs, c)
    PROVE  i \in ReachedIn(ds, c)
<1> SUFFICES ASSUME NEW h \in Histories(ds), c \in h
             PROVE  i \in h
  BY Zenon DEF ReachedIn
<1>1. h \cap DOMAIN cs \in Histories(cs)
  BY Zenon DEF Histories
<1>2. QED
  BY Zenon, <1>1 DEF ReachedIn

\* Every step keeps the parents of commits among the commits.
LEMMA ParentsStep ==
    ASSUME TypeOK, ParentsThere, Next
    PROVE  ParentsThere'
<1>1. ASSUME UNCHANGED commits PROVE ParentsThere'
  BY Zenon, <1>1 DEF ParentsThere
<1>2. ASSUME NEW s \in Callers, Commit(s) \/ MergeCommit(s) PROVE ParentsThere'
  <2> DEFINE n == branch[s]
  <2>1. n \in Names
    BY Zenon, <1>2, CallerOn, CallRecord, Stepping DEF Commit, Turn, MergeCommit, At
  <2>2. CASE UNCHANGED <<commits, head, work, merge, acked>>
    BY Zenon, <1>1, <2>2
  <2>3. CASE CommitWorkingSet(n)
    BY Zenon, <2>1, <2>3, CommitAppends DEF ParentsThere
  <2>4. QED
    BY Zenon, <1>2, <2>2, <2>3 DEF Commit, MergeCommit
<1>3. ASSUME NEW s \in Callers, NEW n \in Names,
             OpenSession(s, n) \/ Checkout(s, n) \/ Close(s) \/ DeleteBranch(s, n) \/ MergeStart(s, n)
      PROVE  ParentsThere'
  BY Zenon, <1>1, <1>3 DEF OpenSession, Checkout, Close, DeleteBranch, MergeStart, branchVars
<1>4. ASSUME NEW s \in Callers, NEW n \in Names, NEW at \in Names, CreateBranch(s, n, at) PROVE ParentsThere'
  BY Zenon, <1>1, <1>4 DEF CreateBranch
<1>5. ASSUME NEW s \in Callers, NEW e, TxnCommit(s, e) PROVE ParentsThere'
  BY Zenon, <1>1, <1>5 DEF TxnCommit
<1>6. ASSUME NEW s \in Callers, MergeApply(s) PROVE ParentsThere'
  BY Zenon, <1>1, <1>6 DEF MergeApply
<1>7. ASSUME NEW s \in Callers, AbortMerge(s) \/ MergeAbort(s) PROVE ParentsThere'
  BY Zenon, <1>1, <1>7 DEF AbortMerge, MergeAbort, Abort, branchVars
<1>8. ASSUME NEW s \in Callers,
             MergeResolve(s) \/ MergeReread(s) \/ MergeHead(s) \/ MergeFails(s) \/ Cancel(s)
      PROVE  ParentsThere'
  BY Zenon, <1>1, <1>8 DEF MergeResolve, MergeReread, MergeHead, MergeFails, Cancel, branchVars
<1>9. ASSUME NEW p, CloseDatabase(p) PROVE ParentsThere'
  BY Zenon, <1>1, <1>9 DEF CloseDatabase, branchVars
<1>10. QED
  BY Zenon, <1>2, <1>3, <1>4, <1>5, <1>6, <1>7, <1>8, <1>9, SessionsAssumption DEF Next, Step, Manage

-----------------------------------------------------------------------------
(* A call of Merge, step by step.                                          *)

\* A step that goes on leaves the other calls, and what is merged.
LEMMA GoesOn ==
    ASSUME TypeOK, NEW s \in Callers, call[s] # Idle, NEW step, GoOn(s, step)
    PROVE  /\ call'[s].pc = step /\ call'[s].of = call[s].of /\ told' = Quiet
           /\ \A o \in Callers : o # s => call'[o] = call[o]
<1>1. "pc" \in DOMAIN call[s] /\ "of" \in DOMAIN call[s] /\ DOMAIN call = Callers
  BY Zenon, CallRecord DEF MergeCall, TypeOK, CallOK
<1>2. QED
  BY Zenon, <1>1 DEF GoOn

\* A step that returns leaves the other calls.
LEMMA ReturnsCall ==
    ASSUME TypeOK, NEW s \in Callers, NEW what, Return(s, what)
    PROVE  /\ call'[s].pc = "idle" /\ told' = what
           /\ \A o \in Callers : o # s => call'[o] = call[o]
BY Zenon DEF Return, Idle, TypeOK, CallOK

\* The branches of sessions keep their heads and merges as others are made and deleted.
LEMMA BranchesStay ==
    ASSUME TypeOK, Held, NEW s \in Callers, NEW n \in Names, NEW at \in Names,
           CreateBranch(s, n, at) \/ (setting.deletes /\ DeleteBranch(s, n)),
           NEW o \in Callers, branch[o] # Closed
    PROVE  head'[branch[o]] = head[branch[o]] /\ merge'[branch[o]] = merge[branch[o]]
<1>1. branch[o] \in Names /\ branch[o] \in Branches /\ hold[o] = branch[o] /\ setting \in Settings
  BY Zenon DEF TypeOK, OnOK, Held
<1>2. DOMAIN head = Names /\ DOMAIN merge = Names
  BY Zenon DEF TypeOK, HeadOK, MergeOK
<1>3. CASE CreateBranch(s, n, at)
  BY <1>1, <1>2, <1>3 DEF CreateBranch
<1>4. CASE setting.deletes /\ DeleteBranch(s, n)
  <2>1. ProcessOf[o] = ProcessOf[s]
    BY Zenon, <1>1, <1>4, SessionsAssumption DEF ProcessOf
  <2>2. CASE branch[o] = n
    <3>1. UNCHANGED branchVars
      BY Zenon, <1>1, <1>4, <2>1, <2>2 DEF DeleteBranch
    <3>2. QED
      BY Zenon, <3>1 DEF branchVars
  <2>3. CASE branch[o] # n
    BY <1>1, <1>2, <1>4, <2>3 DEF DeleteBranch, branchVars
  <2>4. QED
    BY Zenon, <2>2, <2>3
<1>5. QED
  BY Zenon, <1>3, <1>4

\* What a step of a call may do to the calls and the merges and keep Own.
LEMMA OwnKept ==
    ASSUME TypeOK, Own,
           \A o \in Callers : call'[o].pc \in {"resolve", "merge", "head"} =>
               call[o].pc \in {"resolve", "merge", "head"} /\ branch'[o] = branch[o],
           \A n \in Names : merge'[n] = merge[n] \/ merge'[n] = NoMerge
    PROVE  Own'
<1> SUFFICES ASSUME NEW o \in Callers, call'[o].pc \in {"resolve", "merge", "head"}
             PROVE  merge'[branch'[o]] = NoMerge \/ merge'[branch'[o]].by # o
  BY Zenon DEF Own
<1>1. call[o].pc \in {"resolve", "merge", "head"} /\ branch'[o] = branch[o]
  BY Zenon
<1>2. branch[o] \in Names
  BY Zenon, <1>1, Stepping, CallRecord
<1>3. QED
  BY <1>1, <1>2 DEF Own

\* A session on no branch is idle.
LEMMA ClosedIdle ==
    ASSUME TypeOK, NEW s \in Callers, branch[s] = Closed \/ call[s] = Idle
    PROVE  call[s].pc = "idle"
BY Zenon, Stepping DEF TypeOK, CallsOn

\* Every step keeps Own.
LEMMA OwnStep ==
    ASSUME TypeOK, Own, Next
    PROVE  Own'
<1>0. DOMAIN merge = Names /\ branch \in [Callers -> Names \cup {Closed}]
  BY Zenon DEF TypeOK, MergeOK, OnOK
<1>1. ASSUME NEW s \in Callers, NEW n \in Names, OpenSession(s, n) \/ Checkout(s, n) \/ Close(s) PROVE Own'
  <2>1. call[s].pc = "idle" /\ UNCHANGED <<call, merge>>
    BY Zenon, <1>1, ClosedIdle DEF OpenSession, Checkout, Close, Calls, branchVars
  <2>2. \A o \in Callers : o # s => branch'[o] = branch[o]
    BY Zenon, <1>0, <1>1 DEF OpenSession, Checkout, Close
  <2>3. QED
    BY Zenon, <2>1, <2>2, OwnKept
<1>2. ASSUME NEW s \in Callers, NEW n \in Names, NEW at \in Names, CreateBranch(s, n, at) PROVE Own'
  BY Zenon, <1>0, <1>2, OwnKept DEF CreateBranch
<1>3. ASSUME NEW s \in Callers, NEW n \in Names, DeleteBranch(s, n) PROVE Own'
  BY Zenon, <1>0, <1>3, OwnKept DEF DeleteBranch, branchVars, sessionVars
<1>4. ASSUME NEW s \in Callers, NEW e, TxnCommit(s, e) PROVE Own'
  BY Zenon, <1>4, OwnKept DEF TxnCommit, sessionVars
<1>5. ASSUME NEW s \in Callers, Commit(s) PROVE Own'
  BY Zenon, <1>0, <1>5, OwnKept DEF Commit, CommitWorkingSet, sessionVars
<1>6. ASSUME NEW s \in Callers, MergeCommit(s) PROVE Own'
  <2>1. call[s] # Idle /\ UNCHANGED branch
    BY Zenon, <1>6, Stepping DEF MergeCommit, At, sessionVars
  <2>2. call'[s].pc \in {"abort", "idle"} /\ \A o \in Callers : o # s => call'[o] = call[o]
    BY Zenon, <1>6, <2>1, GoesOn, ReturnsCall DEF MergeCommit
  <2>3. \A n \in Names : merge'[n] = merge[n] \/ merge'[n] = NoMerge
    BY Zenon, <1>0, <1>6 DEF MergeCommit, CommitWorkingSet
  <2>4. QED
    BY Zenon, <2>1, <2>2, <2>3, OwnKept
<1>7. ASSUME NEW s \in Callers, NEW n \in Names, MergeStart(s, n) PROVE Own'
  <2>1. CASE merge[branch[s]] = NoMerge
    <3>1. UNCHANGED <<merge, branch>> /\ \A o \in Callers : o # s => call'[o] = call[o]
      BY Zenon, <1>7, <2>1 DEF MergeStart, sessionVars, TypeOK, CallOK
    <3>2. QED
      BY Zenon, <2>1, <3>1 DEF Own
  <2>2. CASE merge[branch[s]] # NoMerge
    <3>1. UNCHANGED <<merge, branch>> /\ call'[s].pc = "idle" /\ \A o \in Callers : o # s => call'[o] = call[o]
      BY Zenon, <1>7, <2>2, ReturnsCall DEF MergeStart, sessionVars
    <3>2. QED
      BY Zenon, <3>1, OwnKept
  <2>3. QED
    BY Zenon, <2>1, <2>2
<1>8. ASSUME NEW s \in Callers, MergeResolve(s) PROVE Own'
  <2>1. call[s].pc = "resolve" /\ UNCHANGED <<branch, merge>>
    BY Zenon, <1>8 DEF MergeResolve, At, branchVars, sessionVars
  <2>2. \A o \in Callers : o # s => call'[o] = call[o]
    BY Zenon, <1>8 DEF MergeResolve, Return, TypeOK, CallOK
  <2>3. QED
    BY Zenon, <2>1, <2>2, OwnKept
<1>9. ASSUME NEW s \in Callers, MergeApply(s) PROVE Own'
  <2> DEFINE n == branch[s]
  <2>1. call[s] # Idle /\ n \in Names /\ UNCHANGED branch
    BY Zenon, <1>9, Stepping, CallRecord DEF MergeApply, At, sessionVars
  <2>2. call'[s].pc \in {"reread", "idle"} /\ \A o \in Callers : o # s => call'[o] = call[o]
    BY Zenon, <1>9, <2>1, GoesOn, ReturnsCall DEF MergeApply
  <2>3. \/ merge'[n] = merge[n]
        \/ merge'[n].by = s
    BY <1>0, <1>9, <2>1 DEF MergeApply
  <2>4. \A m \in Names : m # n => merge'[m] = merge[m]
    BY Zenon, <1>0, <1>9 DEF MergeApply
  <2>5. ASSUME NEW o \in Callers, call'[o].pc \in {"resolve", "merge", "head"}
        PROVE  merge'[branch[o]] = NoMerge \/ merge'[branch[o]].by # o
    <3>1. o # s /\ call[o].pc \in {"resolve", "merge", "head"}
      BY Zenon, <2>2, <2>5
    <3>2. branch[o] \in Names
      BY Zenon, <3>1, Stepping, CallRecord
    <3>3. QED
      BY Zenon, <2>3, <2>4, <3>1, <3>2 DEF Own
  <2>6. QED
    BY Zenon, <2>1, <2>5 DEF Own
<1>10. ASSUME NEW s \in Callers, MergeReread(s) PROVE Own'
  <2>1. call[s] # Idle /\ UNCHANGED <<branch, merge>>
    BY Zenon, <1>10, Stepping DEF MergeReread, At, branchVars, sessionVars
  <2>2. /\ call'[s].pc = IF merge[branch[s]] = NoMerge THEN "head" ELSE "commit"
        /\ \A o \in Callers : o # s => call'[o] = call[o]
    BY Zenon, <1>10, <2>1, GoesOn DEF MergeReread
  <2>3. QED
    BY Zenon, <2>1, <2>2 DEF Own
<1>11. ASSUME NEW s \in Callers, MergeHead(s) PROVE Own'
  BY Zenon, <1>11, ReturnsCall, OwnKept DEF MergeHead, branchVars, sessionVars
<1>12. ASSUME NEW s \in Callers, MergeFails(s) PROVE Own'
  <2>1. call[s] # Idle /\ UNCHANGED <<branch, merge>>
    BY Zenon, <1>12 DEF MergeFails, branchVars, sessionVars
  <2>2. call'[s].pc \in {"abort", "idle"} /\ \A o \in Callers : o # s => call'[o] = call[o]
    BY Zenon, <1>12, <2>1, GoesOn, ReturnsCall DEF MergeFails
  <2>3. QED
    BY Zenon, <2>1, <2>2, OwnKept
<1>13. ASSUME NEW s \in Callers, Cancel(s) PROVE Own'
  <2>1. "pc" \in DOMAIN call[s] /\ UNCHANGED <<branch, merge>>
    BY Zenon, <1>13, CallRecord DEF Cancel, branchVars, sessionVars, MergeCall
  <2>2. \A o \in Callers : call'[o].pc = call[o].pc
    BY Zenon, <1>13, <2>1 DEF Cancel, TypeOK, CallOK
  <2>3. QED
    BY Zenon, <2>1, <2>2, OwnKept
<1>14. ASSUME NEW s \in Callers, MergeAbort(s) PROVE Own'
  <2>1. call'[s].pc = "idle" /\ UNCHANGED branch /\ \A o \in Callers : o # s => call'[o] = call[o]
    BY Zenon, <1>14, ReturnsCall DEF MergeAbort, sessionVars
  <2>2. \A n \in Names : merge'[n] = merge[n] \/ merge'[n] = NoMerge
    BY Zenon, <1>0, <1>14 DEF MergeAbort, Abort, branchVars
  <2>3. QED
    BY Zenon, <2>1, <2>2, OwnKept
<1>15. ASSUME NEW s \in Callers, AbortMerge(s) PROVE Own'
  BY Zenon, <1>0, <1>15, OwnKept DEF AbortMerge, Abort, branchVars, sessionVars
<1>16. ASSUME NEW p, CloseDatabase(p) PROVE Own'
  BY Zenon, <1>16, OwnKept DEF CloseDatabase, branchVars
<1>17. QED
  BY Zenon, <1>1, <1>2, <1>3, <1>4, <1>5, <1>6, <1>7, <1>8, <1>9, <1>10, <1>11, <1>12, <1>13, <1>14, <1>15, <1>16,
     SessionsAssumption DEF Next, Step, Manage

-----------------------------------------------------------------------------
(* What is merged lands: MergeHonest.                                      *)

\* Sessions at the steps after the merge.
After == {"head", "reread", "commit"}

\* A step that changes no history and, where a call is past its merge, neither
\* the call's branch nor its merge.
LEMMA LandingKept ==
    ASSUME TypeOK, Landing, UNCHANGED commits,
           \A o \in Callers : call'[o].pc \in After /\ o \notin undone' =>
               /\ call[o].pc = call'[o].pc /\ call[o].of = call'[o].of /\ o \notin undone
               /\ branch'[o] = branch[o] /\ head'[branch[o]] = head[branch[o]]
               /\ merge'[branch[o]] = merge[branch[o]]
    PROVE  Landing'
<1> SUFFICES ASSUME NEW o \in Callers, o \notin undone', call'[o].pc \in After
             PROVE  /\ call'[o].pc = "head" => call'[o].of \in ReachedIn(commits', head'[branch'[o]])
                    /\ call'[o].pc \in {"reread", "commit"} =>
                          \/ call'[o].of \in ReachedIn(commits', head'[branch'[o]])
                          \/ merge'[branch'[o]].theirs = call'[o].of
  BY Zenon DEF Landing, After, Reaches
<1>1. /\ call[o].pc = "head" => call[o].of \in ReachedIn(commits, head[branch[o]])
      /\ call[o].pc \in {"reread", "commit"} =>
            \/ call[o].of \in ReachedIn(commits, head[branch[o]])
            \/ merge[branch[o]].theirs = call[o].of
  BY Zenon DEF Landing, Reaches
<1>2. QED
  BY Zenon, <1>1

\* A commit of the working set lands the merge in progress, and keeps what
\* every branch's head reaches.
LEMMA CommitLands ==
    ASSUME TypeOK, ParentsThere, NEW n \in Names, head[n] # 0, CommitWorkingSet(n),
           NEW m \in Names, head[m] # 0, NEW c \in DOMAIN commits
    PROVE  /\ c \in ReachedIn(commits, head[m]) => c \in ReachedIn(commits', head'[m])
           /\ merge[n].theirs = c => c \in ReachedIn(commits', head'[n])
           /\ m # n => merge'[m] = merge[m]
<1>1. /\ DOMAIN commits \subseteq DOMAIN commits' /\ Len(commits') \in DOMAIN commits'
      /\ \A i \in DOMAIN commits : commits'[i] = commits[i]
      /\ commits'[Len(commits')].parents = {head[n], merge[n].theirs} \ {0}
  BY Zenon, CommitAppends
<1>2. \A i \in DOMAIN commits : commits[i].parents \subseteq DOMAIN commits
  BY Zenon DEF ParentsThere
<1>3. head[m] \in DOMAIN commits /\ DOMAIN head = Names /\ DOMAIN merge = Names
  BY Numbered DEF TypeOK, HeadOK, MergeOK
<1>4. /\ head'[n] = Len(commits') /\ (m # n => head'[m] = head[m] /\ merge'[m] = merge[m])
  BY Zenon, <1>3 DEF CommitWorkingSet
<1>5. c \in ReachedIn(commits, head[m]) => c \in ReachedIn(commits', head[m])
  BY Zenon, <1>1, <1>2, <1>3, ReachesGrows
<1>6. ASSUME m = n, c \in ReachedIn(commits', head[n])
      PROVE  c \in ReachedIn(commits', head'[n])
  BY Zenon, <1>1, <1>4, <1>6, ReachesParents
<1>7. ASSUME merge[n].theirs = c
      PROVE  c \in ReachedIn(commits', head'[n])
  <2>1. c \in ReachedIn(commits', c) /\ c # 0
    BY <1>1, ReachesSelf, Numbered
  <2>2. QED
    BY Zenon, <1>1, <1>4, <1>7, <2>1, ReachesParents
<1>8. QED
  BY Zenon, <1>4, <1>5, <1>6, <1>7

\* Every step keeps Landing.
LEMMA LandingStep ==
    ASSUME TypeOK, ParentsThere, Held, Landing, Next
    PROVE  Landing'
<1>0. DOMAIN merge = Names /\ DOMAIN head = Names /\ branch \in [Callers -> Names \cup {Closed}]
  BY Zenon DEF TypeOK, MergeOK, OnOK, HeadOK
<1>a. \A o \in Callers : call[o].pc \in After =>
          /\ call[o] # Idle /\ branch[o] \in Names /\ branch[o] # Closed
          /\ call[o].of \in DOMAIN commits /\ call[o].of # 0 /\ head[branch[o]] # 0
  <2> SUFFICES ASSUME NEW o \in Callers, call[o].pc \in After
               PROVE  /\ call[o] # Idle /\ branch[o] \in Names /\ branch[o] # Closed
                      /\ call[o].of \in DOMAIN commits /\ call[o].of # 0 /\ head[branch[o]] # 0
    BY Zenon
  <2>1. call[o] # Idle
    BY Zenon, Stepping DEF After
  <2>2. call[o].of \in DOMAIN commits /\ branch[o] \in Names
    BY Zenon, <2>1, CallRecord DEF After
  <2>3. branch[o] # Closed
    BY Zenon, <2>1 DEF TypeOK, CallsOn
  <2>4. head[branch[o]] # 0
    BY Zenon, <2>3 DEF Held, Branches
  <2>5. call[o].of # 0
    BY <2>2, Numbered
  <2>6. QED
    BY Zenon, <2>1, <2>2, <2>3, <2>4, <2>5
<1>1. ASSUME NEW s \in Callers, NEW n \in Names, OpenSession(s, n) \/ Checkout(s, n) \/ Close(s) PROVE Landing'
  <2>1. call[s].pc = "idle" /\ UNCHANGED <<call, merge, head, commits, undone>>
    BY Zenon, <1>1, ClosedIdle DEF OpenSession, Checkout, Close, Calls, branchVars
  <2>2. \A o \in Callers : o # s => branch'[o] = branch[o]
    BY Zenon, <1>0, <1>1 DEF OpenSession, Checkout, Close
  <2>3. QED
    BY Zenon, <2>1, <2>2, LandingKept DEF After
<1>2. ASSUME NEW s \in Callers, NEW n \in Names, NEW at \in Names,
             CreateBranch(s, n, at) \/ (setting.deletes /\ DeleteBranch(s, n))
      PROVE  Landing'
  <2>1. UNCHANGED <<commits, call, branch, undone>>
    BY Zenon, <1>2 DEF CreateBranch, DeleteBranch, branchVars, sessionVars
  <2>2. \A o \in Callers : branch[o] # Closed =>
            head'[branch[o]] = head[branch[o]] /\ merge'[branch[o]] = merge[branch[o]]
    BY Zenon, <1>2, BranchesStay
  <2>3. QED
    BY Zenon, <1>a, <2>1, <2>2, LandingKept
<1>3. ASSUME NEW s \in Callers, NEW e, TxnCommit(s, e) PROVE Landing'
  BY Zenon, <1>3, LandingKept DEF TxnCommit, sessionVars
<1>4. ASSUME NEW s \in Callers, Commit(s) \/ MergeCommit(s) PROVE Landing'
  <2> DEFINE n == branch[s]
  <2>1. n \in Names /\ n # Closed /\ UNCHANGED <<branch, undone>>
    BY Zenon, <1>4, <1>a, CallerOn DEF Commit, Turn, MergeCommit, At, After, sessionVars
  <2>2. \A o \in Callers : call'[o].pc \in After => call'[o] = call[o]
    <3>1. CASE Commit(s)
      BY Zenon, <3>1 DEF Commit
    <3>2. CASE MergeCommit(s)
      <4>1. call[s] # Idle
        BY Zenon, <3>2, <1>a DEF MergeCommit, At, After
      <4>2. call'[s].pc \in {"abort", "idle"} /\ \A o \in Callers : o # s => call'[o] = call[o]
        BY Zenon, <3>2, <4>1, GoesOn, ReturnsCall DEF MergeCommit
      <4>3. QED
        BY Zenon, <4>2 DEF After
    <3>3. QED
      BY Zenon, <1>4, <3>1, <3>2
  <2>3. CASE UNCHANGED <<commits, head, work, merge, acked>>
    BY Zenon, <2>1, <2>2, <2>3, LandingKept
  <2>4. CASE CommitWorkingSet(n)
    <3>1. head[n] # 0
      BY Zenon, <2>1 DEF Held, Branches
    <3>2. ASSUME NEW o \in Callers, call'[o].pc \in After, o \notin undone'
          PROVE  \/ call[o].of \in ReachedIn(commits', head'[branch[o]])
                 \/ merge'[branch[o]].theirs = call[o].of /\ call[o].pc # "head"
      <4>1. call[o].pc \in After /\ o \notin undone
        BY Zenon, <2>1, <2>2, <3>2
      <4>2. \/ call[o].of \in ReachedIn(commits, head[branch[o]])
            \/ merge[branch[o]].theirs = call[o].of /\ call[o].pc # "head"
        BY Zenon, <4>1 DEF Landing, After, Reaches
      <4>3. branch[o] \in Names /\ head[branch[o]] # 0 /\ call[o].of \in DOMAIN commits
        BY Zenon, <1>a, <4>1
      <4>4. /\ call[o].of \in ReachedIn(commits, head[branch[o]])
               => call[o].of \in ReachedIn(commits', head'[branch[o]])
            /\ merge[n].theirs = call[o].of => call[o].of \in ReachedIn(commits', head'[n])
            /\ branch[o] # n => merge'[branch[o]] = merge[branch[o]]
        BY Zenon, <2>1, <2>4, <3>1, <4>3, CommitLands
      <4>5. QED
        BY Zenon, <4>2, <4>4
    <3>3. QED
      BY Zenon, <2>1, <2>2, <3>2 DEF Landing, After, Reaches
  <2>5. QED
    BY Zenon, <1>4, <2>3, <2>4 DEF Commit, MergeCommit
<1>5. ASSUME NEW s \in Callers, NEW n \in Names, MergeStart(s, n) PROVE Landing'
  <2>1. call'[s].pc \in {"resolve", "idle"} /\ \A o \in Callers : o # s => call'[o] = call[o]
    BY <1>5 DEF MergeStart, Return, Idle, TypeOK, CallOK
  <2>2. UNCHANGED <<commits, head, merge, branch>> /\ undone' = undone \ {s}
    BY Zenon, <1>5 DEF MergeStart, sessionVars
  <2>3. QED
    BY Zenon, <2>1, <2>2, LandingKept DEF After
<1>6. ASSUME NEW s \in Callers, MergeResolve(s) PROVE Landing'
  <2>1. call[s] # Idle /\ UNCHANGED <<branchVars, sessionVars>>
    BY Zenon, <1>6, Stepping DEF MergeResolve, At
  <2>2. "pc" \in DOMAIN call[s] /\ DOMAIN call = Callers
    BY Zenon, <2>1, CallRecord DEF MergeCall, TypeOK, CallOK
  <2>3. call'[s].pc \in {"merge", "idle"} /\ \A o \in Callers : o # s => call'[o] = call[o]
    BY <1>6, <2>2 DEF MergeResolve, Return, Idle
  <2>4. QED
    BY Zenon, <2>1, <2>3, LandingKept DEF After, branchVars, sessionVars
<1>7. ASSUME NEW s \in Callers, MergeApply(s) PROVE Landing'
  <2> DEFINE n == branch[s]
  <2>1. call[s] # Idle /\ n \in Names /\ UNCHANGED <<branch, head, commits, undone>>
    BY Zenon, <1>7, Stepping, CallRecord DEF MergeApply, At, sessionVars
  <2>2. \A o \in Callers : o # s => call'[o] = call[o]
    BY Zenon, <1>7, <2>1, GoesOn, ReturnsCall DEF MergeApply
  <2>3. \A m \in Names : m # n => merge'[m] = merge[m]
    BY Zenon, <1>0, <1>7 DEF MergeApply
  <2>4. merge'[n] # merge[n] => merge[n] = NoMerge
    BY Zenon, <1>0, <1>7 DEF MergeApply
  <2>5. call'[s].pc \in After =>
           /\ call'[s].pc = "reread" /\ call'[s].of = call[s].of
           /\ call[s].of \in Reaches(head[n]) \/ merge'[n].theirs = call[s].of
    <3>1. CASE merge[n] # NoMerge
      BY Zenon, <1>7, <3>1, ReturnsCall DEF MergeApply, After
    <3>2. CASE merge[n] = NoMerge /\ call[s].of \in Reaches(head[n])
      BY Zenon, <1>7, <2>1, <3>2, GoesOn DEF MergeApply
    <3>3. CASE merge[n] = NoMerge /\ call[s].of \notin Reaches(head[n])
      <4>1. merge'[n].theirs = call[s].of
        BY <1>0, <1>7, <2>1, <3>3 DEF MergeApply
      <4>2. Return(s, Quiet) \/ GoOn(s, "reread")
        BY Zenon, <1>7, <3>3 DEF MergeApply
      <4>3. QED
        BY Zenon, <2>1, <4>1, <4>2, GoesOn, ReturnsCall DEF After
    <3>4. QED
      BY Zenon, <3>1, <3>2, <3>3
  <2>6. ASSUME NEW o \in Callers, o # s, call'[o].pc \in After, o \notin undone'
        PROVE  \/ call[o].of \in Reaches(head[branch[o]])
               \/ merge'[branch[o]].theirs = call[o].of /\ call[o].pc # "head"
    <3>1. call[o].pc \in After /\ o \notin undone
      BY Zenon, <2>1, <2>2, <2>6
    <3>2. \/ call[o].of \in Reaches(head[branch[o]])
          \/ merge[branch[o]].theirs = call[o].of /\ call[o].pc # "head"
      BY Zenon, <3>1 DEF Landing, After
    <3>3. merge[branch[o]] = NoMerge => merge[branch[o]].theirs # call[o].of
      BY <1>a, <3>1 DEF NoMerge
    <3>4. QED
      BY Zenon, <1>a, <2>3, <2>4, <3>1, <3>2, <3>3
  <2>7. QED
    BY Zenon, <2>1, <2>2, <2>5, <2>6 DEF Landing, After, Reaches
<1>8. ASSUME NEW s \in Callers, MergeReread(s) PROVE Landing'
  <2>1. call[s].pc = "reread" /\ call[s] # Idle /\ UNCHANGED <<commits, head, merge, branch, undone>>
    BY Zenon, <1>8, Stepping DEF MergeReread, At, branchVars, sessionVars
  <2>2. /\ call'[s].pc = IF merge[branch[s]] = NoMerge THEN "head" ELSE "commit"
        /\ call'[s].of = call[s].of
        /\ \A o \in Callers : o # s => call'[o] = call[o]
    BY Zenon, <1>8, <2>1, GoesOn DEF MergeReread
  <2>3. merge[branch[s]] = NoMerge => merge[branch[s]].theirs # call[s].of
    BY <1>a, <2>1 DEF NoMerge, After
  <2>4. QED
    BY Zenon, <2>1, <2>2, <2>3 DEF Landing, Reaches
<1>9. ASSUME NEW s \in Callers, MergeHead(s) \/ MergeFails(s) PROVE Landing'
  <2>1. call[s] # Idle /\ UNCHANGED <<branchVars, sessionVars>>
    BY Zenon, <1>9, Stepping DEF MergeHead, MergeFails, At
  <2>2. call'[s].pc \in {"abort", "idle"} /\ \A o \in Callers : o # s => call'[o] = call[o]
    BY Zenon, <1>9, <2>1, GoesOn, ReturnsCall DEF MergeHead, MergeFails
  <2>3. QED
    BY Zenon, <2>1, <2>2, LandingKept DEF After, branchVars, sessionVars
<1>10. ASSUME NEW s \in Callers, Cancel(s) PROVE Landing'
  <2>1. {"pc", "of", "ctx"} \subseteq DOMAIN call[s] /\ UNCHANGED <<branchVars, sessionVars>>
    BY Zenon, <1>10, CallRecord DEF Cancel, MergeCall
  <2>2. \A o \in Callers : call'[o].pc = call[o].pc /\ call'[o].of = call[o].of
    BY Zenon, <1>10, <2>1 DEF Cancel, TypeOK, CallOK
  <2>3. QED
    BY Zenon, <2>1, <2>2, LandingKept DEF branchVars, sessionVars
<1>11. ASSUME NEW s \in Callers, AbortMerge(s) \/ MergeAbort(s) PROVE Landing'
  <2>1. \A o \in Callers : call'[o].pc \in After => call'[o] = call[o]
    <3>1. CASE AbortMerge(s)
      BY Zenon, <3>1 DEF AbortMerge
    <3>2. CASE MergeAbort(s)
      <4>1. call'[s].pc = "idle" /\ \A o \in Callers : o # s => call'[o] = call[o]
        BY Zenon, <3>2, ReturnsCall DEF MergeAbort
      <4>2. QED
        BY Zenon, <4>1 DEF After
    <3>3. QED
      BY Zenon, <1>11, <3>1, <3>2
  <2>2. UNCHANGED <<commits, head, branch>>
    BY Zenon, <1>11 DEF AbortMerge, MergeAbort, Abort, branchVars, sessionVars
  <2>3. CASE UNCHANGED branchVars
    BY Zenon, <2>1, <2>2, <2>3, LandingKept DEF branchVars
  <2>4. CASE Abort(branch[s])
    <3>1. /\ \A m \in Names : m # branch[s] => merge'[m] = merge[m]
          /\ undone' = undone \cup {o \in Callers : branch[o] = branch[s] /\ call[o].pc \in After}
      BY Zenon, <1>0, <2>4 DEF Abort, After
    <3>2. QED
      BY Zenon, <1>a, <2>1, <2>2, <3>1, LandingKept
  <2>5. QED
    BY Zenon, <1>11, <2>3, <2>4 DEF AbortMerge, MergeAbort
<1>12. ASSUME NEW p, CloseDatabase(p) PROVE Landing'
  BY Zenon, <1>12, LandingKept DEF CloseDatabase, branchVars
<1>13. QED
  BY Zenon, <1>1, <1>2, <1>3, <1>4, <1>5, <1>6, <1>7, <1>8, <1>9, <1>10, <1>11, <1>12, SessionsAssumption
     DEF Next, Step, Manage

-----------------------------------------------------------------------------
(* What Merge returns.                                                     *)

\* A Merge that reports a commit tells the truth of it.
LEMMA HonestStep ==
    ASSUME TypeOK, ParentsThere, Held, Landing, Next
    PROVE  MergeHonest'
<1>1. ASSUME told' = Quiet PROVE MergeHonest'
  BY Zenon, <1>1 DEF MergeHonest, Quiet
<1>2. ASSUME NEW x, NEW y, told' = [is |-> "failed", at |-> x, by |-> y] PROVE MergeHonest'
  BY Zenon, <1>2 DEF MergeHonest
<1>3. ASSUME NEW s \in Callers, MergeHead(s) PROVE MergeHonest'
  <2>1. told' = Merged(s, head[branch[s]]) /\ UNCHANGED commits /\ call[s].pc = "head"
    BY Zenon, <1>3, ReturnsCall DEF MergeHead, At, branchVars
  <2>2. s \notin undone => call[s].of \in Reaches(head[branch[s]])
    BY Zenon, <2>1 DEF Landing
  <2>3. QED
    BY Zenon, <2>1, <2>2 DEF MergeHonest, Merged, Reaches
<1>4. ASSUME NEW s \in Callers, MergeCommit(s) PROVE MergeHonest'
  <2> DEFINE n == branch[s]
  <2>1. call[s].pc = "commit" /\ call[s] # Idle
    BY Zenon, <1>4, Stepping DEF MergeCommit, At
  <2>2. n \in Names /\ n # Closed /\ call[s].of \in DOMAIN commits
    BY Zenon, <2>1, CallRecord DEF TypeOK, CallsOn
  <2>3. head[n] # 0
    BY Zenon, <2>2 DEF Held, Branches
  <2>4. CASE Unresolved(n)
    BY Zenon, <1>1, <1>4, <2>4 DEF MergeCommit, GoOn
  <2>5. CASE ~Unresolved(n)
    <3>1. CommitWorkingSet(n) /\ told' = Merged(s, Len(commits')) /\ head'[n] = Len(commits')
      BY Zenon, <1>4, <2>2, <2>5, ReturnsCall DEF MergeCommit, CommitWorkingSet, TypeOK, HeadOK
    <3>2. s \notin undone => call[s].of \in ReachedIn(commits, head[n]) \/ merge[n].theirs = call[s].of
      BY Zenon, <2>1 DEF Landing, Reaches
    <3>3. s \notin undone => call[s].of \in ReachedIn(commits', head'[n])
      BY Zenon, <2>2, <2>3, <3>1, <3>2, CommitLands
    <3>4. QED
      BY Zenon, <3>1, <3>3 DEF MergeHonest, Merged, Reaches
  <2>6. QED
    BY Zenon, <2>4, <2>5
<1>5. ASSUME NEW s \in Callers, NEW n \in Names,
             OpenSession(s, n) \/ Checkout(s, n) \/ Close(s) \/ DeleteBranch(s, n) \/ MergeStart(s, n)
      PROVE  MergeHonest'
  BY Zenon, <1>1, <1>5 DEF OpenSession, Checkout, Close, DeleteBranch, MergeStart, Return, Succeed, Refuse
<1>6. ASSUME NEW s \in Callers, NEW n \in Names, NEW at \in Names, CreateBranch(s, n, at) PROVE MergeHonest'
  BY Zenon, <1>1, <1>6 DEF CreateBranch, Succeed, Refuse
<1>7. ASSUME NEW s \in Callers, NEW e, TxnCommit(s, e) PROVE MergeHonest'
  BY Zenon, <1>1, <1>7 DEF TxnCommit, Succeed, Refuse
<1>8. ASSUME NEW s \in Callers, MergeApply(s) PROVE MergeHonest'
  BY Zenon, <1>1, <1>8 DEF MergeApply, Return, GoOn
<1>9. ASSUME NEW s \in Callers, AbortMerge(s) \/ MergeResolve(s) \/ MergeReread(s) \/ Cancel(s) \/ Commit(s)
      PROVE  MergeHonest'
  BY Zenon, <1>1, <1>9 DEF AbortMerge, MergeResolve, MergeReread, Cancel, Commit, Return, GoOn, Succeed, Refuse
<1>10. ASSUME NEW s \in Callers, MergeAbort(s) \/ MergeFails(s) PROVE MergeHonest'
  BY Zenon, <1>1, <1>2, <1>10 DEF MergeAbort, MergeFails, Return, GoOn
<1>11. ASSUME NEW p, CloseDatabase(p) PROVE MergeHonest'
  BY Zenon, <1>1, <1>11 DEF CloseDatabase, Succeed
<1>12. QED
  BY Zenon, <1>3, <1>4, <1>5, <1>6, <1>7, <1>8, <1>9, <1>10, <1>11, SessionsAssumption DEF Next, Step, Manage

\* A Merge that fails where it has merged nothing, or has undone what it
\* merged, leaves no merge of its own.
LEMMA FailedStep ==
    ASSUME TypeOK, Own, Next
    PROVE  FailedMergeUndone'
<1>1. ASSUME told' = Quiet PROVE FailedMergeUndone'
  BY Zenon, <1>1 DEF FailedMergeUndone, Quiet
<1>2. ASSUME NEW s \in Callers, NEW c, told' = Merged(s, c) PROVE FailedMergeUndone'
  BY Zenon, <1>2 DEF FailedMergeUndone, Merged
<1>3. ASSUME NEW s \in Callers, MergeFails(s) PROVE FailedMergeUndone'
  <2>1. CASE call[s].pc = "commit"
    BY Zenon, <1>1, <1>3, <2>1 DEF MergeFails, GoOn
  <2>2. CASE call[s].pc # "commit"
    <3>1. told' = [is |-> "failed", at |-> call[s].pc, by |-> s] /\ UNCHANGED <<merge, branch>>
      BY Zenon, <1>3, <2>2 DEF MergeFails, Return, branchVars, sessionVars
    <3>2. call[s] # Idle /\ call[s] \in MergeCall
      BY Zenon, <1>3, CallRecord DEF MergeFails
    <3>3. call[s].pc # "aborted"
      BY Zenon, <3>2 DEF MergeCall
    <3>4. QED
      BY Zenon, <2>2, <3>1, <3>3 DEF FailedMergeUndone, Own
  <2>3. QED
    BY Zenon, <2>1, <2>2
<1>4. ASSUME NEW s \in Callers, MergeAbort(s) PROVE FailedMergeUndone'
  <2>1. branch[s] \in Names /\ DOMAIN merge = Names
    BY Zenon, <1>4, Stepping, CallRecord DEF MergeAbort, At, TypeOK, MergeOK
  <2>2. told' = [is |-> "failed", at |-> "aborted", by |-> s] /\ UNCHANGED branch
    BY Zenon, <1>4 DEF MergeAbort, Return, sessionVars
  <2>3. merge'[branch[s]] = NoMerge
    BY Zenon, <1>4, <2>1 DEF MergeAbort, Abort, branchVars
  <2>4. QED
    BY Zenon, <2>2, <2>3 DEF FailedMergeUndone
<1>5. ASSUME NEW s \in Callers, MergeHead(s) \/ MergeCommit(s) PROVE FailedMergeUndone'
  BY Zenon, <1>1, <1>2, <1>5 DEF MergeHead, MergeCommit, Return, GoOn
<1>6. ASSUME NEW s \in Callers, NEW n \in Names,
             OpenSession(s, n) \/ Checkout(s, n) \/ Close(s) \/ DeleteBranch(s, n) \/ MergeStart(s, n)
      PROVE  FailedMergeUndone'
  BY Zenon, <1>1, <1>6 DEF OpenSession, Checkout, Close, DeleteBranch, MergeStart, Return, Succeed, Refuse
<1>7. ASSUME NEW s \in Callers, NEW n \in Names, NEW at \in Names, CreateBranch(s, n, at) PROVE FailedMergeUndone'
  BY Zenon, <1>1, <1>7 DEF CreateBranch, Succeed, Refuse
<1>8. ASSUME NEW s \in Callers, NEW e, TxnCommit(s, e) PROVE FailedMergeUndone'
  BY Zenon, <1>1, <1>8 DEF TxnCommit, Succeed, Refuse
<1>9. ASSUME NEW s \in Callers, MergeApply(s) PROVE FailedMergeUndone'
  BY Zenon, <1>1, <1>9 DEF MergeApply, Return, GoOn
<1>10. ASSUME NEW s \in Callers, AbortMerge(s) \/ MergeResolve(s) \/ MergeReread(s) \/ Cancel(s) \/ Commit(s)
       PROVE  FailedMergeUndone'
  BY Zenon, <1>1, <1>10 DEF AbortMerge, MergeResolve, MergeReread, Cancel, Commit, Return, GoOn, Succeed, Refuse
<1>11. ASSUME NEW p, CloseDatabase(p) PROVE FailedMergeUndone'
  BY Zenon, <1>1, <1>11 DEF CloseDatabase, Succeed
<1>12. QED
  BY Zenon, <1>3, <1>4, <1>5, <1>6, <1>7, <1>8, <1>9, <1>10, <1>11, SessionsAssumption DEF Next, Step, Manage

-----------------------------------------------------------------------------
(* The theorems.                                                           *)

\* The initial state satisfies the inductive invariant.
LEMMA InvInit == Init => IInv /\ MergeHonest /\ FailedMergeUndone
<1> SUFFICES ASSUME Init PROVE IInv /\ MergeHonest /\ FailedMergeUndone
  BY Zenon
<1>1. TypeOK
  BY Zenon, TypesInit
<1>2. ParentsThere
  <2>1. commits = <<[parents |-> {}, tree |-> {}]>>
    BY Zenon DEF Init
  <2>2. QED
    BY <2>1 DEF ParentsThere
<1>3. Held /\ Kept
  BY Zenon DEF Init, Held, Kept
<1>4. \A s \in Callers : call[s].pc = "idle"
  BY Zenon DEF Init, Idle
<1>5. Own /\ Landing
  BY Zenon, <1>4 DEF Own, Landing
<1>6. MergeHonest /\ FailedMergeUndone
  BY Zenon DEF Init, Quiet, MergeHonest, FailedMergeUndone
<1>7. QED
  BY Zenon, <1>1, <1>2, <1>3, <1>5, <1>6 DEF IInv

\* Every step, and a stutter, keeps it.
LEMMA InvStep ==
    IInv /\ MergeHonest /\ FailedMergeUndone /\ [Next]_vars
    => (IInv /\ MergeHonest /\ FailedMergeUndone)'
<1> SUFFICES ASSUME IInv, MergeHonest, FailedMergeUndone, [Next]_vars
             PROVE  (IInv /\ MergeHonest /\ FailedMergeUndone)'
  BY Zenon
<1>1. CASE Next
  BY Zenon, <1>1, TypesStep, ParentsStep, HeldStep, KeptStep, OwnStep, LandingStep, HonestStep, FailedStep DEF IInv
<1>2. CASE UNCHANGED vars
  <2>1. TypeOK'
    BY Zenon, <1>2 DEF vars, IInv, TypeOK, CommitsOK, HeadOK, WorkOK, MergeOK, OnOK, CallOK, CallsOn, InProgress, MergeCall
  <2>2. ParentsThere' /\ Held' /\ Kept' /\ Own'
    BY Zenon, <1>2 DEF vars, IInv, ParentsThere, Held, Kept, Own, Branches
  <2>3. Landing' /\ MergeHonest' /\ FailedMergeUndone'
    BY Zenon, <1>2 DEF vars, IInv, Landing, Reaches, MergeHonest, FailedMergeUndone
  <2>4. QED
    BY Zenon, <2>1, <2>2, <2>3 DEF IInv
<1>3. QED
  BY Zenon, <1>1, <1>2

\* The inductive invariant holds throughout, with what it says of a Merge's
\* answer.
THEOREM Invariant == Spec => [](IInv /\ MergeHonest /\ FailedMergeUndone)
BY InvInit, InvStep, PTL DEF Spec

\* Sessions' commit graph, working sets, merges and calls keep their types.
THEOREM TypesHold == Spec => []TypeOK
<1>1. IInv => TypeOK
  BY Zenon DEF IInv
<1>2. QED
  BY <1>1, Invariant, PTL

\* SessionOnBranch: with any number of sessions, a session's branch is there
\* for as long as the session is on it, because Checkout holds it
\* (Session.co) and DeleteBranch asks the holds.
THEOREM SessionOnBranchHolds == Spec => []SessionOnBranch
<1>1. IInv => SessionOnBranch
  BY Zenon DEF IInv, Held, SessionOnBranch, ready
<1>2. QED
  BY <1>1, Invariant, PTL

\* NothingLost: what Txn.Commit reported stays in its branch's working set
\* through every interleaving of merges, their aborts and failures, commits,
\* checkouts and closings.
THEOREM NothingLostHolds == Spec => []NothingLost
<1>1. IInv => NothingLost
  BY Zenon DEF IInv, Kept, NothingLost, Branches
<1>2. QED
  BY <1>1, Invariant, PTL

\* MergeHonest: a Merge that reports a commit, with no abort under it, has the
\* merged commit in that commit's history, whatever other sessions and
\* processes did between its steps.
THEOREM MergeHonestHolds == Spec => []MergeHonest
BY Invariant, PTL

\* FailedMergeUndone: a Merge that fails before it merges, or whose abort ran,
\* leaves no merge of its own on its branch.
THEOREM FailedMergeUndoneHolds == Spec => []FailedMergeUndone
BY Invariant, PTL

-----------------------------------------------------------------------------

\* A step that leaves a branch's merge as it is leaves its working set and head.
LEMMA StillStep ==
    ASSUME TypeOK, Next, NEW n \in Names, merge[n] # NoMerge, merge'[n] = merge[n]
    PROVE  work'[n] = work[n] /\ head'[n] = head[n]
<1>0. DOMAIN merge = Names /\ DOMAIN head = Names /\ DOMAIN work = Names
  BY Zenon DEF TypeOK, MergeOK, HeadOK, WorkOK
<1> DEFINE Still == work'[n] = work[n] /\ head'[n] = head[n]
<1>1. ASSUME UNCHANGED branchVars PROVE Still
  BY Zenon, <1>1 DEF branchVars
<1>2. ASSUME NEW s \in Callers, NEW m \in Names, OpenSession(s, m) \/ Checkout(s, m) \/ Close(s) PROVE Still
  BY Zenon, <1>1, <1>2 DEF OpenSession, Checkout, Close
<1>3. ASSUME NEW s \in Callers, NEW m \in Names, NEW at \in Names, CreateBranch(s, m, at) PROVE Still
  BY Zenon, <1>0, <1>3 DEF CreateBranch
<1>4. ASSUME NEW s \in Callers, NEW m \in Names, DeleteBranch(s, m) PROVE Still
  BY Zenon, <1>0, <1>4 DEF DeleteBranch, branchVars
<1>5. ASSUME NEW s \in Callers, NEW e, TxnCommit(s, e) PROVE Still
  BY Zenon, <1>0, <1>5 DEF TxnCommit
<1>6. ASSUME NEW s \in Callers, Commit(s) \/ MergeCommit(s) PROVE Still
  BY Zenon, <1>0, <1>6 DEF Commit, MergeCommit, CommitWorkingSet
<1>7. ASSUME NEW s \in Callers, NEW m \in Names, MergeStart(s, m) PROVE Still
  BY Zenon, <1>7 DEF MergeStart
<1>8. ASSUME NEW s \in Callers, MergeApply(s) PROVE Still
  BY Zenon, <1>0, <1>8 DEF MergeApply
<1>9. ASSUME NEW s \in Callers, AbortMerge(s) \/ MergeAbort(s) PROVE Still
  BY Zenon, <1>0, <1>9 DEF AbortMerge, MergeAbort, Abort, branchVars
<1>10. ASSUME NEW s \in Callers,
              MergeResolve(s) \/ MergeReread(s) \/ MergeHead(s) \/ MergeFails(s) \/ Cancel(s)
       PROVE  Still
  BY Zenon, <1>1, <1>10 DEF MergeResolve, MergeReread, MergeHead, MergeFails, Cancel
<1>11. ASSUME NEW p, CloseDatabase(p) PROVE Still
  BY Zenon, <1>1, <1>11 DEF CloseDatabase
<1>12. QED
  BY Zenon, <1>2, <1>3, <1>4, <1>5, <1>6, <1>7, <1>8, <1>9, <1>10, <1>11, SessionsAssumption DEF Next, Step, Manage

\* MidMergeStill: while a merge stays in progress on a branch, no transaction,
\* commit or second merge changes the branch's working set or its head.
THEOREM MidMergeStillHolds == Spec => MidMergeStill
<1>1. TypeOK /\ [Next]_vars =>
        [\A n \in Names : merge[n] # NoMerge /\ merge'[n] = merge[n]
                          => work'[n] = work[n] /\ head'[n] = head[n]]_vars
  BY Zenon, StillStep
<1>2. QED
  BY <1>1, TypesHold, PTL DEF Spec, MidMergeStill

=============================================================================
