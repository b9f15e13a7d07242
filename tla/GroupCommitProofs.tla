-------------------------- MODULE GroupCommitProofs --------------------------
(***************************************************************************)
(* The publishing of batches keeps SnapshotCommit's promise for every set  *)
(* of transactions, every batch and attempt bound, and whatever other      *)
(* writers do; its safety properties follow from one inductive invariant,  *)
(* IInv: first the steps that answer no call keep it, then those that do.  *)
(***************************************************************************)
EXTENDS GroupCommit, TxnOntoProofs

-----------------------------------------------------------------------------
\* One history appended to another (GroupCommit's log).
LEMMA JoinedLines ==
  ASSUME NEW S, NEW s \in Seq(S), NEW u \in Seq(S)
  PROVE  /\ s \o u \in Seq(S) /\ Len(s \o u) = Len(s) + Len(u)
         /\ \A x \in 1..Len(s) : (s \o u)[x] = s[x]
         /\ \A x \in 1..Len(u) : (s \o u)[Len(s) + x] = u[x]
         /\ \A x \in 1..Len(s) + Len(u) :
               x \in 1..Len(s) \/ \E y \in 1..Len(u) : x = Len(s) + y
<1>1. Len(s) \in Nat /\ Len(u) \in Nat
  OBVIOUS
<1>2. ASSUME NEW x \in 1..Len(s) + Len(u), x \notin 1..Len(s)
      PROVE  x - Len(s) \in 1..Len(u) /\ x = Len(s) + (x - Len(s))
  BY <1>1, <1>2
<1>3. s \o u \in Seq(S) /\ Len(s \o u) = Len(s) + Len(u)
  OBVIOUS
<1>4. \A x \in 1..Len(s) : (s \o u)[x] = s[x]
  OBVIOUS
<1>5. ASSUME NEW x \in 1..Len(u)
      PROVE  (s \o u)[Len(s) + x] = u[x]
  OBVIOUS
<1>6. \A x \in 1..Len(s) + Len(u) :
         x \in 1..Len(s) \/ \E y \in 1..Len(u) : x = Len(s) + y
  BY Zenon, <1>2
<1>. QED  BY Zenon, <1>3, <1>4, <1>5, <1>6

\* Removing the only occurrence of a call from a line (slices.DeleteFunc in
\* enqueue) closes the gap and keeps the rest in order.
LEMMA RemoveOnce ==
  ASSUME NEW S, NEW s \in Seq(S), NEW k \in 1..Len(s),
         \A x, y \in 1..Len(s) : s[x] = s[y] => x = y
  PROVE  /\ Without(s, s[k]) \in Seq(S)
         /\ Len(Without(s, s[k])) = Len(s) - 1
         /\ \A x \in 1..Len(s) - 1 :
               Without(s, s[k])[x] = IF x < k THEN s[x] ELSE s[x + 1]
<1> DEFINE a == SubSeq(s, 1, k - 1)
           b == SubSeq(s, k + 1, Len(s))
<1>1. k = CHOOSE x \in 1..Len(s) : s[x] = s[k]
  BY Zenon
<1>2. Without(s, s[k]) = a \o b
  BY Zenon, <1>1 DEF Without
<1>3. a \in Seq(S) /\ Len(a) = k - 1 /\ \A x \in 1..k - 1 : a[x] = s[x]
  OBVIOUS
<1>4. b \in Seq(S) /\ Len(b) = Len(s) - k /\ \A x \in 1..Len(s) - k : b[x] = s[k + x]
  OBVIOUS
<1> HIDE DEF a, b
<1>5. a \o b \in Seq(S) /\ Len(a \o b) = Len(s) - 1
  BY <1>3, <1>4
<1>6. ASSUME NEW x \in 1..Len(s) - 1
      PROVE  (a \o b)[x] = IF x < k THEN s[x] ELSE s[x + 1]
  <2>1. CASE x < k
    BY SMTT(30), <1>3, <1>4, <2>1
  <2>2. CASE ~(x < k)
    <3>1. x - (k - 1) \in 1..Len(b) /\ Len(a) + (x - (k - 1)) = x /\ x - (k - 1) \in 1..Len(s) - k
      BY <1>3, <1>4, <2>2
    <3>2. (a \o b)[Len(a) + (x - (k - 1))] = b[x - (k - 1)]
      <4>0. a \in Seq(S) /\ b \in Seq(S)
        BY Zenon, <1>3, <1>4
      <4>1. \A y \in 1..Len(b) : (a \o b)[Len(a) + y] = b[y]
        BY <4>0, JoinedLines
      <4>. QED  BY Zenon, <3>1, <4>1
    <3>3. b[x - (k - 1)] = s[k + (x - (k - 1))] /\ k + (x - (k - 1)) = x + 1
      BY <1>4, <3>1
    <3>. QED  BY Zenon, <2>2, <3>1, <3>2, <3>3
  <2>. QED  BY Zenon, <2>1, <2>2
<1>. QED  BY Zenon, <1>2, <1>5, <1>6

\* A call in line or taken is committing, and is there once.
InQueue ==
    /\ pc = "idle" => batch = <<>>
    /\ \A k \in 1..Len(line) : state[line[k]] = "committing"
    /\ \A k \in 1..Len(batch) : state[batch[k]] = "committing"
    /\ \A j, k \in 1..Len(line) : line[j] = line[k] => j = k
    /\ \A j, k \in 1..Len(batch) : batch[j] = batch[k] => j = k
    /\ \A j \in 1..Len(line), k \in 1..Len(batch) : line[j] # batch[k]

\* What the attempt applied so far: the members before i without an error,
\* each to what the ones before it made of cur.
Applying ==
    pc = "apply" =>
       /\ w = IF chain = <<>> THEN cur ELSE chain[Len(chain)].after
       /\ \A k \in 1..Len(chain) :
             /\ \E m \in 1..i - 1 : batch[m] = chain[k].t
             /\ errs[chain[k].t] = "nil"
             /\ chain[k].after = Applied(base[chain[k].t], ours[chain[k].t], chain[k].before)
             /\ chain[k].before = IF k = 1 THEN cur ELSE chain[k - 1].after
       /\ \A j, k \in 1..Len(chain) : chain[j].t = chain[k].t => j = k
       /\ \A m \in 1..i - 1 :
             errs[batch[m]] = "nil" => \E k \in 1..Len(chain) : chain[k].t = batch[m]
       /\ \A t \in Txns : errs[t] # "unknown"

\* The attempt's members were allowed what they wrote, while they committed.
Checked ==
    pc = "apply" =>
       \A k \in 1..Len(chain) :
          /\ held[chain[k].t].write
          /\ ChangedPaths(chain[k].before, chain[k].after) \subseteq held[chain[k].t].paths

\* While a transaction commits, its rights are among those held.
Holding ==
    \A t \in Txns : state[t] = "committing" =>
       /\ may[t].write => held[t].write
       /\ may[t].paths \subseteq held[t].paths

\* The log holds what was answered, once.
Logged ==
    /\ \A k \in 1..Len(log) : state[log[k].t] \in {"ok", "unknown"}
    /\ \A j, k \in 1..Len(log) : log[j].t = log[k].t => j = k
    /\ \A t \in Txns : state[t] = "ok" => \E k \in 1..Len(log) : log[k].t = t

IInv ==
    /\ TypeOK
    /\ InQueue
    /\ Applying
    /\ SwapAsksNothingNew
    /\ Checked
    /\ Holding
    /\ Logged
    /\ OwnGrantsOnly

-----------------------------------------------------------------------------
\* The parts of the state that sequences hold.
LEMMA Parts ==
  ASSUME TypeOK
  PROVE  /\ \A k \in 1..Len(line) : line[k] \in Txns
         /\ \A k \in 1..Len(batch) : batch[k] \in Txns
         /\ \A k \in 1..Len(chain) : chain[k] \in Entries
         /\ \A k \in 1..Len(log) : log[k] \in Entries
         /\ Len(line) \in Nat /\ Len(batch) \in Nat /\ Len(chain) \in Nat /\ Len(log) \in Nat
BY DEF TypeOK

\* The members are the elements of the batch.
LEMMA MembersAre ==
  ASSUME TypeOK
  PROVE  /\ Members \subseteq Txns
         /\ \A t \in Txns : t \in Members <=> \E k \in 1..Len(batch) : batch[k] = t
<1>1. DOMAIN batch = 1..Len(batch)
  BY DEF TypeOK
<1>. QED  BY Zenon, <1>1, Parts DEF Members, Range

\* What an invariant's part does not mention cannot disturb it.
LEMMA SameQueue ==
  ASSUME InQueue, pc' # "idle" \/ pc' = pc, batch' = batch, line' = line, state' = state
  PROVE  InQueue'
BY DEF InQueue

\* A line made anew keeps InQueue when its calls are committing, each once,
\* and none of them in the batch.
LEMMA QueueMade ==
  ASSUME InQueue, pc' = pc, batch' = batch,
         \A k \in 1..Len(line') : state'[line'[k]] = "committing",
         \A k \in 1..Len(batch) : state'[batch[k]] = "committing",
         \A j, k \in 1..Len(line') : line'[j] = line'[k] => j = k,
         \A j \in 1..Len(line'), k \in 1..Len(batch) : line'[j] # batch[k]
  PROVE  InQueue'
<1>1. /\ pc = "idle" => batch = <<>>
      /\ \A j, k \in 1..Len(batch) : batch[j] = batch[k] => j = k
  BY Zenon DEF InQueue
<1>. QED  BY <1>1 DEF InQueue

\* A step of a transaction that is not committing leaves the calls alone.
LEMMA QueueOfOthers ==
  ASSUME TypeOK, InQueue, pc' = pc, batch' = batch, line' = line,
         NEW t \in Txns, state[t] # "committing",
         \A u \in Txns : u # t => state'[u] = state[u]
  PROVE  InQueue'
<1>1. \A k \in 1..Len(line) : state'[line[k]] = "committing"
  BY Zenon, Parts DEF InQueue
<1>2. \A k \in 1..Len(batch) : state'[batch[k]] = "committing"
  BY Zenon, Parts DEF InQueue
<1>3. /\ pc = "idle" => batch = <<>>
      /\ \A j, k \in 1..Len(line) : line[j] = line[k] => j = k
      /\ \A j, k \in 1..Len(batch) : batch[j] = batch[k] => j = k
      /\ \A j \in 1..Len(line), k \in 1..Len(batch) : line[j] # batch[k]
  BY Zenon DEF InQueue
<1>. QED  BY <1>1, <1>2, <1>3 DEF InQueue

\* An attempt stands while no one touches it.
LEMMA SameAttempt ==
  ASSUME Applying, pc' = pc, batch' = batch, cur' = cur, w' = w, i' = i, errs' = errs,
         chain' = chain, base' = base, ours' = ours
  PROVE  Applying'
BY DEF Applying

\* What is said of the log stands while log, state and rights do.
LEMMA SameLog ==
  ASSUME Logged, OwnGrantsOnly, log' = log, state' = state, held' = held
  PROVE  Logged' /\ OwnGrantsOnly'
BY Zenon DEF Logged, OwnGrantsOnly

\* Holding stands while the rights and states do.
LEMMA SameRights ==
  ASSUME Holding, state' = state, held' = held, may' = may
  PROVE  Holding'
BY Zenon DEF Holding

\* What is said of the checks made stands while the attempt does.
LEMMA SameChecks ==
  ASSUME Checked, SwapAsksNothingNew,
         pc' = pc, chain' = chain, held' = held, cur' = cur, w' = w, g' = g
  PROVE  Checked' /\ SwapAsksNothingNew'
BY Zenon DEF Checked, SwapAsksNothingNew

\* The engine starts in the invariant.
LEMMA InitIInv == Init => IInv
<1> SUFFICES ASSUME Init PROVE IInv
  BY Zenon
<1>1. TypeOK
  <2>1. First \in Namespaces
    BY Zenon, DomainAssumption
  <2>2. may \in [Txns -> Rights] /\ held \in [Txns -> Rights]
    BY Zenon, GrantsAssumption DEF Init
  <2>3. g \in [write : BOOLEAN, paths : SUBSET Paths]
    BY Zenon DEF Init, NoGrants
  <2>4. attempts \in 0..MaxAttempts - 1
    BY AttemptsAssumption DEF Init
  <2>5. /\ base \in [Txns -> Namespaces] /\ ours \in [Txns -> Namespaces]
        /\ errs \in [Txns -> Errors] /\ began \in [Txns -> Nat]
        /\ state \in [Txns -> Refusals \cup {"new", "open", "committing", "ok", "empty", "unknown"}]
    BY Zenon, <2>1 DEF Init, Errors
  <2>6. /\ line \in Seq(Txns) /\ batch \in Seq(Txns)
        /\ chain \in Seq(Entries) /\ log \in Seq(Entries)
        /\ i \in 1..Len(batch) + 1
    BY DEF Init
  <2>. QED  BY Zenon, <2>1, <2>2, <2>3, <2>4, <2>5, <2>6 DEF Init, TypeOK
<1>2. InQueue /\ Applying /\ Checked /\ SwapAsksNothingNew /\ Logged /\ OwnGrantsOnly
  BY DEF Init, InQueue, Applying, Checked, SwapAsksNothingNew, Logged, OwnGrantsOnly
<1>3. Holding
  BY Zenon DEF Init, Holding
<1>. QED  BY Zenon, <1>1, <1>2, <1>3 DEF IInv

-----------------------------------------------------------------------------
\* A step of one transaction that is not committing yet leaves the attempt,
\* the log and the other calls alone.
LEMMA Private ==
  ASSUME IInv, NEW t \in Txns,
         state[t] \in {"new", "open"},
         state'[t] \notin {"ok", "unknown"},
         \A u \in Txns : u # t => /\ state'[u] = state[u] /\ base'[u] = base[u]
                                  /\ ours'[u] = ours[u] /\ held'[u] = held[u]
                                  /\ may'[u] = may[u],
         UNCHANGED <<pc, batch, attempts, attemptVars, log>>
  PROVE  /\ Applying' /\ Checked' /\ SwapAsksNothingNew' /\ Logged' /\ OwnGrantsOnly'
         /\ \A k \in 1..Len(batch) : batch[k] # t
<1>u. /\ pc' = pc /\ batch' = batch /\ attempts' = attempts /\ log' = log
      /\ cur' = cur /\ w' = w /\ i' = i /\ errs' = errs /\ g' = g /\ chain' = chain
  BY Zenon DEF attemptVars
<1>0. TypeOK /\ InQueue /\ Applying /\ Checked /\ SwapAsksNothingNew /\ Logged /\ OwnGrantsOnly
  BY Zenon DEF IInv
<1>1. \A k \in 1..Len(batch) : batch[k] # t
  BY Zenon, <1>0 DEF InQueue
<1>2. pc = "apply" => \A k \in 1..Len(chain) : chain[k].t \in Txns /\ chain[k].t # t
  <2>1. pc = "apply" => \A k \in 1..Len(chain) : \E m \in 1..Len(batch) : batch[m] = chain[k].t
    <3>1. i \in 1..Len(batch) + 1 /\ Len(batch) \in Nat
      BY Zenon, <1>0, Parts DEF TypeOK
    <3>2. \A m \in 1..i - 1 : m \in 1..Len(batch)
      BY <3>1
    <3>3. pc = "apply" => \A k \in 1..Len(chain) : \E m \in 1..i - 1 : batch[m] = chain[k].t
      BY Zenon, <1>0 DEF Applying
    <3>. QED  BY Zenon, <3>2, <3>3
  <2>. QED  BY Zenon, <1>0, <1>1, <2>1, Parts
<1>3. \A k \in 1..Len(log) : log[k].t \in Txns /\ log[k].t # t
  BY Zenon, <1>0, Parts DEF Logged, Entries
<1>4. Applying'
  <2>1. SUFFICES ASSUME pc = "apply" PROVE Applying'
    BY Zenon, <1>u DEF Applying
  <2>2. \A k \in 1..Len(chain) :
           /\ base'[chain[k].t] = base[chain[k].t]
           /\ ours'[chain[k].t] = ours[chain[k].t]
    BY Zenon, <1>2, <2>1
  <2>3. \A k \in 1..Len(chain) :
           chain[k].after = Applied(base'[chain[k].t], ours'[chain[k].t], chain[k].before)
    BY ZenonT(60), <1>0, <2>1, <2>2 DEF Applying
  <2>. QED  BY <1>0, <1>u, <2>1, <2>3 DEF Applying
<1>5. Checked' /\ SwapAsksNothingNew'
  BY ZenonT(60), <1>0, <1>u, <1>2 DEF Checked, SwapAsksNothingNew, ChangedPaths
<1>6. Logged'
  BY <1>0, <1>u, <1>3 DEF Logged
<1>7. OwnGrantsOnly'
  BY <1>0, <1>u, <1>3 DEF OwnGrantsOnly, ChangedPaths
<1>. QED  BY Zenon, <1>1, <1>4, <1>5, <1>6, <1>7

\* begin queues nothing and takes a snapshot of the type.
LEMMA BeginIInv ==
  ASSUME IInv, NEW t \in Txns, Begin(t)
  PROVE  IInv'
<1>0. TypeOK /\ InQueue /\ Holding /\ Logged
  BY Zenon DEF IInv
<1>1. /\ UNCHANGED <<pc, batch, attempts, attemptVars, log>>
      /\ line' = line /\ may' = may /\ held' = held /\ ours' = ours
      /\ ws' = ws /\ merging' = merging
  BY Zenon DEF Begin
<1>2. /\ state' \in [Txns -> Refusals \cup {"new", "open", "committing", "ok", "empty", "unknown"}]
      /\ base' \in [Txns -> Namespaces]
      /\ began' \in [Txns -> Nat]
  BY Zenon, <1>0, Parts DEF Begin, TypeOK
<1>3. /\ state[t] = "new" /\ state'[t] = "open"
      /\ \A u \in Txns : u # t => state'[u] = state[u] /\ base'[u] = base[u]
  BY Zenon, <1>0 DEF Begin, TypeOK
<1>4. TypeOK'
  BY Zenon, <1>0, <1>1, <1>2 DEF TypeOK, attemptVars
<1>5. /\ Applying' /\ Checked' /\ SwapAsksNothingNew' /\ Logged' /\ OwnGrantsOnly'
      /\ \A k \in 1..Len(batch) : batch[k] # t
  BY Zenon, <1>1, <1>3, Private
<1>6. InQueue'
  BY Zenon, <1>0, <1>1, <1>3, QueueOfOthers
<1>7. Holding'
  BY Zenon, <1>0, <1>1, <1>3 DEF Holding
<1>. QED  BY Zenon, <1>4, <1>5, <1>6, <1>7 DEF IInv

\* Rollback leaves no trace in the queue or the log.
LEMMA AbandonIInv ==
  ASSUME IInv, NEW t \in Txns, Abandon(t)
  PROVE  IInv'
<1>0. TypeOK /\ InQueue /\ Holding /\ Logged
  BY Zenon DEF IInv
<1>1. /\ UNCHANGED <<pc, batch, attempts, attemptVars, log>>
      /\ line' = line /\ may' = may /\ held' = held /\ ours' = ours /\ base' = base
      /\ ws' = ws /\ merging' = merging /\ began' = began
  BY Zenon DEF Abandon, branchVars, txnVars
<1>2. state' \in [Txns -> Refusals \cup {"new", "open", "committing", "ok", "empty", "unknown"}]
  BY Zenon, <1>0 DEF Abandon, TypeOK, Refusals
<1>3. /\ state[t] = "open" /\ state'[t] = "failed"
      /\ \A u \in Txns : u # t => state'[u] = state[u]
  BY Zenon, <1>0 DEF Abandon, TypeOK
<1>4. TypeOK'
  BY Zenon, <1>0, <1>1, <1>2 DEF TypeOK, attemptVars
<1>5. /\ Applying' /\ Checked' /\ SwapAsksNothingNew' /\ Logged' /\ OwnGrantsOnly'
      /\ \A k \in 1..Len(batch) : batch[k] # t
  BY Zenon, <1>1, <1>3, Private
<1>6. InQueue'
  BY Zenon, <1>0, <1>1, <1>3, QueueOfOthers
<1>7. Holding'
  BY Zenon, <1>0, <1>1, <1>3 DEF Holding
<1>. QED  BY Zenon, <1>4, <1>5, <1>6, <1>7 DEF IInv

\* Commit appends a call that is in no line and no batch yet.
LEMMA CommitIInv ==
  ASSUME IInv, NEW t \in Txns, NEW n \in Domain, Commit(t, n)
  PROVE  IInv'
<1>0. TypeOK /\ InQueue /\ Holding /\ Logged
  BY Zenon DEF IInv
<1>1. /\ UNCHANGED <<pc, batch, attempts, attemptVars, log>>
      /\ may' = may /\ base' = base
      /\ ws' = ws /\ merging' = merging /\ began' = began
  BY Zenon DEF Commit, branchVars
<1>2. /\ state' \in [Txns -> Refusals \cup {"new", "open", "committing", "ok", "empty", "unknown"}]
      /\ ours' \in [Txns -> Namespaces]
      /\ held' \in [Txns -> Rights]
  BY Zenon, <1>0, DomainAssumption DEF Commit, TypeOK
<1>3. /\ state[t] = "open" /\ state'[t] \in {"empty", "committing"}
      /\ held'[t] = may[t]
      /\ \A u \in Txns : u # t => /\ state'[u] = state[u] /\ ours'[u] = ours[u]
                                  /\ held'[u] = held[u]
  BY Zenon, <1>0 DEF Commit, TypeOK
<1>4. \/ line' = line
      \/ line' = Append(line, t) /\ state'[t] = "committing"
  BY Zenon, <1>0 DEF Commit, TypeOK
<1>5. TypeOK'
  <2>1. line' \in Seq(Txns)
    <3>1. line \in Seq(Txns) /\ Append(line, t) \in Seq(Txns)
      BY <1>0 DEF TypeOK
    <3>. QED  BY Zenon, <1>4, <3>1
  <2>. QED  BY Zenon, <1>0, <1>1, <1>2, <2>1 DEF TypeOK, attemptVars
<1>6. /\ Applying' /\ Checked' /\ SwapAsksNothingNew' /\ Logged' /\ OwnGrantsOnly'
      /\ \A k \in 1..Len(batch) : batch[k] # t
  BY Zenon, <1>1, <1>3, Private
<1>7. InQueue'
  <2>1. \A k \in 1..Len(line) : line[k] \in Txns /\ line[k] # t
    BY Zenon, <1>0, <1>3, Parts DEF InQueue
  <2>2. CASE line' = line
    BY Zenon, <1>0, <1>1, <1>3, <2>2, QueueOfOthers
  <2>3. CASE line' = Append(line, t) /\ state'[t] = "committing"
    <3>1. /\ Len(line') = Len(line) + 1 /\ line'[Len(line) + 1] = t
          /\ \A k \in 1..Len(line) : line'[k] = line[k]
      BY <1>0, <2>3 DEF TypeOK
    <3>2. \A k \in 1..Len(line') : k \in 1..Len(line) \/ k = Len(line) + 1
      BY <1>0, <3>1, Parts
    <3>3. \A k \in 1..Len(line') : state'[line'[k]] = "committing"
      BY <1>0, <1>3, <2>1, <2>3, <3>1, <3>2 DEF InQueue
    <3>4. \A j, k \in 1..Len(line') : line'[j] = line'[k] => j = k
      BY <1>0, <2>1, <3>1, <3>2 DEF InQueue
    <3>5. \A j \in 1..Len(line'), k \in 1..Len(batch) : line'[j] # batch[k]
      BY <1>0, <1>6, <3>1, <3>2 DEF InQueue
    <3>6. \A k \in 1..Len(batch) : state'[batch[k]] = "committing"
      BY Zenon, <1>0, <1>3, <1>6, Parts DEF InQueue
    <3>. QED  BY Zenon, <1>0, <1>1, <3>3, <3>4, <3>5, <3>6, QueueMade
  <2>. QED  BY Zenon, <1>4, <2>2, <2>3
<1>8. Holding'
  BY Zenon, <1>0, <1>1, <1>3 DEF Holding
<1>. QED  BY Zenon, <1>5, <1>6, <1>7, <1>8 DEF IInv

\* A call that leaves the line leaves it once and for all.
LEMMA CancelIInv ==
  ASSUME IInv, NEW t \in Txns, Cancel(t)
  PROVE  IInv'
<1>0. TypeOK /\ InQueue /\ Applying /\ Checked /\ Holding /\ Logged /\ OwnGrantsOnly
      /\ SwapAsksNothingNew
  BY Zenon DEF IInv
<1>1. /\ pc' = pc /\ batch' = batch /\ attempts' = attempts /\ log' = log
      /\ cur' = cur /\ w' = w /\ i' = i /\ readers' = readers /\ errs' = errs
      /\ g' = g /\ chain' = chain
      /\ may' = may /\ held' = held /\ base' = base /\ ours' = ours /\ began' = began
      /\ ws' = ws /\ merging' = merging
  BY Zenon DEF Cancel, branchVars, txnVars, attemptVars
<1>2. PICK k \in 1..Len(line) : line[k] = t
  <2>1. DOMAIN line = 1..Len(line)
    BY <1>0 DEF TypeOK
  <2>. QED  BY Zenon, <2>1 DEF Cancel, Range
<1>3. /\ line' \in Seq(Txns)
      /\ Len(line') = Len(line) - 1
      /\ \A j \in 1..Len(line) - 1 : line'[j] = IF j < k THEN line[j] ELSE line[j + 1]
  <2>1. line' = Without(line, line[k])
    BY Zenon, <1>2 DEF Cancel
  <2>2. line \in Seq(Txns) /\ \A j, m \in 1..Len(line) : line[j] = line[m] => j = m
    BY Zenon, <1>0 DEF TypeOK, InQueue
  <2>. QED  BY Zenon, <2>1, <2>2, RemoveOnce
<1>4. /\ state' \in [Txns -> Refusals \cup {"new", "open", "committing", "ok", "empty", "unknown"}]
      /\ state'[t] = "failed"
      /\ \A u \in Txns : u # t => state'[u] = state[u]
  BY Zenon, <1>0 DEF Cancel, TypeOK, Refusals
<1>5. state[t] = "committing"
  BY Zenon, <1>0, <1>2 DEF InQueue
<1>6. TypeOK'
  BY Zenon, <1>0, <1>1, <1>3, <1>4 DEF TypeOK
<1>7. InQueue'
  <2>1. \A j \in 1..Len(line') : \E m \in 1..Len(line) :
           m # k /\ line'[j] = line[m] /\ line[m] # t /\ line[m] \in Txns
    <3>1. SUFFICES ASSUME NEW j \in 1..Len(line')
                   PROVE  \E m \in 1..Len(line) :
                             m # k /\ line'[j] = line[m] /\ line[m] # t /\ line[m] \in Txns
      BY Zenon
    <3>2. Len(line) \in Nat /\ j \in 1..Len(line) - 1
      BY Zenon, <1>0, <1>3, <3>1, Parts
    <3>3. CASE j < k
      <4>0. line'[j] = line[j]
        BY Zenon, <1>3, <3>2, <3>3
      <4>1. j \in 1..Len(line) /\ j # k /\ line'[j] = line[j]
        BY <3>2, <3>3, <4>0
      <4>. QED  BY Zenon, <1>0, <1>2, <4>1, Parts DEF InQueue
    <3>4. CASE ~(j < k)
      <4>0. line'[j] = line[j + 1]
        BY Zenon, <1>3, <3>2, <3>4
      <4>1. j + 1 \in 1..Len(line) /\ j + 1 # k /\ line'[j] = line[j + 1]
        BY <3>2, <3>4, <4>0
      <4>. QED  BY Zenon, <1>0, <1>2, <4>1, Parts DEF InQueue
    <3>. QED  BY Zenon, <3>3, <3>4
  <2>2. \A j \in 1..Len(line') : state'[line'[j]] = "committing"
    <3> TAKE j \in 1..Len(line')
    <3>1. PICK m \in 1..Len(line) : line'[j] = line[m] /\ line[m] # t /\ line[m] \in Txns
      BY Zenon, <2>1
    <3>2. state[line[m]] = "committing"
      BY Zenon, <1>0 DEF InQueue
    <3>3. state'[line[m]] = state[line[m]]
      BY Zenon, <1>4, <3>1
    <3>. QED  BY Zenon, <3>1, <3>2, <3>3
  <2>3. \A j, m \in 1..Len(line') : line'[j] = line'[m] => j = m
    <3>1. SUFFICES ASSUME NEW j \in 1..Len(line'), NEW m \in 1..Len(line'), j # m
                   PROVE  line'[j] # line'[m]
      BY Zenon
    <3>2. Len(line) \in Nat /\ j \in 1..Len(line) - 1 /\ m \in 1..Len(line) - 1
      BY Zenon, <1>0, <1>3, Parts
    <3>3. PICK a \in 1..Len(line) : a = IF j < k THEN j ELSE j + 1
      BY <3>2
    <3>4. PICK b \in 1..Len(line) : b = IF m < k THEN m ELSE m + 1
      BY <3>2
    <3>5. a # b /\ line'[j] = line[a] /\ line'[m] = line[b]
      <4>1. a # b
        BY <3>1, <3>2, <3>3, <3>4
      <4>2. line'[j] = line[a]
        BY Zenon, <1>3, <3>2, <3>3
      <4>3. line'[m] = line[b]
        BY Zenon, <1>3, <3>2, <3>4
      <4>. QED  BY Zenon, <4>1, <4>2, <4>3
    <3>6. line[a] = line[b] => a = b
      BY Zenon, <1>0 DEF InQueue
    <3>. QED  BY Zenon, <3>5, <3>6
  <2>4. \A j \in 1..Len(line'), m \in 1..Len(batch) : line'[j] # batch[m]
    <3>1. \A a \in 1..Len(line), m \in 1..Len(batch) : line[a] # batch[m]
      BY Zenon, <1>0 DEF InQueue
    <3>2. \A j \in 1..Len(line') : \E a \in 1..Len(line) : line'[j] = line[a]
      BY Zenon, <2>1
    <3>. QED  BY ZenonT(60), <3>1, <3>2
  <2>5. \A m \in 1..Len(batch) : state'[batch[m]] = "committing"
    BY Zenon, <1>0, <1>2, <1>4, Parts DEF InQueue
  <2>. QED  BY Zenon, <1>0, <1>1, <2>2, <2>3, <2>4, <2>5, QueueMade
<1>8. Applying' /\ Checked' /\ SwapAsksNothingNew' /\ OwnGrantsOnly'
  <2>1. Applying'
    BY Zenon, <1>0, <1>1, SameAttempt
  <2>2. Checked' /\ SwapAsksNothingNew' /\ OwnGrantsOnly'
    BY Zenon, <1>0, <1>1 DEF Checked, SwapAsksNothingNew, OwnGrantsOnly, ChangedPaths
  <2>. QED  BY Zenon, <2>1, <2>2
<1>9. Holding'
  BY Zenon, <1>0, <1>1, <1>4 DEF Holding
<1>10. Logged'
  BY ZenonT(60), <1>0, <1>1, <1>4, <1>5, Parts DEF Logged, Entries
<1>. QED  BY Zenon, <1>6, <1>7, <1>8, <1>9, <1>10 DEF IInv

-----------------------------------------------------------------------------
\* take moves calls from the line to the batch, none twice.
LEMMA TakeIInv ==
  ASSUME IInv, Take
  PROVE  IInv'
<1>0. TypeOK /\ InQueue /\ Holding /\ Logged /\ OwnGrantsOnly
  BY Zenon DEF IInv
<1>1. /\ pc' = "read" /\ attempts' = 0 /\ log' = log /\ state' = state
      /\ cur' = cur /\ w' = w /\ i' = i /\ readers' = readers /\ errs' = errs
      /\ g' = g /\ chain' = chain
      /\ may' = may /\ held' = held /\ base' = base /\ ours' = ours /\ began' = began
      /\ ws' = ws /\ merging' = merging
  BY Zenon DEF Take, branchVars, txnVars, attemptVars
<1>2. pc = "idle" /\ batch = <<>>
  BY Zenon, <1>0 DEF Take, InQueue
<1>3. PICK n \in 1..Len(line) : batch' = SubSeq(line, 1, n) /\ line' = SubSeq(line, n + 1, Len(line))
  <2>1. Len(line) \in Nat \ {0}
    BY <1>0 DEF Take, TypeOK
  <2>2. PICK n : n = IF Len(line) < MaxBatch THEN Len(line) ELSE MaxBatch
    BY Zenon
  <2>3. n \in 1..Len(line)
    BY <2>1, <2>2, BatchAssumption
  <2>4. batch' = SubSeq(line, 1, n) /\ line' = SubSeq(line, n + 1, Len(line))
    BY Zenon, <2>2 DEF Take
  <2>. QED  BY Zenon, <2>3, <2>4
<1>4. line \in Seq(Txns) /\ Len(line) \in Nat
  BY Zenon, <1>0, Parts DEF TypeOK
<1>5. batch' \in Seq(Txns) /\ Len(batch') = n /\ \A k \in 1..n : batch'[k] = line[k]
  BY <1>3, <1>4
<1>6. /\ line' \in Seq(Txns) /\ Len(line') = Len(line) - n
      /\ \A k \in 1..Len(line) - n : line'[k] = line[n + k]
  BY <1>3, <1>4
<1>7. TypeOK'
  <2>1. i \in 1..Len(batch') + 1
    <3>1. i \in 1..0 + 1
      BY Zenon, <1>0, <1>2 DEF TypeOK
    <3>. QED  BY <1>5, <3>1
  <2>2. 0 \in 0..MaxAttempts - 1
    BY AttemptsAssumption
  <2>. QED  BY Zenon, <1>0, <1>1, <1>5, <1>6, <2>1, <2>2 DEF TypeOK
<1>8. InQueue'
  <2>1. \A k \in 1..Len(line') : n + k \in 1..Len(line) /\ line'[k] = line[n + k]
    BY <1>4, <1>6
  <2>2. \A k \in 1..Len(batch') : k \in 1..Len(line) /\ batch'[k] = line[k]
    BY <1>4, <1>5
  <2>3. \A k \in 1..Len(line') : state[line'[k]] = "committing"
    <3>1. \A k \in 1..Len(line) : state[line[k]] = "committing"
      BY Zenon, <1>0 DEF InQueue
    <3>. QED  BY Zenon, <2>1, <3>1
  <2>4. \A k \in 1..Len(batch') : state[batch'[k]] = "committing"
    BY <1>0, <2>2 DEF InQueue
  <2>5. \A j, k \in 1..Len(line') : line'[j] = line'[k] => j = k
    <3> SUFFICES ASSUME NEW j \in 1..Len(line'), NEW k \in 1..Len(line'), line'[j] = line'[k]
                 PROVE  j = k
      BY Zenon
    <3>1. n + j \in 1..Len(line) /\ n + k \in 1..Len(line) /\ line[n + j] = line[n + k]
      BY Zenon, <2>1
    <3>2. \A a, b \in 1..Len(line) : line[a] = line[b] => a = b
      BY Zenon, <1>0 DEF InQueue
    <3>3. n + j = n + k
      BY Zenon, <3>1, <3>2
    <3>. QED  BY <3>3
  <2>6. \A j, k \in 1..Len(batch') : batch'[j] = batch'[k] => j = k
    BY ZenonT(60), <1>0, <2>2 DEF InQueue
  <2>7. \A j \in 1..Len(line'), k \in 1..Len(batch') : line'[j] # batch'[k]
    <3>1. \A j \in 1..Len(line'), k \in 1..Len(batch') : n + j # k
      BY <1>4, <1>5, <1>6
    <3>. QED  BY <1>0, <2>1, <2>2, <3>1 DEF InQueue
  <2>. QED  BY Zenon, <1>1, <2>3, <2>4, <2>5, <2>6, <2>7 DEF InQueue
<1>9. Applying' /\ Checked' /\ SwapAsksNothingNew'
  BY Zenon, <1>1 DEF Applying, Checked, SwapAsksNothingNew
<1>10. Holding' /\ Logged'
  BY Zenon, <1>0, <1>1, SameRights, SameLog
<1>11. OwnGrantsOnly'
  BY Zenon, <1>0, <1>1, SameLog
<1>. QED  BY Zenon, <1>7, <1>8, <1>9, <1>10, <1>11 DEF IInv

\* An attempt starts from the root it read, with nothing applied.
LEMMA ReadIInv ==
  ASSUME IInv, NEW gone \in SUBSET Members, Read(gone)
  PROVE  IInv'
<1>0. TypeOK /\ InQueue /\ Holding /\ Logged /\ OwnGrantsOnly
  BY Zenon DEF IInv
<1>1. /\ pc' = "apply" /\ cur' = ws /\ w' = ws /\ i' = 1 /\ chain' = <<>>
      /\ errs' = ReadErrs(gone) /\ g' = NoGrants
      /\ readers' = Readers(ReadErrs(gone))
      /\ batch' = batch /\ attempts' = attempts /\ log' = log /\ state' = state
      /\ line' = line
      /\ may' = may /\ held' = held /\ base' = base /\ ours' = ours /\ began' = began
      /\ ws' = ws /\ merging' = merging
  BY Zenon DEF Read, branchVars, txnVars
<1>2. errs' \in [Txns -> Errors \ {"unknown"}]
  BY Zenon, <1>1 DEF ReadErrs, Errors, Refusals
<1>3. TypeOK'
  <2>1. g' \in [write : BOOLEAN, paths : SUBSET Paths]
    BY Zenon, <1>1 DEF NoGrants
  <2>2. i' \in 1..Len(batch') + 1
    BY <1>0, <1>1, Parts
  <2>3. readers' \subseteq Txns
    BY Zenon, <1>0, <1>1, MembersAre DEF Readers
  <2>4. chain' \in Seq(Entries)
    BY <1>1
  <2>5. errs' \in [Txns -> Errors]
    BY Zenon, <1>2
  <2>. QED  BY Zenon, <1>0, <1>1, <2>1, <2>2, <2>3, <2>4, <2>5 DEF TypeOK
<1>4. InQueue'
  BY Zenon, <1>0, <1>1, SameQueue
<1>5. Applying' /\ Checked' /\ SwapAsksNothingNew'
  BY <1>1, <1>2 DEF Applying, Checked, SwapAsksNothingNew, ChangedPaths
<1>6. Holding' /\ Logged'
  BY Zenon, <1>0, <1>1, SameRights, SameLog
<1>7. OwnGrantsOnly'
  BY Zenon, <1>0, <1>1, SameLog
<1>. QED  BY Zenon, <1>3, <1>4, <1>5, <1>6, <1>7 DEF IInv

\* A member refused earlier is passed over and stays refused.
LEMMA SkipIInv ==
  ASSUME IInv, Skip
  PROVE  IInv'
<1>0. TypeOK /\ InQueue /\ Applying /\ Checked /\ SwapAsksNothingNew /\ Holding /\ Logged
      /\ OwnGrantsOnly
  BY Zenon DEF IInv
<1>1. /\ pc = "apply" /\ pc' = pc /\ batch' = batch /\ attempts' = attempts /\ log' = log
      /\ line' = line /\ state' = state
      /\ cur' = cur /\ w' = w /\ readers' = readers /\ errs' = errs
      /\ g' = g /\ chain' = chain
      /\ may' = may /\ held' = held /\ base' = base /\ ours' = ours /\ began' = began
      /\ ws' = ws /\ merging' = merging
  BY Zenon DEF Skip, branchVars, txnVars
<1>2. i \in 1..Len(batch) /\ i' = i + 1 /\ errs[batch[i]] # "nil" /\ Len(batch) \in Nat
  BY <1>0, Parts DEF Skip, TypeOK
<1>3. TypeOK'
  <2>1. i' \in 1..Len(batch) + 1
    BY <1>2
  <2>. QED  BY Zenon, <1>0, <1>1, <2>1 DEF TypeOK
<1>4. InQueue'
  BY Zenon, <1>0, <1>1, SameQueue
<1>5. Applying'
  <2>1. \A m \in 1..i' - 1 : m \in 1..i - 1 \/ m = i
    BY <1>2
  <2>2. \A m \in 1..i - 1 : m \in 1..i' - 1
    BY <1>2
  <2>3. \A m \in 1..i' - 1 :
           errs[batch[m]] = "nil" => \E k \in 1..Len(chain) : chain[k].t = batch[m]
    BY Zenon, <1>0, <1>1, <1>2, <2>1 DEF Applying
  <2>4. \A k \in 1..Len(chain) : \E m \in 1..i' - 1 : batch[m] = chain[k].t
    BY Zenon, <1>0, <1>1, <2>2 DEF Applying
  <2>. QED  BY <1>0, <1>1, <2>3, <2>4 DEF Applying
<1>6. Checked' /\ SwapAsksNothingNew' /\ OwnGrantsOnly'
  BY Zenon, <1>0, <1>1, SameChecks, SameLog
<1>7. Holding' /\ Logged'
  BY Zenon, <1>0, <1>1, SameRights, SameLog
<1>. QED  BY Zenon, <1>3, <1>4, <1>5, <1>6, <1>7 DEF IInv

\* The member applied takes its place at the end of the chain.
LEMMA ApplyIInv ==
  ASSUME IInv, Apply
  PROVE  IInv'
<1>0. TypeOK /\ InQueue /\ Applying /\ Checked /\ SwapAsksNothingNew /\ Holding /\ Logged
      /\ OwnGrantsOnly
  BY Zenon DEF IInv
<1>1. /\ pc = "apply" /\ pc' = pc /\ batch' = batch /\ attempts' = attempts /\ log' = log
      /\ line' = line /\ state' = state
      /\ cur' = cur /\ readers' = readers /\ errs' = errs
      /\ may' = may /\ held' = held /\ base' = base /\ ours' = ours /\ began' = began
      /\ ws' = ws /\ merging' = merging
  BY Zenon DEF Apply, branchVars, txnVars
<1>2. i \in 1..Len(batch) /\ i' = i + 1 /\ Len(batch) \in Nat /\ Len(chain) \in Nat
  <2>1. i \in 1..Len(batch) + 1 /\ Len(batch) \in Nat /\ Len(chain) \in Nat
    BY Zenon, <1>0, Parts DEF TypeOK
  <2>2. i <= Len(batch) /\ i' = i + 1
    BY Zenon DEF Apply
  <2>. QED  BY <2>1, <2>2
<1>3. PICK t \in Txns : t = batch[i]
  BY Zenon, <1>0, <1>2, Parts
<1>4. PICK next : next = Onto(base[t], ours[t], w)
  BY Zenon
<1>5. /\ errs[t] = "nil" /\ next # Refused /\ MayWrite(t, w, next)
      /\ w' = next /\ g' = Allow(w, next)
      /\ chain' = Append(chain, [t |-> t, before |-> w, after |-> next])
  BY Zenon, <1>3, <1>4 DEF Apply
<1>6. base[t] \in Namespaces /\ ours[t] \in Namespaces /\ w \in Namespaces
  BY Zenon, <1>0 DEF TypeOK
<1>7. next = Applied(base[t], ours[t], w) /\ next \in Namespaces
  BY SMTT(60), <1>4, <1>5, <1>6, OntoFollowsRule, AppliedType
<1>8. [t |-> t, before |-> w, after |-> next] \in Entries
  BY Zenon, <1>6, <1>7 DEF Entries
<1>9. /\ chain' \in Seq(Entries) /\ Len(chain') = Len(chain) + 1
      /\ chain'[Len(chain) + 1] = [t |-> t, before |-> w, after |-> next]
      /\ \A k \in 1..Len(chain) : chain'[k] = chain[k]
  <2>1. chain \in Seq(Entries)
    BY Zenon, <1>0 DEF TypeOK
  <2>2. PICK e \in Entries : e = [t |-> t, before |-> w, after |-> next]
    BY Zenon, <1>8
  <2>3. chain' = Append(chain, e)
    BY Zenon, <1>5, <2>2
  <2>4. /\ Append(chain, e) \in Seq(Entries) /\ Len(Append(chain, e)) = Len(chain) + 1
        /\ Append(chain, e)[Len(chain) + 1] = e
        /\ \A k \in 1..Len(chain) : Append(chain, e)[k] = chain[k]
    BY <2>1
  <2>5. chain' \in Seq(Entries) /\ Len(chain') = Len(chain) + 1
    BY Zenon, <2>3, <2>4
  <2>6. chain'[Len(chain) + 1] = e
    BY Zenon, <2>3, <2>4
  <2>7. \A k \in 1..Len(chain) : chain'[k] = chain[k]
    BY Zenon, <2>3, <2>4
  <2>. QED  BY Zenon, <2>2, <2>5, <2>6, <2>7
<1>10. \A k \in 1..Len(chain') : k \in 1..Len(chain) \/ k = Len(chain) + 1
  BY <1>2, <1>9
<1>b. /\ chain'[Len(chain) + 1].t = t /\ chain'[Len(chain) + 1].before = w
      /\ chain'[Len(chain) + 1].after = next
  BY <1>9
<1>11. TypeOK'
  <2>1. g' \in [write : BOOLEAN, paths : SUBSET Paths]
    BY Zenon, <1>0, <1>5 DEF Allow, TypeOK, ChangedPaths
  <2>2. i' \in 1..Len(batch) + 1
    BY <1>2
  <2>. QED  BY Zenon, <1>0, <1>1, <1>5, <1>7, <1>9, <2>1, <2>2 DEF TypeOK
<1>12. InQueue'
  BY Zenon, <1>0, <1>1, SameQueue
<1>13. \A k \in 1..Len(chain) : chain[k].t # t
  <2>1. SUFFICES ASSUME NEW k \in 1..Len(chain) PROVE chain[k].t # t
    BY Zenon
  <2>2. PICK m \in 1..i - 1 : batch[m] = chain[k].t
    BY Zenon, <1>0, <1>1 DEF Applying
  <2>3. m \in 1..Len(batch) /\ m # i
    BY <1>2, <2>2
  <2>. QED  BY Zenon, <1>0, <1>2, <1>3, <2>2, <2>3 DEF InQueue
<1>14. Applying'
  <2>1. w' = IF chain' = <<>> THEN cur' ELSE chain'[Len(chain')].after
    BY <1>2, <1>5, <1>9
  <2>2. \A k \in 1..Len(chain') : \E m \in 1..i' - 1 : batch[m] = chain'[k].t
    <3>1. \A m \in 1..i - 1 : m \in 1..i' - 1
      BY <1>2
    <3>2. \A k \in 1..Len(chain) : \E m \in 1..i' - 1 : batch[m] = chain'[k].t
      <4>1. \A k \in 1..Len(chain) : \E m \in 1..i - 1 : batch[m] = chain[k].t
        BY Zenon, <1>0, <1>1 DEF Applying
      <4>. QED  BY Zenon, <1>9, <3>1, <4>1
    <3>3. i \in 1..i' - 1 /\ batch[i] = chain'[Len(chain) + 1].t
      <4>1. i \in 1..i' - 1
        BY <1>2
      <4>. QED  BY Zenon, <1>3, <1>b, <4>1
    <3>. QED  BY Zenon, <1>10, <3>2, <3>3
  <2>3. \A k \in 1..Len(chain') : errs[chain'[k].t] = "nil"
    <3>1. \A k \in 1..Len(chain) : errs[chain[k].t] = "nil"
      BY Zenon, <1>0, <1>1 DEF Applying
    <3>. QED  BY Zenon, <1>5, <1>9, <1>10, <1>b, <3>1
  <2>4. \A k \in 1..Len(chain') :
           chain'[k].after = Applied(base[chain'[k].t], ours[chain'[k].t], chain'[k].before)
    <3>1. \A k \in 1..Len(chain) :
             chain[k].after = Applied(base[chain[k].t], ours[chain[k].t], chain[k].before)
      BY Zenon, <1>0, <1>1 DEF Applying
    <3>2. PICK e : e = chain'[Len(chain) + 1]
      BY Zenon
    <3>3. e.after = Applied(base[e.t], ours[e.t], e.before)
      BY Zenon, <1>7, <1>b, <3>2
    <3>. QED  BY Zenon, <1>9, <1>10, <3>1, <3>2, <3>3
  <2>5. \A k \in 1..Len(chain') : chain'[k].before = IF k = 1 THEN cur ELSE chain'[k - 1].after
    <3>1. ASSUME NEW k \in 1..Len(chain)
          PROVE  chain'[k].before = IF k = 1 THEN cur ELSE chain'[k - 1].after
      <4>1. k # 1 => k - 1 \in 1..Len(chain)
        BY <1>2, <3>1
      <4>2. chain[k].before = IF k = 1 THEN cur ELSE chain[k - 1].after
        BY Zenon, <1>0, <1>1, <3>1 DEF Applying
      <4>3. chain'[k] = chain[k] /\ (k # 1 => chain'[k - 1] = chain[k - 1])
        BY Zenon, <1>9, <3>1, <4>1
      <4>. QED  BY Zenon, <4>2, <4>3
    <3>2. chain'[Len(chain) + 1].before =
             IF Len(chain) + 1 = 1 THEN cur ELSE chain'[Len(chain) + 1 - 1].after
      <4>1. CASE Len(chain) = 0
        <5>1. chain = <<>>
          BY <1>0, <4>1 DEF TypeOK
        <5>2. w = cur
          BY Zenon, <1>0, <1>1, <5>1 DEF Applying
        <5>3. Len(chain) + 1 = 1
          BY <4>1
        <5>. QED  BY Zenon, <1>b, <5>2, <5>3
      <4>2. CASE Len(chain) # 0
        <5>1. chain # <<>> /\ Len(chain) \in 1..Len(chain) /\ Len(chain) + 1 - 1 = Len(chain)
          BY <1>2, <4>2
        <5>2. w = chain[Len(chain)].after
          BY Zenon, <1>0, <1>1, <5>1 DEF Applying
        <5>3. Len(chain) + 1 # 1
          BY <1>2, <4>2
        <5>4. chain'[Len(chain) + 1 - 1] = chain[Len(chain)]
          BY Zenon, <1>9, <5>1
        <5>. QED  BY Zenon, <1>b, <5>2, <5>3, <5>4
      <4>. QED  BY Zenon, <4>1, <4>2
    <3>. QED  BY <1>10, <3>1, <3>2
  <2>6. \A j, k \in 1..Len(chain') : chain'[j].t = chain'[k].t => j = k
    <3>1. \A j, k \in 1..Len(chain) : chain[j].t = chain[k].t => j = k
      BY Zenon, <1>0, <1>1 DEF Applying
    <3>2. \A j \in 1..Len(chain) : chain'[j].t = chain[j].t /\ chain'[j].t # t
      BY Zenon, <1>9, <1>13
    <3>. QED  BY Zenon, <1>10, <1>b, <3>1, <3>2
  <2>7. \A m \in 1..i' - 1 :
           errs[batch[m]] = "nil" => \E k \in 1..Len(chain') : chain'[k].t = batch[m]
    <3>1. \A m \in 1..i' - 1 : m \in 1..i - 1 \/ m = i
      BY <1>2
    <3>2. \A k \in 1..Len(chain) : k \in 1..Len(chain')
      <4>1. Len(chain') = Len(chain) + 1 /\ Len(chain) \in Nat
        BY Zenon, <1>2, <1>9
      <4>. QED  BY <4>1
    <3>3. \A m \in 1..i - 1 :
             errs[batch[m]] = "nil" => \E k \in 1..Len(chain') : chain'[k].t = batch[m]
      <4>1. \A m \in 1..i - 1 :
               errs[batch[m]] = "nil" => \E k \in 1..Len(chain) : chain[k].t = batch[m]
        BY Zenon, <1>0, <1>1 DEF Applying
      <4>2. \A k \in 1..Len(chain) : k \in 1..Len(chain') /\ chain'[k].t = chain[k].t
        BY Zenon, <1>9, <3>2
      <4>. QED  BY Zenon, <4>1, <4>2
    <3>4. Len(chain) + 1 \in 1..Len(chain') /\ chain'[Len(chain) + 1].t = batch[i]
      <4>1. Len(chain') = Len(chain) + 1 /\ Len(chain) \in Nat
        BY Zenon, <1>2, <1>9
      <4>2. Len(chain) + 1 \in 1..Len(chain')
        BY <4>1
      <4>. QED  BY Zenon, <1>3, <1>b, <4>2
    <3>. QED  BY Zenon, <3>1, <3>3, <3>4
  <2>8. \A u \in Txns : errs[u] # "unknown"
    BY Zenon, <1>0, <1>1 DEF Applying
  <2>. QED  BY ZenonT(60), <1>1, <2>1, <2>2, <2>3, <2>4, <2>5, <2>6, <2>7, <2>8 DEF Applying
<1>15. SwapAsksNothingNew'
  <2>1. g'.write /\ g'.paths = g.paths \cup ChangedPaths(w, next)
    BY Zenon, <1>5 DEF Allow
  <2>2. ChangedPaths(cur, next) \subseteq ChangedPaths(cur, w) \cup ChangedPaths(w, next)
    BY Zenon DEF ChangedPaths
  <2>. QED  BY Zenon, <1>0, <1>1, <1>5, <2>1, <2>2 DEF SwapAsksNothingNew
<1>16. Checked'
  <2>1. state[t] = "committing"
    BY Zenon, <1>0, <1>2, <1>3 DEF InQueue
  <2>2. held[t].write /\ ChangedPaths(w, next) \subseteq held[t].paths
    BY Zenon, <1>0, <1>5, <2>1 DEF Holding, MayWrite
  <2>3. \A k \in 1..Len(chain) :
           /\ held[chain'[k].t].write
           /\ ChangedPaths(chain'[k].before, chain'[k].after) \subseteq held[chain'[k].t].paths
    BY Zenon, <1>0, <1>1, <1>9 DEF Checked
  <2>4. PICK e : e = chain'[Len(chain) + 1]
    BY Zenon
  <2>5. e.t = t /\ e.before = w /\ e.after = next
    BY Zenon, <1>b, <2>4
  <2>. QED  BY Zenon, <1>1, <1>10, <2>2, <2>3, <2>4, <2>5 DEF Checked
<1>17. Holding' /\ Logged'
  BY Zenon, <1>0, <1>1, SameRights, SameLog
<1>18. OwnGrantsOnly'
  BY Zenon, <1>0, <1>1, SameLog
<1>. QED  BY Zenon, <1>11, <1>12, <1>14, <1>15, <1>16, <1>17, <1>18 DEF IInv

\* A member that fails adds nothing to what the others made.
LEMMA ApplyFailsIInv ==
  ASSUME IInv, ApplyFails
  PROVE  IInv'
<1>0. TypeOK /\ InQueue /\ Applying /\ Checked /\ SwapAsksNothingNew /\ Holding /\ Logged
      /\ OwnGrantsOnly
  BY Zenon DEF IInv
<1>1. /\ pc = "apply" /\ pc' = pc /\ batch' = batch /\ attempts' = attempts /\ log' = log
      /\ line' = line /\ state' = state
      /\ cur' = cur /\ w' = w /\ readers' = readers /\ g' = g /\ chain' = chain
      /\ may' = may /\ held' = held /\ base' = base /\ ours' = ours /\ began' = began
      /\ ws' = ws /\ merging' = merging
  BY Zenon DEF ApplyFails, branchVars, txnVars
<1>2. i \in 1..Len(batch) /\ i' = i + 1 /\ Len(batch) \in Nat
  <2>1. i \in 1..Len(batch) + 1 /\ Len(batch) \in Nat
    BY Zenon, <1>0, Parts DEF TypeOK
  <2>2. i <= Len(batch) /\ i' = i + 1
    BY Zenon DEF ApplyFails
  <2>. QED  BY <2>1, <2>2
<1>3. PICK t \in Txns : t = batch[i]
  BY Zenon, <1>0, <1>2, Parts
<1>4. PICK err \in {"failed", "serialization", "denied"} : errs' = [errs EXCEPT ![t] = err]
  BY Zenon, <1>3 DEF ApplyFails
<1>5. /\ errs' \in [Txns -> Errors]
      /\ errs'[t] \notin {"nil", "unknown"}
      /\ \A u \in Txns : u # t => errs'[u] = errs[u]
  BY Zenon, <1>0, <1>4 DEF TypeOK, Errors, Refusals
<1>6. TypeOK'
  <2>1. i' \in 1..Len(batch) + 1
    BY <1>2
  <2>. QED  BY Zenon, <1>0, <1>1, <1>5, <2>1 DEF TypeOK
<1>7. InQueue'
  BY Zenon, <1>0, <1>1, SameQueue
<1>8. \A k \in 1..Len(chain) : chain[k].t \in Txns /\ chain[k].t # t
  <2>1. SUFFICES ASSUME NEW k \in 1..Len(chain) PROVE chain[k].t \in Txns /\ chain[k].t # t
    BY Zenon
  <2>2. PICK m \in 1..i - 1 : batch[m] = chain[k].t
    BY Zenon, <1>0, <1>1 DEF Applying
  <2>3. m \in 1..Len(batch) /\ m # i
    BY <1>2, <2>2
  <2>. QED  BY Zenon, <1>0, <1>2, <1>3, <2>2, <2>3, Parts DEF InQueue
<1>9. Applying'
  <2>1. \A m \in 1..i' - 1 : m \in 1..i - 1 \/ m = i
    BY <1>2
  <2>2. \A m \in 1..i - 1 : m \in 1..i' - 1 /\ m \in 1..Len(batch) /\ m # i
    BY <1>2
  <2>3. \A m \in 1..i' - 1 :
           errs'[batch[m]] = "nil" => \E k \in 1..Len(chain) : chain[k].t = batch[m]
    <3>1. \A m \in 1..i - 1 : batch[m] \in Txns /\ batch[m] # t
      BY Zenon, <1>0, <1>2, <1>3, <2>2, Parts DEF InQueue
    <3>2. \A m \in 1..i - 1 :
             errs[batch[m]] = "nil" => \E k \in 1..Len(chain) : chain[k].t = batch[m]
      BY Zenon, <1>0, <1>1 DEF Applying
    <3>3. \A m \in 1..i - 1 : errs'[batch[m]] = errs[batch[m]]
      BY Zenon, <1>5, <3>1
    <3>4. errs'[batch[i]] # "nil"
      BY Zenon, <1>3, <1>5
    <3>. QED  BY Zenon, <2>1, <3>2, <3>3, <3>4
  <2>4. \A k \in 1..Len(chain) : \E m \in 1..i' - 1 : batch[m] = chain[k].t
    BY Zenon, <1>0, <1>1, <2>2 DEF Applying
  <2>5. \A k \in 1..Len(chain) : errs'[chain[k].t] = "nil"
    BY Zenon, <1>0, <1>1, <1>5, <1>8 DEF Applying
  <2>6. \A u \in Txns : errs'[u] # "unknown"
    BY Zenon, <1>0, <1>1, <1>5 DEF Applying
  <2>7. /\ w = IF chain = <<>> THEN cur ELSE chain[Len(chain)].after
        /\ \A k \in 1..Len(chain) :
              /\ chain[k].after = Applied(base[chain[k].t], ours[chain[k].t], chain[k].before)
              /\ chain[k].before = IF k = 1 THEN cur ELSE chain[k - 1].after
        /\ \A j, k \in 1..Len(chain) : chain[j].t = chain[k].t => j = k
    BY Zenon, <1>0, <1>1 DEF Applying
  <2>. QED  BY Zenon, <1>1, <2>3, <2>4, <2>5, <2>6, <2>7 DEF Applying
<1>10. Checked' /\ SwapAsksNothingNew' /\ OwnGrantsOnly'
  BY Zenon, <1>0, <1>1, SameChecks, SameLog
<1>11. Holding' /\ Logged'
  BY Zenon, <1>0, <1>1, SameRights, SameLog
<1>. QED  BY Zenon, <1>6, <1>7, <1>9, <1>10, <1>11 DEF IInv

\* A lost swap keeps the batch and stays below MaxAttempts.
LEMMA LostIInv ==
  ASSUME IInv, Lost
  PROVE  IInv'
<1>0. TypeOK /\ InQueue /\ Holding /\ Logged /\ OwnGrantsOnly
  BY Zenon DEF IInv
<1>1. /\ pc' = "read" /\ batch' = batch /\ log' = log /\ line' = line /\ state' = state
      /\ cur' = cur /\ w' = w /\ i' = i /\ readers' = readers /\ errs' = errs
      /\ g' = g /\ chain' = chain
      /\ may' = may /\ held' = held /\ base' = base /\ ours' = ours /\ began' = began
      /\ ws' = ws /\ merging' = merging
  BY Zenon DEF Lost, branchVars, txnVars, attemptVars
<1>2. attempts' \in 0..MaxAttempts - 1
  BY <1>0, AttemptsAssumption DEF Lost, Again, Counted, TypeOK
<1>3. TypeOK'
  BY Zenon, <1>0, <1>1, <1>2 DEF TypeOK
<1>4. InQueue'
  BY Zenon, <1>0, <1>1, SameQueue
<1>5. Applying' /\ Checked' /\ SwapAsksNothingNew'
  BY Zenon, <1>1 DEF Applying, Checked, SwapAsksNothingNew
<1>6. Holding' /\ Logged' /\ OwnGrantsOnly'
  BY Zenon, <1>0, <1>1, SameRights, SameLog
<1>. QED  BY Zenon, <1>3, <1>4, <1>5, <1>6 DEF IInv

\* What other writers do touches only the working set.
LEMMA ElsewhereIInv ==
  ASSUME IInv, NEW n \in Others, NEW m \in BOOLEAN, Elsewhere(n, m)
  PROVE  IInv'
<1>0. TypeOK /\ InQueue /\ Applying /\ Checked /\ SwapAsksNothingNew /\ Holding /\ Logged
      /\ OwnGrantsOnly
  BY Zenon DEF IInv
<1>1. /\ pc' = pc /\ batch' = batch /\ log' = log /\ line' = line /\ state' = state
      /\ cur' = cur /\ w' = w /\ i' = i /\ readers' = readers /\ errs' = errs
      /\ g' = g /\ chain' = chain /\ attempts' = attempts
      /\ may' = may /\ held' = held /\ base' = base /\ ours' = ours /\ began' = began
  BY Zenon DEF Elsewhere, txnVars, attemptVars
<1>2. ws' \in Namespaces /\ merging' \in BOOLEAN
  BY Zenon, DomainAssumption DEF Elsewhere
<1>3. TypeOK'
  BY Zenon, <1>0, <1>1, <1>2 DEF TypeOK
<1>4. InQueue'
  BY Zenon, <1>0, <1>1, SameQueue
<1>5. Applying'
  BY Zenon, <1>0, <1>1, SameAttempt
<1>6. Checked' /\ SwapAsksNothingNew' /\ OwnGrantsOnly'
  BY Zenon, <1>0, <1>1, SameChecks, SameLog
<1>7. Holding' /\ Logged'
  BY Zenon, <1>0, <1>1, SameRights, SameLog
<1>. QED  BY Zenon, <1>3, <1>4, <1>5, <1>6, <1>7 DEF IInv

\* Rights only add to what a committing transaction held.
LEMMA RegrantIInv ==
  ASSUME IInv, NEW t \in Txns, NEW r \in Grants, Regrant(t, r)
  PROVE  IInv'
<1>0. TypeOK /\ InQueue /\ Applying /\ Checked /\ SwapAsksNothingNew /\ Holding /\ Logged
      /\ OwnGrantsOnly
  BY Zenon DEF IInv
<1>1. /\ pc' = pc /\ batch' = batch /\ log' = log /\ line' = line /\ state' = state
      /\ cur' = cur /\ w' = w /\ i' = i /\ readers' = readers /\ errs' = errs
      /\ g' = g /\ chain' = chain /\ attempts' = attempts
      /\ base' = base /\ ours' = ours /\ began' = began
      /\ ws' = ws /\ merging' = merging
  BY Zenon DEF Regrant, branchVars, attemptVars
<1>2. PICK h : h = IF state[t] # "committing" THEN held[t]
                   ELSE [read  |-> held[t].read \/ r.read,
                         write |-> held[t].write \/ r.write,
                         paths |-> held[t].paths \cup r.paths]
  BY Zenon
<1>3. r \in Rights /\ held[t] \in Rights
  BY Zenon, <1>0, GrantsAssumption DEF TypeOK
<1>4. h \in Rights
  BY Zenon, <1>2, <1>3 DEF Rights
<1>5. /\ held[t].write => h.write
      /\ held[t].paths \subseteq h.paths
      /\ state[t] = "committing" => (r.write => h.write) /\ r.paths \subseteq h.paths
  BY Zenon, <1>2, <1>3 DEF Rights
<1>6. may' = [may EXCEPT ![t] = r] /\ held' = [held EXCEPT ![t] = h]
  BY Zenon, <1>2 DEF Regrant
<1>7. may' \in [Txns -> Rights] /\ held' \in [Txns -> Rights]
  BY Zenon, <1>0, <1>3, <1>4, <1>6 DEF TypeOK
<1>8. /\ may'[t] = r /\ held'[t] = h
      /\ \A u \in Txns : u # t => may'[u] = may[u] /\ held'[u] = held[u]
  BY Zenon, <1>0, <1>6 DEF TypeOK
<1>9. \A u \in Txns : (held[u].write => held'[u].write) /\ held[u].paths \subseteq held'[u].paths
  BY Zenon, <1>5, <1>8
<1>10. TypeOK'
  BY Zenon, <1>0, <1>1, <1>7 DEF TypeOK
<1>11. InQueue'
  BY Zenon, <1>0, <1>1, SameQueue
<1>12. Applying'
  BY Zenon, <1>0, <1>1, SameAttempt
<1>13. SwapAsksNothingNew'
  BY Zenon, <1>0, <1>1 DEF SwapAsksNothingNew, ChangedPaths
<1>14. Checked'
  <2>1. \A k \in 1..Len(chain) : chain[k].t \in Txns
    BY Zenon, <1>0, Parts DEF Entries
  <2>. QED  BY Zenon, <1>0, <1>1, <1>9, <2>1 DEF Checked, ChangedPaths
<1>15. Holding'
  BY Zenon, <1>0, <1>1, <1>5, <1>8 DEF Holding
<1>16. Logged'
  BY Zenon, <1>0, <1>1 DEF Logged
<1>17. OwnGrantsOnly'
  <2>1. \A k \in 1..Len(log) : log[k].t \in Txns
    BY Zenon, <1>0, Parts DEF Entries
  <2>. QED  BY Zenon, <1>0, <1>1, <1>9, <2>1 DEF OwnGrantsOnly, ChangedPaths
<1>. QED  BY Zenon, <1>10, <1>11, <1>12, <1>13, <1>14, <1>15, <1>16, <1>17 DEF IInv

-----------------------------------------------------------------------------
\* The batch is answered e, and the commits L take effect: those of the
\* attempt, each of them told nil or unknown, or none.
Answers(e, L) ==
    /\ Answer(e)
    /\ e \in [Txns -> Errors]
    /\ L = <<>> \/ (pc = "apply" /\ L = chain)
    /\ log' = log \o L
    /\ \A k \in 1..Len(L) : e[L[k].t] \in {"nil", "unknown"}
    /\ \A t \in Members : e[t] = "nil" => \E k \in 1..Len(L) : L[k].t = t
    /\ ws' \in Namespaces
    /\ L = <<>> => ws' = ws
    /\ L # <<>> => (ws = cur /\ ws' = w) \/ (w = cur /\ ws' = ws)

\* What the members, and the commits that take effect, are.
LEMMA AnsweredCalls ==
  ASSUME IInv, NEW e, NEW L, Answers(e, L)
  PROVE  /\ L \in Seq(Entries) /\ Len(L) \in Nat
         /\ \A k \in 1..Len(L) : L[k] \in Entries /\ L[k].t \in Txns /\ L[k].t \in Members
         /\ \A j, k \in 1..Len(L) : L[j].t = L[k].t => j = k
         /\ \A t \in Members : t \in Txns /\ state[t] = "committing"
         /\ \A k \in 1..Len(log) : log[k].t \in Txns /\ log[k].t \notin Members
<1>0. TypeOK /\ InQueue /\ Applying /\ Logged
  BY Zenon DEF IInv
<1>1. L \in Seq(Entries) /\ Len(L) \in Nat
  <2>1. L = <<>> \/ L = chain
    BY Zenon DEF Answers
  <2>2. <<>> \in Seq(Entries)
    OBVIOUS
  <2>3. chain \in Seq(Entries)
    BY Zenon, <1>0 DEF TypeOK
  <2>4. L \in Seq(Entries)
    BY Zenon, <2>1, <2>2, <2>3
  <2>. QED  BY <2>4
<1>2. \A t \in Members : t \in Txns /\ state[t] = "committing"
  <2> TAKE t \in Members
  <2>1. t \in Txns
    BY Zenon, <1>0, MembersAre
  <2>2. PICK k \in 1..Len(batch) : batch[k] = t
    BY Zenon, <1>0, <2>1, MembersAre
  <2>. QED  BY Zenon, <1>0, <2>1, <2>2 DEF InQueue
<1>3. \A k \in 1..Len(L) : L[k] \in Entries
  BY <1>1
<1>4. \A k \in 1..Len(L) : L[k] \in Entries /\ L[k].t \in Txns
  BY Zenon, <1>3 DEF Entries
<1>5. ASSUME pc = "apply", L = chain
      PROVE  /\ \A k \in 1..Len(L) : L[k].t \in Members
             /\ \A j, k \in 1..Len(L) : L[j].t = L[k].t => j = k
  <2>1. \A m \in 1..i - 1 : m \in 1..Len(batch)
    BY <1>0 DEF TypeOK
  <2>2. \A k \in 1..Len(L) : \E m \in 1..Len(batch) : batch[m] = L[k].t
    BY Zenon, <1>0, <1>5, <2>1 DEF Applying
  <2>3. \A j, k \in 1..Len(L) : L[j].t = L[k].t => j = k
    BY Zenon, <1>0, <1>5 DEF Applying
  <2>. QED  BY Zenon, <1>0, <1>4, <2>2, <2>3, MembersAre
<1>6. /\ \A k \in 1..Len(L) : L[k].t \in Members
      /\ \A j, k \in 1..Len(L) : L[j].t = L[k].t => j = k
  <2>1. L = <<>> \/ (pc = "apply" /\ L = chain)
    BY Zenon DEF Answers
  <2>2. CASE L = <<>>
    <3>1. \A k \in 1..Len(L) : FALSE
      BY <2>2
    <3>. QED  BY Zenon, <3>1
  <2>. QED  BY Zenon, <1>5, <2>1, <2>2
<1>7. \A k \in 1..Len(log) : log[k].t \in Txns /\ log[k].t \notin Members
  <2>1. \A k \in 1..Len(log) : log[k].t \in Txns
    BY Zenon, <1>0, Parts DEF Entries
  <2>2. \A k \in 1..Len(log) : state[log[k].t] # "committing"
    BY Zenon, <1>0 DEF Logged
  <2>. QED  BY Zenon, <1>2, <2>1, <2>2
<1>. QED  BY Zenon, <1>1, <1>2, <1>4, <1>6, <1>7

\* The log is the old one and the commits that take effect.
LEMMA AnsweredLog ==
  ASSUME IInv, NEW e, NEW L, Answers(e, L)
  PROVE  /\ log' \in Seq(Entries) /\ Len(log') = Len(log) + Len(L)
         /\ Len(log) \in Nat /\ Len(L) \in Nat
         /\ \A k \in 1..Len(log) : log'[k] = log[k]
         /\ \A k \in 1..Len(L) : log'[Len(log) + k] = L[k]
         /\ \A k \in 1..Len(log') : k \in 1..Len(log) \/ \E j \in 1..Len(L) : k = Len(log) + j
<1>1. log \in Seq(Entries) /\ Len(log) \in Nat
  BY Zenon, Parts DEF IInv, TypeOK
<1>2. L \in Seq(Entries) /\ Len(L) \in Nat
  BY Zenon, AnsweredCalls
<1>3. log' = log \o L
  BY Zenon DEF Answers
<1>4. /\ log \o L \in Seq(Entries) /\ Len(log \o L) = Len(log) + Len(L)
      /\ \A k \in 1..Len(log) : (log \o L)[k] = log[k]
      /\ \A k \in 1..Len(L) : (log \o L)[Len(log) + k] = L[k]
      /\ \A k \in 1..Len(log) + Len(L) :
            k \in 1..Len(log) \/ \E j \in 1..Len(L) : k = Len(log) + j
  <2>1. \A s, u \in Seq(Entries) :
          /\ s \o u \in Seq(Entries) /\ Len(s \o u) = Len(s) + Len(u)
          /\ \A k \in 1..Len(s) : (s \o u)[k] = s[k]
          /\ \A k \in 1..Len(u) : (s \o u)[Len(s) + k] = u[k]
          /\ \A k \in 1..Len(s) + Len(u) :
                k \in 1..Len(s) \/ \E j \in 1..Len(u) : k = Len(s) + j
    BY Zenon, JoinedLines
  <2>. QED  BY Zenon, <1>1, <1>2, <2>1
<1>. QED  BY Zenon, <1>1, <1>2, <1>3, <1>4

\* What a call is told.
LEMMA AnsweredState ==
  ASSUME IInv, NEW e, NEW L, Answers(e, L)
  PROVE  /\ state' \in [Txns -> Refusals \cup {"new", "open", "committing", "ok", "empty", "unknown"}]
         /\ \A t \in Txns : t \notin Members => state'[t] = state[t]
         /\ \A t \in Members : state'[t] = IF e[t] = "nil" THEN "ok" ELSE e[t]
         /\ \A t \in Members : state'[t] \in Refusals \cup {"ok", "unknown"}
<1>1. state' = Told(e) /\ e \in [Txns -> Errors]
  BY Zenon DEF Answers, Answer
<1>2. TypeOK
  BY Zenon DEF IInv
<1>3. \A t \in Txns : Told(e)[t] = IF t \notin Members THEN state[t]
                                   ELSE IF e[t] = "nil" THEN "ok" ELSE e[t]
  BY Zenon DEF Told
<1>4. \A t \in Txns : e[t] \in Errors
                      /\ state[t] \in Refusals \cup {"new", "open", "committing", "ok", "empty", "unknown"}
  BY Zenon, <1>1, <1>2 DEF TypeOK
<1>5. \A t \in Txns : t \in Members => Told(e)[t] \in Refusals \cup {"ok", "unknown"}
  BY Zenon, <1>3, <1>4 DEF Errors
<1>6. \A t \in Txns :
         Told(e)[t] \in Refusals \cup {"new", "open", "committing", "ok", "empty", "unknown"}
  BY Zenon, <1>3, <1>4, <1>5
<1>7. Told(e) \in [Txns -> Refusals \cup {"new", "open", "committing", "ok", "empty", "unknown"}]
  BY Zenon, <1>6 DEF Told
<1>. QED  BY Zenon, <1>1, <1>2, <1>3, <1>5, <1>7, MembersAre

\* Answering a batch keeps the invariant.
LEMMA AnswerIInv ==
  ASSUME IInv, NEW e, NEW L, Answers(e, L)
  PROVE  IInv'
<1>0. TypeOK /\ InQueue /\ Applying /\ Checked /\ Holding /\ Logged /\ OwnGrantsOnly
  BY Zenon DEF IInv
<1>1. /\ pc' = "idle" /\ batch' = <<>> /\ attempts' = 0 /\ cur' = First /\ w' = First
      /\ i' = 1 /\ readers' = {} /\ errs' = [t \in Txns |-> "nil"] /\ g' = NoGrants
      /\ chain' = <<>> /\ merging' = merging /\ line' = line
      /\ may' = may /\ held' = held /\ base' = base /\ ours' = ours /\ began' = began
      /\ ws' \in Namespaces
  BY Zenon DEF Answers, Answer, txnVars
<1>c. /\ \A k \in 1..Len(L) : L[k] \in Entries /\ L[k].t \in Txns /\ L[k].t \in Members
      /\ \A j, k \in 1..Len(L) : L[j].t = L[k].t => j = k
      /\ \A t \in Members : t \in Txns /\ state[t] = "committing"
      /\ \A k \in 1..Len(log) : log[k].t \in Txns /\ log[k].t \notin Members
  BY Zenon, AnsweredCalls
<1>l. /\ log' \in Seq(Entries) /\ Len(log') = Len(log) + Len(L)
      /\ Len(log) \in Nat /\ Len(L) \in Nat
      /\ \A k \in 1..Len(log) : log'[k] = log[k]
      /\ \A k \in 1..Len(L) : log'[Len(log) + k] = L[k]
      /\ \A k \in 1..Len(log') : k \in 1..Len(log) \/ \E j \in 1..Len(L) : k = Len(log) + j
  BY Zenon, AnsweredLog
<1>m. \A k \in 1..Len(log') : \/ k \in 1..Len(log) /\ log'[k] = log[k]
                              \/ \E j \in 1..Len(L) : k = Len(log) + j /\ log'[k] = L[j]
  BY Zenon, <1>l
<1>s. /\ state' \in [Txns -> Refusals \cup {"new", "open", "committing", "ok", "empty", "unknown"}]
      /\ \A t \in Txns : t \notin Members => state'[t] = state[t]
      /\ \A t \in Members : state'[t] = IF e[t] = "nil" THEN "ok" ELSE e[t]
      /\ \A t \in Members : state'[t] \in Refusals \cup {"ok", "unknown"}
  BY Zenon, AnsweredState
<1>2. TypeOK'
  <2>1. First \in Namespaces /\ NoGrants \in [write : BOOLEAN, paths : SUBSET Paths]
    BY Zenon, DomainAssumption DEF NoGrants
  <2>2. /\ <<>> \in Seq(Txns) /\ <<>> \in Seq(Entries) /\ 0 \in 0..MaxAttempts - 1
        /\ 1 \in 1..Len(<<>>) + 1
    BY AttemptsAssumption
  <2>3. [t \in Txns |-> "nil"] \in [Txns -> Errors]
    BY Zenon DEF Errors
  <2>. QED  BY Zenon, <1>0, <1>1, <1>l, <1>s, <2>1, <2>2, <2>3 DEF TypeOK
<1>3. InQueue'
  <2>1. \A k \in 1..Len(<<>>) : FALSE
    OBVIOUS
  <2>2. \A k \in 1..Len(line) : line[k] \in Txns /\ line[k] \notin Members
    <3> TAKE k \in 1..Len(line)
    <3>1. line[k] \in Txns
      BY Zenon, <1>0, Parts
    <3>2. ~ \E j \in 1..Len(batch) : batch[j] = line[k]
      BY Zenon, <1>0 DEF InQueue
    <3>. QED  BY Zenon, <1>0, <3>1, <3>2, MembersAre
  <2>3. \A k \in 1..Len(line) : state'[line[k]] = "committing"
    BY Zenon, <1>0, <1>s, <2>2 DEF InQueue
  <2>. QED  BY ZenonT(60), <1>0, <1>1, <2>1, <2>3 DEF InQueue
<1>4. Applying' /\ Checked' /\ SwapAsksNothingNew'
  BY Zenon, <1>1 DEF Applying, Checked, SwapAsksNothingNew
<1>5. Holding'
  <2>1. \A t \in Txns : state'[t] = "committing" => t \notin Members
    BY Zenon, <1>s DEF Refusals
  <2>. QED  BY Zenon, <1>0, <1>1, <1>s, <2>1 DEF Holding
<1>6. Logged'
  <2>1. \A k \in 1..Len(log') : state'[log'[k].t] \in {"ok", "unknown"}
    <3>1. \A k \in 1..Len(log) : state'[log'[k].t] \in {"ok", "unknown"}
      BY ZenonT(60), <1>0, <1>c, <1>l, <1>s DEF Logged
    <3>2. \A k \in 1..Len(L) : e[L[k].t] \in {"nil", "unknown"}
      BY Zenon DEF Answers
    <3>3. \A k \in 1..Len(L) : state'[L[k].t] \in {"ok", "unknown"}
      BY ZenonT(60), <1>c, <1>s, <3>2
    <3>. QED  BY Zenon, <1>m, <3>1, <3>3
  <2>2. \A j, k \in 1..Len(log') : log'[j].t = log'[k].t => j = k
    <3>1. \A j, k \in 1..Len(log) : log'[j].t = log'[k].t => j = k
      BY Zenon, <1>0, <1>l DEF Logged
    <3>2. \A j, k \in 1..Len(L) : log'[Len(log) + j].t = log'[Len(log) + k].t => j = k
      BY ZenonT(60), <1>c, <1>l
    <3>3. \A j \in 1..Len(log), k \in 1..Len(L) : log'[j].t # log'[Len(log) + k].t
      BY ZenonT(60), <1>c, <1>l
    <3> SUFFICES ASSUME NEW j \in 1..Len(log'), NEW k \in 1..Len(log'), log'[j].t = log'[k].t
                 PROVE  j = k
      BY Zenon
    <3>4. CASE j \in 1..Len(log) /\ k \in 1..Len(log)
      BY Zenon, <3>1, <3>4
    <3>5. CASE j \in 1..Len(log) /\ \E m \in 1..Len(L) : k = Len(log) + m
      BY Zenon, <3>3, <3>5
    <3>6. CASE k \in 1..Len(log) /\ \E m \in 1..Len(L) : j = Len(log) + m
      BY Zenon, <3>3, <3>6
    <3>7. CASE /\ \E m \in 1..Len(L) : j = Len(log) + m
               /\ \E m \in 1..Len(L) : k = Len(log) + m
      BY Zenon, <3>2, <3>7
    <3>. QED  BY Zenon, <1>l, <3>4, <3>5, <3>6, <3>7
  <2>3. ASSUME NEW t \in Txns, state'[t] = "ok"
        PROVE  \E k \in 1..Len(log') : log'[k].t = t
    <3>1. CASE t \notin Members
      <4>1. PICK k \in 1..Len(log) : log[k].t = t
        BY Zenon, <1>0, <1>s, <2>3, <3>1 DEF Logged
      <4>2. k \in 1..Len(log')
        BY <1>l
      <4>. QED  BY Zenon, <1>l, <4>1, <4>2
    <3>2. CASE t \in Members
      <4>1. e[t] \in Errors
        BY Zenon DEF Answers
      <4>2. e[t] = "nil"
        BY Zenon, <1>s, <2>3, <3>2, <4>1 DEF Errors, Refusals
      <4>3. PICK k \in 1..Len(L) : L[k].t = t
        BY Zenon, <3>2, <4>2 DEF Answers
      <4>4. Len(log) + k \in 1..Len(log')
        BY <1>l
      <4>. QED  BY Zenon, <1>l, <4>3, <4>4
    <3>. QED  BY Zenon, <3>1, <3>2
  <2>. QED  BY Zenon, <2>1, <2>2, <2>3 DEF Logged
<1>7. OwnGrantsOnly'
  <2>1. \A k \in 1..Len(L) :
           /\ held[L[k].t].write
           /\ ChangedPaths(L[k].before, L[k].after) \subseteq held[L[k].t].paths
    <3>1. L = <<>> \/ (pc = "apply" /\ L = chain)
      BY Zenon DEF Answers
    <3>2. CASE L = <<>>
      <4>1. \A k \in 1..Len(L) : FALSE
        BY <3>2
      <4>. QED  BY Zenon, <4>1
    <3>. QED  BY Zenon, <1>0, <3>1, <3>2 DEF Checked
  <2>2. \A k \in 1..Len(log) :
           /\ held[log'[k].t].write
           /\ ChangedPaths(log'[k].before, log'[k].after) \subseteq held[log'[k].t].paths
    BY Zenon, <1>0, <1>l DEF OwnGrantsOnly
  <2>3. \A k \in 1..Len(log') :
           /\ held[log'[k].t].write
           /\ ChangedPaths(log'[k].before, log'[k].after) \subseteq held[log'[k].t].paths
    BY Zenon, <1>m, <2>1, <2>2
  <2>. QED  BY Zenon, <1>1, <2>3 DEF OwnGrantsOnly
<1>. QED  BY Zenon, <1>2, <1>3, <1>4, <1>5, <1>6, <1>7 DEF IInv

-----------------------------------------------------------------------------
\* The abstract specification's rule is the rule: the same definitions.
LEMMA SameRule ==
  ASSUME NEW b, NEW o, NEW c
  PROVE  Promise!Applied(b, o, c) = Applied(b, o, c)
<1>1. \A x, y : Promise!InPlace(x, y) <=> InPlace(x, y)
  BY Zenon DEF Promise!InPlace, InPlace
<1>2. \A x : Promise!IsCounter(x) <=> IsCounter(x)
  BY Zenon DEF Promise!IsCounter, IsCounter
<1>3. \A x, y, z : Promise!ItemsClash(x, y, z) <=> ItemsClash(x, y, z)
  BY ZenonT(60), <1>2 DEF Promise!ItemsClash, ItemsClash, Promise!ChangedItems, ChangedItems
<1>4. \A x, y, z : Promise!PathsClash(x, y, z) <=> PathsClash(x, y, z)
  BY ZenonT(60), <1>1, <1>3 DEF Promise!PathsClash, PathsClash
<1>5. Promise!Clash(b, o, c) <=> Clash(b, o, c)
  BY Zenon, <1>4 DEF Promise!Clash, Clash
<1>6. \A x, y, z : Promise!ItemAfter(x, y, z) = ItemAfter(x, y, z)
  BY Zenon DEF Promise!ItemAfter, ItemAfter
<1>7. \A x, y, z : Promise!PathAfter(x, y, z) = PathAfter(x, y, z)
  <2> TAKE x, y, z
  <2>1. [n \in Items |-> Promise!ItemAfter(x.items[n], y.items[n], z.items[n])] =
        [n \in Items |-> ItemAfter(x.items[n], y.items[n], z.items[n])]
    BY Zenon, <1>6
  <2>2. \A items : Promise!WithItems(z, items) = WithItems(z, items)
    BY Zenon DEF Promise!WithItems, WithItems
  <2>. QED  BY Zenon, <1>1, <2>1, <2>2 DEF Promise!PathAfter, PathAfter
<1>. QED  BY Zenon, <1>5, <1>7 DEF Promise!Applied, Applied

\* The commits that take effect, in the log and in the attempt.
LEMMA AnsweredChain ==
  ASSUME IInv, NEW e, NEW L, Answers(e, L)
  PROVE  /\ \A k : k \in Promise!Landed <=> \E j \in 1..Len(L) : k = Len(log) + j
         /\ \A j \in 1..Len(L) :
               /\ L[j].after = Applied(base[L[j].t], ours[L[j].t], L[j].before)
               /\ L[j].after # Refused
               /\ L[j].before = IF j = 1 THEN Seen[L[j].t] ELSE L[j - 1].after
         /\ L # <<>> => L[1].before = cur /\ L[Len(L)].after = w /\ Len(L) > 0
<1>0. TypeOK /\ Applying
  BY Zenon DEF IInv
<1>c. \A k \in 1..Len(L) : L[k] \in Entries /\ L[k].t \in Txns /\ L[k].t \in Members
  BY Zenon, AnsweredCalls
<1>l. /\ log' \in Seq(Entries) /\ Len(log') = Len(log) + Len(L)
      /\ Len(log) \in Nat /\ Len(L) \in Nat
  BY Zenon, AnsweredLog
<1>1. \A k : k \in Promise!Landed <=> \E j \in 1..Len(L) : k = Len(log) + j
  <2>1. DOMAIN log' = 1..Len(log) + Len(L)
    BY <1>l
  <2>2. \A k : k \in Promise!Landed <=> k \in 1..Len(log) + Len(L) /\ k > Len(log)
    BY Zenon, <2>1 DEF Promise!Landed
  <2>3. \A k \in 1..Len(log) + Len(L) :
           k > Len(log) => k - Len(log) \in 1..Len(L) /\ k = Len(log) + (k - Len(log))
    BY <1>l
  <2>4. \A j \in 1..Len(L) : Len(log) + j \in 1..Len(log) + Len(L) /\ Len(log) + j > Len(log)
    BY <1>l
  <2>. QED  BY Zenon, <2>2, <2>3, <2>4
<1>2. CASE L = <<>>
  <2>1. \A j \in 1..Len(L) : FALSE
    BY <1>2
  <2>. QED  BY Zenon, <1>1, <1>2, <2>1
<1>3. CASE L # <<>>
  <2>1. pc = "apply" /\ L = chain
    BY Zenon, <1>3 DEF Answers
  <2>2. /\ \A j \in 1..Len(L) : L[j].after = Applied(base[L[j].t], ours[L[j].t], L[j].before)
        /\ \A j \in 1..Len(L) : L[j].before = IF j = 1 THEN cur ELSE L[j - 1].after
        /\ w = L[Len(L)].after
    BY Zenon, <1>0, <1>3, <2>1 DEF Applying
  <2>3. \A j \in 1..Len(L) : L[j].after # Refused
    BY Zenon, <1>c, SentinelsAssumption DEF Entries
  <2>4. \A j \in 1..Len(L) : Seen[L[j].t] = cur
    BY Zenon, <1>c, <2>1 DEF Seen
  <2>5. 1 \in 1..Len(L) /\ Len(L) > 0
    <3>1. L \in Seq(Entries)
      BY Zenon, AnsweredCalls
    <3>. QED  BY <1>3, <3>1
  <2>. QED  BY Zenon, <1>1, <2>2, <2>3, <2>4, <2>5
<1>. QED  BY Zenon, <1>2, <1>3

\* Answering a batch settles its Commits.
LEMMA AnswerSettles ==
  ASSUME IInv, NEW e, NEW L, Answers(e, L)
  PROVE  Promise!Settle(Members)
<1>c. /\ \A k \in 1..Len(L) : L[k].t \in Members
      /\ \A j, k \in 1..Len(L) : L[j].t = L[k].t => j = k
      /\ \A t \in Members : t \in Txns /\ state[t] = "committing"
  BY Zenon, AnsweredCalls
<1>l. /\ Len(log') = Len(log) + Len(L)
      /\ Len(log) \in Nat /\ Len(L) \in Nat
      /\ \A k \in 1..Len(log) : log'[k] = log[k]
      /\ \A k \in 1..Len(L) : log'[Len(log) + k] = L[k]
  BY Zenon, AnsweredLog
<1>s. /\ state' \in [Txns -> Refusals \cup {"new", "open", "committing", "ok", "empty", "unknown"}]
      /\ \A t \in Txns : t \notin Members => state'[t] = state[t]
      /\ \A t \in Members : state'[t] = IF e[t] = "nil" THEN "ok" ELSE e[t]
      /\ \A t \in Members : state'[t] \in Refusals \cup {"ok", "unknown"}
  BY Zenon, AnsweredState
<1>h. /\ \A k : k \in Promise!Landed <=> \E j \in 1..Len(L) : k = Len(log) + j
      /\ \A j \in 1..Len(L) :
            /\ L[j].after = Applied(base[L[j].t], ours[L[j].t], L[j].before)
            /\ L[j].after # Refused
            /\ L[j].before = IF j = 1 THEN Seen[L[j].t] ELSE L[j - 1].after
      /\ L # <<>> => L[1].before = cur /\ L[Len(L)].after = w /\ Len(L) > 0
  BY Zenon, AnsweredChain
<1>1. Members \subseteq Promise!Committing
  BY Zenon, <1>c DEF Promise!Committing
<1>2. Promise!Chained(Members)
  <2>1. Len(log) <= Len(log')
    BY <1>l
  <2>2. ASSUME NEW k \in Promise!Landed
        PROVE  /\ log'[k].t \in Members
               /\ log'[k].after = Promise!Applied(base[log'[k].t], ours[log'[k].t], log'[k].before)
               /\ log'[k].after # Refused
               /\ log'[k].before = IF k = Len(log) + 1 THEN Seen[log'[k].t] ELSE log'[k - 1].after
               /\ \A j \in Promise!Landed : log'[j].t = log'[k].t => j = k
    <3>1. PICK n \in 1..Len(L) : k = Len(log) + n
      BY Zenon, <1>h
    <3>2. log'[k] = L[n]
      BY Zenon, <1>l, <3>1
    <3>3. log'[k].before = IF k = Len(log) + 1 THEN Seen[log'[k].t] ELSE log'[k - 1].after
      <4>1. CASE n = 1
        BY Zenon, <1>h, <3>1, <3>2, <4>1
      <4>2. CASE n # 1
        <5>1. n - 1 \in 1..Len(L) /\ k # Len(log) + 1 /\ k - 1 = Len(log) + (n - 1)
          BY <1>l, <3>1, <4>2
        <5>2. log'[k - 1] = L[n - 1]
          BY Zenon, <1>l, <5>1
        <5>. QED  BY ZenonT(60), <1>h, <3>1, <3>2, <4>2, <5>1, <5>2
      <4>. QED  BY Zenon, <4>1, <4>2
    <3>4. ASSUME NEW j \in Promise!Landed, log'[j].t = log'[k].t
          PROVE  j = k
      <4>1. PICK m \in 1..Len(L) : j = Len(log) + m
        BY Zenon, <1>h
      <4>2. log'[j] = L[m]
        BY Zenon, <1>l, <4>1
      <4>. QED  BY ZenonT(60), <1>c, <3>1, <3>2, <3>4, <4>1, <4>2
    <3>5. log'[k].after = Promise!Applied(base[log'[k].t], ours[log'[k].t], log'[k].before)
      BY ZenonT(60), <1>h, <3>2, SameRule
    <3>6. log'[k].t \in Members /\ log'[k].after # Refused
      BY ZenonT(60), <1>c, <1>h, <3>2
    <3>. QED  BY Zenon, <3>3, <3>4, <3>5, <3>6
  <2>. QED  BY Zenon, <1>l, <2>1, <2>2 DEF Promise!Chained
<1>3. Promise!Effect
  <2>1. CASE L = <<>>
    <3>1. \A j \in 1..Len(L) : FALSE
      BY <2>1
    <3>2. Promise!Landed = {} /\ ws' = ws
      BY Zenon, <1>h, <2>1, <3>1 DEF Answers
    <3>. QED  BY Zenon, <3>2 DEF Promise!Effect
  <2>2. CASE L # <<>>
    <3>1. 1 \in 1..Len(L) /\ Len(L) \in 1..Len(L)
      <4>1. Len(L) > 0 /\ Len(L) \in Nat
        BY Zenon, <1>h, <1>l, <2>2
      <4>. QED  BY <4>1
    <3>2. log'[Len(log) + 1].before = cur /\ log'[Len(log')].after = w
      BY Zenon, <1>h, <1>l, <2>2, <3>1
    <3>3. Promise!Landed # {}
      BY Zenon, <1>h, <3>1
    <3>4. (ws = cur /\ ws' = w) \/ (w = cur /\ ws' = ws)
      BY Zenon, <2>2 DEF Answers
    <3>. QED  BY Zenon, <3>2, <3>3, <3>4 DEF Promise!Effect
  <2>. QED  BY Zenon, <2>1, <2>2
<1>4. state' \in [Txns -> Promise!States]
  BY Zenon, <1>s DEF Promise!States, Promise!Refusals, Refusals
<1>5. ASSUME NEW t \in Members
      PROVE  IF \E k \in Promise!Landed : log'[k].t = t
             THEN state'[t] \in {"ok", "unknown"}
             ELSE state'[t] \in Promise!Refusals \cup {"unknown"}
  <2>1. CASE \E k \in Promise!Landed : log'[k].t = t
    <3>0. PICK k \in Promise!Landed : log'[k].t = t
      BY Zenon, <2>1
    <3>j. PICK j \in 1..Len(L) : k = Len(log) + j
      BY Zenon, <1>h
    <3>1. L[j].t = t
      BY Zenon, <1>l, <3>0, <3>j
    <3>2. e[t] \in {"nil", "unknown"}
      BY Zenon, <3>1 DEF Answers
    <3>. QED  BY Zenon, <1>s, <2>1, <3>2
  <2>2. CASE ~ \E k \in Promise!Landed : log'[k].t = t
    <3>0. \A j \in 1..Len(L) : Len(log) + j \in Promise!Landed
      BY Zenon, <1>h
    <3>1. ~ \E j \in 1..Len(L) : L[j].t = t
      BY Zenon, <1>l, <2>2, <3>0
    <3>2. e[t] # "nil" /\ e[t] \in Errors
      BY Zenon, <1>c, <3>1 DEF Answers
    <3>. QED  BY Zenon, <1>s, <2>2, <3>2 DEF Errors, Promise!Refusals, Refusals
  <2>. QED  BY Zenon, <2>1, <2>2
<1>6. Seen' = [t \in Txns |-> IF t \in Members THEN NoMoment ELSE Seen[t]]
  <2>1. pc' = "idle"
    BY Zenon DEF Answers, Answer
  <2>2. Seen' = [t \in Txns |-> NoMoment]
    BY Zenon, <2>1 DEF Seen
  <2>3. \A t \in Txns : t \notin Members => Seen[t] = NoMoment
    BY Zenon DEF Seen
  <2>. QED  BY Zenon, <2>2, <2>3
<1>7. base' = base /\ ours' = ours
  BY Zenon DEF Answers, Answer, txnVars
<1>. QED  BY Zenon, <1>1, <1>2, <1>3, <1>4, <1>5, <1>6, <1>7, <1>s DEF Promise!Settle

-----------------------------------------------------------------------------
\* An answer without a nil, when nothing moved.
LEMMA NoneLands ==
  ASSUME IInv, NEW e \in [Txns -> Errors], Answer(e), UNCHANGED <<ws, log>>,
         \A t \in Members : e[t] # "nil"
  PROVE  Answers(e, <<>>)
<1>1. \A k \in 1..Len(<<>>) : FALSE
  OBVIOUS
<1>2. log \in Seq(Entries) /\ ws \in Namespaces
  BY Zenon DEF IInv, TypeOK
<1>3. log = log \o <<>>
  BY <1>2
<1>. QED  BY Zenon, <1>1, <1>2, <1>3 DEF Answers

\* failAll leaves no member with nil.
LEMMA NobodyNil ==
  ASSUME TypeOK, NEW e \in [Txns -> Errors], NEW err \in Errors, err # "nil"
  PROVE  /\ FailAll(e, err) \in [Txns -> Errors]
         /\ \A t \in Members : FailAll(e, err)[t] # "nil"
         /\ \A t \in Members : e[t] = "nil" => FailAll(e, err)[t] = err
<1>1. \A t \in Txns : FailAll(e, err)[t] = IF t \in Members /\ e[t] = "nil" THEN err ELSE e[t]
  BY Zenon DEF FailAll
<1>2. FailAll(e, err) \in [Txns -> Errors]
  <2>1. \A t \in Txns : FailAll(e, err)[t] \in Errors
    BY Zenon, <1>1
  <2>. QED  BY Zenon, <2>1 DEF FailAll
<1>. QED  BY Zenon, <1>1, <1>2, MembersAre

\* attempt's first loop leaves each member nil or an error.
LEMMA ReadErrsType ==
  ASSUME TypeOK, NEW gone \in SUBSET Members
  PROVE  ReadErrs(gone) \in [Txns -> Errors]
BY Zenon DEF ReadErrs, Errors, Refusals

\* An attempt that ends before it reads lands nothing.
LEMMA ReadAnswers ==
  ASSUME IInv, NEW gone \in SUBSET Members,
         ReadNone(gone) \/ ReadFails(gone) \/ ReadMerging(gone)
  PROVE  \E e, L : Answers(e, L)
<1>0. TypeOK
  BY Zenon DEF IInv
<1>1. PICK r \in [Txns -> Errors] : r = ReadErrs(gone)
  BY Zenon, <1>0, ReadErrsType
<1>2. "failed" \in Errors /\ "merging" \in Errors
  BY Zenon DEF Errors, Refusals
<1>3. CASE ReadNone(gone)
  <2>1. Answer(r) /\ UNCHANGED <<ws, log>>
    BY Zenon, <1>1, <1>3 DEF ReadNone
  <2>2. \A t \in Members : r[t] # "nil"
    BY Zenon, <1>1, <1>3 DEF ReadNone, Readers
  <2>. QED  BY Zenon, <2>1, <2>2, NoneLands
<1>4. CASE ReadFails(gone)
  <2>1. PICK e : e = FailAll(r, "failed")
    BY Zenon
  <2>2. e \in [Txns -> Errors] /\ \A t \in Members : e[t] # "nil"
    BY Zenon, <1>0, <1>2, <2>1, NobodyNil
  <2>3. Answer(e) /\ UNCHANGED <<ws, log>>
    BY Zenon, <1>1, <1>4, <2>1 DEF ReadFails
  <2>. QED  BY Zenon, <2>2, <2>3, NoneLands
<1>5. CASE ReadMerging(gone)
  <2>1. PICK e : e = FailAll(r, "merging")
    BY Zenon
  <2>2. e \in [Txns -> Errors] /\ \A t \in Members : e[t] # "nil"
    BY Zenon, <1>0, <1>2, <2>1, NobodyNil
  <2>3. Answer(e) /\ UNCHANGED <<ws, log>>
    BY Zenon, <1>1, <1>5, <2>1 DEF ReadMerging
  <2>. QED  BY Zenon, <2>2, <2>3, NoneLands
<1>. QED  BY Zenon, <1>3, <1>4, <1>5

\* At the end of an attempt the members without an error are the applied ones.
LEMMA AllApplied ==
  ASSUME IInv, pc = "apply", i > Len(batch)
  PROVE  /\ \A k \in 1..Len(chain) : errs[chain[k].t] = "nil" /\ chain[k].t \in Members
         /\ \A t \in Members : errs[t] = "nil" => \E k \in 1..Len(chain) : chain[k].t = t
<1>0. TypeOK /\ Applying
  BY Zenon DEF IInv
<1>1. /\ \A m \in 1..Len(batch) : m \in 1..i - 1
      /\ \A m \in 1..i - 1 : m \in 1..Len(batch)
  BY <1>0 DEF TypeOK
<1>2. \A k \in 1..Len(chain) : errs[chain[k].t] = "nil" /\ chain[k].t \in Members
  <2> TAKE k \in 1..Len(chain)
  <2>1. PICK m \in 1..i - 1 : batch[m] = chain[k].t
    BY Zenon, <1>0 DEF Applying
  <2>2. batch[m] \in Txns /\ batch[m] \in Members
    BY Zenon, <1>0, <1>1, Parts, MembersAre
  <2>3. errs[chain[k].t] = "nil"
    BY Zenon, <1>0 DEF Applying
  <2>. QED  BY Zenon, <2>1, <2>2, <2>3
<1>3. ASSUME NEW t \in Members, errs[t] = "nil"
      PROVE  \E k \in 1..Len(chain) : chain[k].t = t
  <2>1. PICK m \in 1..Len(batch) : batch[m] = t
    BY Zenon, <1>0, MembersAre
  <2>2. m \in 1..i - 1
    BY Zenon, <1>1
  <2>. QED  BY Zenon, <1>0, <1>3, <2>1, <2>2 DEF Applying
<1>. QED  BY Zenon, <1>2, <1>3

\* An attempt that ends lands its chain, or nothing.
LEMMA PublishAnswers ==
  ASSUME IInv,
         Unpublished \/ Swap \/ (\E landed \in BOOLEAN : SwapFails(landed)) \/ GiveUp
  PROVE  \E e, L : Answers(e, L)
<1>0. /\ TypeOK /\ errs \in [Txns -> Errors] /\ ws \in Namespaces /\ w \in Namespaces
      /\ log \in Seq(Entries)
  BY Zenon DEF IInv, TypeOK
<1>1. pc = "apply" /\ i > Len(batch)
  BY Zenon DEF Unpublished, Swap, SwapFails, GiveUp, Publishing
<1>2. /\ \A k \in 1..Len(chain) : errs[chain[k].t] = "nil" /\ chain[k].t \in Members
      /\ \A t \in Members : errs[t] = "nil" => \E k \in 1..Len(chain) : chain[k].t = t
  BY Zenon, <1>1, AllApplied
<1>3. PICK r, c : r = errs /\ c = chain
  BY Zenon
<1>4. \A err \in {"denied", "unknown", "serialization"} :
         err \in Errors /\ err # "nil"
  BY Zenon DEF Errors, Refusals
<1>5. ASSUME NEW err \in {"denied", "unknown", "serialization"},
             Answer(FailAll(errs, err)), UNCHANGED <<ws, log>>
      PROVE  \E e, L : Answers(e, L)
  <2>1. PICK e : e = FailAll(r, err)
    BY Zenon
  <2>2. e \in [Txns -> Errors] /\ \A t \in Members : e[t] # "nil"
    BY ZenonT(60), <1>0, <1>3, <1>4, <2>1, NobodyNil
  <2>3. Answer(e) /\ UNCHANGED <<ws, log>>
    BY Zenon, <1>3, <1>5, <2>1
  <2>. QED  BY Zenon, <2>2, <2>3, NoneLands
<1>6. ASSUME NEW e \in [Txns -> Errors], Answer(e), log' = log \o c, ws' \in Namespaces,
             \A k \in 1..Len(c) : e[c[k].t] \in {"nil", "unknown"},
             \A t \in Members : e[t] = "nil" => \E k \in 1..Len(c) : c[k].t = t,
             c = <<>> => ws' = ws,
             c # <<>> => (ws = cur /\ ws' = w) \/ (w = cur /\ ws' = ws)
      PROVE  Answers(e, c)
  BY Zenon, <1>1, <1>3, <1>6 DEF Answers
<1>7. CASE Unpublished
  <2>1. Answer(r) /\ log' = log \o c /\ ws' = ws /\ (c = <<>> \/ w = cur)
    BY Zenon, <1>3, <1>7 DEF Unpublished
  <2>2. r \in [Txns -> Errors] /\ \A k \in 1..Len(c) : r[c[k].t] \in {"nil", "unknown"}
    BY Zenon, <1>0, <1>2, <1>3
  <2>3. \A t \in Members : r[t] = "nil" => \E k \in 1..Len(c) : c[k].t = t
    BY Zenon, <1>2, <1>3
  <2>. QED  BY Zenon, <1>0, <1>6, <2>1, <2>2, <2>3
<1>8. CASE Swap
  <2>1. CASE SwapAllowed
    <3>1. Answer(r) /\ log' = log \o c /\ ws = cur /\ ws' = w /\ c # <<>>
      BY ZenonT(60), <1>3, <1>8, <2>1 DEF Swap, Unmoved, Publishing
    <3>2. r \in [Txns -> Errors] /\ \A k \in 1..Len(c) : r[c[k].t] \in {"nil", "unknown"}
      BY Zenon, <1>0, <1>2, <1>3
    <3>3. \A t \in Members : r[t] = "nil" => \E k \in 1..Len(c) : c[k].t = t
      BY Zenon, <1>2, <1>3
    <3>. QED  BY Zenon, <1>0, <1>6, <3>1, <3>2, <3>3
  <2>2. CASE ~SwapAllowed
    BY Zenon, <1>5, <1>8, <2>2 DEF Swap
  <2>. QED  BY Zenon, <2>1, <2>2
<1>9. CASE \E landed \in BOOLEAN : SwapFails(landed)
  <2>1. PICK landed \in BOOLEAN : SwapFails(landed)
    BY Zenon, <1>9
  <2>2. CASE landed
    <3>1. PICK e : e = FailAll(r, "unknown")
      BY Zenon
    <3>2. Answer(e) /\ log' = log \o c /\ ws = cur /\ ws' = w /\ c # <<>>
      BY Zenon, <1>3, <2>1, <2>2, <3>1 DEF SwapFails, Unmoved, Publishing
    <3>3. /\ e \in [Txns -> Errors] /\ \A t \in Members : e[t] # "nil"
          /\ \A t \in Members : r[t] = "nil" => e[t] = "unknown"
      <4>1. "unknown" \in Errors /\ "unknown" # "nil" /\ r \in [Txns -> Errors]
        BY Zenon, <1>0, <1>3, <1>4
      <4>. QED  BY Zenon, <1>0, <3>1, <4>1, NobodyNil
    <3>4. \A k \in 1..Len(c) : e[c[k].t] \in {"nil", "unknown"}
      BY Zenon, <1>2, <1>3, <3>3
    <3>. QED  BY Zenon, <1>0, <1>6, <3>2, <3>3, <3>4
  <2>3. CASE ~landed
    <3>1. Answer(FailAll(errs, "unknown")) /\ UNCHANGED <<ws, log>>
      BY Zenon, <2>1, <2>3 DEF SwapFails
    <3>. QED  BY Zenon, <1>5, <3>1
  <2>. QED  BY Zenon, <2>2, <2>3
<1>10. CASE GiveUp
  <2>1. Answer(FailAll(errs, "serialization")) /\ UNCHANGED <<ws, log>>
    BY Zenon, <1>10 DEF GiveUp, GivenUp
  <2>. QED  BY Zenon, <1>5, <2>1
<1>. QED  BY Zenon, <1>7, <1>8, <1>9, <1>10

\* Every step keeps the invariant.
LEMMA NextIInv ==
  ASSUME IInv, [Next]_vars
  PROVE  IInv'
<1>1. CASE UNCHANGED vars
  <2>0. TypeOK /\ InQueue /\ Applying /\ Checked /\ SwapAsksNothingNew /\ Holding /\ Logged
        /\ OwnGrantsOnly
    BY Zenon DEF IInv
  <2>1. /\ pc' = pc /\ batch' = batch /\ log' = log /\ line' = line /\ state' = state
        /\ cur' = cur /\ w' = w /\ i' = i /\ readers' = readers /\ errs' = errs
        /\ g' = g /\ chain' = chain /\ attempts' = attempts
        /\ may' = may /\ held' = held /\ base' = base /\ ours' = ours /\ began' = began
        /\ ws' = ws /\ merging' = merging
    BY Zenon, <1>1 DEF vars
  <2>2. TypeOK'
    BY Zenon, <2>0, <2>1 DEF TypeOK
  <2>3. InQueue'
    BY Zenon, <2>0, <2>1, SameQueue
  <2>4. Applying'
    BY Zenon, <2>0, <2>1, SameAttempt
  <2>5. Checked' /\ SwapAsksNothingNew' /\ OwnGrantsOnly'
    BY Zenon, <2>0, <2>1, SameChecks, SameLog
  <2>6. Holding' /\ Logged'
    BY Zenon, <2>0, <2>1, SameRights, SameLog
  <2>. QED  BY Zenon, <2>2, <2>3, <2>4, <2>5, <2>6 DEF IInv
<1>2. CASE \E t \in Txns : Begin(t) \/ Abandon(t) \/ Cancel(t) \/ \E n \in Domain : Commit(t, n)
  BY Zenon, <1>2, BeginIInv, AbandonIInv, CancelIInv, CommitIInv
<1>3. CASE Leader
  <2>1. CASE Take
    BY Zenon, <2>1, TakeIInv
  <2>2. CASE \E gone \in SUBSET Members : ReadNone(gone) \/ ReadFails(gone) \/ ReadMerging(gone)
    BY Zenon, <2>2, ReadAnswers, AnswerIInv
  <2>3. CASE \E gone \in SUBSET Members : Read(gone)
    BY Zenon, <2>3, ReadIInv
  <2>4. CASE Skip \/ Apply \/ ApplyFails \/ Lost
    BY Zenon, <2>4, SkipIInv, ApplyIInv, ApplyFailsIInv, LostIInv
  <2>5. CASE Unpublished \/ Swap \/ (\E landed \in BOOLEAN : SwapFails(landed)) \/ GiveUp
    BY Zenon, <2>5, PublishAnswers, AnswerIInv
  <2>. QED  BY Zenon, <1>3, <2>1, <2>2, <2>3, <2>4, <2>5 DEF Leader
<1>4. CASE \E t \in Txns, r \in Grants : Regrant(t, r)
  BY Zenon, <1>4, RegrantIInv
<1>5. CASE \E n \in Others, m \in BOOLEAN : Elsewhere(n, m)
  BY Zenon, <1>5, ElsewhereIInv
<1>. QED  BY Zenon, <1>1, <1>2, <1>3, <1>4, <1>5 DEF Next

\* IInv holds in every reachable state.
THEOREM Invariance == Spec => []IInv
<1>1. Init => IInv
  BY Zenon, InitIInv
<1>2. IInv /\ [Next]_vars => IInv'
  BY Zenon, NextIInv
<1>. QED  BY <1>1, <1>2, PTL DEF Spec

-----------------------------------------------------------------------------
\* The engine's state stays of its type: in particular a batch counts its
\* lost swaps below maxCommitAttempts.
THEOREM TypeCorrect == Spec => []TypeOK
<1>1. IInv => TypeOK
  BY Zenon DEF IInv
<1>. QED  BY <1>1, Invariance, PTL

\* run and publish tell each Commit the truth about its own writes: nil only
\* for one that took effect, once, and an error only for one that did not,
\* the ambiguous error of a failed swap aside.
THEOREM HonestCommit == Spec => []ToldTruth
<1>1. IInv => ToldTruth
  <2> SUFFICES ASSUME IInv, NEW t \in Txns
               PROVE  /\ state[t] = "ok" => \E k \in Landings(t) : Landings(t) = {k}
                      /\ state[t] \notin {"ok", "unknown"} => Landings(t) = {}
    BY Zenon DEF ToldTruth
  <2>1. Logged
    BY Zenon DEF IInv
  <2>2. \A j, k \in Landings(t) : j = k
    BY Zenon, <2>1 DEF Logged, Landings
  <2>3. ASSUME state[t] = "ok"
        PROVE  \E k \in Landings(t) : Landings(t) = {k}
    <3>1. PICK k \in Landings(t) : TRUE
      BY Zenon, <2>1, <2>3 DEF Logged, Landings
    <3>. QED  BY Zenon, <2>2, <3>1
  <2>4. ASSUME state[t] \notin {"ok", "unknown"}
        PROVE  Landings(t) = {}
    BY Zenon, <2>1, <2>4 DEF Logged, Landings
  <2>. QED  BY Zenon, <2>3, <2>4
<1>. QED  BY <1>1, Invariance, PTL

\* The swap attempt makes for all its members asks the core nothing that
\* mayWrite has not asked of one of them.
THEOREM SwapCovered == Spec => []SwapAsksNothingNew
<1>1. IInv => SwapAsksNothingNew
  BY Zenon DEF IInv
<1>. QED  BY <1>1, Invariance, PTL

\* A commit that takes effect changed only what mayWrite allowed its own
\* principal, whoever led the batch it was published in.
THEOREM GrantsNotShared == Spec => []OwnGrantsOnly
<1>1. IInv => OwnGrantsOnly
  BY Zenon DEF IInv
<1>. QED  BY <1>1, Invariance, PTL

-----------------------------------------------------------------------------
\* A step that leaves the attempt's read and its members leaves what Commits
\* have seen.
LEMMA SameSeen ==
  ASSUME pc' = pc, batch' = batch, cur' = cur
  PROVE  Seen' = Seen
BY Zenon DEF Seen, Members, Range

\* Outside an attempt no Commit has seen a working set.
LEMMA NothingSeen ==
  ASSUME pc # "apply"
  PROVE  Seen = [t \in Txns |-> NoMoment]
BY Zenon DEF Seen

\* The members of a batch are calls still in Commit.
LEMMA MembersCommit ==
  ASSUME IInv
  PROVE  Members \in SUBSET Promise!Committing
<1>1. TypeOK /\ InQueue
  BY Zenon DEF IInv
<1>2. SUFFICES ASSUME NEW t \in Members PROVE t \in Promise!Committing
  BY Zenon
<1>3. t \in Txns
  BY Zenon, <1>1, MembersAre
<1>4. PICK k \in 1..Len(batch) : batch[k] = t
  BY Zenon, <1>1, <1>3, MembersAre
<1>. QED  BY Zenon, <1>1, <1>3, <1>4 DEF InQueue, Promise!Committing

\* The promise speaks of the same namespaces.
LEMMA SameNamespaces == Promise!Namespaces = Namespaces
BY Zenon DEF Promise!Namespaces, Namespaces, Promise!Objects, Objects,
             Promise!Contents, Contents, Promise!Values, Values

\* A call that leaves the queue settles alone, with nothing landed.
LEMMA CancelSettles ==
  ASSUME IInv, NEW t \in Txns, Cancel(t)
  PROVE  Promise!Settle({t}) /\ {t} \in SUBSET Promise!Committing
<1>0. TypeOK /\ InQueue
  BY Zenon DEF IInv
<1>1. /\ pc' = pc /\ batch' = batch /\ cur' = cur /\ log' = log /\ ws' = ws
      /\ base' = base /\ ours' = ours /\ state' = [state EXCEPT ![t] = "failed"]
  BY Zenon DEF Cancel, branchVars, txnVars, attemptVars
<1>2. PICK k \in 1..Len(line) : line[k] = t
  <2>1. DOMAIN line = 1..Len(line)
    BY <1>0 DEF TypeOK
  <2>. QED  BY Zenon, <2>1 DEF Cancel, Range
<1>3. state[t] = "committing" /\ t \notin Members
  <2>1. ~ \E j \in 1..Len(batch) : batch[j] = t
    BY Zenon, <1>0, <1>2 DEF InQueue
  <2>. QED  BY Zenon, <1>0, <1>2, <2>1, MembersAre DEF InQueue
<1>4. {t} \subseteq Promise!Committing
  BY Zenon, <1>3 DEF Promise!Committing
<1>5. Promise!Landed = {}
  <2>1. DOMAIN log = 1..Len(log) /\ Len(log) \in Nat
    BY <1>0 DEF TypeOK
  <2>2. \A j \in 1..Len(log) : ~(j > Len(log))
    BY <2>1
  <2>. QED  BY Zenon, <1>1, <2>1, <2>2 DEF Promise!Landed
<1>6. Promise!Chained({t})
  <2>1. Len(log) <= Len(log)
    BY <1>0 DEF TypeOK
  <2>. QED  BY Zenon, <1>1, <1>5, <2>1 DEF Promise!Chained
<1>7. Promise!Effect
  BY Zenon, <1>1, <1>5 DEF Promise!Effect
<1>8. /\ state' \in [Txns -> Promise!States] /\ state'[t] = "failed"
      /\ \A u \in Txns \ {t} : state'[u] = state[u]
  BY Zenon, <1>0, <1>1 DEF TypeOK, Refusals, Promise!States, Promise!Refusals
<1>9. Seen' = [u \in Txns |-> IF u \in {t} THEN NoMoment ELSE Seen[u]]
  <2>1. Seen' = Seen
    BY Zenon, <1>1, SameSeen
  <2>2. Seen[t] = NoMoment
    BY Zenon, <1>3 DEF Seen
  <2>. QED  BY Zenon, <2>1, <2>2 DEF Seen
<1>. QED  BY Zenon, <1>1, <1>4, <1>5, <1>6, <1>7, <1>8, <1>9 DEF Promise!Settle, Promise!Refusals

\* A batch's look at the working set is its members'; a lost swap drops it.
LEMMA ReadLooks ==
  ASSUME IInv, NEW gone \in SUBSET Members, Read(gone)
  PROVE  Promise!Look(Members)
<1>1. /\ pc = "read" /\ pc' = "apply" /\ cur' = ws /\ batch' = batch
      /\ UNCHANGED <<ws, base, ours, state, log>>
  BY Zenon DEF Read, branchVars, txnVars
<1>2. Members' = Members
  BY Zenon, <1>1 DEF Members, Range
<1>3. Seen = [t \in Txns |-> NoMoment]
  BY Zenon, <1>1, NothingSeen
<1>4. Seen' = [t \in Txns |-> IF t \in Members THEN ws ELSE Seen[t]]
  BY Zenon, <1>1, <1>2, <1>3 DEF Seen
<1>. QED  BY Zenon, <1>1, <1>4 DEF Promise!Look

\* A lost swap drops what the members had seen.
LEMMA LostForgets ==
  ASSUME IInv, Lost
  PROVE  Promise!Forget(Members)
<1>1. /\ pc = "apply" /\ pc' = "read" /\ batch' = batch
      /\ UNCHANGED <<ws, base, ours, state, log>>
  BY Zenon DEF Lost, Publishing, branchVars, txnVars
<1>2. Seen' = [t \in Txns |-> NoMoment]
  BY Zenon, <1>1 DEF Seen
<1>3. Seen' = [t \in Txns |-> IF t \in Members THEN NoMoment ELSE Seen[t]]
  BY Zenon, <1>2 DEF Seen
<1>. QED  BY Zenon, <1>1, <1>3 DEF Promise!Forget

\* Each step of the engine is one of the promise, or none that it sees.
LEMMA StepKeepsPromise ==
  ASSUME IInv, [Next]_vars
  PROVE  [Promise!Next]_(Promise!svars)
<1>0. TypeOK /\ Members \in SUBSET Promise!Committing
  BY Zenon, MembersCommit DEF IInv
<1>1. CASE UNCHANGED vars
  BY Zenon, <1>1, SameSeen DEF vars, Promise!svars
<1>2. ASSUME NEW t \in Txns, Begin(t) PROVE Promise!Next
  <2>1. Seen' = Seen
    BY Zenon, <1>2, SameSeen DEF Begin, attemptVars
  <2>. QED  BY Zenon, <1>2, <2>1 DEF Begin, Promise!Begin, Promise!Next
<1>3. ASSUME NEW t \in Txns, Abandon(t) PROVE Promise!Next
  <2>1. Seen' = Seen
    BY Zenon, <1>3, SameSeen DEF Abandon, attemptVars
  <2>. QED  BY Zenon, <1>3, <2>1 DEF Abandon, branchVars, txnVars, Promise!Abandon, Promise!Next
<1>4. ASSUME NEW t \in Txns, Cancel(t) PROVE Promise!Next
  BY Zenon, <1>4, CancelSettles DEF Promise!Next
<1>5. ASSUME NEW t \in Txns, NEW n \in Domain, Commit(t, n) PROVE Promise!Next
  <2>1. Seen' = Seen
    BY Zenon, <1>5, SameSeen DEF Commit, attemptVars
  <2>2. n \in Promise!Namespaces
    BY Zenon, DomainAssumption, SameNamespaces
  <2>3. ours' = [ours EXCEPT ![t] = n] /\ ours'[t] = n
    BY Zenon, <1>0, <1>5 DEF Commit, TypeOK
  <2>4. state' = [state EXCEPT ![t] = IF ours'[t] = base[t] THEN "empty" ELSE "committing"]
    BY Zenon, <1>5, <2>3 DEF Commit
  <2>5. state[t] = "open" /\ UNCHANGED <<ws, base, log>>
    BY Zenon, <1>5 DEF Commit, branchVars
  <2>6. Promise!Commit(t)
    BY ZenonT(60), <2>1, <2>2, <2>3, <2>4, <2>5 DEF Promise!Commit
  <2>. QED  BY Zenon, <2>6 DEF Promise!Next
<1>6. ASSUME Take PROVE UNCHANGED Promise!svars
  <2>1. pc # "apply" /\ pc' # "apply"
    BY Zenon, <1>6 DEF Take
  <2>2. Seen' = Seen
    BY Zenon, <2>1 DEF Seen
  <2>. QED  BY Zenon, <1>6, <2>2 DEF Take, branchVars, txnVars, Promise!svars
<1>7. ASSUME NEW gone \in SUBSET Members, Read(gone) PROVE Promise!Next
  BY Zenon, <1>0, <1>7, ReadLooks DEF Promise!Next
<1>8. ASSUME Skip \/ Apply \/ ApplyFails PROVE UNCHANGED Promise!svars
  <2>1. pc' = pc /\ batch' = batch /\ cur' = cur /\ UNCHANGED <<ws, base, ours, state, log>>
    BY Zenon, <1>8 DEF Skip, Apply, ApplyFails, branchVars, txnVars
  <2>. QED  BY Zenon, <2>1, SameSeen DEF Promise!svars
<1>9. ASSUME Lost PROVE Promise!Next
  BY Zenon, <1>0, <1>9, LostForgets DEF Promise!Next
<1>10. ASSUME NEW e, NEW L, Answers(e, L) PROVE Promise!Next
  BY Zenon, <1>0, <1>10, AnswerSettles DEF Promise!Next
<1>11. ASSUME NEW n \in Others, NEW m \in BOOLEAN, Elsewhere(n, m) PROVE Promise!Next
  <2>1. Seen' = Seen
    BY Zenon, <1>11, SameSeen DEF Elsewhere, attemptVars
  <2>2. n \in Promise!Namespaces
    BY Zenon, DomainAssumption, SameNamespaces
  <2>. QED  BY Zenon, <1>11, <2>1, <2>2 DEF Elsewhere, txnVars, Promise!Elsewhere, Promise!Next
<1>12. ASSUME NEW t \in Txns, NEW r \in Grants, Regrant(t, r) PROVE UNCHANGED Promise!svars
  <2>1. pc' = pc /\ batch' = batch /\ cur' = cur /\ UNCHANGED <<ws, base, ours, state, log>>
    BY Zenon, <1>12 DEF Regrant, branchVars, attemptVars
  <2>. QED  BY Zenon, <2>1, SameSeen DEF Promise!svars
<1>13. CASE Leader
  <2>1. CASE \E gone \in SUBSET Members : ReadNone(gone) \/ ReadFails(gone) \/ ReadMerging(gone)
    BY Zenon, <1>10, <2>1, ReadAnswers
  <2>2. CASE Unpublished \/ Swap \/ (\E landed \in BOOLEAN : SwapFails(landed)) \/ GiveUp
    BY Zenon, <1>10, <2>2, PublishAnswers
  <2>. QED  BY Zenon, <1>6, <1>7, <1>8, <1>9, <1>13, <2>1, <2>2 DEF Leader
<1>. QED
  BY ZenonT(60), <1>1, <1>2, <1>3, <1>4, <1>5, <1>11, <1>12, <1>13 DEF Next

\* The group commit of txn.go and queue.go implements SnapshotCommit: for any
\* transactions, paths, batch size and number of attempts, commits take effect
\* one at a time, each applying exactly its own writes.
THEOREM Refinement == Spec => KeepsPromise
<1>1. Init => Promise!Init
  <2>1. ASSUME Init PROVE Seen = [t \in Txns |-> NoMoment]
    BY Zenon, <2>1, NothingSeen DEF Init
  <2>. QED  BY Zenon, <2>1 DEF Init, Promise!Init
<1>2. IInv /\ [Next]_vars => [Promise!Next]_(Promise!svars)
  BY Zenon, StepKeepsPromise
<1>. QED  BY <1>1, <1>2, Invariance, PTL DEF Spec, KeepsPromise, Promise!Spec

=============================================================================
