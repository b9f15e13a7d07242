----------------------------- MODULE CommitQueue -----------------------------
(***************************************************************************)
(* Group commit's queue (engine/queue.go): every commit to a branch of one *)
(* Database waits its turn in that branch's queue.  The call at the head   *)
(* is told to lead; it takes the transactions in a row at the front, runs  *)
(* them as one batch, tells each its outcome and hands the queue on.       *)
(*                                                                         *)
(* The module is the queue of one branch.  The queues of two branches      *)
(* share only Database.qmu, and every section the code runs under qmu is   *)
(* one action here.  What a batch does to the branch (publish, or a        *)
(* session's commit or merge) is the choice of its members' outcomes in    *)
(* Decide.                                                                 *)
(***************************************************************************)
EXTENDS Lines, FiniteSets

CONSTANTS
    Callers,    \* goroutines that commit to the branch, one call at a time
    Queues,     \* branchQueue objects: one is made whenever the branch has none
    NoQueue,    \* d.queues[branch] == nil
    None,       \* no outcome decided yet
    MaxBatch    \* maxBatch, the most transactions one publish carries

ASSUME CallersAssumption == IsFiniteSet(Callers)
ASSUME QueuesAssumption == NoQueue \notin Queues
ASSUME MaxBatchAssumption == MaxBatch \in Nat \ {0}
ASSUME NoneAssumption == None \notin {"ok", "failed", "panicked", "ctx"}

VARIABLES
    queues,     \* d.queues[branch]
    waiting,    \* branchQueue.waiting, by queue object
    busy,       \* branchQueue.busy
    calls,      \* branchQueue.calls
    pc,         \* where each caller is in enqueue
    held,       \* enqueue's local q: the queue object the caller entered
    kind,       \* "tx" for a transaction's commit, "op" for a session's call
    ctxDone,    \* the call's context has ended
    lead,       \* signals in the channel queued.lead (capacity 1)
    done,       \* queued.done is closed
    err,        \* queued.err, nil ("ok") until finish
    taken,      \* queued.taken
    leading,    \* queued.leading
    batch,      \* the leader's batch: the members it has still to tell
    verdict,    \* the leader's errs, by member; None before the run decides
    ret,        \* what enqueue returns
    before      \* history: <<x, c>> when x was waiting as c entered

queueVars == <<queues, waiting, busy, calls>>
callVars == <<kind, ctxDone, lead, done, err, taken, leading>>
vars == <<queueVars, pc, held, callVars, batch, verdict, ret, before>>

Kinds == {"tx", "op"}

\* The outcomes a run gives a member: success, its own failure, or the
\* failure that stands for a leader that panicked.
Outcomes == {"ok", "failed", "panicked"}

PCs == {"idle", "select", "cancel", "await", "take", "run", "finish", "leave"}

-----------------------------------------------------------------------------
InFlight == {c \in Callers : pc[c] # "idle"}

Init ==
    /\ queues = NoQueue
    /\ waiting = [x \in Queues |-> <<>>]
    /\ busy = [x \in Queues |-> FALSE]
    /\ calls = [x \in Queues |-> 0]
    /\ pc = [c \in Callers |-> "idle"]
    /\ held = [c \in Callers |-> NoQueue]
    /\ kind = [c \in Callers |-> "tx"]
    /\ ctxDone = [c \in Callers |-> FALSE]
    /\ lead = [c \in Callers |-> 0]
    /\ done = [c \in Callers |-> FALSE]
    /\ err = [c \in Callers |-> "ok"]
    /\ taken = [c \in Callers |-> FALSE]
    /\ leading = [c \in Callers |-> FALSE]
    /\ batch = [c \in Callers |-> <<>>]
    /\ verdict = [c \in Callers |-> None]
    /\ ret = [c \in Callers |-> None]
    /\ before = {}

-----------------------------------------------------------------------------
\* Definitions named X_Fault are faulty variants of the definition X that
\* follows them: slips the properties below must catch.

\* kick's test: a call waits and no leader is at work.
CanKick_Fault(w, b) == w # <<>>
CanKick(w, b) == ~b /\ w # <<>>

(***************************************************************************)
(* kick on queue x, whose calls are w and whose busy flag is b when it     *)
(* runs: the head is told to lead unless a leader is at work.  A count of  *)
(* two in lead stands for a send that blocks with qmu held.                *)
(***************************************************************************)
Kick(x, w, b) ==
    /\ waiting' = [waiting EXCEPT ![x] = w]
    /\ IF CanKick(w, b)
       THEN /\ busy' = [busy EXCEPT ![x] = TRUE]
            /\ leading' = [leading EXCEPT ![Head(w)] = TRUE]
            /\ lead' = [lead EXCEPT ![Head(w)] = @ + 1]
       ELSE /\ busy' = [busy EXCEPT ![x] = b]
            /\ UNCHANGED <<lead, leading>>

\* The queue object the branch's next call enters: the one it has, or a new
\* one, which no caller holds.
Entered(x) ==
    \/ queues = x
    \/ queues = NoQueue /\ \A c \in InFlight : held[c] # x

\* The queue's calls once c is appended, oldest first.
Joined_Fault(w, c) == <<c>> \o w
Joined(w, c) == Append(w, c)

(***************************************************************************)
(* enqueue up to its select: c enters the branch's queue, made here when   *)
(* the branch has none, and kicks it.  A new object starts empty.          *)
(***************************************************************************)
Enqueue(c, x, k, ended) ==
    /\ pc[c] = "idle"
    /\ Entered(x)
    /\ queues' = x
    /\ LET new == queues = NoQueue IN
         /\ calls' = [calls EXCEPT ![x] = IF new THEN 1 ELSE @ + 1]
         /\ Kick(x, IF new THEN <<c>> ELSE Joined(waiting[x], c),
                    IF new THEN FALSE ELSE busy[x])
         /\ before' = before \cup
              (IF new THEN {} ELSE {<<waiting[x][i], c>> : i \in 1..Len(waiting[x])})
    /\ pc' = [pc EXCEPT ![c] = "select"]
    /\ held' = [held EXCEPT ![c] = x]
    /\ kind' = [kind EXCEPT ![c] = k]
    /\ ctxDone' = [ctxDone EXCEPT ![c] = ended]
    /\ UNCHANGED <<done, err, taken, batch, verdict, ret>>

\* The environment ends the call's context: a cancellation or a deadline.
CtxEnds(c) ==
    /\ pc[c] # "idle"
    /\ ~ctxDone[c]
    /\ ctxDone' = [ctxDone EXCEPT ![c] = TRUE]
    /\ UNCHANGED <<queueVars, pc, held, kind, lead, done, err, taken, leading,
                   batch, verdict, ret, before>>

\* select: case <-c.lead.
SelectLead(c) ==
    /\ pc[c] = "select"
    /\ lead[c] > 0
    /\ lead' = [lead EXCEPT ![c] = @ - 1]
    /\ pc' = [pc EXCEPT ![c] = "take"]
    /\ UNCHANGED <<queueVars, held, kind, ctxDone, done, err, taken, leading,
                   batch, verdict, ret, before>>

\* select: case <-c.ctx.Done(), up to the lock it takes.
SelectCtx(c) ==
    /\ pc[c] = "select"
    /\ ctxDone[c]
    /\ pc' = [pc EXCEPT ![c] = "cancel"]
    /\ UNCHANGED <<queueVars, held, callVars, batch, verdict, ret, before>>

\* Return with c.err: select's case <-c.done, or the wait for a leader that
\* already holds the call when its context ends.
ReadOutcome(c) ==
    /\ pc[c] \in {"select", "await"}
    /\ done[c]
    /\ pc' = [pc EXCEPT ![c] = "leave"]
    /\ ret' = [ret EXCEPT ![c] = err[c]]
    /\ UNCHANGED <<queueVars, held, callVars, batch, verdict, before>>

\* Whether a call whose context ended has an outcome on its way.
OutcomeComing_Fault(c) == done[c]
OutcomeComing(c) == taken[c]

\* busy once c leaves the queue: a call told to lead frees it.
BusyAfter_Fault(c) == busy[held[c]]
BusyAfter_FreeFault(c) == FALSE
BusyAfter(c) == IF leading[c] THEN FALSE ELSE busy[held[c]]

(***************************************************************************)
(* The context ended and qmu is held.  A call a leader has taken waits for *)
(* its outcome; another one leaves the queue with the context's error,     *)
(* and, told to lead, frees the queue for the next.                        *)
(***************************************************************************)
Cancel(c) ==
    /\ pc[c] = "cancel"
    /\ IF OutcomeComing(c)
       THEN /\ pc' = [pc EXCEPT ![c] = "await"]
            /\ UNCHANGED <<waiting, busy, lead, leading, ret>>
       ELSE /\ Kick(held[c], Without(waiting[held[c]], c), BusyAfter(c))
            /\ ret' = [ret EXCEPT ![c] = "ctx"]
            /\ pc' = [pc EXCEPT ![c] = "leave"]
    /\ UNCHANGED <<queues, calls, held, kind, ctxDone, done, err, taken,
                   batch, verdict, before>>

\* A batch that runs past a session's call.
IsBatch_Fault(w, n) ==
    /\ n <= MaxBatch
    /\ n < MaxBatch => n = Len(w)

\* take's batch is the first n of w: a session's call alone, or the
\* transactions in a row at the head, at most MaxBatch.
IsBatch(w, n) ==
    IF kind[w[1]] = "op"
    THEN n = 1
    ELSE /\ \A i \in 1..n : kind[w[i]] = "tx"
         /\ n <= MaxBatch
         /\ n < MaxBatch /\ n < Len(w) => kind[w[n + 1]] = "op"

\* What take leaves waiting.
Rest(w, n) == SubSeq(w, n + 1, Len(w))

\* The call told to lead takes its batch, under qmu.
Take(c) ==
    /\ pc[c] = "take"
    /\ LET w == waiting[held[c]] IN
         \E n \in 1..Len(w) :
            /\ IsBatch(w, n)
            /\ batch' = [batch EXCEPT ![c] = SubSeq(w, 1, n)]
            /\ waiting' = [waiting EXCEPT ![held[c]] = Rest(w, n)]
            /\ taken' = [m \in Callers |->
                            taken[m] \/ \E i \in 1..n : w[i] = m]
    /\ pc' = [pc EXCEPT ![c] = "run"]
    /\ UNCHANGED <<queues, busy, calls, held, kind, ctxDone, lead, done, err,
                   leading, verdict, ret, before>>

Members(c) == {batch[c][i] : i \in 1..Len(batch[c])}

\* The members' outcomes after a panic: lead's deferred recovery gives every
\* member not yet told the same failure.
Recovered(c) ==
    [m \in Callers |-> IF m \in Members(c) THEN "panicked" ELSE verdict[m]]

(***************************************************************************)
(* run decides every member's outcome, each its own, or panics, which it   *)
(* can only before it has told any member.                                 *)
(***************************************************************************)
Decide(c) ==
    /\ pc[c] = "run"
    /\ \/ \E errs \in [Callers -> {"ok", "failed"}] :
             verdict' = [m \in Callers |->
                            IF m \in Members(c) THEN errs[m] ELSE verdict[m]]
       \/ verdict' = Recovered(c)
    /\ pc' = [pc EXCEPT ![c] = "finish"]
    /\ UNCHANGED <<queueVars, held, callVars, batch, ret, before>>

\* finish: the next member's outcome is set and its done channel closed.
Finish(c) ==
    /\ pc[c] = "finish"
    /\ batch[c] # <<>>
    /\ LET m == Head(batch[c]) IN
         /\ err' = [err EXCEPT ![m] = verdict[m]]
         /\ done' = [done EXCEPT ![m] = TRUE]
    /\ batch' = [batch EXCEPT ![c] = Tail(@)]
    /\ UNCHANGED <<queueVars, pc, held, kind, ctxDone, lead, taken, leading,
                   verdict, ret, before>>

\* lead's deferred section: the queue is free and its next call is told.
Release(c) ==
    /\ pc[c] = "finish"
    /\ batch[c] = <<>>
    /\ Kick(held[c], waiting[held[c]], FALSE)
    /\ pc' = [pc EXCEPT ![c] = "leave"]
    /\ ret' = [ret EXCEPT ![c] = err[c]]
    /\ UNCHANGED <<queues, calls, held, kind, ctxDone, done, err, taken,
                   batch, verdict, before>>

\* Whether c is the last call out of a queue the branch still has.
DropsQueue(c) == calls[held[c]] = 1 /\ queues = held[c]

(***************************************************************************)
(* leave: the call is out of the queue's count, and the queue out of the   *)
(* database at zero.  The call's own record (queued) is garbage from here. *)
(***************************************************************************)
Leave(c) ==
    /\ pc[c] = "leave"
    /\ calls' = [calls EXCEPT ![held[c]] = @ - 1]
    /\ queues' = IF DropsQueue(c) THEN NoQueue ELSE queues
    /\ pc' = [pc EXCEPT ![c] = "idle"]
    /\ held' = [held EXCEPT ![c] = NoQueue]
    /\ lead' = [lead EXCEPT ![c] = 0]
    /\ done' = [done EXCEPT ![c] = FALSE]
    /\ err' = [err EXCEPT ![c] = "ok"]
    /\ taken' = [taken EXCEPT ![c] = FALSE]
    /\ leading' = [leading EXCEPT ![c] = FALSE]
    /\ ctxDone' = [ctxDone EXCEPT ![c] = FALSE]
    /\ kind' = [kind EXCEPT ![c] = "tx"]
    /\ verdict' = [verdict EXCEPT ![c] = None]
    /\ ret' = [ret EXCEPT ![c] = None]
    /\ before' = {p \in before : p[1] # c /\ p[2] # c}
    /\ UNCHANGED <<waiting, busy, batch>>

\* What caller c does once it has entered the queue.
Step(c) ==
    \/ SelectLead(c)
    \/ SelectCtx(c)
    \/ ReadOutcome(c)
    \/ Cancel(c)
    \/ Take(c)
    \/ Decide(c)
    \/ Finish(c)
    \/ Release(c)
    \/ Leave(c)

Next ==
    \E c \in Callers :
       \/ \E x \in Queues, k \in Kinds, ended \in BOOLEAN : Enqueue(c, x, k, ended)
       \/ CtxEnds(c)
       \/ Step(c)

Spec == Init /\ [][Next]_vars

\* A goroutine inside enqueue keeps being scheduled, qmu is granted to
\* whoever waits for it, and a batch's run ends.
Fairness == \A c \in Callers : WF_vars(Step(c))

FairSpec == Spec /\ Fairness

-----------------------------------------------------------------------------
\* The queue's fields, each call's channels and outcome keep their types.
TypeOK ==
    /\ queues \in Queues \cup {NoQueue}
    /\ waiting \in [Queues -> Seq(Callers)]
    /\ busy \in [Queues -> BOOLEAN]
    /\ calls \in [Queues -> Int]
    /\ pc \in [Callers -> PCs]
    /\ held \in [Callers -> Queues \cup {NoQueue}]
    /\ kind \in [Callers -> Kinds]
    /\ ctxDone \in [Callers -> BOOLEAN]
    /\ lead \in [Callers -> Nat]
    /\ done \in [Callers -> BOOLEAN]
    /\ err \in [Callers -> Outcomes]
    /\ taken \in [Callers -> BOOLEAN]
    /\ leading \in [Callers -> BOOLEAN]
    /\ batch \in [Callers -> Seq(Callers)]
    /\ verdict \in [Callers -> Outcomes \cup {None}]
    /\ ret \in [Callers -> Outcomes \cup {None, "ctx"}]
    /\ before \in SUBSET (Callers \X Callers)

\* A caller that leads: it was told to and has not left, or it runs a batch.
AtWork(c) == pc[c] \in {"take", "run", "finish"}
Told(c) == leading[c] /\ ~taken[c] /\ pc[c] \in {"select", "cancel", "take"}
Leads(c) == Told(c) \/ pc[c] \in {"run", "finish"}

InLine(c, x) == \E i \in 1..Len(waiting[x]) : waiting[x][i] = c

(***************************************************************************)
(* One batch at a time: no two callers are between take and the end of     *)
(* lead, whichever queue objects they entered.  busy and the drop of an    *)
(* empty queue (leave) both have to be right for this.                     *)
(***************************************************************************)
OneLeader ==
    \A c, d \in Callers : AtWork(c) /\ AtWork(d) => c = d

(***************************************************************************)
(* Nobody waits on a leader that is gone: while a call waits, a caller     *)
(* that has not left leads its queue.  kick, a cancelled leader (enqueue)  *)
(* and lead's deferred section keep this together.                         *)
(***************************************************************************)
NoLostWakeup ==
    \A x \in Queues :
       waiting[x] # <<>> /\ queues = x =>
          busy[x] /\ \E c \in Callers : held[c] = x /\ Leads(c)

(***************************************************************************)
(* The caller that received the lead signal finds itself at the head, so   *)
(* take never reads an empty queue and enqueue's final return c.err reads  *)
(* an outcome its own batch decided.                                       *)
(***************************************************************************)
LeadsOwnBatch ==
    \A c \in Callers :
       /\ pc[c] = "take" => waiting[held[c]] # <<>> /\ Head(waiting[held[c]]) = c
       /\ pc[c] = "run" => c \in Members(c)

(***************************************************************************)
(* kick's send on queued.lead, made with qmu held, never finds the channel *)
(* full: a blocked send would stop every commit of the database.           *)
(***************************************************************************)
LeadNeverBlocks == \A c \in Callers : lead[c] <= 1

(***************************************************************************)
(* finish closes each done channel once: a call a leader has still to tell *)
(* is not told already, and no other batch holds it.                       *)
(***************************************************************************)
ToldOnce ==
    \A l \in Callers : \A i \in 1..Len(batch[l]) :
       /\ ~done[batch[l][i]]
       /\ \A k \in Callers : \A j \in 1..Len(batch[k]) :
             batch[l][i] = batch[k][j] => l = k /\ i = j

(***************************************************************************)
(* What enqueue returns is true of the call: the context's error only when *)
(* no leader ever held it (it changed nothing), and otherwise the outcome  *)
(* the leader decided for this very call, never the nil error queued.err   *)
(* starts with.                                                            *)
(***************************************************************************)
OutcomeDecided ==
    \A c \in Callers :
       pc[c] = "leave" =>
          IF ret[c] = "ctx"
          THEN ~taken[c] /\ verdict[c] = None
          ELSE taken[c] /\ ret[c] = verdict[c] /\ verdict[c] # None

(***************************************************************************)
(* leave drops a queue only when no call is in it: every call in flight    *)
(* entered the queue d.queues holds, which is counted exactly, so two      *)
(* queue objects never order one branch's commits apart.                   *)
(***************************************************************************)
OneQueue ==
    /\ \A c \in InFlight : held[c] = queues
    /\ queues # NoQueue => calls[queues] = Cardinality(InFlight)

(***************************************************************************)
(* Commits run in the order they arrived: a call is not taken while one    *)
(* that was waiting when it came still waits.                              *)
(***************************************************************************)
ArrivalOrder ==
    \A p \in before : taken[p[2]] => \A x \in Queues : ~InLine(p[1], x)

(***************************************************************************)
(* A session's commit or merge is a batch of its own, run by its own       *)
(* caller, so it records exactly what committed before it.                 *)
(***************************************************************************)
SessionAlone ==
    \A l \in Callers : pc[l] = "run" =>
       \A c \in Members(l) : kind[c] = "op" => c = l /\ Members(l) = {l}

(***************************************************************************)
(* Every commit returns: cancelled, told or leading, after any leader's    *)
(* failure, panic or cancellation.                                         *)
(***************************************************************************)
EveryCallReturns ==
    \A c \in Callers : pc[c] # "idle" ~> pc[c] = "idle"

=============================================================================
