-------------------------- MODULE CommitQueueProofs --------------------------
(***************************************************************************)
(* CommitQueue's safety properties proved for any number of callers, any   *)
(* supply of queue objects and any batch size, from one inductive          *)
(* invariant, IInv, which every step keeps.                                *)
(***************************************************************************)
EXTENDS CommitQueue, FiniteSetTheorems, TLAPS


\* Removing the only occurrence of a call from a line (slices.DeleteFunc in
\* enqueue) closes the gap and keeps the rest in order.
LEMMA RemoveOnce ==
  ASSUME NEW S, NEW s \in Seq(S), NEW k \in 1..Len(s),
         \A i, j \in 1..Len(s) : s[i] = s[j] => i = j
  PROVE  /\ Without(s, s[k]) \in Seq(S)
         /\ Len(Without(s, s[k])) = Len(s) - 1
         /\ \A i \in 1..Len(s) - 1 :
               Without(s, s[k])[i] = IF i < k THEN s[i] ELSE s[i + 1]
<1> DEFINE a == SubSeq(s, 1, k - 1)
           b == SubSeq(s, k + 1, Len(s))
<1>1. k = CHOOSE i \in 1..Len(s) : s[i] = s[k]
  BY Zenon
<1>2. Without(s, s[k]) = a \o b
  BY Zenon, <1>1 DEF Without
<1>3. a \in Seq(S) /\ Len(a) = k - 1 /\ \A i \in 1..k - 1 : a[i] = s[i]
  OBVIOUS
<1>4. b \in Seq(S) /\ Len(b) = Len(s) - k /\ \A i \in 1..Len(s) - k : b[i] = s[k + i]
  OBVIOUS
<1> HIDE DEF a, b
<1>5. a \o b \in Seq(S) /\ Len(a \o b) = Len(s) - 1
  BY <1>3, <1>4
<1>6. ASSUME NEW i \in 1..Len(s) - 1
      PROVE  (a \o b)[i] = IF i < k THEN s[i] ELSE s[i + 1]
  BY SMTT(60), <1>3, <1>4
<1>. QED  BY Zenon, <1>2, <1>5, <1>6

-----------------------------------------------------------------------------
(* The inductive invariant, in named parts.                                *)

\* Where a call that is in the queue's line can be.
Lining == {"select", "cancel", "take"}

\* A caller outside enqueue has no record; one inside holds the branch's queue.
Records ==
    \A c \in Callers :
       /\ pc[c] = "idle" =>
             /\ lead[c] = 0 /\ ~done[c] /\ ~taken[c] /\ ~leading[c]
             /\ verdict[c] = None
       /\ pc[c] # "idle" => queues \in Queues /\ held[c] = queues

\* The branch's queue counts the calls in flight, and there is one.
Counted ==
    queues # NoQueue =>
       InFlight # {} /\ calls[queues] = Cardinality(InFlight)

\* The branch's queue holds each call not yet taken once; another queue none.
Line ==
    /\ \A x \in Queues : x # queues => waiting[x] = <<>>
    /\ queues # NoQueue =>
         /\ \A i, j \in 1..Len(waiting[queues]) :
               waiting[queues][i] = waiting[queues][j] => i = j
         /\ \A i \in 1..Len(waiting[queues]) :
               pc[waiting[queues][i]] \in Lining /\ ~taken[waiting[queues][i]]
    /\ \A c \in Callers :
          pc[c] \in Lining /\ ~taken[c] =>
             \E i \in 1..Len(waiting[queues]) : waiting[queues][i] = c

\* One leader, exactly while the queue is busy; one still to take its batch
\* is at the head.
Leadership ==
    /\ \A c, d \in Callers : Leads(c) /\ Leads(d) => c = d
    /\ queues # NoQueue =>
         /\ busy[queues] <=> \E c \in Callers : Leads(c)
         /\ ~busy[queues] => waiting[queues] = <<>>
    /\ \A c \in Callers :
          Told(c) => waiting[queues] # <<>> /\ waiting[queues][1] = c

\* The signal to lead is in the channel only of a call told to lead that has
\* neither received it nor been taken.
Signals ==
    \A c \in Callers :
       /\ lead[c] \in {0, 1}
       /\ lead[c] = 1 => leading[c] /\ ~taken[c] /\ pc[c] \in {"select", "cancel", "leave"}
       /\ pc[c] = "take" => leading[c] /\ ~taken[c]

\* A leader's batch: members taken, not told, still inside enqueue.
Batches ==
    /\ \A l \in Callers :
         /\ batch[l] # <<>> => pc[l] \in {"run", "finish"}
         /\ \A i, j \in 1..Len(batch[l]) : batch[l][i] = batch[l][j] => i = j
         /\ \A i \in 1..Len(batch[l]) :
               /\ taken[batch[l][i]] /\ ~done[batch[l][i]]
               /\ batch[l][i] = l \/ pc[batch[l][i]] \in {"select", "cancel", "await"}
               /\ pc[l] = "finish" => verdict[batch[l][i]] # None
         /\ pc[l] \in {"run", "finish"} => taken[l]
         /\ pc[l] = "run" => \E i \in 1..Len(batch[l]) : batch[l][i] = l
         /\ pc[l] = "finish" => done[l] \/ \E i \in 1..Len(batch[l]) : batch[l][i] = l

\* What a call is told is what its leader decided.
Verdicts ==
    \A c \in Callers :
       /\ done[c] => taken[c] /\ verdict[c] # None /\ err[c] = verdict[c]
       /\ ~taken[c] => verdict[c] = None /\ ~done[c]
       /\ pc[c] = "await" => taken[c]

\* The line is in order of arrival.
Arrivals ==
    /\ \A p \in before : pc[p[1]] # "idle" /\ pc[p[2]] # "idle"
    /\ queues # NoQueue =>
         \A i, j \in 1..Len(waiting[queues]) :
            <<waiting[queues][i], waiting[queues][j]>> \in before => i < j

IInv ==
    /\ TypeOK
    /\ Records
    /\ Counted
    /\ Line
    /\ Leadership
    /\ Signals
    /\ Batches
    /\ Verdicts
    /\ OutcomeDecided
    /\ Arrivals
    /\ ArrivalOrder
    /\ SessionAlone

-----------------------------------------------------------------------------
\* Lines and batches are sequences of callers.
LEMMA Elements ==
  ASSUME TypeOK
  PROVE  /\ \A x \in Queues : \A i \in 1..Len(waiting[x]) : waiting[x][i] \in Callers
         /\ \A l \in Callers : \A i \in 1..Len(batch[l]) : batch[l][i] \in Callers
<1>1. waiting \in [Queues -> Seq(Callers)] /\ batch \in [Callers -> Seq(Callers)]
  BY Zenon DEF TypeOK
<1>2. \A s \in Seq(Callers) : \A i \in 1..Len(s) : s[i] \in Callers
  OBVIOUS
<1>. QED  BY Zenon, <1>1, <1>2

\* A step that leaves the line as it was, and the calls that belong to it, keeps Line.
LEMMA LineKept ==
  ASSUME Line, queues' = queues, waiting' = waiting, taken' = taken,
         \A i \in 1..Len(waiting[queues]) : waiting[queues][i] \in Callers,
         \A d \in Callers : (pc'[d] \in Lining /\ ~taken[d]) <=> (pc[d] \in Lining /\ ~taken[d])
  PROVE  Line'
BY DEF Line

\* A step of a caller outside every batch leaves the batches as they were.
LEMMA BatchesKept ==
  ASSUME Batches, NEW c \in Callers, pc'[c] \notin {"run", "finish"}, batch' = batch,
         pc[c] \notin {"run", "finish"},
         \A l \in Callers : \A i \in 1..Len(batch[l]) : batch[l][i] \in Callers /\ batch[l][i] # c,
         \A d \in Callers : d # c =>
            pc'[d] = pc[d] /\ taken'[d] = taken[d] /\ done'[d] = done[d] /\ verdict'[d] = verdict[d]
  PROVE  Batches'
<1> SUFFICES ASSUME NEW l \in Callers
             PROVE  /\ batch[l] # <<>> => pc'[l] \in {"run", "finish"}
                    /\ \A i, j \in 1..Len(batch[l]) : batch[l][i] = batch[l][j] => i = j
                    /\ \A i \in 1..Len(batch[l]) :
                          /\ taken'[batch[l][i]] /\ ~done'[batch[l][i]]
                          /\ batch[l][i] = l \/ pc'[batch[l][i]] \in {"select", "cancel", "await"}
                          /\ pc'[l] = "finish" => verdict'[batch[l][i]] # None
                    /\ pc'[l] \in {"run", "finish"} => taken'[l]
                    /\ pc'[l] = "run" => \E i \in 1..Len(batch[l]) : batch[l][i] = l
                    /\ pc'[l] = "finish" => done'[l] \/ \E i \in 1..Len(batch[l]) : batch[l][i] = l
  BY DEF Batches
<1>1. \A i, j \in 1..Len(batch[l]) : batch[l][i] = batch[l][j] => i = j
  BY Zenon DEF Batches
<1>2. CASE l = c
  <2>1. batch[l] = <<>>
    BY Zenon, <1>2 DEF Batches
  <2>2. \A i \in 1..Len(batch[l]) : FALSE
    BY <2>1
  <2>. QED  BY Zenon, <1>1, <1>2, <2>1, <2>2
<1>3. CASE l # c
  <2>1. pc'[l] = pc[l] /\ taken'[l] = taken[l] /\ done'[l] = done[l]
    BY Zenon, <1>3
  <2>2. ASSUME NEW i \in 1..Len(batch[l])
        PROVE  /\ taken'[batch[l][i]] /\ ~done'[batch[l][i]]
               /\ batch[l][i] = l \/ pc'[batch[l][i]] \in {"select", "cancel", "await"}
               /\ pc'[l] = "finish" => verdict'[batch[l][i]] # None
    <3>1. PICK m \in Callers : m = batch[l][i] /\ m # c
      BY Zenon
    <3>2. /\ taken[m] /\ ~done[m] /\ (m = l \/ pc[m] \in {"select", "cancel", "await"})
          /\ pc[l] = "finish" => verdict[m] # None
      BY Zenon, <3>1 DEF Batches
    <3>. QED  BY Zenon, <2>1, <3>1, <3>2
  <2>3. /\ batch[l] # <<>> => pc[l] \in {"run", "finish"}
        /\ pc[l] \in {"run", "finish"} => taken[l]
        /\ pc[l] = "run" => \E i \in 1..Len(batch[l]) : batch[l][i] = l
        /\ pc[l] = "finish" => done[l] \/ \E i \in 1..Len(batch[l]) : batch[l][i] = l
    BY Zenon DEF Batches
  <2>. QED  BY Zenon, <1>1, <2>1, <2>2, <2>3
<1>. QED  BY Zenon, <1>2, <1>3

\* Where nobody runs or finishes a batch there is none to speak of.
LEMMA NoBatches ==
  ASSUME \A l \in Callers : batch'[l] = <<>> /\ pc'[l] \notin {"run", "finish"}
  PROVE  Batches'
BY DEF Batches

\* So does a member whose context ended, and which waits for its outcome.
LEMMA BatchesAwaited ==
  ASSUME Batches, batch' = batch, taken' = taken, done' = done, verdict' = verdict,
         \A l \in Callers : \A i \in 1..Len(batch[l]) : batch[l][i] \in Callers,
         \A d \in Callers : pc'[d] = pc[d] \/ (pc[d] = "cancel" /\ pc'[d] = "await")
  PROVE  Batches'
<1>1. \A l \in Callers : \A s \in {"run", "finish"} : pc'[l] = s <=> pc[l] = s
  BY Zenon
<1>2. \A d \in Callers : pc[d] \in {"select", "cancel", "await"}
                          => pc'[d] \in {"select", "cancel", "await"}
  BY Zenon
<1>. QED  BY <1>1, <1>2 DEF Batches

\* So does one of a caller that is not of them leave a session's batch alone.
LEMMA SessionAloneKept ==
  ASSUME SessionAlone, NEW c \in Callers, pc'[c] # "run",
         \A l \in Callers : Members(l)' = Members(l) /\ Members(l) \subseteq Callers \ {c},
         \A d \in Callers : d # c => pc'[d] = pc[d] /\ kind'[d] = kind[d]
  PROVE  SessionAlone'
BY DEF SessionAlone

\* Nor is it disturbed by a step that starts no run and changes no batch at one.
LEMMA SessionAloneSame ==
  ASSUME SessionAlone, kind' = kind,
         \A l \in Callers : pc'[l] = "run" => pc[l] = "run" /\ Members(l)' = Members(l)
  PROVE  SessionAlone'
BY DEF SessionAlone

\* The history of arrivals is made of pairs of callers.
LEMMA Pairs ==
  ASSUME TypeOK, NEW p \in before
  PROVE  p[1] \in Callers /\ p[2] \in Callers /\ p = <<p[1], p[2]>>
<1>1. p \in Callers \X Callers
  BY Zenon DEF TypeOK
<1>. QED  BY <1>1

\* Initially nobody is in the queue.
LEMMA InitIInv == Init => IInv
<1> SUFFICES ASSUME Init PROVE IInv
  BY Zenon
<1>1. TypeOK
  BY DEF Init, TypeOK, PCs, Kinds, Outcomes
<1>2. Records /\ Counted /\ Line /\ Signals /\ Batches /\ Verdicts /\ Arrivals
  BY QueuesAssumption, NoneAssumption
     DEF Init, Records, Counted, Line, Lining, Signals, Batches, Verdicts, Arrivals
<1>3. Leadership
  BY Zenon DEF Init, Leadership, Leads, Told
<1>4. OutcomeDecided /\ ArrivalOrder /\ SessionAlone
  BY Zenon DEF Init, OutcomeDecided, ArrivalOrder, SessionAlone
<1>. QED  BY Zenon, <1>1, <1>2, <1>3, <1>4 DEF IInv

\* The end of a context changes only the context.
LEMMA CtxEndsIInv ==
  ASSUME IInv, NEW c \in Callers, CtxEnds(c)
  PROVE  IInv'
<1> USE DEF IInv, CtxEnds, queueVars
<1>1. TypeOK'
  BY ZenonT(60) DEF TypeOK
<1>2. Records' /\ Counted' /\ Line' /\ Signals' /\ Batches' /\ Verdicts' /\ Arrivals'
  BY DEF Records, Counted, Line, Lining, Signals, Batches, Verdicts, Arrivals, InFlight
<1>3. Leadership'
  BY Zenon DEF Leadership, Leads, Told
<1>4. OutcomeDecided' /\ ArrivalOrder'
  BY Zenon DEF OutcomeDecided, ArrivalOrder, InLine
<1>5. SessionAlone'
  <2>1. pc' = pc /\ kind' = kind /\ batch' = batch /\ SessionAlone
    BY Zenon
  <2> HIDE DEF IInv, CtxEnds, queueVars
  <2>2. \A l \in Callers : Members(l)' = Members(l)
    BY Zenon, <2>1 DEF Members
  <2>. QED  BY <2>1, <2>2 DEF SessionAlone
<1>. QED  BY Zenon, <1>1, <1>2, <1>3, <1>4, <1>5 DEF IInv

\* A caller that receives the signal was told to lead and still leads.
LEMMA SelectLeadIInv ==
  ASSUME IInv, NEW c \in Callers, SelectLead(c)
  PROVE  IInv'
<1> USE DEF SelectLead, queueVars
<1>0. TypeOK /\ pc[c] = "select" /\ lead[c] = 1
  BY DEF IInv, Signals
<1>1. TypeOK'
  BY <1>0 DEF TypeOK, PCs
<1>2. Records'
  BY Zenon, <1>0 DEF IInv, Records, TypeOK
<1>3. Counted'
  <2>1. InFlight' = InFlight
    BY Zenon, <1>0 DEF InFlight, TypeOK
  <2>. QED  BY Zenon, <2>1 DEF IInv, Counted
<1>4. Line'
  <2>1. \A d \in Callers : pc'[d] \in Lining <=> pc[d] \in Lining
    BY Zenon, <1>0 DEF TypeOK, Lining
  <2>2. queues' = queues /\ waiting' = waiting /\ taken' = taken
    BY Zenon
  <2>3. queues \in Queues
    BY Zenon, <1>0 DEF IInv, Records
  <2>4. \A i \in 1..Len(waiting[queues]) : waiting[queues][i] \in Callers
    BY Zenon, <1>0, <2>3, Elements
  <2>5. Line
    BY Zenon DEF IInv
  <2>. QED  BY Zenon, <2>1, <2>2, <2>4, <2>5, LineKept
<1>5. Signals'
  BY <1>0 DEF IInv, Signals, TypeOK
<1>6. Leadership'
  <2>1. \A d \in Callers : (Told(d)' <=> Told(d)) /\ (Leads(d)' <=> Leads(d))
    BY Zenon, <1>0 DEF Told, Leads, TypeOK
  <2>. QED  BY Zenon, <2>1 DEF IInv, Leadership
<1>7. Batches'
  <2>1. \A l \in Callers : \A i \in 1..Len(batch[l]) : batch[l][i] \in Callers /\ batch[l][i] # c
    <3>1. \A l \in Callers : \A i \in 1..Len(batch[l]) : batch[l][i] \in Callers
      BY Zenon, <1>0, Elements
    <3>2. \A l \in Callers : \A i \in 1..Len(batch[l]) : taken[batch[l][i]]
      BY Zenon DEF IInv, Batches
    <3>3. ~taken[c]
      BY <1>0 DEF IInv, Signals
    <3>. QED  BY Zenon, <3>1, <3>2, <3>3
  <2>2. \A d \in Callers : d # c => pc'[d] = pc[d] /\ taken'[d] = taken[d]
                                     /\ done'[d] = done[d] /\ verdict'[d] = verdict[d]
    BY Zenon, <1>0 DEF TypeOK
  <2>3. pc'[c] = "take" /\ batch' = batch
    BY Zenon, <1>0 DEF TypeOK
  <2>4. Batches
    BY Zenon DEF IInv
  <2>. QED  BY Zenon, <1>0, <2>1, <2>2, <2>3, <2>4, BatchesKept
<1>8. Verdicts'
  BY Zenon, <1>0 DEF IInv, Verdicts, TypeOK
<1>9. OutcomeDecided'
  BY Zenon, <1>0 DEF IInv, OutcomeDecided, TypeOK
<1>11. SessionAlone'
  <2>1. \A l \in Callers : Members(l)' = Members(l)
    BY Zenon DEF Members
  <2>. QED  BY <1>0, <2>1 DEF IInv, SessionAlone, TypeOK
<1>10. Arrivals' /\ ArrivalOrder'
  BY ZenonT(60), <1>0 DEF IInv, Arrivals, ArrivalOrder, InLine, TypeOK
<1>. QED  BY ZenonT(60), <1>1, <1>2, <1>3, <1>4, <1>5, <1>6, <1>7, <1>8, <1>9, <1>10, <1>11 DEF IInv

\* A caller whose context ended stays in the line until it holds the lock.
LEMMA SelectCtxIInv ==
  ASSUME IInv, NEW c \in Callers, SelectCtx(c)
  PROVE  IInv'
<1> USE DEF SelectCtx, queueVars, callVars
<1>0. TypeOK /\ pc[c] = "select"
  BY Zenon DEF IInv
<1>a. pc'[c] = "cancel" /\ \A d \in Callers : d # c => pc'[d] = pc[d]
  BY Zenon, <1>0 DEF TypeOK
<1>1. TypeOK'
  BY Zenon, <1>0 DEF TypeOK, PCs
<1>2. Records'
  BY Zenon, <1>0 DEF IInv, Records, TypeOK
<1>3. Counted'
  <2>1. InFlight' = InFlight
    BY Zenon, <1>0 DEF InFlight, TypeOK
  <2>. QED  BY Zenon, <2>1 DEF IInv, Counted
<1>4. Line'
  BY <1>0, <1>a, Elements DEF IInv, Line, Lining, Records
<1>5. Signals'
  BY Zenon, <1>0 DEF IInv, Signals, TypeOK
<1>6. Leadership'
  <2>1. \A d \in Callers : (Told(d)' <=> Told(d)) /\ (Leads(d)' <=> Leads(d))
    BY Zenon, <1>0 DEF Told, Leads, TypeOK
  <2>. QED  BY Zenon, <2>1 DEF IInv, Leadership
<1>7. Batches'
  BY <1>0, <1>a, Elements DEF IInv, Batches
<1>8. Verdicts'
  BY Zenon, <1>0 DEF IInv, Verdicts, TypeOK
<1>9. OutcomeDecided'
  BY Zenon, <1>0 DEF IInv, OutcomeDecided, TypeOK
<1>10. Arrivals' /\ ArrivalOrder'
  BY ZenonT(60), <1>0 DEF IInv, Arrivals, ArrivalOrder, InLine, TypeOK
<1>11. SessionAlone'
  <2>1. \A l \in Callers : Members(l)' = Members(l)
    BY Zenon DEF Members
  <2>. QED  BY <1>0, <2>1 DEF IInv, SessionAlone, TypeOK
<1>. QED  BY Zenon, <1>1, <1>2, <1>3, <1>4, <1>5, <1>6, <1>7, <1>8, <1>9, <1>10, <1>11 DEF IInv

\* A caller that reads its outcome was taken and told: it is in no line and
\* no batch.
LEMMA ReadOutcomeIInv ==
  ASSUME IInv, NEW c \in Callers, ReadOutcome(c)
  PROVE  IInv'
<1> USE DEF ReadOutcome, queueVars, callVars
<1>0. /\ TypeOK /\ pc[c] \in {"select", "await"}
      /\ done[c] /\ taken[c] /\ verdict[c] # None /\ err[c] = verdict[c]
  BY Zenon DEF IInv, Verdicts
<1>a. pc'[c] = "leave" /\ \A d \in Callers : d # c => pc'[d] = pc[d]
  BY Zenon, <1>0 DEF TypeOK
<1>1. TypeOK'
  BY Zenon, <1>0 DEF TypeOK, PCs
<1>2. Records'
  BY Zenon, <1>0, <1>a DEF IInv, Records
<1>3. Counted'
  <2>1. InFlight' = InFlight
    BY ZenonT(60), <1>0, <1>a DEF InFlight
  <2>. QED  BY Zenon, <2>1 DEF IInv, Counted
<1>4. Line'
  BY <1>0, <1>a, Elements DEF IInv, Line, Lining, Records
<1>5. Signals'
  BY Zenon, <1>0, <1>a DEF IInv, Signals
<1>6. Leadership'
  <2>1. \A d \in Callers : (Told(d)' <=> Told(d)) /\ (Leads(d)' <=> Leads(d))
    BY Zenon, <1>0, <1>a DEF Told, Leads
  <2>. QED  BY Zenon, <2>1 DEF IInv, Leadership
<1>7. Batches'
  <2>1. \A l \in Callers : \A i \in 1..Len(batch[l]) : batch[l][i] # c
    BY <1>0 DEF IInv, Batches
  <2>. QED  BY <1>0, <1>a, <2>1, Elements DEF IInv, Batches
<1>8. Verdicts'
  BY Zenon, <1>0, <1>a DEF IInv, Verdicts
<1>9. OutcomeDecided'
  <2>1. ret'[c] = verdict[c] /\ \A d \in Callers : d # c => ret'[d] = ret[d]
    BY Zenon, <1>0 DEF TypeOK
  <2>2. verdict[c] # "ctx"
    BY Zenon, <1>0, NoneAssumption DEF TypeOK, Outcomes
  <2>. QED  BY <1>0, <1>a, <2>1, <2>2 DEF IInv, OutcomeDecided
<1>10. Arrivals' /\ ArrivalOrder'
  BY Zenon, <1>0, <1>a DEF IInv, Arrivals, ArrivalOrder, InLine, TypeOK
<1>11. SessionAlone'
  <2>1. \A l \in Callers : Members(l)' = Members(l)
    BY Zenon DEF Members
  <2>. QED  BY <1>0, <1>a, <2>1 DEF IInv, SessionAlone
<1>. QED  BY Zenon, <1>1, <1>2, <1>3, <1>4, <1>5, <1>6, <1>7, <1>8, <1>9, <1>10, <1>11 DEF IInv

\* A run decides for its own members, which are still inside enqueue.
LEMMA DecideIInv ==
  ASSUME IInv, NEW c \in Callers, Decide(c)
  PROVE  IInv'
<1> USE DEF queueVars, callVars
<1>0. TypeOK /\ pc[c] = "run"
  BY Zenon DEF IInv, Decide
<1>a. pc'[c] = "finish" /\ \A d \in Callers : d # c => pc'[d] = pc[d]
  BY Zenon, <1>0 DEF Decide, TypeOK
<1>b. /\ verdict' \in [Callers -> Outcomes \cup {None}]
      /\ \A d \in Callers : IF d \in Members(c) THEN verdict'[d] # None
                                                ELSE verdict'[d] = verdict[d]
  <2>1. CASE verdict' = Recovered(c)
    BY Zenon, <1>0, <2>1, NoneAssumption DEF Recovered, TypeOK, Outcomes
  <2>2. ASSUME NEW errs \in [Callers -> {"ok", "failed"}],
               verdict' = [m \in Callers |->
                             IF m \in Members(c) THEN errs[m] ELSE verdict[m]]
        PROVE  <1>b
    BY Zenon, <1>0, <2>2, NoneAssumption DEF TypeOK, Outcomes
  <2>. QED  BY Zenon, <2>1, <2>2 DEF Decide
<1>c. \A i \in 1..Len(batch[c]) : batch[c][i] \in Members(c)
  BY Zenon DEF Members
<1>d. \A d \in Members(c) :
         /\ d \in Callers /\ taken[d] /\ ~done[d]
         /\ d = c \/ pc[d] \in {"select", "cancel", "await"}
  BY <1>0, Elements DEF IInv, Batches, Members
<1>1. TypeOK'
  BY Zenon, <1>0, <1>b DEF Decide, TypeOK, PCs
<1>2. Records'
  BY ZenonT(60), <1>0, <1>a, <1>b, <1>d DEF IInv, Records, Decide
<1>3. Counted'
  <2>1. InFlight' = InFlight
    BY Zenon, <1>0, <1>a DEF InFlight
  <2>. QED  BY Zenon, <2>1 DEF IInv, Counted, Decide
<1>4. Line'
  <2>1. \A d \in Callers : (pc'[d] \in Lining /\ ~taken[d]) <=> (pc[d] \in Lining /\ ~taken[d])
    BY Zenon, <1>0, <1>a DEF Lining
  <2>2. Line /\ queues' = queues /\ waiting' = waiting /\ taken' = taken
    BY Zenon DEF IInv, Decide
  <2>3. queues \in Queues
    BY Zenon, <1>0 DEF IInv, Records
  <2>4. \A i \in 1..Len(waiting[queues]) : waiting[queues][i] \in Callers
    BY Zenon, <1>0, <2>3, Elements
  <2>. QED  BY Zenon, <2>1, <2>2, <2>4, LineKept
<1>5. Signals'
  BY Zenon, <1>0, <1>a DEF IInv, Signals, Decide
<1>6. Leadership'
  <2>1. \A d \in Callers : (Told(d)' <=> Told(d)) /\ (Leads(d)' <=> Leads(d))
    BY Zenon, <1>0, <1>a DEF Told, Leads, Decide
  <2>. QED  BY Zenon, <2>1 DEF IInv, Leadership, Decide
<1>7. Batches'
  <2>1. \A l \in Callers : l # c => batch[l] = <<>>
    BY ZenonT(60), <1>0 DEF IInv, Batches, Leadership, Leads
  <2>2. batch' = batch /\ done' = done /\ taken' = taken
    BY Zenon DEF Decide
  <2>. QED  BY <1>0, <1>a, <1>b, <1>c, <2>1, <2>2, Elements DEF IInv, Batches
<1>8. Verdicts'
  BY ZenonT(60), <1>0, <1>a, <1>b, <1>d DEF IInv, Verdicts, Decide
<1>9. OutcomeDecided'
  BY ZenonT(60), <1>0, <1>a, <1>b, <1>d DEF IInv, OutcomeDecided, Decide
<1>10. Arrivals' /\ ArrivalOrder'
  BY Zenon, <1>0, <1>a DEF IInv, Arrivals, ArrivalOrder, InLine, TypeOK, Decide
<1>11. SessionAlone'
  <2>1. \A l \in Callers : Members(l)' = Members(l)
    BY Zenon DEF Members, Decide
  <2>. QED  BY Zenon, <1>0, <1>a, <2>1 DEF IInv, SessionAlone, Decide
<1>. QED  BY ZenonT(60), <1>1, <1>2, <1>3, <1>4, <1>5, <1>6, <1>7, <1>8, <1>9, <1>10, <1>11 DEF IInv

\* finish tells the next member, which no batch holds any more.
LEMMA FinishIInv ==
  ASSUME IInv, NEW c \in Callers, Finish(c)
  PROVE  IInv'
<1> USE DEF queueVars, callVars
<1>0. TypeOK /\ pc[c] = "finish" /\ batch[c] # <<>>
  BY ZenonT(60) DEF IInv, Finish
<1> DEFINE m == batch[c][1]
<1>a. /\ Len(batch[c]) >= 1 /\ Head(batch[c]) = m
      /\ m \in Callers /\ taken[m] /\ ~done[m] /\ verdict[m] # None
  BY <1>0, Elements DEF IInv, Batches, TypeOK
<1>b. /\ Len(batch'[c]) = Len(batch[c]) - 1
      /\ \A i \in 1..Len(batch'[c]) : batch'[c][i] = batch[c][i + 1]
      /\ \A l \in Callers : l # c => batch'[l] = batch[l]
      /\ batch' \in [Callers -> Seq(Callers)]
  BY <1>0, <1>a DEF Finish, TypeOK
<1>c. /\ done'[m] /\ err'[m] = verdict[m]
      /\ \A d \in Callers : d # m => done'[d] = done[d] /\ err'[d] = err[d]
  BY Zenon, <1>0, <1>a DEF Finish, TypeOK
<1>d. \A l \in Callers : l # c => batch[l] = <<>>
  BY Zenon, <1>0 DEF IInv, Batches, Leadership, Leads
<1>e. UNCHANGED <<queues, waiting, busy, calls, pc, held, kind, ctxDone, lead,
                  taken, leading, verdict, ret, before>>
  BY Zenon DEF Finish
<1>1. TypeOK'
  <2>1. err' \in [Callers -> Outcomes] /\ done' \in [Callers -> BOOLEAN]
    BY Zenon, <1>0, <1>a DEF Finish, TypeOK
  <2>. QED  BY Zenon, <1>0, <1>b, <1>e, <2>1 DEF TypeOK
<1>2. Records' /\ Signals'
  <2>1. pc[m] # "idle"
    BY Zenon, <1>a DEF IInv, Records
  <2>. QED  BY Zenon, <1>a, <1>c, <1>e, <2>1 DEF IInv, Records, Signals
<1>3. Counted'
  BY Zenon, <1>e DEF IInv, Counted, InFlight
<1>4. Line'
  BY Zenon, <1>e DEF IInv, Line, Lining
<1>6. Leadership'
  BY Zenon, <1>e DEF IInv, Leadership, Told, Leads
<1>7. Batches'
  <2>0. Len(batch[c]) \in Nat /\ Len(batch'[c]) \in Nat
    BY <1>0, <1>b DEF TypeOK
  <2>d. \A j, k \in 1..Len(batch[c]) : batch[c][j] = batch[c][k] => j = k
    BY Zenon DEF IInv, Batches
  <2>1. ASSUME NEW i \in 1..Len(batch'[c])
        PROVE  /\ batch'[c][i] = batch[c][i + 1] /\ i + 1 \in 1..Len(batch[c])
               /\ batch'[c][i] # m
    <3>1. batch'[c][i] = batch[c][i + 1] /\ i + 1 \in 1..Len(batch[c])
      BY <1>b, <2>0
    <3>2. batch[c][i + 1] # batch[c][1]
      <4>1. 1 \in 1..Len(batch[c]) /\ i + 1 # 1
        BY <2>0, <3>1
      <4>. QED  BY Zenon, <2>d, <3>1, <4>1
    <3>. QED  BY Zenon, <3>1, <3>2
  <2>2. done'[c] \/ \E i \in 1..Len(batch'[c]) : batch'[c][i] = c
    <3>1. CASE done[c]
      BY Zenon, <1>a, <1>c, <3>1
    <3>2. CASE m = c
      BY Zenon, <1>c, <3>2
    <3>3. ASSUME NEW i \in 1..Len(batch[c]), batch[c][i] = c, i # 1
          PROVE  <2>2
      <4>1. Len(batch'[c]) = Len(batch[c]) - 1
        BY Zenon, <1>b
      <4>2. PICK j \in 1..Len(batch'[c]) : i = j + 1
        BY <2>0, <3>3, <4>1
      <4>3. batch'[c][j] = c
        BY Zenon, <1>b, <3>3, <4>2
      <4>. QED  BY Zenon, <4>3
    <3>. QED  BY <1>0, <3>1, <3>2, <3>3 DEF IInv, Batches
  <2>3. ASSUME NEW l \in Callers, l # c
        PROVE  batch'[l] = <<>> /\ pc[l] \notin {"run", "finish"}
    BY Zenon, <1>0, <1>b, <1>d, <2>3 DEF IInv, Leadership, Leads
  <2>4. ASSUME NEW i \in 1..Len(batch'[c]), NEW j \in 1..Len(batch'[c]), batch'[c][i] = batch'[c][j]
        PROVE  i = j
    <3>1. /\ batch'[c][i] = batch[c][i + 1] /\ i + 1 \in 1..Len(batch[c])
          /\ batch'[c][j] = batch[c][j + 1] /\ j + 1 \in 1..Len(batch[c])
      BY Zenon, <2>1
    <3>2. i + 1 = j + 1
      BY Zenon, <2>4, <2>d, <3>1
    <3>. QED  BY <2>0, <3>2
  <2>5. ASSUME NEW i \in 1..Len(batch'[c])
        PROVE  /\ taken'[batch'[c][i]] /\ ~done'[batch'[c][i]]
               /\ batch'[c][i] = c \/ pc'[batch'[c][i]] \in {"select", "cancel", "await"}
               /\ verdict'[batch'[c][i]] # None
    <3>1. PICK k \in 1..Len(batch[c]) : batch'[c][i] = batch[c][k] /\ batch[c][k] # m
      BY ZenonT(60), <2>1
    <3>2. /\ batch[c][k] \in Callers /\ taken[batch[c][k]] /\ ~done[batch[c][k]]
          /\ batch[c][k] = c \/ pc[batch[c][k]] \in {"select", "cancel", "await"}
          /\ verdict[batch[c][k]] # None
      BY <1>0, Elements DEF IInv, Batches
    <3>. QED  BY Zenon, <1>c, <1>e, <3>1, <3>2
  <2>6. taken'[c] /\ pc'[c] = "finish"
    BY Zenon, <1>0, <1>e DEF IInv, Batches
  <2>. QED  BY <2>2, <2>3, <2>4, <2>5, <2>6, <1>e DEF Batches
<1>8. Verdicts'
  BY Zenon, <1>a, <1>c, <1>e DEF IInv, Verdicts
<1>9. OutcomeDecided'
  BY Zenon, <1>e DEF IInv, OutcomeDecided
<1>10. Arrivals' /\ ArrivalOrder'
  BY Zenon, <1>e DEF IInv, Arrivals, ArrivalOrder, InLine
<1>11. SessionAlone'
  <2>1. \A l \in Callers : pc[l] = "run" => Members(l)' = Members(l)
    <3>1. \A l \in Callers : pc[l] = "run" => batch'[l] = batch[l]
      BY Zenon, <1>0, <1>b
    <3>. QED  BY <3>1 DEF Members
  <2>2. SessionAlone
    BY Zenon DEF IInv
  <2>3. kind' = kind /\ pc' = pc
    BY Zenon, <1>e
  <2>. QED  BY Zenon, <2>1, <2>2, <2>3, SessionAloneSame
<1>. QED  BY Zenon, <1>1, <1>2, <1>3, <1>4, <1>6, <1>7, <1>8, <1>9, <1>10, <1>11 DEF IInv

\* take: the leader is at the head, and its batch is a prefix of the line.
LEMMA TakeIInv ==
  ASSUME IInv, NEW c \in Callers, Take(c)
  PROVE  IInv'
<1> DEFINE w == waiting[held[c]]
<1>0. /\ TypeOK /\ pc[c] = "take" /\ leading[c] /\ ~taken[c]
      /\ queues \in Queues /\ held[c] = queues /\ queues # NoQueue
      /\ Told(c) /\ Leads(c) /\ w # <<>> /\ w[1] = c /\ w \in Seq(Callers)
  <2>1. TypeOK /\ pc[c] = "take" /\ leading[c] /\ ~taken[c]
    BY Zenon DEF IInv, Take, Signals
  <2>2. queues \in Queues /\ held[c] = queues /\ queues # NoQueue
    BY Zenon, <2>1, QueuesAssumption DEF IInv, Records
  <2>3. Told(c) /\ Leads(c)
    BY Zenon, <2>1 DEF Told, Leads
  <2>4. w # <<>> /\ w[1] = c /\ w \in Seq(Callers)
    BY Zenon, <2>1, <2>2, <2>3 DEF IInv, Leadership, TypeOK
  <2>. QED  BY Zenon, <2>1, <2>2, <2>3, <2>4
<1>1. PICK n \in 1..Len(w) :
            /\ IsBatch(w, n)
            /\ batch' = [batch EXCEPT ![c] = SubSeq(w, 1, n)]
            /\ waiting' = [waiting EXCEPT ![held[c]] = Rest(w, n)]
            /\ taken' = [m \in Callers |-> taken[m] \/ \E i \in 1..n : w[i] = m]
  BY Zenon DEF Take
<1> DEFINE v == waiting'[queues]
           b == batch'[c]
<1>a. /\ v \in Seq(Callers) /\ Len(v) = Len(w) - n
      /\ \A i \in 1..Len(v) : v[i] = w[n + i]
      /\ \A x \in Queues : x # queues => waiting'[x] = waiting[x]
      /\ waiting' \in [Queues -> Seq(Callers)]
  <2>1. /\ SubSeq(w, n + 1, Len(w)) \in Seq(Callers)
        /\ Len(SubSeq(w, n + 1, Len(w))) = Len(w) - n
        /\ \A i \in 1..Len(w) - n : SubSeq(w, n + 1, Len(w))[i] = w[n + i]
    BY <1>0
  <2>. QED  BY Zenon, <1>0, <1>1, <2>1 DEF Rest, TypeOK
<1>b. /\ b \in Seq(Callers) /\ Len(b) = n
      /\ \A i \in 1..n : b[i] = w[i]
      /\ \A l \in Callers : l # c => batch'[l] = batch[l]
      /\ batch' \in [Callers -> Seq(Callers)]
  <2>1. /\ SubSeq(w, 1, n) \in Seq(Callers)
        /\ Len(SubSeq(w, 1, n)) = n
        /\ \A i \in 1..n : SubSeq(w, 1, n)[i] = w[i]
    BY <1>0
  <2>. QED  BY Zenon, <1>0, <1>1, <2>1 DEF TypeOK
<1>c. pc'[c] = "run" /\ \A d \in Callers : d # c => pc'[d] = pc[d]
  BY <1>0 DEF Take, TypeOK
<1>d. UNCHANGED <<queues, busy, calls, held, kind, ctxDone, lead, done, err,
                  leading, verdict, ret, before>>
  BY Zenon DEF Take
<1>e. /\ \A d \in Callers : taken'[d] <=> (taken[d] \/ \E i \in 1..n : w[i] = d)
      /\ taken' \in [Callers -> BOOLEAN]
  BY ZenonT(60), <1>0, <1>1 DEF TypeOK
<1>f. \A i \in 1..Len(w) :
         /\ w[i] \in Callers /\ pc[w[i]] \in Lining /\ ~taken[w[i]] /\ ~done[w[i]]
         /\ pc[w[i]] = "take" => w[i] = c
         /\ verdict[w[i]] = None
  <2>1. \A i \in 1..Len(w) : w[i] \in Callers
    BY Zenon, <1>0, Elements
  <2>2. \A i \in 1..Len(w) : pc[w[i]] \in Lining /\ ~taken[w[i]]
    BY Zenon, <1>0 DEF IInv, Line
  <2>3. \A d \in Callers : ~taken[d] => ~done[d] /\ verdict[d] = None
    BY Zenon DEF IInv, Verdicts
  <2>4. \A d \in Callers : pc[d] = "take" => d = c
    <3>1. \A d \in Callers : pc[d] = "take" => Leads(d)
      BY Zenon DEF IInv, Signals, Leads, Told
    <3>. QED  BY Zenon, <1>0, <3>1 DEF IInv, Leadership
  <2>. QED  BY Zenon, <2>1, <2>2, <2>3, <2>4
<1>g. \A i, j \in 1..Len(w) : w[i] = w[j] => i = j
  BY Zenon, <1>0 DEF IInv, Line
<1>q. \A i, j \in 1..Len(w) : <<w[i], w[j]>> \in before => i < j
  BY Zenon, <1>0 DEF IInv, Arrivals
<1>h. \A d \in Callers : d # c => ~Leads(d) /\ pc[d] \notin {"run", "finish"} /\ batch[d] = <<>>
  BY ZenonT(60), <1>0 DEF IInv, Leadership, Leads, Batches
<1>k. \A i \in 1..Len(v) : n + i \in 1..Len(w) /\ v[i] = w[n + i]
  <2>1. Len(w) \in Nat /\ Len(v) \in Nat /\ Len(v) = Len(w) - n
    BY <1>0, <1>a
  <2>2. \A i \in 1..Len(v) : n + i \in 1..Len(w)
    BY <2>1
  <2>. QED  BY Zenon, <1>a, <2>2
<1> HIDE DEF w, v, b
<1>2. TypeOK'
  <2>1. pc' \in [Callers -> PCs]
    BY Zenon, <1>0 DEF TypeOK, PCs, Take
  <2>. QED  BY Zenon, <1>0, <1>a, <1>b, <1>d, <1>e, <2>1 DEF TypeOK
<1>3. Records' /\ Signals'
  <2>1. \A d \in Callers : pc[d] = "idle" => ~taken[d] /\ ~taken'[d]
    <3>1. \A d \in Callers : pc[d] = "idle" => ~taken[d]
      BY Zenon DEF IInv, Records
    <3>2. \A i \in 1..n : i \in 1..Len(w)
      BY <1>0
    <3>3. \A i \in 1..n : pc[w[i]] # "idle"
      BY Zenon, <1>f, <3>2 DEF Lining
    <3>. QED  BY Zenon, <1>e, <3>1, <3>3
  <2>2. Records'
    BY <1>0, <1>c, <1>d, <2>1 DEF IInv, Records
  <2>3. \A d \in Callers : lead[d] = 1 => ~taken'[d] /\ d # c
    <3>1. ASSUME NEW d \in Callers, lead[d] = 1
          PROVE  ~taken'[d] /\ d # c
      <4>1. leading[d] /\ ~taken[d] /\ pc[d] \in {"select", "cancel", "leave"} /\ d # c
        BY Zenon, <1>0, <3>1 DEF IInv, Signals
      <4>2. CASE pc[d] = "leave"
        BY <1>e, <1>f, <4>1, <4>2 DEF Lining
      <4>3. CASE pc[d] \in {"select", "cancel"}
        BY Zenon, <1>h, <4>1, <4>3 DEF Leads, Told
      <4>. QED  BY Zenon, <4>1, <4>2, <4>3
    <3>. QED  BY Zenon, <3>1
  <2>4. \A d \in Callers : pc[d] = "take" => d = c
    BY Zenon, <1>h DEF IInv, Signals, Leads, Told
  <2>5. Signals'
    BY Zenon, <1>c, <1>d, <2>3, <2>4 DEF IInv, Signals
  <2>. QED  BY Zenon, <2>2, <2>5
<1>4. Counted'
  <2>1. InFlight' = InFlight
    BY Zenon, <1>0, <1>c DEF InFlight
  <2>. QED  BY Zenon, <1>d, <2>1 DEF IInv, Counted
<1>5. Line'
  <2>1. ASSUME NEW d \in Callers, pc'[d] \in Lining, ~taken'[d]
        PROVE  \E i \in 1..Len(v) : v[i] = d
    <3>1. PICK i \in 1..Len(w) : w[i] = d
      BY <1>0, <1>c, <1>e, <2>1 DEF IInv, Line, Lining, w
    <3>2. i > n
      BY <1>e, <2>1, <3>1
    <3>3. Len(w) \in Nat /\ Len(v) = Len(w) - n
      BY <1>0, <1>a
    <3>4. PICK j \in 1..Len(v) : i = n + j
      BY <3>2, <3>3
    <3>. QED  BY ZenonT(60), <1>a, <3>1, <3>4
  <2>2. ASSUME NEW i \in 1..Len(v)
        PROVE  /\ pc'[v[i]] \in Lining /\ ~taken'[v[i]]
               /\ \A j \in 1..Len(v) : v[i] = v[j] => i = j
    <3>1. n + i \in 1..Len(w) /\ v[i] = w[n + i]
      BY Zenon, <1>k
    <3>2. v[i] # c
      BY <1>0, <1>g, <3>1
    <3>3. ASSUME NEW j \in 1..Len(v), v[i] = v[j]
          PROVE  i = j
      <4>1. n + i = n + j
        BY Zenon, <1>g, <1>k, <3>3
      <4>. QED  BY <4>1
    <3>4. \A j \in 1..n : w[j] # v[i]
      BY <1>0, <1>g, <3>1
    <3>5. ~taken'[v[i]]
      BY Zenon, <1>e, <1>f, <3>1, <3>4
    <3>6. pc'[v[i]] \in Lining
      BY Zenon, <1>c, <1>f, <3>1, <3>2
    <3>. QED  BY Zenon, <3>3, <3>5, <3>6
  <2>3. \A x \in Queues : x # queues => waiting'[x] = <<>>
    BY Zenon, <1>a DEF IInv, Line
  <2>. QED  BY <1>0, <1>d, <2>1, <2>2, <2>3 DEF Line, v
<1>6. Leadership'
  <2>1. \A d \in Callers : (Leads(d)' <=> d = c) /\ ~Told(d)'
    <3>1. ~Told(c)'
      BY Zenon, <1>c DEF Told
    <3>2. \A d \in Callers : d # c => ~Told(d)' /\ ~Leads(d)'
      BY Zenon, <1>c, <1>d, <1>e, <1>h DEF Told, Leads
    <3>. QED  BY Zenon, <1>c, <3>1, <3>2 DEF Leads
  <2>2. busy'[queues]
    BY Zenon, <1>0, <1>d DEF IInv, Leadership
  <2>. QED  BY Zenon, <1>d, <2>1, <2>2 DEF Leadership
<1>7. Batches'
  <2>0. \A j \in 1..n : j \in 1..Len(w)
    BY <1>0
  <2>1. ASSUME NEW i \in 1..Len(b)
        PROVE  /\ taken'[b[i]] /\ ~done'[b[i]]
               /\ b[i] = c \/ pc'[b[i]] \in {"select", "cancel", "await"}
               /\ \A j \in 1..Len(b) : b[i] = b[j] => i = j
    <3>1. i \in 1..n /\ i \in 1..Len(w) /\ b[i] = w[i]
      BY Zenon, <1>b, <2>0
    <3>2. taken'[b[i]] /\ ~done'[b[i]]
      BY Zenon, <1>d, <1>e, <1>f, <3>1
    <3>3. b[i] = c \/ pc'[b[i]] \in {"select", "cancel", "await"}
      BY Zenon, <1>c, <1>f, <3>1 DEF Lining
    <3>4. ASSUME NEW j \in 1..Len(b), b[i] = b[j]
          PROVE  i = j
      <4>1. j \in 1..Len(w) /\ b[j] = w[j]
        BY Zenon, <1>b, <2>0
      <4>. QED  BY Zenon, <1>g, <3>1, <3>4, <4>1
    <3>. QED  BY Zenon, <3>2, <3>3, <3>4
  <2>2. taken'[c] /\ 1 \in 1..Len(b) /\ b[1] = c
    BY <1>0, <1>b, <1>e
  <2>3. ASSUME NEW l \in Callers, l # c
        PROVE  batch'[l] = <<>> /\ pc'[l] \notin {"run", "finish"}
    BY Zenon, <1>b, <1>c, <1>h, <2>3
  <2>. QED  BY <1>c, <2>1, <2>2, <2>3 DEF Batches, b
<1>8. Verdicts'
  BY Zenon, <1>c, <1>d, <1>e DEF IInv, Verdicts
<1>9. OutcomeDecided'
  <2>1. ASSUME NEW d \in Callers, pc'[d] = "leave"
        PROVE  pc[d] = "leave" /\ (taken'[d] <=> taken[d])
    <3>1. pc[d] = "leave"
      BY Zenon, <1>c, <2>1
    <3>2. \A i \in 1..n : w[i] # d
      <4>1. \A i \in 1..n : i \in 1..Len(w)
        BY <1>0
      <4>. QED  BY Zenon, <1>f, <3>1, <4>1 DEF Lining
    <3>. QED  BY Zenon, <1>e, <3>1, <3>2
  <2>2. OutcomeDecided
    BY Zenon DEF IInv
  <2>3. ret' = ret /\ verdict' = verdict
    BY ZenonT(60), <1>d
  <2>. QED  BY Zenon, <2>1, <2>2, <2>3 DEF OutcomeDecided
<1>10. Arrivals'
  <2>1. \A p \in before : p[1] \in Callers /\ p[2] \in Callers
    BY Zenon, <1>0, Pairs
  <2>2. ASSUME NEW i \in 1..Len(v), NEW j \in 1..Len(v), <<v[i], v[j]>> \in before
        PROVE  i < j
    <3>1. n + i \in 1..Len(w) /\ n + j \in 1..Len(w)
      BY Zenon, <1>k
    <3>2. <<w[n + i], w[n + j]>> \in before
      BY Zenon, <1>k, <2>2
    <3>3. n + i < n + j
      BY Zenon, <1>q, <3>1, <3>2
    <3>. QED  BY <3>3
  <2>. QED  BY <1>0, <1>c, <1>d, <2>1, <2>2 DEF IInv, Arrivals, v
<1>11. ArrivalOrder'
  <2> SUFFICES ASSUME NEW p \in before, taken'[p[2]], NEW x \in Queues,
                      NEW k \in 1..Len(waiting'[x]), waiting'[x][k] = p[1]
               PROVE  FALSE
    BY Zenon, <1>d DEF ArrivalOrder, InLine
  <2>1. p[1] \in Callers /\ p[2] \in Callers /\ p = <<p[1], p[2]>>
    BY ZenonT(60), <1>0, Pairs
  <2>2. x = queues
    BY <1>a DEF IInv, Line
  <2>3. n + k \in 1..Len(w) /\ w[n + k] = p[1]
    BY Zenon, <1>k, <2>2 DEF v
  <2>4. ~taken[p[2]]
    BY Zenon, <1>0, <2>3 DEF IInv, ArrivalOrder, InLine, w
  <2>5. PICK i \in 1..n : w[i] = p[2]
    BY Zenon, <1>e, <2>1, <2>4
  <2>6. i \in 1..Len(w) /\ <<w[n + k], w[i]>> \in before
    <3>1. i \in 1..Len(w)
      BY <1>0
    <3>. QED  BY ZenonT(60), <2>1, <2>3, <2>5, <3>1
  <2>7. n + k < i
    BY Zenon, <1>q, <2>3, <2>6
  <2>8. Len(v) \in Nat
    BY <1>a
  <2>9. k \in 1..Len(v)
    BY Zenon, <2>2 DEF v
  <2>. QED  BY <2>7, <2>8, <2>9
<1>12. SessionAlone'
  <2> SUFFICES ASSUME NEW d \in Members(c)', kind[d] = "op"
               PROVE  d = c /\ Members(c)' = {c}
    BY Zenon, <1>c, <1>d, <1>h DEF SessionAlone
  <2>1. PICK i \in 1..n : w[i] = d
    BY Zenon, <1>b DEF Members, b
  <2>2. n = 1 /\ d = c
    <3>1. CASE kind[w[1]] = "op"
      <4>1. n = 1
        BY Zenon, <1>1, <3>1 DEF IsBatch
      <4>2. i = 1
        BY <4>1
      <4>. QED  BY Zenon, <1>0, <2>1, <4>1, <4>2
    <3>2. CASE kind[w[1]] # "op"
      <4>1. kind[w[i]] = "tx"
        BY Zenon, <1>1, <3>2 DEF IsBatch
      <4>. QED  BY Zenon, <2>1, <4>1
    <3>. QED  BY Zenon, <3>1, <3>2
  <2>3. Members(c)' = {c}
    BY <1>0, <1>b, <2>2 DEF Members, b
  <2>. QED  BY Zenon, <2>2, <2>3
<1>. QED  BY ZenonT(60), <1>2, <1>3, <1>4, <1>5, <1>6, <1>7, <1>8, <1>9, <1>10, <1>11, <1>12 DEF IInv

\* What kick changes on a free queue: its line and busy flag, and the record
\* of the head, which it tells to lead.
KickedFree(x, w) ==
    /\ waiting' \in [Queues -> Seq(Callers)]
    /\ busy' \in [Queues -> BOOLEAN]
    /\ lead' \in [Callers -> Nat]
    /\ leading' \in [Callers -> BOOLEAN]
    /\ waiting'[x] = w /\ \A y \in Queues : y # x => waiting'[y] = waiting[y]
    /\ busy'[x] <=> w # <<>>
    /\ w # <<>> => w[1] \in Callers /\ leading'[w[1]] /\ lead'[w[1]] = lead[w[1]] + 1
    /\ \A d \in Callers : w = <<>> \/ d # w[1] =>
          leading'[d] = leading[d] /\ lead'[d] = lead[d]

\* kick on a free queue has those effects.
LEMMA KickFree ==
  ASSUME TypeOK, NEW x \in Queues, NEW w \in Seq(Callers), Kick(x, w, FALSE)
  PROVE  KickedFree(x, w)
<1>1. waiting' \in [Queues -> Seq(Callers)]
  BY Zenon DEF Kick, TypeOK
<1>2. waiting'[x] = w /\ \A y \in Queues : y # x => waiting'[y] = waiting[y]
  BY Zenon DEF Kick, TypeOK
<1>3. CASE w # <<>>
  <2>1. Head(w) = w[1] /\ w[1] \in Callers
    BY <1>3
  <2>2. busy' = [busy EXCEPT ![x] = TRUE] /\ leading' = [leading EXCEPT ![w[1]] = TRUE]
        /\ lead' = [lead EXCEPT ![w[1]] = @ + 1]
    BY Zenon, <1>3, <2>1 DEF Kick, CanKick
  <2>3. busy' \in [Queues -> BOOLEAN] /\ busy'[x] = TRUE
    BY Zenon, <2>2 DEF TypeOK
  <2>4. leading' \in [Callers -> BOOLEAN] /\ leading'[w[1]] = TRUE
        /\ \A d \in Callers : d # w[1] => leading'[d] = leading[d]
    BY Zenon, <2>1, <2>2 DEF TypeOK
  <2>5. lead' \in [Callers -> Nat] /\ lead'[w[1]] = lead[w[1]] + 1
        /\ \A d \in Callers : d # w[1] => lead'[d] = lead[d]
    <3>1. lead \in [Callers -> Nat]
      BY Zenon DEF TypeOK
    <3>2. lead[w[1]] + 1 \in Nat
      <4>1. lead[w[1]] \in Nat
        BY Zenon, <2>1, <3>1
      <4>. QED  BY <4>1
    <3>. QED  BY Zenon, <2>1, <2>2, <3>1, <3>2
  <2>. QED  BY Zenon, <1>1, <1>2, <1>3, <2>1, <2>3, <2>4, <2>5 DEF KickedFree
<1>4. CASE w = <<>>
  <2>1. busy' = [busy EXCEPT ![x] = FALSE] /\ leading' = leading /\ lead' = lead
    BY Zenon, <1>4 DEF Kick, CanKick
  <2>. QED  BY Zenon, <1>1, <1>2, <1>4, <2>1 DEF TypeOK, KickedFree
<1>. QED  BY Zenon, <1>3, <1>4

\* kick on a queue a leader works on changes only its line.
KickedBusy(x, w) ==
    /\ waiting' \in [Queues -> Seq(Callers)]
    /\ busy' \in [Queues -> BOOLEAN]
    /\ waiting'[x] = w /\ \A y \in Queues : y # x => waiting'[y] = waiting[y]
    /\ busy'[x]
    /\ UNCHANGED <<lead, leading>>

\* kick on a busy queue has those effects.
LEMMA KickBusy ==
  ASSUME TypeOK, NEW x \in Queues, NEW w \in Seq(Callers), Kick(x, w, TRUE)
  PROVE  KickedBusy(x, w)
BY Zenon DEF Kick, CanKick, TypeOK, KickedBusy

\* lead's deferred section: the leader has told every member, itself
\* included, and the head of the line, if any, leads next.
LEMMA ReleaseIInv ==
  ASSUME IInv, NEW c \in Callers, Release(c)
  PROVE  IInv'
<1>0. /\ TypeOK /\ pc[c] = "finish" /\ batch[c] = <<>>
      /\ queues \in Queues /\ held[c] = queues /\ queues # NoQueue
      /\ done[c] /\ taken[c] /\ verdict[c] # None /\ err[c] = verdict[c]
  <2>1. TypeOK /\ pc[c] = "finish" /\ batch[c] = <<>>
    BY Zenon DEF IInv, Release
  <2>2. queues \in Queues /\ held[c] = queues /\ queues # NoQueue
    BY Zenon, <2>1, QueuesAssumption DEF IInv, Records
  <2>3. done[c]
    BY <2>1 DEF IInv, Batches
  <2>. QED  BY Zenon, <2>1, <2>2, <2>3 DEF IInv, Verdicts
<1>w. PICK x \in Queues, w \in Seq(Callers) : x = queues /\ w = waiting[x]
  BY Zenon, <1>0 DEF TypeOK
<1>a. pc'[c] = "leave" /\ \A d \in Callers : d # c => pc'[d] = pc[d]
  BY Zenon, <1>0 DEF Release, TypeOK
<1>b. ret'[c] = verdict[c] /\ \A d \in Callers : d # c => ret'[d] = ret[d]
  BY Zenon, <1>0 DEF Release, TypeOK
<1>c. UNCHANGED <<queues, calls, held, kind, ctxDone, done, err, taken,
                  batch, verdict, before>>
  BY Zenon DEF Release
<1>d. Kick(x, w, FALSE)
  BY Zenon, <1>0, <1>w DEF Release
<1>e. KickedFree(x, w)
  <2>1. TypeOK
    BY Zenon, <1>0
  <2>. QED  BY Zenon, <2>1, <1>d, KickFree, Zenon
<1>k. \A y \in Queues : waiting'[y] = waiting[y]
  BY ZenonT(60), <1>w, <1>e DEF KickedFree
<1>f. \A d \in Callers : d # c => ~Leads(d) /\ ~Told(d) /\ pc[d] \notin {"run", "finish"}
                                  /\ batch[d] = <<>>
  BY <1>0 DEF IInv, Leadership, Leads, Batches
<1>g. \A i \in 1..Len(w) :
         /\ w[i] \in Callers /\ pc[w[i]] \in Lining /\ ~taken[w[i]] /\ w[i] # c
         /\ ~leading[w[i]] /\ lead[w[i]] = 0
  <2>1. \A i \in 1..Len(w) : w[i] \in Callers /\ pc[w[i]] \in Lining /\ ~taken[w[i]] /\ w[i] # c
    BY <1>0, <1>w, Elements DEF IInv, Line
  <2>2. \A i \in 1..Len(w) : ~leading[w[i]]
    BY Zenon, <1>f, <2>1 DEF Told, Lining
  <2>. QED  BY ZenonT(60), <2>1, <2>2 DEF IInv, Signals
<1>h. w # <<>> => 1 \in 1..Len(w)
  OBVIOUS
<1>1. TypeOK'
  <2>1. pc' \in [Callers -> PCs]
    BY Zenon, <1>0 DEF TypeOK, PCs, Release
  <2>2. ret' \in [Callers -> Outcomes \cup {None, "ctx"}]
    BY Zenon, <1>0 DEF TypeOK, Release
  <2>. QED  BY Zenon, <1>0, <1>c, <1>e, <2>1, <2>2 DEF TypeOK, KickedFree
<1>2. Records'
  <2>1. \A d \in Callers : pc[d] = "idle" => w = <<>> \/ d # w[1]
    BY Zenon, <1>g, <1>h DEF Lining
  <2>2. \A d \in Callers : pc'[d] = "idle" =>
           /\ pc[d] = "idle" /\ leading'[d] = leading[d] /\ lead'[d] = lead[d]
    BY ZenonT(60), <1>a, <1>e, <2>1 DEF KickedFree
  <2>. QED  BY Zenon, <1>0, <1>a, <1>c, <2>2 DEF IInv, Records
<1>3. Counted'
  <2>1. InFlight' = InFlight
    BY Zenon, <1>0, <1>a DEF InFlight
  <2>. QED  BY Zenon, <1>c, <2>1 DEF IInv, Counted
<1>4. Line'
  <2>1. \A y \in Queues : y # queues => waiting'[y] = <<>>
    BY Zenon, <1>k, <1>w DEF IInv, Line
  <2>2. \A i, j \in 1..Len(w) : w[i] = w[j] => i = j
    BY Zenon, <1>0, <1>w DEF IInv, Line
  <2>3. \A d \in Callers : pc'[d] \in Lining /\ ~taken[d] => \E i \in 1..Len(w) : w[i] = d
    BY <1>0, <1>w, <1>a DEF IInv, Line, Lining
  <2>4. \A i \in 1..Len(w) : pc'[w[i]] \in Lining /\ ~taken[w[i]]
    BY Zenon, <1>a, <1>g
  <2>5. waiting'[queues'] = w /\ queues' = queues /\ taken' = taken
    BY Zenon, <1>w, <1>c, <1>k
  <2>6. \A y \in Queues : y # queues' => waiting'[y] = <<>>
    BY Zenon, <2>1, <2>5
  <2>7. \A d \in Callers : pc'[d] \in Lining /\ ~taken'[d] =>
           \E i \in 1..Len(waiting'[queues']) : waiting'[queues'][i] = d
    BY Zenon, <2>3, <2>5
  <2>8. /\ \A i, j \in 1..Len(waiting'[queues']) :
              waiting'[queues'][i] = waiting'[queues'][j] => i = j
        /\ \A i \in 1..Len(waiting'[queues']) :
              pc'[waiting'[queues'][i]] \in Lining /\ ~taken'[waiting'[queues'][i]]
    BY ZenonT(60), <2>2, <2>4, <2>5
  <2>. QED  BY Zenon, <2>6, <2>7, <2>8 DEF Line
<1>l. w # <<>> => lead'[w[1]] = 1 /\ leading'[w[1]] /\ ~taken[w[1]] /\ pc'[w[1]] \in Lining
                  /\ pc[w[1]] # "take"
  <2>1. w # <<>> => pc[w[1]] # "take"
    BY Zenon, <1>g, <1>h DEF IInv, Signals
  <2>2. w # <<>> => w[1] \in Callers /\ leading'[w[1]] /\ lead'[w[1]] = lead[w[1]] + 1
    BY Zenon, <1>e DEF KickedFree
  <2>3. w # <<>> => lead[w[1]] = 0 /\ ~taken[w[1]] /\ pc[w[1]] \in Lining /\ w[1] # c
    BY Zenon, <1>g, <1>h
  <2>4. w # <<>> => lead'[w[1]] = 1
    BY <2>2, <2>3
  <2>. QED  BY Zenon, <1>a, <2>1, <2>2, <2>3, <2>4
<1>5. Signals'
  <2>1. w # <<>> => lead'[w[1]] = 1 /\ leading'[w[1]] /\ ~taken[w[1]] /\ pc'[w[1]] \in Lining
                    /\ pc[w[1]] # "take"
    BY Zenon, <1>l
  <2> SUFFICES ASSUME NEW d \in Callers
               PROVE  /\ lead'[d] \in {0, 1}
                      /\ lead'[d] = 1 => leading'[d] /\ ~taken[d]
                                         /\ pc'[d] \in {"select", "cancel", "leave"}
                      /\ pc'[d] = "take" => leading'[d] /\ ~taken[d]
    BY Zenon, <1>c DEF Signals
  <2>2. CASE w # <<>> /\ d = w[1]
    BY Zenon, <1>a, <2>1, <2>2 DEF Lining
  <2>3. CASE w = <<>> \/ d # w[1]
    <3>1. leading'[d] = leading[d] /\ lead'[d] = lead[d]
      BY ZenonT(60), <1>e, <2>3 DEF KickedFree
    <3>. QED  BY Zenon, <1>0, <1>a, <3>1 DEF IInv, Signals
  <2>. QED  BY Zenon, <2>2, <2>3
<1>6. Leadership'
  <2>1. \A d \in Callers : (Leads(d)' <=> w # <<>> /\ d = w[1]) /\ (Told(d)' => w # <<>> /\ d = w[1])
    <3>1. \A d \in Callers : w = <<>> \/ d # w[1] => ~Leads(d)' /\ ~Told(d)'
      BY Zenon, <1>a, <1>c, <1>e, <1>f DEF Leads, Told, KickedFree
    <3>2. \A d \in Callers : w # <<>> /\ d = w[1] => Leads(d)'
      <4>1. w # <<>> => ~taken'[w[1]]
        BY Zenon, <1>c, <1>g, <1>h
      <4>. QED  BY Zenon, <1>l, <4>1 DEF Leads, Told, Lining
    <3>. QED  BY Zenon, <3>1, <3>2
  <2>. QED  BY <1>0, <1>w, <1>c, <1>e, <2>1 DEF Leadership, KickedFree
<1>7. Batches'
  <2>1. \A d \in Callers : batch'[d] = <<>> /\ pc'[d] \notin {"run", "finish"}
    BY Zenon, <1>0, <1>a, <1>c, <1>f
  <2>. QED  BY Zenon, <2>1, NoBatches
<1>8. Verdicts'
  BY Zenon, <1>a, <1>c DEF IInv, Verdicts
<1>9. OutcomeDecided'
  <2>1. verdict[c] # "ctx"
    BY Zenon, <1>0, NoneAssumption DEF TypeOK, Outcomes
  <2>. QED  BY ZenonT(60), <1>0, <1>a, <1>b, <1>c, <2>1 DEF IInv, OutcomeDecided
<1>10. Arrivals' /\ ArrivalOrder'
  <2>1. \A p \in before : p[1] \in Callers /\ p[2] \in Callers
    BY Zenon, <1>0, Pairs
  <2>2. waiting'[queues'] = waiting[queues] /\ queues' = queues /\ before' = before
    BY Zenon, <1>0, <1>c, <1>k
  <2>3. \A p \in before : pc'[p[1]] # "idle" /\ pc'[p[2]] # "idle"
    BY Zenon, <1>0, <1>a, <2>1 DEF IInv, Arrivals
  <2>4. Arrivals'
    BY ZenonT(60), <2>2, <2>3 DEF IInv, Arrivals
  <2>5. ArrivalOrder'
    BY <1>c, <1>k DEF IInv, ArrivalOrder, InLine
  <2>. QED  BY Zenon, <2>4, <2>5
<1>11. SessionAlone'
  BY Zenon, <1>a, <1>f DEF SessionAlone
<1>. QED  BY ZenonT(60), <1>1, <1>2, <1>3, <1>4, <1>5, <1>6, <1>7, <1>8, <1>9, <1>10, <1>11 DEF IInv

\* A call already taken waits for its leader, its place unchanged.
LEMMA CancelTakenIInv ==
  ASSUME IInv, NEW c \in Callers, Cancel(c), taken[c]
  PROVE  IInv'
<1>0. TypeOK /\ pc[c] = "cancel"
  BY Zenon DEF IInv, Cancel
<1>a. pc'[c] = "await" /\ \A d \in Callers : d # c => pc'[d] = pc[d]
  BY Zenon, <1>0 DEF Cancel, OutcomeComing, TypeOK
<1>b. UNCHANGED <<queues, waiting, busy, calls, held, kind, ctxDone, lead, done,
                  err, taken, leading, batch, verdict, ret, before>>
  BY Zenon DEF Cancel, OutcomeComing
<1>1. TypeOK'
  <2>1. pc' \in [Callers -> PCs]
    <3>1. pc' = [pc EXCEPT ![c] = "await"]
      BY Zenon DEF Cancel, OutcomeComing
    <3>. QED  BY Zenon, <1>0, <3>1 DEF TypeOK, PCs
  <2>. QED  BY Zenon, <1>0, <1>b, <2>1 DEF TypeOK
<1>2. Records'
  BY Zenon, <1>0, <1>a, <1>b DEF IInv, Records
<1>3. Counted'
  <2>1. InFlight' = InFlight
    BY Zenon, <1>0, <1>a DEF InFlight
  <2>. QED  BY Zenon, <1>b, <2>1 DEF IInv, Counted
<1>4. Line'
  <2>0. queues \in Queues /\ queues # NoQueue
    BY Zenon, <1>0, QueuesAssumption DEF IInv, Records
  <2>1. \A i \in 1..Len(waiting[queues]) : waiting[queues][i] \in Callers
    BY Zenon, <1>0, <2>0, Elements
  <2>2. \A d \in Callers : (pc'[d] \in Lining /\ ~taken[d]) <=> (pc[d] \in Lining /\ ~taken[d])
    BY Zenon, <1>a
  <2>3. Line /\ queues' = queues /\ waiting' = waiting /\ taken' = taken
    BY Zenon, <1>b DEF IInv
  <2>. QED  BY Zenon, <2>1, <2>2, <2>3, LineKept
<1>5. Signals'
  BY Zenon, <1>a, <1>b DEF IInv, Signals
<1>6. Leadership'
  <2>1. \A d \in Callers : (Told(d)' <=> Told(d)) /\ (Leads(d)' <=> Leads(d))
    BY Zenon, <1>0, <1>a, <1>b DEF Told, Leads
  <2>. QED  BY Zenon, <1>b, <2>1 DEF IInv, Leadership
<1>7. Batches'
  <2>1. \A l \in Callers : \A i \in 1..Len(batch[l]) : batch[l][i] \in Callers
    BY Zenon, <1>0, Elements DEF TypeOK
  <2>2. /\ batch' = batch /\ taken' = taken /\ done' = done /\ verdict' = verdict
        /\ \A d \in Callers : pc'[d] = pc[d] \/ (pc[d] = "cancel" /\ pc'[d] = "await")
    BY Zenon, <1>0, <1>a, <1>b
  <2>3. Batches
    BY Zenon DEF IInv
  <2>. QED  BY Zenon, <2>1, <2>2, <2>3, BatchesAwaited
<1>8. Verdicts'
  BY Zenon, <1>a, <1>b DEF IInv, Verdicts
<1>9. OutcomeDecided'
  BY Zenon, <1>a, <1>b DEF IInv, OutcomeDecided
<1>10. Arrivals' /\ ArrivalOrder'
  <2>1. \A p \in before : p[1] \in Callers /\ p[2] \in Callers
    BY Zenon, <1>0, Pairs
  <2>. QED  BY Zenon, <1>0, <1>a, <1>b, <2>1 DEF IInv, Arrivals, ArrivalOrder, InLine
<1>11. SessionAlone'
  <2>1. \A l \in Callers : Members(l)' = Members(l)
    BY Zenon, <1>b DEF Members
  <2>2. SessionAlone /\ kind' = kind
    BY Zenon, <1>b DEF IInv
  <2>3. \A l \in Callers : pc'[l] = "run" => pc[l] = "run"
    BY Zenon, <1>a
  <2>. QED  BY Zenon, <2>1, <2>2, <2>3, SessionAloneSame
<1>. QED  BY ZenonT(60), <1>1, <1>2, <1>3, <1>4, <1>5, <1>6, <1>7, <1>8, <1>9, <1>10, <1>11 DEF IInv

\* A call no leader has taken leaves the line with its context's error; the
\* one told to lead is the head, and tells the next.
LEMMA CancelLeavesIInv ==
  ASSUME IInv, NEW c \in Callers, Cancel(c), ~taken[c]
  PROVE  IInv'
<1>0. /\ TypeOK /\ pc[c] = "cancel"
      /\ queues \in Queues /\ held[c] = queues /\ queues # NoQueue
      /\ verdict[c] = None
  <2>1. TypeOK /\ pc[c] = "cancel"
    BY Zenon DEF IInv, Cancel
  <2>. QED  BY Zenon, <2>1, QueuesAssumption DEF IInv, Records, Verdicts
<1>w. PICK x \in Queues, w \in Seq(Callers), r \in {Without(waiting[queues], c)} :
         x = queues /\ w = waiting[x] /\ r = Without(w, c)
  BY Zenon, <1>0 DEF TypeOK
<1>a. pc'[c] = "leave" /\ \A d \in Callers : d # c => pc'[d] = pc[d]
  BY Zenon, <1>0 DEF Cancel, OutcomeComing, TypeOK
<1>b. ret'[c] = "ctx" /\ \A d \in Callers : d # c => ret'[d] = ret[d]
  BY ZenonT(60), <1>0 DEF Cancel, OutcomeComing, TypeOK
<1>c. UNCHANGED <<queues, calls, held, kind, ctxDone, done, err, taken,
                  batch, verdict, before>>
  BY Zenon DEF Cancel
<1>g. \A i \in 1..Len(w) : w[i] \in Callers /\ pc[w[i]] \in Lining /\ ~taken[w[i]]
  BY Zenon, <1>0, <1>w, Elements DEF IInv, Line
<1>i. \A i, j \in 1..Len(w) : w[i] = w[j] => i = j
  BY Zenon, <1>0, <1>w DEF IInv, Line
<1>j. PICK k \in 1..Len(w) : w[k] = c
  BY Zenon, <1>0, <1>w DEF IInv, Line, Lining
<1>r. /\ r \in Seq(Callers) /\ Len(r) = Len(w) - 1
      /\ \A i \in 1..Len(w) - 1 : r[i] = IF i < k THEN w[i] ELSE w[i + 1]
  <2>1. \A n \in 1..Len(w) :
          /\ Without(w, w[n]) \in Seq(Callers)
          /\ Len(Without(w, w[n])) = Len(w) - 1
          /\ \A i \in 1..Len(w) - 1 :
                Without(w, w[n])[i] = IF i < n THEN w[i] ELSE w[i + 1]
    BY ZenonT(60), <1>i, RemoveOnce
  <2>2. r = Without(w, w[k])
    BY Zenon, <1>w, <1>j
  <2>. QED  BY Zenon, <2>1, <2>2
<1>l. Len(w) \in Nat /\ Len(r) \in Nat
  BY <1>r
<1>m. \A i \in 1..Len(r) : \E n \in 1..Len(w) :
         n # k /\ r[i] = w[n] /\ n = IF i < k THEN i ELSE i + 1
  BY <1>r, <1>l, <1>j
<1>n. \A n \in 1..Len(w) : n # k => \E i \in 1..Len(r) : r[i] = w[n]
  <2> SUFFICES ASSUME NEW n \in 1..Len(w), n # k
               PROVE  \E i \in 1..Len(r) : r[i] = w[n]
    BY Zenon
  <2>1. CASE n < k
    <3>1. n \in 1..Len(r) /\ r[n] = w[n]
      BY <1>r, <1>l, <1>j, <2>1
    <3>. QED  BY Zenon, <3>1
  <2>2. CASE n > k
    <3>1. n - 1 \in 1..Len(r) /\ r[n - 1] = w[n]
      BY <1>r, <1>l, <1>j, <2>2
    <3>. QED  BY Zenon, <3>1
  <2>. QED  BY <2>1, <2>2, <1>j
<1>o. \A i \in 1..Len(r) : r[i] \in Callers /\ r[i] # c /\ pc'[r[i]] \in Lining
                           /\ pc[r[i]] \in Lining /\ ~taken[r[i]]
  <2> SUFFICES ASSUME NEW i \in 1..Len(r)
               PROVE  r[i] \in Callers /\ r[i] # c /\ pc'[r[i]] \in Lining
                      /\ pc[r[i]] \in Lining /\ ~taken[r[i]]
    BY Zenon
  <2>1. PICK n \in 1..Len(w) : n # k /\ r[i] = w[n]
    BY Zenon, <1>m
  <2>2. w[n] \in Callers /\ pc[w[n]] \in Lining /\ ~taken[w[n]]
    BY Zenon, <1>g
  <2>3. w[n] # c
    BY Zenon, <1>i, <1>j, <2>1
  <2>4. pc'[w[n]] = pc[w[n]]
    BY ZenonT(60), <1>a, <2>2, <2>3
  <2>. QED  BY Zenon, <2>1, <2>2, <2>3, <2>4
<1>h. r # <<>> => 1 \in 1..Len(r)
  BY <1>r
<1>e. waiting' \in [Queues -> Seq(Callers)] /\ waiting'[x] = r
      /\ \A y \in Queues : y # x => waiting'[y] = waiting[y]
  <2>1. waiting' = [waiting EXCEPT ![x] = r]
    BY Zenon, <1>0, <1>w DEF Cancel, OutcomeComing, Kick
  <2>. QED  BY ZenonT(60), <1>0, <1>r, <2>1 DEF TypeOK
<1>3. Counted'
  <2>1. InFlight' = InFlight
    BY Zenon, <1>0, <1>a DEF InFlight
  <2>. QED  BY Zenon, <1>c, <2>1 DEF IInv, Counted
<1>4. Line'
  <2>1. \A y \in Queues : y # queues => waiting'[y] = <<>>
    BY ZenonT(60), <1>e, <1>w DEF IInv, Line
  <2>2. ASSUME NEW i \in 1..Len(r), NEW j \in 1..Len(r), r[i] = r[j]
        PROVE  i = j
    <3>1. PICK n \in 1..Len(w), o \in 1..Len(w) :
             /\ r[i] = w[n] /\ n = IF i < k THEN i ELSE i + 1
             /\ r[j] = w[o] /\ o = IF j < k THEN j ELSE j + 1
      BY Zenon, <1>m
    <3>2. n = o
      BY Zenon, <1>i, <2>2, <3>1
    <3>. QED  BY <1>l, <1>j, <3>1, <3>2
  <2>3. ASSUME NEW d \in Callers, pc'[d] \in Lining /\ ~taken[d]
        PROVE  \E i \in 1..Len(r) : r[i] = d
    <3>1. d # c /\ pc[d] \in Lining
      BY Zenon, <1>a, <2>3 DEF Lining
    <3>2. PICK n \in 1..Len(w) : w[n] = d
      BY Zenon, <1>0, <1>w, <2>3, <3>1 DEF IInv, Line
    <3>. QED  BY Zenon, <1>j, <1>n, <3>1, <3>2
  <2>4. \A i \in 1..Len(r) : pc'[r[i]] \in Lining /\ ~taken[r[i]]
    BY Zenon, <1>o
  <2>5. waiting'[queues'] = r /\ queues' = queues /\ taken' = taken
    BY Zenon, <1>w, <1>c, <1>e
  <2>6. \A y \in Queues : y # queues' => waiting'[y] = <<>>
    BY Zenon, <2>1, <2>5
  <2>7. \A d \in Callers : pc'[d] \in Lining /\ ~taken'[d] =>
           \E i \in 1..Len(waiting'[queues']) : waiting'[queues'][i] = d
    BY Zenon, <2>3, <2>5
  <2>8. /\ \A i, j \in 1..Len(waiting'[queues']) :
              waiting'[queues'][i] = waiting'[queues'][j] => i = j
        /\ \A i \in 1..Len(waiting'[queues']) :
              pc'[waiting'[queues'][i]] \in Lining /\ ~taken'[waiting'[queues'][i]]
    BY ZenonT(60), <2>2, <2>4, <2>5
  <2>. QED  BY Zenon, <2>6, <2>7, <2>8 DEF Line
<1>7. Batches'
  <2>1. \A l \in Callers : \A i \in 1..Len(batch[l]) : batch[l][i] \in Callers /\ batch[l][i] # c
    <3>1. \A l \in Callers : \A i \in 1..Len(batch[l]) : batch[l][i] \in Callers
      BY Zenon, <1>0, Elements
    <3>2. \A l \in Callers : \A i \in 1..Len(batch[l]) : taken[batch[l][i]]
      BY Zenon DEF IInv, Batches
    <3>. QED  BY Zenon, <3>1, <3>2
  <2>. QED  BY Zenon, <1>0, <1>a, <1>c, <2>1, BatchesKept DEF IInv
<1>8. Verdicts'
  BY Zenon, <1>a, <1>c DEF IInv, Verdicts
<1>9. OutcomeDecided'
  BY Zenon, <1>0, <1>a, <1>b, <1>c DEF IInv, OutcomeDecided
<1>10. Arrivals' /\ ArrivalOrder'
  <2>1. \A p \in before : p[1] \in Callers /\ p[2] \in Callers
    BY Zenon, <1>0, Pairs
  <2>2. \A p \in before : pc'[p[1]] # "idle" /\ pc'[p[2]] # "idle"
    BY ZenonT(60), <1>0, <1>a, <2>1 DEF IInv, Arrivals
  <2>3. ASSUME NEW i \in 1..Len(r), NEW j \in 1..Len(r), <<r[i], r[j]>> \in before
        PROVE  i < j
    <3>1. PICK n \in 1..Len(w), o \in 1..Len(w) :
             /\ r[i] = w[n] /\ n = IF i < k THEN i ELSE i + 1
             /\ r[j] = w[o] /\ o = IF j < k THEN j ELSE j + 1
      BY Zenon, <1>m
    <3>2. n < o
      BY Zenon, <1>0, <1>w, <2>3, <3>1 DEF IInv, Arrivals
    <3>. QED  BY <1>j, <1>l, <3>1, <3>2
  <2>4. Arrivals'
    BY Zenon, <1>w, <1>c, <1>e, <2>2, <2>3 DEF Arrivals
  <2>5. \A d \in Callers, y \in Queues : InLine(d, y)' => InLine(d, y)
    <3>1. \A d \in Callers : (\E i \in 1..Len(r) : r[i] = d) => \E n \in 1..Len(w) : w[n] = d
      BY Zenon, <1>m
    <3>2. ASSUME NEW d \in Callers, InLine(d, x)'
          PROVE  InLine(d, x)
      <4>1. waiting'[x] = r /\ waiting[x] = w
        BY Zenon, <1>w, <1>e
      <4>2. PICK i \in 1..Len(r) : r[i] = d
        BY Zenon, <3>2, <4>1 DEF InLine
      <4>3. PICK n \in 1..Len(w) : w[n] = d
        BY Zenon, <3>1, <4>2
      <4>. QED  BY Zenon, <4>1, <4>3 DEF InLine
    <3>3. \A d \in Callers, y \in Queues : y # x => (InLine(d, y)' => InLine(d, y))
      BY Zenon, <1>e DEF InLine
    <3>. QED  BY Zenon, <3>2, <3>3
  <2>6. ArrivalOrder'
    BY Zenon, <1>c, <2>1, <2>5 DEF IInv, ArrivalOrder
  <2>. QED  BY Zenon, <2>4, <2>6
<1>11. SessionAlone'
  <2>1. \A l \in Callers : Members(l)' = Members(l)
    BY Zenon, <1>c DEF Members
  <2>2. SessionAlone /\ kind' = kind
    BY Zenon, <1>c DEF IInv
  <2>3. \A l \in Callers : pc'[l] = "run" => pc[l] = "run"
    BY Zenon, <1>a
  <2>. QED  BY Zenon, <2>1, <2>2, <2>3, SessionAloneSame
<1>12. TypeOK' /\ Records' /\ Signals' /\ Leadership'
  <2>0. pc' \in [Callers -> PCs] /\ ret' \in [Callers -> Outcomes \cup {None, "ctx"}]
    BY Zenon, <1>0 DEF TypeOK, PCs, Cancel, OutcomeComing
  <2>t. TypeOK
    BY Zenon, <1>0
  <2>1. CASE leading[c]
    <3>1. Kick(x, r, FALSE)
      BY Zenon, <1>0, <1>w, <2>1 DEF Cancel, OutcomeComing, BusyAfter
    <3>2. KickedFree(x, r)
      BY ZenonT(60), <2>t, <1>r, <3>1, KickFree, Zenon
    <3>3. Told(c) /\ Leads(c)
      BY Zenon, <1>0, <2>1 DEF Told, Leads
    <3>4. \A d \in Callers : d # c => ~Leads(d) /\ ~Told(d)
      BY Zenon, <3>3 DEF IInv, Leadership, Leads
    <3>5. \A i \in 1..Len(r) : ~leading[r[i]] /\ lead[r[i]] = 0
      BY Zenon, <1>o, <3>4 DEF Told, Lining, IInv, Signals
    <3>6. r # <<>> => r[1] # c /\ lead'[r[1]] = 1 /\ leading'[r[1]] /\ ~taken[r[1]]
                      /\ r[1] \in Callers /\ pc'[r[1]] \in {"select", "cancel"}
      <4>1. r # <<>> => pc[r[1]] # "take" /\ r[1] # c
        BY Zenon, <1>h, <1>o, <3>5 DEF IInv, Signals
      <4>2. r # <<>> => r[1] \in Callers /\ leading'[r[1]] /\ lead'[r[1]] = lead[r[1]] + 1
        BY Zenon, <3>2 DEF KickedFree
      <4>3. r # <<>> => lead[r[1]] = 0 /\ ~taken[r[1]] /\ pc[r[1]] \in Lining
        BY ZenonT(60), <1>h, <1>o, <3>5
      <4>4. r # <<>> => lead'[r[1]] = 1
        BY <4>2, <4>3
      <4>5. r # <<>> => pc'[r[1]] = pc[r[1]]
        BY Zenon, <1>a, <4>1, <4>2
      <4>. QED  BY Zenon, <4>1, <4>2, <4>3, <4>4, <4>5 DEF Lining
    <3>7. \A d \in Callers : r = <<>> \/ d # r[1] => leading'[d] = leading[d] /\ lead'[d] = lead[d]
      BY Zenon, <3>2 DEF KickedFree
    <3>8. TypeOK'
      BY Zenon, <2>t, <1>c, <2>0, <3>2 DEF TypeOK, KickedFree
    <3>9. Records'
      <4>1. \A d \in Callers : pc'[d] = "idle" =>
               pc[d] = "idle" /\ leading'[d] = leading[d] /\ lead'[d] = lead[d]
        BY Zenon, <1>a, <3>6, <3>7
      <4>. QED  BY Zenon, <1>0, <1>a, <1>c, <4>1 DEF IInv, Records
    <3>10. Signals'
      <4> SUFFICES ASSUME NEW d \in Callers
                   PROVE  /\ lead'[d] \in {0, 1}
                          /\ lead'[d] = 1 => leading'[d] /\ ~taken[d]
                                             /\ pc'[d] \in {"select", "cancel", "leave"}
                          /\ pc'[d] = "take" => leading'[d] /\ ~taken[d]
        BY Zenon, <1>c DEF Signals
      <4>1. CASE r # <<>> /\ d = r[1]
        BY Zenon, <3>6, <4>1
      <4>2. CASE r = <<>> \/ d # r[1]
        <5>1. leading'[d] = leading[d] /\ lead'[d] = lead[d]
          BY Zenon, <3>7, <4>2
        <5>. QED  BY Zenon, <1>0, <1>a, <5>1 DEF IInv, Signals
      <4>. QED  BY Zenon, <4>1, <4>2
    <3>11. Leadership'
      <4>1. \A d \in Callers : r = <<>> \/ d # r[1] => ~Leads(d)' /\ ~Told(d)'
        BY Zenon, <1>a, <1>c, <3>4, <3>7 DEF Leads, Told
      <4>2. \A d \in Callers : r # <<>> /\ d = r[1] => Leads(d)'
        BY Zenon, <1>c, <3>6 DEF Leads, Told
      <4>3. \A d \in Callers : (Leads(d)' <=> r # <<>> /\ d = r[1])
                               /\ (Told(d)' => r # <<>> /\ d = r[1])
        BY Zenon, <4>1, <4>2
      <4>4. waiting'[queues'] = r /\ (busy'[queues'] <=> r # <<>>)
        BY Zenon, <1>w, <1>c, <3>2 DEF KickedFree
      <4>. QED  BY Zenon, <3>6, <4>3, <4>4 DEF Leadership
    <3>. QED  BY Zenon, <3>8, <3>9, <3>10, <3>11
  <2>2. CASE ~leading[c]
    <3>1. busy[x] = TRUE
      <4>1. w # <<>>
        BY <1>j
      <4>. QED  BY ZenonT(60), <1>0, <1>w, <4>1 DEF IInv, Leadership, TypeOK
    <3>2. Kick(x, r, TRUE)
      BY ZenonT(60), <1>0, <1>w, <2>2, <3>1 DEF Cancel, OutcomeComing, BusyAfter
    <3>3. KickedBusy(x, r)
      BY Zenon, <2>t, <1>r, <3>2, KickBusy, Zenon
    <3>4. lead' = lead /\ leading' = leading
      BY Zenon, <3>3 DEF KickedBusy
    <3>5. TypeOK'
      BY ZenonT(60), <2>t, <1>c, <2>0, <3>3 DEF TypeOK, KickedBusy
    <3>6. Records' /\ Signals'
      BY Zenon, <1>0, <1>a, <1>c, <3>4 DEF IInv, Records, Signals
    <3>7. \A d \in Callers : (Leads(d)' <=> Leads(d)) /\ (Told(d)' <=> Told(d))
      BY ZenonT(60), <1>0, <1>a, <1>c, <2>2, <3>4 DEF Leads, Told
    <3>8. \A d \in Callers : Told(d) => r # <<>> /\ r[1] = d
      <4> SUFFICES ASSUME NEW d \in Callers, Told(d)
                   PROVE  r # <<>> /\ r[1] = d
        BY Zenon
      <4>1. w[1] = d /\ d # c /\ 1 \in 1..Len(w)
        <5>1. w[1] = d
          BY Zenon, <1>w DEF IInv, Leadership
        <5>2. d # c
          BY Zenon, <2>2 DEF Told
        <5>3. 1 \in 1..Len(w)
          BY <1>l, <1>j
        <5>. QED  BY Zenon, <5>1, <5>2, <5>3
      <4>2. 1 \in 1..Len(r) /\ 1 < k
        BY <1>j, <1>l, <1>r, <4>1
      <4>. QED  BY <1>r, <4>1, <4>2
    <3>9. waiting'[queues'] = r /\ busy'[queues'] /\ busy[queues]
      BY Zenon, <1>w, <1>c, <3>1, <3>3 DEF KickedBusy
    <3>10. Leadership'
      BY Zenon, <1>0, <1>c, <3>7, <3>8, <3>9 DEF IInv, Leadership
    <3>. QED  BY Zenon, <3>5, <3>6, <3>10
  <2>. QED  BY Zenon, <2>1, <2>2
<1>. QED  BY ZenonT(60), <1>3, <1>4, <1>7, <1>8, <1>9, <1>10, <1>11, <1>12 DEF IInv

\* The context's case of enqueue's select.
LEMMA CancelIInv ==
  ASSUME IInv, NEW c \in Callers, Cancel(c)
  PROVE  IInv'
BY Zenon, CancelTakenIInv, CancelLeavesIInv

-----------------------------------------------------------------------------
(* The calls in flight, the steps together and the theorems.               *)


\* A call that joins (enqueue) is one more in flight.
LEMMA CountsIn ==
  ASSUME TypeOK, NEW c \in Callers, NEW x \in Queues, NEW k \in Kinds,
         NEW ended \in BOOLEAN, Enqueue(c, x, k, ended)
  PROVE  /\ Cardinality(InFlight') = Cardinality(InFlight) + 1
         /\ InFlight = {} => Cardinality(InFlight) = 0
<1>1. InFlight' = InFlight \cup {c} /\ c \notin InFlight
  BY Zenon DEF InFlight, Enqueue, TypeOK
<1>2. IsFiniteSet(InFlight)
  BY Zenon, CallersAssumption, FS_Subset DEF InFlight
<1>3. Cardinality(InFlight') = Cardinality(InFlight) + 1
  BY Zenon, <1>1, <1>2, FS_AddElement
<1>4. InFlight = {} => Cardinality(InFlight) = 0
  BY Zenon, FS_EmptySet
<1>. QED  BY Zenon, <1>3, <1>4

\* A call that leaves (leave) is one less in flight.
LEMMA CountsOut ==
  ASSUME TypeOK, NEW c \in Callers, Leave(c)
  PROVE  /\ Cardinality(InFlight) \in Nat
         /\ Cardinality(InFlight') = Cardinality(InFlight) - 1
         /\ InFlight' = {} <=> Cardinality(InFlight') = 0
<1>1. c \in InFlight /\ InFlight' = InFlight \ {c}
  BY Zenon DEF InFlight, Leave, TypeOK
<1>2. IsFiniteSet(InFlight)
  BY Zenon, CallersAssumption, FS_Subset DEF InFlight
<1>3. IsFiniteSet(InFlight') /\ Cardinality(InFlight') = Cardinality(InFlight) - 1
  BY Zenon, <1>1, <1>2, FS_RemoveElement
<1>4. Cardinality(InFlight) \in Nat
  BY Zenon, <1>2, FS_CardinalityType
<1>5. InFlight' = {} <=> Cardinality(InFlight') = 0
  BY Zenon, <1>3, FS_EmptySet
<1>. QED  BY Zenon, <1>3, <1>4, <1>5

\* enqueue's first section: a call joins the end of the line, and leads at
\* once only when the line was empty and nobody led.
LEMMA EnqueueIInv ==
  ASSUME IInv, NEW c \in Callers, NEW x \in Queues, NEW k \in Kinds,
         NEW ended \in BOOLEAN, Enqueue(c, x, k, ended)
  PROVE  IInv'
<1>0. /\ TypeOK /\ pc[c] = "idle" /\ x # NoQueue
      /\ lead[c] = 0 /\ ~done[c] /\ ~taken[c] /\ ~leading[c] /\ verdict[c] = None
      /\ queues = x \/ queues = NoQueue
  BY Zenon, QueuesAssumption DEF IInv, Records, Enqueue, Entered
<1>n. queues = NoQueue => \A d \in Callers : pc[d] = "idle"
  BY Zenon, QueuesAssumption DEF IInv, Records
<1>a. pc'[c] = "select" /\ \A d \in Callers : d # c => pc'[d] = pc[d]
  BY Zenon, <1>0 DEF Enqueue, TypeOK
<1>b. /\ held'[c] = x /\ \A d \in Callers : d # c => held'[d] = held[d]
      /\ \A d \in Callers : d # c => kind'[d] = kind[d]
  BY Zenon, <1>0 DEF Enqueue, TypeOK
<1>c. UNCHANGED <<done, err, taken, batch, verdict, ret>> /\ queues' = x
  BY Zenon DEF Enqueue
<1>w. PICK w \in Seq(Callers), v \in {Append(waiting[x], c)} : w = waiting[x] /\ v = Append(w, c)
  BY Zenon, <1>0 DEF TypeOK
<1>v. /\ v \in Seq(Callers) /\ Len(v) = Len(w) + 1 /\ Len(w) \in Nat
      /\ \A i \in 1..Len(w) : v[i] = w[i]
      /\ v[Len(w) + 1] = c /\ v # <<>>
  BY <1>w
<1>e0. queues = NoQueue => w = <<>>
  BY Zenon, <1>0, <1>w DEF IInv, Line
<1>g. \A i \in 1..Len(w) : w[i] \in Callers /\ pc[w[i]] \in Lining /\ ~taken[w[i]] /\ w[i] # c
  <2>1. CASE queues = NoQueue
    BY <1>e0, <2>1
  <2>2. CASE queues = x
    BY Zenon, <1>0, <1>w, <2>2, Elements DEF IInv, Line, Lining
  <2>. QED  BY Zenon, <1>0, <2>1, <2>2
<1>i. \A i, j \in 1..Len(w) : w[i] = w[j] => i = j
  <2>1. CASE queues = NoQueue
    BY <1>e0, <2>1
  <2>2. CASE queues = x
    BY Zenon, <1>0, <1>w, <2>2 DEF IInv, Line
  <2>. QED  BY Zenon, <1>0, <2>1, <2>2
<1>u. \A i \in 1..Len(v) :
         \/ i \in 1..Len(w) /\ v[i] = w[i]
         \/ i = Len(w) + 1 /\ v[i] = c
  <2> TAKE i \in 1..Len(v)
  <2>1. CASE i \in 1..Len(w)
    BY Zenon, <1>v, <2>1
  <2>2. CASE i = Len(w) + 1
    BY Zenon, <1>v, <2>2
  <2>. QED  BY <1>v, <2>1, <2>2
<1>e. waiting' \in [Queues -> Seq(Callers)] /\ waiting'[x] = v
      /\ \A y \in Queues : y # x => waiting'[y] = waiting[y]
  <2>1. waiting' = [waiting EXCEPT ![x] = v]
    <3>1. CASE queues = NoQueue
      <4>1. Append(<<>>, c) = <<c>>
        OBVIOUS
      <4>2. v = <<c>>
        BY Zenon, <1>e0, <1>w, <3>1, <4>1
      <4>. QED  BY Zenon, <3>1, <4>2 DEF Enqueue, Kick
    <3>2. CASE queues = x
      <4>1. queues # NoQueue
        BY Zenon, <1>0, <3>2
      <4>. QED  BY Zenon, <1>w, <4>1 DEF Enqueue, Kick, Joined
    <3>. QED  BY Zenon, <1>0, <3>1, <3>2
  <2>. QED  BY Zenon, <1>0, <1>v, <2>1 DEF TypeOK
<1>f. before' = before \cup {<<w[i], c>> : i \in 1..Len(w)}
  <2>1. CASE queues = NoQueue
    <3>1. {<<w[i], c>> : i \in 1..Len(w)} = {}
      BY <1>e0, <2>1
    <3>. QED  BY Zenon, <2>1, <3>1 DEF Enqueue
  <2>2. CASE queues = x
    <3>1. queues # NoQueue
      BY Zenon, <1>0, <2>2
    <3>. QED  BY Zenon, <1>w, <3>1 DEF Enqueue
  <2>. QED  BY Zenon, <1>0, <2>1, <2>2
<1>3. Counted'
  <2>1. c \in InFlight'
    BY Zenon, <1>a DEF InFlight
  <2>3. /\ Cardinality(InFlight') = Cardinality(InFlight) + 1
        /\ InFlight = {} => Cardinality(InFlight) = 0
    BY Zenon, <1>0, CountsIn
  <2>4. CASE queues = NoQueue
    <3>1. InFlight = {}
      BY Zenon, <1>n, <2>4 DEF InFlight
    <3>2. Cardinality(InFlight) = 0
      BY Zenon, <2>3, <3>1
    <3>3. calls'[x] = 1
      BY Zenon, <1>0, <2>4 DEF Enqueue, TypeOK
    <3>. QED  BY <1>c, <2>1, <2>3, <3>2, <3>3 DEF Counted
  <2>5. CASE queues = x
    <3>1. queues # NoQueue
      BY Zenon, <1>0, <2>5
    <3>2. calls'[x] = calls[x] + 1
      BY Zenon, <1>0, <3>1 DEF Enqueue, TypeOK
    <3>3. calls[x] = Cardinality(InFlight)
      BY Zenon, <2>5, <3>1 DEF IInv, Counted
    <3>. QED  BY Zenon, <1>c, <2>1, <2>3, <3>2, <3>3 DEF Counted
  <2>. QED  BY Zenon, <1>0, <2>4, <2>5
<1>4. Line'
  <2>1. \A y \in Queues : y # x => waiting'[y] = <<>>
    BY <1>0, <1>e, QueuesAssumption DEF IInv, Line
  <2>2. \A i, j \in 1..Len(v) : v[i] = v[j] => i = j
    BY Zenon, <1>u, <1>i, <1>g
  <2>3. ASSUME NEW d \in Callers, pc'[d] \in Lining /\ ~taken[d]
        PROVE  \E i \in 1..Len(v) : v[i] = d
    <3>1. CASE d = c
      BY <1>v, <3>1
    <3>2. CASE d # c
      <4>1. pc[d] \in Lining /\ queues = x
        BY ZenonT(60), <1>0, <1>a, <1>n, <2>3, <3>2 DEF Lining
      <4>2. PICK n \in 1..Len(w) : w[n] = d
        BY <1>0, <1>w, <2>3, <4>1 DEF IInv, Line
      <4>3. n \in 1..Len(v) /\ v[n] = d
        BY <1>v, <4>2
      <4>. QED  BY Zenon, <4>3
    <3>. QED  BY Zenon, <3>1, <3>2
  <2>4. \A i \in 1..Len(v) : pc'[v[i]] \in Lining /\ ~taken[v[i]]
    <3>1. pc'[c] \in Lining
      BY Zenon, <1>a DEF Lining
    <3> TAKE i \in 1..Len(v)
    <3>2. CASE i \in 1..Len(w) /\ v[i] = w[i]
      BY Zenon, <1>a, <1>g, <3>2
    <3>3. CASE v[i] = c
      BY Zenon, <1>0, <3>1, <3>3
    <3>. QED  BY Zenon, <1>u, <3>2, <3>3
  <2>5. waiting'[queues'] = v /\ queues' = x /\ taken' = taken
    BY Zenon, <1>c, <1>e
  <2>6. \A y \in Queues : y # queues' => waiting'[y] = <<>>
    BY Zenon, <2>1, <2>5
  <2>7. \A d \in Callers : pc'[d] \in Lining /\ ~taken'[d] =>
           \E i \in 1..Len(waiting'[queues']) : waiting'[queues'][i] = d
    BY Zenon, <2>3, <2>5
  <2>8. /\ \A i, j \in 1..Len(waiting'[queues']) :
              waiting'[queues'][i] = waiting'[queues'][j] => i = j
        /\ \A i \in 1..Len(waiting'[queues']) :
              pc'[waiting'[queues'][i]] \in Lining /\ ~taken'[waiting'[queues'][i]]
    BY ZenonT(60), <2>2, <2>4, <2>5
  <2>. QED  BY ZenonT(60), <2>6, <2>7, <2>8 DEF Line
<1>7. Batches'
  <2>1. \A l \in Callers : \A i \in 1..Len(batch[l]) : batch[l][i] \in Callers /\ batch[l][i] # c
    <3>1. \A l \in Callers : \A i \in 1..Len(batch[l]) : batch[l][i] \in Callers
      BY Zenon, <1>0, Elements
    <3>2. \A l \in Callers : \A i \in 1..Len(batch[l]) : taken[batch[l][i]]
      BY Zenon DEF IInv, Batches
    <3>. QED  BY Zenon, <1>0, <3>1, <3>2
  <2>2. Batches
    BY Zenon DEF IInv
  <2>. QED  BY Zenon, <1>0, <1>a, <1>c, <2>1, <2>2, BatchesKept
<1>8. Verdicts' /\ OutcomeDecided'
  BY Zenon, <1>a, <1>c DEF IInv, Verdicts, OutcomeDecided
<1>10. Arrivals' /\ ArrivalOrder'
  <2>1. \A p \in before : /\ p[1] \in Callers /\ p[2] \in Callers
                          /\ pc[p[1]] # "idle" /\ pc[p[2]] # "idle"
    BY Zenon, <1>0, Pairs DEF IInv, Arrivals
  <2>2. \A p \in before : p[1] # c /\ p[2] # c /\ pc'[p[1]] # "idle" /\ pc'[p[2]] # "idle"
    BY Zenon, <1>0, <1>a, <2>1
  <2>3. \A p \in before' : p \in before \/ \E i \in 1..Len(w) : p = <<w[i], c>>
    BY Zenon, <1>f
  <2>4. \A i \in 1..Len(w) : pc'[w[i]] # "idle"
    BY Zenon, <1>a, <1>g DEF Lining
  <2>5. \A p \in before' : pc'[p[1]] # "idle" /\ pc'[p[2]] # "idle"
    BY <1>a, <2>2, <2>3, <2>4
  <2>6. ASSUME NEW i \in 1..Len(v), NEW j \in 1..Len(v), <<v[i], v[j]>> \in before'
        PROVE  i < j
    <3>1. CASE <<v[i], v[j]>> \in before
      <4>1. v[i] # c /\ v[j] # c /\ queues = x
        BY Zenon, <1>0, <1>n, <2>1, <2>2, <3>1
      <4>2. i \in 1..Len(w) /\ j \in 1..Len(w) /\ <<w[i], w[j]>> \in before
        BY Zenon, <1>u, <3>1, <4>1
      <4>. QED  BY Zenon, <1>0, <1>w, <4>1, <4>2 DEF IInv, Arrivals
    <3>2. ASSUME NEW n \in 1..Len(w), <<v[i], v[j]>> = <<w[n], c>>
          PROVE  i < j
      <4>1. v[i] # c /\ v[j] = c
        BY Zenon, <1>g, <3>2
      <4>2. i \in 1..Len(w) /\ j = Len(w) + 1
        BY Zenon, <1>u, <1>g, <4>1
      <4>3. Len(w) \in Nat
        BY Zenon, <1>v
      <4>. QED  BY <4>2, <4>3
    <3>. QED  BY Zenon, <2>3, <2>6, <3>1, <3>2
  <2>7. Arrivals'
    BY Zenon, <1>c, <1>e, <2>5, <2>6 DEF Arrivals
  <2>8. \A d \in Callers, y \in Queues : d # c /\ InLine(d, y)' => InLine(d, y)
    <3>1. \A d \in Callers : d # c /\ (\E i \in 1..Len(v) : v[i] = d) => \E n \in 1..Len(w) : w[n] = d
      BY Zenon, <1>u
    <3>2. \A d \in Callers : d # c /\ InLine(d, x)' => InLine(d, x)
      BY ZenonT(60), <1>w, <1>e, <3>1 DEF InLine
    <3>3. \A d \in Callers, y \in Queues : y # x /\ InLine(d, y)' => InLine(d, y)
      BY Zenon, <1>e DEF InLine
    <3>. QED  BY Zenon, <3>2, <3>3
  <2>9. ArrivalOrder'
    <3> SUFFICES ASSUME NEW p \in before', taken[p[2]], NEW y \in Queues
                 PROVE  ~InLine(p[1], y)'
      BY Zenon, <1>c DEF ArrivalOrder
    <3>1. p \in before
      <4>1. p[2] # c
        BY Zenon, <1>0
      <4>2. \A i \in 1..Len(w) : <<w[i], c>>[2] = c
        BY Zenon
      <4>. QED  BY ZenonT(60), <2>3, <4>1, <4>2
    <3>. QED  BY Zenon, <2>1, <2>2, <2>8, <3>1 DEF IInv, ArrivalOrder
  <2>. QED  BY Zenon, <2>7, <2>9
<1>11. SessionAlone'
  <2>1. \A l \in Callers : Members(l)' = Members(l) /\ Members(l) \subseteq Callers \ {c}
    <3>1. TypeOK /\ Batches /\ ~taken[c] /\ batch' = batch
      BY Zenon, <1>0, <1>c DEF IInv, Records
    <3>2. \A l \in Callers : \A i \in 1..Len(batch[l]) : batch[l][i] \in Callers /\ batch[l][i] # c
      <4> SUFFICES ASSUME NEW l \in Callers, NEW i \in 1..Len(batch[l])
                   PROVE  batch[l][i] \in Callers /\ batch[l][i] # c
        BY Zenon
      <4>1. batch[l][i] \in Callers /\ taken[batch[l][i]]
        BY Zenon, <3>1, Elements DEF Batches
      <4>. QED  BY Zenon, <3>1, <4>1
    <3>. QED  BY Zenon, <3>1, <3>2 DEF Members
  <2>2. SessionAlone
    BY Zenon DEF IInv
  <2>. QED  BY Zenon, <1>a, <1>b, <2>1, <2>2, SessionAloneKept
<1>13. Records' /\ TypeOK' /\ Signals' /\ Leadership'
  <2>t. TypeOK
    BY Zenon, <1>0
  <2>1. \A d \in Callers : pc'[d] # "idle" => held'[d] = x
    BY Zenon, <1>0, <1>a, <1>b, <1>n DEF IInv, Records
  <2>2. /\ pc' \in [Callers -> PCs] /\ held' \in [Callers -> Queues \cup {NoQueue}]
        /\ kind' \in [Callers -> Kinds] /\ ctxDone' \in [Callers -> BOOLEAN]
        /\ calls' \in [Queues -> Int]
    <3>1. pc' \in [Callers -> PCs]
      BY Zenon, <2>t DEF Enqueue, TypeOK, PCs
    <3>2. held' \in [Callers -> Queues \cup {NoQueue}]
      BY Zenon, <2>t DEF Enqueue, TypeOK
    <3>3. kind' \in [Callers -> Kinds] /\ ctxDone' \in [Callers -> BOOLEAN]
      BY Zenon, <2>t DEF Enqueue, TypeOK
    <3>4. calls' \in [Queues -> Int]
      <4>1. calls \in [Queues -> Int]
        BY Zenon, <2>t DEF TypeOK
      <4>2. PICK n : calls' = [calls EXCEPT ![x] = n] /\ (n = 1 \/ n = calls[x] + 1)
        BY Zenon DEF Enqueue
      <4>3. n \in Int
        <5>1. calls[x] \in Int
          BY Zenon, <4>1
        <5>. QED  BY <4>2, <5>1
      <4>. QED  BY Zenon, <4>1, <4>2, <4>3
    <3>. QED  BY Zenon, <3>1, <3>2, <3>3, <3>4
  <2>3. before' \in SUBSET (Callers \X Callers)
    <3>1. before \subseteq Callers \X Callers
      BY Zenon, <2>t DEF TypeOK
    <3>2. \A i \in 1..Len(w) : <<w[i], c>> \in Callers \X Callers
      BY Zenon, <1>g
    <3>. QED  BY Zenon, <1>f, <3>1, <3>2
  <2>4. CASE queues = x /\ busy[x]
    <3>1. busy[x] = TRUE /\ queues # NoQueue
      BY Zenon, <1>0, <2>4 DEF TypeOK
    <3>2. Kick(x, v, TRUE)
      BY Zenon, <1>w, <3>1 DEF Enqueue, Joined
    <3>3. KickedBusy(x, v)
      BY Zenon, <2>t, <1>v, <3>2, KickBusy, Zenon
    <3>4. lead' = lead /\ leading' = leading /\ busy'[x]
      BY Zenon, <3>3 DEF KickedBusy
    <3>5. TypeOK'
      BY Zenon, <2>t, <1>c, <2>2, <2>3, <3>3 DEF TypeOK, KickedBusy
    <3>6. Records' /\ Signals'
      <4>1. Records /\ Signals
        BY Zenon DEF IInv
      <4>2. Records'
        BY Zenon, <1>a, <1>c, <2>1, <3>4, <4>1 DEF Records
      <4>3. Signals'
        BY Zenon, <1>0, <1>a, <1>c, <3>4, <4>1 DEF Signals
      <4>. QED  BY Zenon, <4>2, <4>3
    <3>7. \A d \in Callers : (Leads(d)' <=> Leads(d)) /\ (Told(d)' <=> Told(d))
      BY Zenon, <1>0, <1>a, <1>c, <3>4 DEF Leads, Told
    <3>8. \A d \in Callers : Told(d) => v[1] = d
      <4>1. \A d \in Callers : Told(d) => w # <<>> /\ w[1] = d
        BY Zenon, <1>w, <2>4 DEF IInv, Leadership
      <4>2. w # <<>> => 1 \in 1..Len(w)
        BY <1>v
      <4>. QED  BY Zenon, <1>v, <4>1, <4>2
    <3>9. Leadership'
      BY ZenonT(60), <1>c, <1>e, <1>v, <2>4, <3>1, <3>4, <3>7, <3>8 DEF IInv, Leadership
    <3>. QED  BY Zenon, <3>5, <3>6, <3>9
  <2>5. CASE queues = NoQueue \/ ~busy[x]
    <3>1. w = <<>> /\ \A d \in Callers : ~Leads(d) /\ ~Told(d)
      <4>1. CASE queues = NoQueue
        BY Zenon, <1>e0, <1>n, <4>1 DEF Leads, Told
      <4>2. CASE queues = x /\ ~busy[x]
        BY Zenon, <1>0, <1>w, <4>2 DEF IInv, Leadership, Leads
      <4>. QED  BY Zenon, <1>0, <2>5, <4>1, <4>2
    <3>2. v = <<c>> /\ v[1] = c
      BY <1>w, <3>1
    <3>3. Kick(x, v, FALSE)
      <4>1. CASE queues = NoQueue
        BY Zenon, <3>2, <4>1 DEF Enqueue
      <4>2. CASE queues = x /\ ~busy[x]
        <5>1. queues # NoQueue /\ busy[x] = FALSE
          BY Zenon, <1>0, <4>2 DEF TypeOK
        <5>. QED  BY Zenon, <1>w, <5>1 DEF Enqueue, Joined
      <4>. QED  BY Zenon, <1>0, <2>5, <4>1, <4>2
    <3>4. KickedFree(x, v)
      BY ZenonT(60), <2>t, <1>v, <3>3, KickFree, Zenon
    <3>5. /\ busy'[x] /\ leading'[c] /\ lead'[c] = 1
          /\ \A d \in Callers : d # c => leading'[d] = leading[d] /\ lead'[d] = lead[d]
      BY <1>0, <1>v, <3>2, <3>4 DEF KickedFree
    <3>6. TypeOK'
      BY ZenonT(60), <2>t, <1>c, <2>2, <2>3, <3>4 DEF TypeOK, KickedFree
    <3>7. Records' /\ Signals'
      BY <1>0, <1>a, <1>c, <2>1, <3>5 DEF IInv, Records, Signals
    <3>8. \A d \in Callers : (Leads(d)' <=> d = c) /\ (Told(d)' => d = c)
      BY ZenonT(60), <1>0, <1>a, <1>c, <3>1, <3>5 DEF Leads, Told
    <3>9. Leadership'
      BY <1>c, <1>e, <1>v, <3>2, <3>5, <3>8 DEF Leadership
    <3>. QED  BY Zenon, <3>6, <3>7, <3>9
  <2>. QED  BY Zenon, <1>0, <2>4, <2>5
<1>. QED  BY Zenon, <1>3, <1>4, <1>7, <1>8, <1>10, <1>11, <1>13 DEF IInv

\* leave: the call is in no line and no batch, so its record goes unseen;
\* the last call out leaves an empty line behind.
LEMMA LeaveIInv ==
  ASSUME IInv, NEW c \in Callers, Leave(c)
  PROVE  IInv'
<1>0. /\ TypeOK /\ pc[c] = "leave"
      /\ queues \in Queues /\ held[c] = queues /\ queues # NoQueue
  <2>1. TypeOK /\ pc[c] = "leave"
    BY Zenon DEF IInv, Leave
  <2>. QED  BY Zenon, <2>1, QueuesAssumption DEF IInv, Records
<1>t. TypeOK
  BY Zenon, <1>0
<1>a. pc'[c] = "idle" /\ \A d \in Callers : d # c => pc'[d] = pc[d]
  BY Zenon, <1>t DEF Leave, TypeOK
<1>b. /\ held'[c] = NoQueue /\ lead'[c] = 0 /\ ~done'[c] /\ ~taken'[c] /\ ~leading'[c]
      /\ verdict'[c] = None
  BY Zenon, <1>t DEF Leave, TypeOK
<1>c. \A d \in Callers : d # c =>
         /\ held'[d] = held[d] /\ lead'[d] = lead[d] /\ done'[d] = done[d]
         /\ err'[d] = err[d] /\ taken'[d] = taken[d] /\ leading'[d] = leading[d]
         /\ kind'[d] = kind[d] /\ verdict'[d] = verdict[d] /\ ret'[d] = ret[d]
  <2> TAKE d \in Callers
  <2> HAVE d # c
  <2>1. held'[d] = held[d] /\ lead'[d] = lead[d] /\ done'[d] = done[d]
    BY Zenon, <1>t DEF Leave, TypeOK
  <2>2. err'[d] = err[d] /\ taken'[d] = taken[d] /\ leading'[d] = leading[d]
    BY Zenon, <1>t DEF Leave, TypeOK
  <2>3. kind'[d] = kind[d] /\ verdict'[d] = verdict[d] /\ ret'[d] = ret[d]
    BY Zenon, <1>t DEF Leave, TypeOK
  <2>. QED  BY ZenonT(60), <2>1, <2>2, <2>3
<1>d. waiting' = waiting /\ busy' = busy /\ batch' = batch
  BY Zenon DEF Leave
<1>e. /\ c \in InFlight /\ InFlight' = InFlight \ {c}
      /\ calls[queues] = Cardinality(InFlight) /\ Cardinality(InFlight) \in Nat
      /\ Cardinality(InFlight') = Cardinality(InFlight) - 1
      /\ InFlight' = {} <=> Cardinality(InFlight') = 0
  <2>2. c \in InFlight /\ InFlight' = InFlight \ {c}
    BY Zenon, <1>0, <1>a DEF InFlight
  <2>3. calls[queues] = Cardinality(InFlight)
    BY Zenon, <1>0 DEF IInv, Counted
  <2>. QED  BY Zenon, <1>0, <2>2, <2>3, CountsOut
<1>f. \/ queues' = NoQueue /\ InFlight' = {}
      \/ queues' = queues /\ InFlight' # {}
  BY <1>0, <1>e DEF Leave, DropsQueue
<1>g. calls'[queues] = calls[queues] - 1
  BY Zenon, <1>0 DEF Leave, TypeOK
<1>h. \A i \in 1..Len(waiting[queues]) :
         /\ waiting[queues][i] \in Callers /\ waiting[queues][i] # c
         /\ pc'[waiting[queues][i]] \in Lining /\ ~taken'[waiting[queues][i]]
  <2>1. \A i \in 1..Len(waiting[queues]) : waiting[queues][i] \in Callers
    BY Zenon, <1>0, Elements
  <2>2. \A i \in 1..Len(waiting[queues]) :
           pc[waiting[queues][i]] \in Lining /\ ~taken[waiting[queues][i]]
    BY Zenon, <1>0 DEF IInv, Line
  <2>3. \A i \in 1..Len(waiting[queues]) : waiting[queues][i] # c
    BY Zenon, <1>0, <2>2 DEF Lining
  <2>. QED  BY Zenon, <1>a, <1>c, <2>1, <2>2, <2>3
<1>j. InFlight' = {} => waiting[queues] = <<>> /\ \A d \in Callers : pc'[d] = "idle"
  <2> HAVE InFlight' = {}
  <2>1. \A d \in Callers : pc'[d] = "idle"
    BY Zenon DEF InFlight
  <2>2. Len(waiting[queues]) = 0
    <3>1. Len(waiting[queues]) \in Nat
      BY <1>0 DEF TypeOK
    <3>2. 1 \notin 1..Len(waiting[queues])
      BY Zenon, <1>h, <2>1 DEF Lining
    <3>. QED  BY <3>1, <3>2
  <2>3. waiting[queues] = <<>>
    BY <1>0, <2>2 DEF TypeOK
  <2>. QED  BY Zenon, <2>1, <2>3
<1>k. \A d \in Callers : d # c => (Leads(d)' <=> Leads(d)) /\ (Told(d)' <=> Told(d))
  BY Zenon, <1>a, <1>c DEF Leads, Told
<1>l. ~Leads(c) /\ ~Leads(c)' /\ ~Told(c) /\ ~Told(c)'
  BY Zenon, <1>0, <1>a DEF Leads, Told
<1>m. \A l \in Callers : \A i \in 1..Len(batch[l]) : batch[l][i] \in Callers /\ batch[l][i] # c
  <2>1. batch[c] = <<>>
    BY Zenon, <1>0 DEF IInv, Batches
  <2>2. \A l \in Callers : \A i \in 1..Len(batch[l]) : batch[l][i] \in Callers
    BY Zenon, <1>0, Elements
  <2>3. \A l \in Callers : \A i \in 1..Len(batch[l]) :
           batch[l][i] = l \/ pc[batch[l][i]] \in {"select", "cancel", "await"}
    BY Zenon DEF IInv, Batches
  <2>. QED  BY <1>0, <2>1, <2>2, <2>3
<1>1. TypeOK'
  <2>1. queues' \in Queues \cup {NoQueue} /\ calls' \in [Queues -> Int]
    <3>1. calls' = [calls EXCEPT ![held[c]] = @ - 1]
      BY Zenon DEF Leave
    <3>. QED  BY <1>0, <1>f, <3>1 DEF TypeOK
  <2>2. pc' \in [Callers -> PCs] /\ held' \in [Callers -> Queues \cup {NoQueue}]
    BY Zenon, <1>t DEF Leave, TypeOK, PCs
  <2>3. kind' \in [Callers -> Kinds] /\ ctxDone' \in [Callers -> BOOLEAN] /\ lead' \in [Callers -> Nat]
    BY Zenon, <1>t DEF Leave, TypeOK, Kinds
  <2>4. done' \in [Callers -> BOOLEAN] /\ err' \in [Callers -> Outcomes]
    BY Zenon, <1>t DEF Leave, TypeOK, Outcomes
  <2>5. taken' \in [Callers -> BOOLEAN] /\ leading' \in [Callers -> BOOLEAN]
    BY Zenon, <1>t DEF Leave, TypeOK
  <2>6. verdict' \in [Callers -> Outcomes \cup {None}]
    BY Zenon, <1>t DEF Leave, TypeOK
  <2>7. ret' \in [Callers -> Outcomes \cup {None, "ctx"}]
    BY Zenon, <1>t DEF Leave, TypeOK
  <2>8. before' \in SUBSET (Callers \X Callers)
    BY Zenon, <1>t DEF Leave, TypeOK
  <2>. QED  BY ZenonT(60), <1>t, <1>d, <2>1, <2>2, <2>3, <2>4, <2>5, <2>6, <2>7, <2>8 DEF TypeOK
<1>2. Records'
  <2>1. \A d \in Callers : pc'[d] # "idle" => d # c /\ d \in InFlight'
    BY Zenon, <1>a DEF InFlight
  <2>2. \A d \in Callers : pc'[d] # "idle" => queues' = queues /\ held'[d] = queues
    BY Zenon, <1>a, <1>c, <1>f, <2>1 DEF IInv, Records
  <2>3. Records
    BY Zenon DEF IInv
  <2>. QED  BY Zenon, <1>0, <1>a, <1>b, <1>c, <2>2, <2>3 DEF Records
<1>3. Counted'
  BY Zenon, <1>e, <1>f, <1>g DEF Counted
<1>4. Line'
  <2>1. CASE queues' = NoQueue /\ InFlight' = {}
    <3>1. \A y \in Queues : waiting[y] = <<>>
      BY Zenon, <1>j, <2>1 DEF IInv, Line
    <3>2. \A d \in Callers : pc'[d] \notin Lining
      BY Zenon, <1>j, <2>1 DEF Lining
    <3>. QED  BY Zenon, <1>d, <2>1, <3>1, <3>2 DEF Line
  <2>2. CASE queues' = queues
    <3>1. \A d \in Callers : pc'[d] \in Lining /\ ~taken'[d] =>
             \E i \in 1..Len(waiting[queues]) : waiting[queues][i] = d
      <4>1. pc'[c] \notin Lining
        BY Zenon, <1>a DEF Lining
      <4>. QED  BY Zenon, <1>a, <1>c, <4>1 DEF IInv, Line
    <3>2. \A i, j \in 1..Len(waiting[queues]) : waiting[queues][i] = waiting[queues][j] => i = j
      BY Zenon, <1>0 DEF IInv, Line
    <3>3. \A y \in Queues : y # queues => waiting[y] = <<>>
      BY Zenon DEF IInv, Line
    <3>. QED  BY Zenon, <1>d, <1>h, <2>2, <3>1, <3>2, <3>3 DEF Line
  <2>. QED  BY Zenon, <1>f, <2>1, <2>2
<1>5. Signals'
  <2>1. Signals
    BY Zenon DEF IInv
  <2>. QED  BY <1>a, <1>b, <1>c, <2>1 DEF Signals
<1>6. Leadership'
  <2>1. CASE queues' = NoQueue /\ InFlight' = {}
    <3>1. \A d \in Callers : ~Leads(d)' /\ ~Told(d)'
      BY Zenon, <1>j, <2>1 DEF Leads, Told
    <3>. QED  BY Zenon, <2>1, <3>1 DEF Leadership
  <2>2. CASE queues' = queues
    <3>1. \A d \in Callers : (Leads(d)' <=> Leads(d)) /\ (Told(d)' <=> Told(d))
      BY Zenon, <1>k, <1>l
    <3>. QED  BY Zenon, <1>d, <2>2, <3>1 DEF IInv, Leadership
  <2>. QED  BY Zenon, <1>f, <2>1, <2>2
<1>7. Batches'
  <2>1. Batches
    BY Zenon DEF IInv
  <2>. QED  BY Zenon, <1>0, <1>a, <1>c, <1>d, <1>m, <2>1, BatchesKept
<1>8. Verdicts' /\ OutcomeDecided'
  <2>1. Verdicts /\ OutcomeDecided
    BY Zenon DEF IInv
  <2>2. Verdicts'
    BY Zenon, <1>a, <1>b, <1>c, <2>1 DEF Verdicts
  <2>3. OutcomeDecided'
    <3> SUFFICES ASSUME NEW d \in Callers, pc'[d] = "leave"
                 PROVE  IF ret'[d] = "ctx"
                        THEN ~taken'[d] /\ verdict'[d] = None
                        ELSE taken'[d] /\ ret'[d] = verdict'[d] /\ verdict'[d] # None
      BY Zenon DEF OutcomeDecided
    <3>1. d # c /\ pc[d] = "leave"
      BY Zenon, <1>a
    <3>2. taken'[d] = taken[d] /\ verdict'[d] = verdict[d] /\ ret'[d] = ret[d]
      BY Zenon, <1>c, <3>1
    <3>. QED  BY Zenon, <2>1, <3>1, <3>2 DEF OutcomeDecided
  <2>. QED  BY Zenon, <2>2, <2>3
<1>10. Arrivals' /\ ArrivalOrder'
  <2>1. \A p \in before' : p \in before /\ p[1] # c /\ p[2] # c
    BY Zenon DEF Leave
  <2>2. \A p \in before : p[1] \in Callers /\ p[2] \in Callers
    BY Zenon, <1>t, Pairs
  <2>3. \A p \in before' : pc'[p[1]] # "idle" /\ pc'[p[2]] # "idle"
    BY Zenon, <1>a, <2>1, <2>2 DEF IInv, Arrivals
  <2>4. \A i, j \in 1..Len(waiting[queues]) :
           <<waiting[queues][i], waiting[queues][j]>> \in before' => i < j
    BY Zenon, <1>0, <2>1 DEF IInv, Arrivals
  <2>5. Arrivals'
    BY Zenon, <1>d, <1>f, <2>3, <2>4 DEF Arrivals
  <2>6. \A d \in Callers, y \in Queues : InLine(d, y)' <=> InLine(d, y)
    BY Zenon, <1>d DEF InLine
  <2>7. ArrivalOrder'
    <3> SUFFICES ASSUME NEW p \in before', taken'[p[2]], NEW y \in Queues
                 PROVE  ~InLine(p[1], y)'
      BY Zenon DEF ArrivalOrder
    <3>1. p \in before /\ p[1] \in Callers /\ p[2] \in Callers /\ taken[p[2]]
      BY Zenon, <1>c, <2>1, <2>2
    <3>. QED  BY Zenon, <2>6, <3>1 DEF IInv, ArrivalOrder
  <2>. QED  BY Zenon, <2>5, <2>7
<1>11. SessionAlone'
  <2>1. \A l \in Callers : Members(l)' = Members(l) /\ Members(l) \subseteq Callers \ {c}
    BY Zenon, <1>d, <1>m DEF Members
  <2>2. SessionAlone
    BY Zenon DEF IInv
  <2>. QED  BY Zenon, <1>a, <1>c, <2>1, <2>2, SessionAloneKept
<1>. QED  BY ZenonT(60), <1>1, <1>2, <1>3, <1>4, <1>5, <1>6, <1>7, <1>8, <1>10, <1>11 DEF IInv

\* Every step of the queue keeps the invariant.
LEMMA NextIInv ==
  ASSUME IInv, [Next]_vars
  PROVE  IInv'
<1>1. CASE UNCHANGED vars
  <2>1. UNCHANGED <<queues, waiting, busy, calls, pc, held, kind, ctxDone, lead, done,
                    err, taken, leading, batch, verdict, ret, before>>
    BY Zenon, <1>1 DEF vars, queueVars, callVars
  <2>2. TypeOK' /\ Records' /\ Verdicts' /\ OutcomeDecided' /\ Signals'
    <3>1. TypeOK'
      BY Zenon, <2>1 DEF IInv, TypeOK
    <3>2. Records' /\ Signals'
      BY Zenon, <2>1 DEF IInv, Records, Signals
    <3>3. Verdicts' /\ OutcomeDecided'
      BY Zenon, <2>1 DEF IInv, Verdicts, OutcomeDecided
    <3>. QED  BY Zenon, <3>1, <3>2, <3>3
  <2>3. Counted' /\ Line' /\ Leadership' /\ Batches'
    <3>1. Counted' /\ Line'
      BY Zenon, <2>1 DEF IInv, Counted, InFlight, Line
    <3>2. Leadership'
      BY ZenonT(60), <2>1 DEF IInv, Leadership, Leads, Told
    <3>3. Batches'
      <4>1. Batches
        BY Zenon DEF IInv
      <4>. QED  BY <2>1, <4>1 DEF Batches
    <3>. QED  BY Zenon, <3>1, <3>2, <3>3
  <2>4. Arrivals' /\ ArrivalOrder' /\ SessionAlone'
    <3>1. Arrivals' /\ ArrivalOrder'
      BY Zenon, <2>1 DEF IInv, Arrivals, ArrivalOrder, InLine
    <3>2. \A l \in Callers : Members(l)' = Members(l)
      BY Zenon, <2>1 DEF Members
    <3>3. SessionAlone'
      <4>1. SessionAlone /\ kind' = kind /\ pc' = pc
        BY Zenon, <2>1 DEF IInv
      <4>. QED  BY Zenon, <3>2, <4>1, SessionAloneSame
    <3>. QED  BY Zenon, <3>1, <3>3
  <2>. QED  BY Zenon, <2>2, <2>3, <2>4 DEF IInv
<1>2. CASE Next
  <2>1. PICK c \in Callers :
          \/ \E x \in Queues, k \in Kinds, ended \in BOOLEAN : Enqueue(c, x, k, ended)
          \/ CtxEnds(c)
          \/ Step(c)
    BY Zenon, <1>2 DEF Next
  <2>2. CASE \E x \in Queues, k \in Kinds, ended \in BOOLEAN : Enqueue(c, x, k, ended)
    BY Zenon, <2>2, EnqueueIInv
  <2>3. CASE CtxEnds(c)
    BY Zenon, <2>3, CtxEndsIInv
  <2>4. CASE Step(c)
    BY Zenon, <2>4, SelectLeadIInv, SelectCtxIInv, ReadOutcomeIInv, CancelIInv, TakeIInv,
       DecideIInv, FinishIInv, ReleaseIInv, LeaveIInv DEF Step
  <2>. QED  BY Zenon, <2>1, <2>2, <2>3, <2>4
<1>. QED  BY Zenon, <1>1, <1>2

\* IInv holds in every reachable state of the queue.
THEOREM Invariance == Spec => []IInv
<1>1. Init => IInv
  BY Zenon, InitIInv
<1>2. IInv /\ [Next]_vars => IInv'
  BY Zenon, NextIInv
<1>. QED  BY <1>1, <1>2, PTL DEF Spec

\* The queue's state stays of its type: in particular a panicked run decides
\* an outcome, and no call is told None.
THEOREM TypeCorrect == Spec => []TypeOK
<1>1. IInv => TypeOK
  BY Zenon DEF IInv
<1>. QED  BY <1>1, Invariance, PTL

\* No two callers lead a batch of the branch at the same time (kick, lead).
THEOREM MutualExclusion == Spec => []OneLeader
<1>1. IInv => OneLeader
  <2> SUFFICES ASSUME IInv, NEW c \in Callers, NEW d \in Callers, AtWork(c), AtWork(d)
               PROVE  c = d
    BY Zenon DEF OneLeader
  <2>1. Leads(c) /\ Leads(d)
    BY Zenon DEF IInv, Signals, Leads, Told, AtWork
  <2>. QED  BY Zenon, <2>1 DEF IInv, Leadership
<1>. QED  BY <1>1, Invariance, PTL

\* While a call waits, a caller that has not left leads its queue, whatever
\* cancellations and panics came before (enqueue, lead).
THEOREM WakeupKept == Spec => []NoLostWakeup
<1>1. IInv => NoLostWakeup
  <2> SUFFICES ASSUME IInv, NEW x \in Queues, waiting[x] # <<>>, queues = x
               PROVE  busy[x] /\ \E c \in Callers : held[c] = x /\ Leads(c)
    BY Zenon DEF NoLostWakeup
  <2>1. x # NoQueue
    BY Zenon, QueuesAssumption
  <2>2. busy[x]
    BY Zenon, <2>1 DEF IInv, Leadership
  <2>3. PICK c \in Callers : Leads(c)
    BY Zenon, <2>1, <2>2 DEF IInv, Leadership
  <2>4. pc[c] # "idle"
    BY Zenon, <2>3 DEF Leads, Told
  <2>. QED  BY Zenon, <2>2, <2>3, <2>4 DEF IInv, Records
<1>. QED  BY <1>1, Invariance, PTL

\* A call that leads is at the head of the line and in its own batch (take).
THEOREM LeaderInBatch == Spec => []LeadsOwnBatch
<1>1. IInv => LeadsOwnBatch
  <2> SUFFICES ASSUME IInv, NEW c \in Callers
               PROVE  /\ pc[c] = "take" => waiting[held[c]] # <<>> /\ Head(waiting[held[c]]) = c
                      /\ pc[c] = "run" => c \in Members(c)
    BY Zenon DEF LeadsOwnBatch
  <2>1. CASE pc[c] = "take"
    <3>1. Told(c) /\ held[c] = queues /\ queues \in Queues
      BY Zenon, <2>1 DEF IInv, Signals, Told, Records
    <3>2. waiting[queues] # <<>> /\ waiting[queues][1] = c /\ waiting[queues] \in Seq(Callers)
      BY Zenon, <3>1 DEF IInv, Leadership, TypeOK
    <3>. QED  BY <2>1, <3>1, <3>2
  <2>2. CASE pc[c] = "run"
    BY <2>2 DEF IInv, Batches, Members
  <2>. QED  BY Zenon, <2>1, <2>2
<1>. QED  BY <1>1, Invariance, PTL

\* kick's send, made under qmu, never blocks on a full channel (kick).
THEOREM SendNeverBlocks == Spec => []LeadNeverBlocks
<1>1. IInv => LeadNeverBlocks
  <2> SUFFICES ASSUME IInv, NEW c \in Callers
               PROVE  lead[c] <= 1
    BY Zenon DEF LeadNeverBlocks
  <2>1. lead[c] \in {0, 1}
    BY ZenonT(60) DEF IInv, Signals
  <2>. QED  BY <2>1
<1>. QED  BY <1>1, Invariance, PTL

\* No done channel is closed twice (finish).
THEOREM ClosedOnce == Spec => []ToldOnce
<1>1. IInv => ToldOnce
  <2> SUFFICES ASSUME IInv, NEW l \in Callers, NEW i \in 1..Len(batch[l]),
                      NEW k \in Callers, NEW j \in 1..Len(batch[k])
               PROVE  ~done[batch[l][i]] /\ (batch[l][i] = batch[k][j] => l = k /\ i = j)
    <3>1. ASSUME IInv, NEW l \in Callers, NEW i \in 1..Len(batch[l])
          PROVE  ~done[batch[l][i]]
      BY Zenon, <3>1 DEF IInv, Batches
    <3>. QED  BY <3>1 DEF ToldOnce
  <2>1. batch[l] # <<>> /\ batch[k] # <<>>
    <3>1. \A n \in 1..Len(<<>>) : FALSE
      OBVIOUS
    <3>. QED  BY Zenon, <3>1
  <2>2. l = k
    BY Zenon, <2>1 DEF IInv, Batches, Leadership, Leads
  <2>. QED  BY <2>2 DEF IInv, Batches
<1>. QED  BY <1>1, Invariance, PTL

\* What enqueue returns was decided for that call, and the context's error
\* only says that nothing was (enqueue, lead).
THEOREM HonestReturn == Spec => []OutcomeDecided
<1>1. IInv => OutcomeDecided
  BY Zenon DEF IInv
<1>. QED  BY <1>1, Invariance, PTL

\* The calls in flight share one queue object, counted exactly (leave).
THEOREM QueueShared == Spec => []OneQueue
<1>1. IInv => OneQueue
  BY Zenon DEF IInv, OneQueue, Records, Counted, InFlight
<1>. QED  BY <1>1, Invariance, PTL

\* No call is taken before one that waited when it came (take).
THEOREM FirstComeFirstServed == Spec => []ArrivalOrder
<1>1. IInv => ArrivalOrder
  BY Zenon DEF IInv
<1>. QED  BY <1>1, Invariance, PTL

\* A session's commit or merge is never batched with another call (take).
THEOREM SessionRunsAlone == Spec => []SessionAlone
<1>1. IInv => SessionAlone
  BY Zenon DEF IInv
<1>. QED  BY <1>1, Invariance, PTL

=============================================================================
