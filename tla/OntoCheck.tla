------------------------------ MODULE OntoCheck ------------------------------
(***************************************************************************)
(* Txn.onto against the commit rule, over every snapshot, every namespace  *)
(* of a transaction's own and every current working namespace: one step    *)
(* computes what onto makes of the three.                                  *)
(***************************************************************************)
EXTENDS TxnOnto, CommitRule

CONSTANTS Inputs,    \* the namespaces to try, a subset of Namespaces
          Pending    \* no result yet

ASSUME InputsAssumption == Inputs \subseteq Namespaces
ASSUME PendingAssumption == Pending \notin Namespaces \cup {Refused}

VARIABLES snapshot, mine, current, result

ontoVars == <<snapshot, mine, current, result>>

OntoInit ==
    /\ snapshot \in Inputs
    /\ mine \in Inputs
    /\ current \in Inputs
    /\ result = Pending

OntoNext ==
    /\ result = Pending
    /\ result' = Onto(snapshot, mine, current)
    /\ UNCHANGED <<snapshot, mine, current>>

OntoSpec == OntoInit /\ [][OntoNext]_ontoVars

\* onto makes a namespace, its counters within their width, or refuses.
OntoTypeOK ==
    /\ snapshot \in Namespaces
    /\ mine \in Namespaces
    /\ current \in Namespaces
    /\ result \in Namespaces \cup {Refused, Pending}

(***************************************************************************)
(* onto makes exactly what the rule says, by whichever of its three ways   *)
(* it goes: the transaction's writes applied to the working set, or        *)
(* ErrSerialization when one of them meets a change since the snapshot.    *)
(***************************************************************************)
OntoIsApplied == result # Pending => result = Applied(snapshot, mine, current)

(***************************************************************************)
(* Where rebase takes a change or refuses it, the merge it spares would    *)
(* have made the same namespace, or refused too (Txn.rebase's comment,     *)
(* DESIGN D22), whatever the order the paths are visited in.               *)
(***************************************************************************)
RebaseIsMerge ==
    current # snapshot /\ Rebase(snapshot, mine, current) # Declined
      => Rebase(snapshot, mine, current) = Merged(snapshot, mine, current)

(***************************************************************************)
(* A merge never decides between two writes of one item (Txn.writeWrite's  *)
(* comment): once the item rule lets a transaction through, an item both   *)
(* sides changed in place is a kv counter the transaction moved.           *)
(***************************************************************************)
MergeNeverDecides ==
    ~WriteWrite(snapshot, mine, current) =>
       \A p \in Paths : LET b == snapshot[p]
                            o == mine[p]
                            c == current[p]
                        IN InPlace(b, o) /\ InPlace(b, c) =>
                             \A i \in ChangedItems(b, o) \cap ChangedItems(b, c) :
                                b.model = "kv" /\ IsCounter(b.items[i]) /\ IsCounter(o.items[i])

=============================================================================
