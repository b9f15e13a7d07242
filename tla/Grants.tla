------------------------------- MODULE Grants -------------------------------
(***************************************************************************)
(* The engine's Authorizer (engine/grants.go): grants by principal and     *)
(* scope, protected branches, and the questions that a session's calls ask *)
(* one after the other while grants change.                                *)
(*                                                                         *)
(* A string is the sequence of its colon-separated parts: "path:b:p" is    *)
(* <<"path", b, p>> and "" is <<"">>.  A permSet is a set of permissions.  *)
(***************************************************************************)
EXTENDS Integers, Sequences, FiniteSets

CONSTANTS
    Principals,   \* the ids grants are made to, "" among them
    Scopes,       \* the scopes Grant and Revoke are called with
    PermSets,     \* the permissions they are called with
    Branches,     \* branch names the core asks about
    Paths,        \* object paths it asks about
    Caller,       \* the principal of the session that makes calls
    Calls,        \* the calls it makes, of those of Questions
    MaxGrants     \* bound: permissions stored at once

Permissions == {"read", "write", "commit", "merge", "branchadmin", "admin"}
Database == [branch |-> <<"">>, object |-> <<"">>]
BranchScope(b) == [branch |-> b, object |-> <<"">>]
Unnamed == <<"">>

\* A scope has two fields; a branch's name holds no colon; none is empty.
ASSUME NamesAssumption ==
    /\ \A s \in Scopes : s = [branch |-> s.branch, object |-> s.object]
    /\ \A b \in Branches : b \in Seq(STRING) /\ Len(b) = 1 /\ b # Unnamed
    /\ \A p \in Paths : p \in Seq(STRING) /\ p # <<>> /\ p # Unnamed

VARIABLES
    grants,       \* Grants.grants: by principal, a function from scopes to permSets
    protected,    \* Grants.protected
    asks,         \* the questions a session's call has still to ask
    barred,       \* ghost: its questions no moment of the call has allowed
    asked         \* ghost: all its questions, once it was let through

vars == <<grants, protected, asks, barred, asked>>

NoScopes == [s \in {} |-> {}]

Init ==
    /\ grants = [p \in Principals |-> NoScopes]
    /\ protected = {}
    /\ asks = <<>> /\ barred = {} /\ asked = {}

-----------------------------------------------------------------------------
(* Grants.Authorize.                                                       *)

\* split: the kind, branch and path of a resource; kind "" when it is none.
split(r) ==
    LET no == [kind |-> "", branch |-> Unnamed, path |-> Unnamed]
        rest == Tail(r)
    IN  CASE r = <<"repo">> -> [no EXCEPT !.kind = "repo"]
          [] Len(r) > 1 /\ rest # Unnamed /\ r[1] = "tag" -> [no EXCEPT !.kind = "tag"]
          [] Len(r) > 1 /\ rest # Unnamed /\ r[1] = "branch" ->
                [no EXCEPT !.kind = "branch", !.branch = rest]
          [] Len(r) > 2 /\ r[1] = "path" /\ r[2] # "" /\ SubSeq(r, 3, Len(r)) # Unnamed ->
                [kind |-> "path", branch |-> <<r[2]>>, path |-> SubSeq(r, 3, Len(r))]
          [] OTHER -> no

has(scopes, s, p) == s \in DOMAIN scopes /\ p \in scopes[s]
anywhere(scopes, p) == \E s \in DOMAIN scopes : p \in scopes[s]
\* onAnObject that forgets to look at the branch.
onAnObject_Fault(scopes, b, p) ==
    \E s \in DOMAIN scopes : s.object # Unnamed /\ p \in scopes[s]
onAnObject(scopes, b, p) ==
    \E s \in DOMAIN scopes : s.branch = b /\ s.object # Unnamed /\ p \in scopes[s]

\* allows: one question, answered from one principal's grants.
allows(scopes, shut, action, resource) ==
    LET r == split(resource)
        onBranch(p) == has(scopes, Database, p) \/ has(scopes, BranchScope(r.branch), p)
        onObject(p) == onBranch(p) \/ has(scopes, [branch |-> r.branch, object |-> r.path], p)
    IN  CASE r.kind \in {"repo", "tag"} /\ action = "Read" -> anywhere(scopes, "read")
          [] r.kind = "repo" /\ action = "Admin" -> has(scopes, Database, "admin")
          [] r.kind = "tag" /\ action = "Manage" -> has(scopes, Database, "branchadmin")
          [] r.kind = "branch" /\ action = "Read" ->
                onBranch("read") \/ onAnObject(scopes, r.branch, "read")
          [] r.kind = "branch" /\ action = "Write" ->
                r.branch \notin shut /\ (onBranch("write") \/ onAnObject(scopes, r.branch, "write"))
          [] r.kind = "branch" /\ action = "Commit" -> onBranch("commit")
          [] r.kind = "branch" /\ action = "Merge" -> onBranch("merge")
          [] r.kind = "branch" /\ action = "Manage" -> onBranch("branchadmin")
          [] r.kind = "path" /\ action = "Read" -> onObject("read")
          [] r.kind = "path" /\ action = "Write" -> onObject("write")
          [] OTHER -> FALSE

Authorize(p, q) == allows(grants[p], protected, q.action, q.resource)

-----------------------------------------------------------------------------
(* Changing the grants, and a session's calls.                             *)

\* Scope.validate and checkGrant.
validate(s) == ~(s.branch = Unnamed /\ s.object # Unnamed) /\ Len(s.branch) = 1
checkGrant(p, s, perms) ==
    /\ p # "" /\ perms # {} /\ validate(s)
    /\ s.object # Unnamed => perms \subseteq {"read", "write"}
    /\ s # Database => "admin" \notin perms

\* A change of grants leaves barred the questions that it does not allow.
Changes ==
    /\ barred' = IF asks = <<>> THEN {} ELSE {q \in barred : ~Authorize(Caller, q)'}
    /\ asked' = IF asks = <<>> THEN {} ELSE asked
    /\ UNCHANGED asks

Stored(g) ==
    UNION {UNION {{<<p, s, k>> : k \in g[p][s]} : s \in DOMAIN g[p]} : p \in Principals}

Held(scopes, s) == IF s \in DOMAIN scopes THEN scopes[s] ELSE {}
With(scopes, s, perms) == [x \in DOMAIN scopes \cup {s} |-> IF x = s THEN perms ELSE scopes[x]]

Grant(p, s, perms) ==
    /\ IF checkGrant(p, s, perms)
       THEN grants' = [grants EXCEPT ![p] = With(@, s, Held(@, s) \cup perms)]
       ELSE UNCHANGED grants
    /\ Cardinality(Stored(grants')) <= MaxGrants
    /\ UNCHANGED protected
    /\ Changes

Revoke(p, s, perms) ==
    LET left == Held(grants[p], s) \ perms
    IN  /\ IF checkGrant(p, s, perms)
           THEN grants' = [grants EXCEPT ![p] =
                   IF left = {} THEN [x \in DOMAIN @ \ {s} |-> @[x]] ELSE With(@, s, left)]
           ELSE UNCHANGED grants
        /\ UNCHANGED protected
        /\ Changes

Protect(b) ==
    /\ protected' = IF b = Unnamed \/ Len(b) > 1 THEN protected ELSE protected \cup {b}
    /\ UNCHANGED grants
    /\ Changes

Unprotect(b) ==
    /\ protected' = protected \ {b}
    /\ UNCHANGED grants
    /\ Changes

Q(action, resource) == [action |-> action, resource |-> resource]
OnBranch(action, b) == Q(action, <<"branch">> \o b)
OnPath(action, b, p) == Q(action, <<"path">> \o b \o p)

\* What the calls of a session on branch b ask: a transaction that changes
\* path p, a merge with its commit, a read of path p, an abort, a deletion,
\* and the branch list.
Questions ==
    UNION {{<<OnBranch("Read", b), OnBranch("Merge", b), OnBranch("Commit", b)>>,
            <<OnBranch("Merge", b)>>, <<OnBranch("Manage", b)>>, <<Q("Read", <<"repo">>)>>}
           : b \in Branches}
    \cup {<<OnBranch("Read", b), OnBranch("Write", b), OnPath("Write", b, p)>> : b \in Branches, p \in Paths}
    \cup {<<OnBranch("Read", b), OnPath("Read", b, p)>> : b \in Branches, p \in Paths}

\* A call begins: nothing it was allowed before counts.
Call(qs) ==
    /\ asks = <<>>
    /\ asks' = qs
    /\ barred' = {q \in {qs[i] : i \in 1..Len(qs)} : ~Authorize(Caller, q)}
    /\ asked' = {}
    /\ UNCHANGED <<grants, protected>>

\* A call that asks about the branch and takes its objects to be allowed.
Ask_Fault ==
    /\ asks # <<>>
    /\ IF Authorize(Caller, asks[1]) \/ asked # {}
       THEN asks' = Tail(asks) /\ asked' = asked \cup {asks[1]} /\ UNCHANGED barred
       ELSE asks' = <<>> /\ asked' = {} /\ barred' = {}
    /\ UNCHANGED <<grants, protected>>

\* auth.Check of the call's next question; a denial ends the call.
Ask ==
    /\ asks # <<>>
    /\ IF Authorize(Caller, asks[1])
       THEN asks' = Tail(asks) /\ asked' = asked \cup {asks[1]} /\ UNCHANGED barred
       ELSE asks' = <<>> /\ asked' = {} /\ barred' = {}
    /\ UNCHANGED <<grants, protected>>

Next ==
    \/ \E p \in Principals, s \in Scopes, perms \in PermSets :
          Grant(p, s, perms) \/ Revoke(p, s, perms)
    \/ \E b \in Branches \cup {Unnamed, <<"a", "b">>} : Protect(b) \/ Unprotect(b)
    \/ \E qs \in Calls : Call(qs)
    \/ Ask

Spec == Init /\ [][Next]_vars

-----------------------------------------------------------------------------

\* No grant is stored for an empty id, at a scope no question names, or as an
\* empty set of permissions (which Revoke removes with its scope).
TypeOK ==
    /\ \A p \in Principals : \A s \in DOMAIN grants[p] : checkGrant(p, s, grants[p][s])
    /\ protected \subseteq Branches

Actions == {"Read", "Write", "Manage", "Admin", "Commit", "Merge"}
Resources ==
    {<<"repo">>, <<"tag", "v">>, <<"tag", "">>, <<"path", "", "t">>, <<"branch", "">>, <<"other", "t">>}
    \cup {<<"branch">> \o b : b \in Branches} \cup {<<"path">> \o b \o p : b \in Branches, p \in Paths}

\* The permission the table in Grants's comment asks for.
Asked(action) ==
    CASE action = "Read" -> "read" [] action = "Write" -> "write" [] action = "Commit" -> "commit"
      [] action = "Merge" -> "merge" [] action = "Manage" -> "branchadmin" [] OTHER -> "admin"

\* The table in Grants's comment: at which scopes that permission answers.
Answers(s, action, r) ==
    LET here == s.branch = r.branch
    IN  \/ action = "Read" /\ r.kind \in {"repo", "tag"}
        \/ /\ s = Database
           /\ \/ r.kind = "branch" /\ action # "Admin"
              \/ r.kind = "path" /\ action \in {"Read", "Write"}
              \/ r.kind = "tag" /\ action = "Manage"
              \/ r.kind = "repo" /\ action = "Admin"
        \/ here /\ r.kind = "branch" /\ action # "Admin" /\ (s.object # Unnamed => action \in {"Read", "Write"})
        \/ here /\ r.kind = "path" /\ action \in {"Read", "Write"} /\ s.object \in {Unnamed, r.path}

\* Authorize answers every question as the table in Grants's comment does,
\* after any sequence of Grant, Revoke, Protect and Unprotect.
GrantsTable ==
    \A p \in Principals, action \in Actions, resource \in Resources :
       LET r == split(resource)
       IN  Authorize(p, Q(action, resource)) <=>
              /\ \E s \in DOMAIN grants[p] : Asked(action) \in grants[p][s] /\ Answers(s, action, r)
              /\ ~(r.kind = "branch" /\ action = "Write" /\ r.branch \in protected)

\* "A change takes effect on the next call a session makes": a call is let
\* through no question that was denied from its first moment to its last,
\* whatever was granted before it began.
AllowedDuringCall == asked \cap barred = {}

=============================================================================
