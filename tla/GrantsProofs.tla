---------------------------- MODULE GrantsProofs ----------------------------
(***************************************************************************)
(* Proofs about Grants, for any principals, scopes, branches and calls.    *)
(***************************************************************************)
EXTENDS Grants, TLAPS

\* The parts of a resource from the m-th to the n-th (split's path).
LEMMA PartOf ==
  ASSUME NEW S, NEW s \in Seq(S), NEW m \in 1..Len(s) + 1, NEW n \in m - 1..Len(s)
  PROVE  /\ SubSeq(s, m, n) \in Seq(S)
         /\ Len(SubSeq(s, m, n)) = n - m + 1
         /\ \A i \in 1..n - m + 1 : SubSeq(s, m, n)[i] = s[m + i - 1]
OBVIOUS

\* A resource put together of its parts.
LEMMA Joined ==
  ASSUME NEW S, NEW s \in Seq(S), NEW u \in Seq(S)
  PROVE  /\ s \o u \in Seq(S) /\ Len(s \o u) = Len(s) + Len(u)
         /\ \A i \in 1..Len(s) : (s \o u)[i] = s[i]
         /\ \A i \in 1..Len(u) : (s \o u)[Len(s) + i] = u[i]
         /\ \A i \in 1..Len(s) + Len(u) :
               i \in 1..Len(s) \/ \E j \in 1..Len(u) : i = Len(s) + j
<1>1. Len(s) \in Nat /\ Len(u) \in Nat
  OBVIOUS
<1>2. ASSUME NEW i \in 1..Len(s) + Len(u), i \notin 1..Len(s)
      PROVE  i - Len(s) \in 1..Len(u) /\ i = Len(s) + (i - Len(s))
  BY <1>1, <1>2
<1>. QED  BY SMTT(30), <1>1, <1>2

\* Grants of one scope join, and part of them may be left.
LEMMA JoinGrants ==
  ASSUME NEW p, NEW s, NEW A, NEW B, checkGrant(p, s, A), checkGrant(p, s, B)
  PROVE  checkGrant(p, s, A \cup B)
BY Zenon DEF checkGrant

\* What is left of accepted permissions at a scope is still accepted.
LEMMA LeaveGrants ==
  ASSUME NEW p, NEW s, NEW A, NEW B, checkGrant(p, s, A), A \ B # {}
  PROVE  checkGrant(p, s, A \ B)
BY Zenon DEF checkGrant

\* The stored grants, and what makes them inductive: a map for each
\* principal, of scopes that grants are made at.
StoredInv ==
  /\ DOMAIN grants = Principals
  /\ \A p \in Principals : DOMAIN grants[p] \subseteq Scopes
  /\ TypeOK

\* A new table of grants is empty.
LEMMA InitStored == Init => StoredInv
BY DEF Init, StoredInv, TypeOK, NoScopes

\* Grant stores what checkGrant accepts, joined with what was held.
LEMMA GrantStored ==
  ASSUME NEW p \in Principals, NEW s \in Scopes, NEW perms, StoredInv, Grant(p, s, perms)
  PROVE  StoredInv'
<1>1. CASE ~checkGrant(p, s, perms)
  BY ZenonT(60), <1>1 DEF Grant, StoredInv, TypeOK, checkGrant, validate
<1>2. CASE checkGrant(p, s, perms)
  <2> DEFINE new == With(grants[p], s, Held(grants[p], s) \cup perms)
  <2>1. grants' = [grants EXCEPT ![p] = new] /\ protected' = protected
    BY <1>2 DEF Grant
  <2>2. DOMAIN new = DOMAIN grants[p] \cup {s}
    BY DEF With
  <2>3. \A x \in DOMAIN new : checkGrant(p, x, new[x])
    <3>1. \A x \in DOMAIN grants[p] : checkGrant(p, x, grants[p][x])
      BY DEF StoredInv, TypeOK
    <3>2. checkGrant(p, s, Held(grants[p], s) \cup perms)
      <4>1. CASE s \in DOMAIN grants[p]
        BY <1>2, <3>1, <4>1, JoinGrants DEF Held
      <4>2. CASE s \notin DOMAIN grants[p]
        <5>1. Held(grants[p], s) \cup perms = perms
          BY <4>2 DEF Held
        <5> QED  BY <1>2, <5>1
      <4> QED  BY <4>1, <4>2
    <3> QED  BY <3>1, <3>2, <2>2 DEF With
  <2> HIDE DEF new
  <2>4. \A q \in Principals : grants'[q] = IF q = p THEN new ELSE grants[q]
    BY <2>1 DEF StoredInv
  <2>5. ASSUME NEW q \in Principals, NEW x \in DOMAIN grants'[q]
        PROVE  checkGrant(q, x, grants'[q][x])
    BY <2>3, <2>4, <2>5 DEF StoredInv, TypeOK
  <2>6. DOMAIN grants' = Principals /\ protected' \subseteq Branches
    BY <2>1 DEF StoredInv, TypeOK
  <2>7. \A q \in Principals : DOMAIN grants'[q] \subseteq Scopes
    BY <2>2, <2>4 DEF StoredInv
  <2> QED  BY Zenon, <2>5, <2>6, <2>7 DEF StoredInv, TypeOK, checkGrant, validate
<1> QED  BY <1>1, <1>2

\* Revoke leaves a scope only with the permissions it still holds.
LEMMA RevokeStored ==
  ASSUME NEW p \in Principals, NEW s \in Scopes, NEW perms, StoredInv, Revoke(p, s, perms)
  PROVE  StoredInv'
<1>1. CASE ~checkGrant(p, s, perms)
  BY ZenonT(60), <1>1 DEF Revoke, StoredInv, TypeOK, checkGrant, validate
<1>2. CASE checkGrant(p, s, perms)
  <2> DEFINE left == Held(grants[p], s) \ perms
             new == IF left = {} THEN [x \in DOMAIN grants[p] \ {s} |-> grants[p][x]]
                    ELSE With(grants[p], s, left)
  <2>1. grants' = [grants EXCEPT ![p] = new] /\ protected' = protected
    BY <1>2 DEF Revoke
  <2>2. \A x \in DOMAIN grants[p] : checkGrant(p, x, grants[p][x])
    BY DEF StoredInv, TypeOK
  <2>3. \A x \in DOMAIN new : checkGrant(p, x, new[x])
    <3>1. CASE left = {}
      <4>1. new = [x \in DOMAIN grants[p] \ {s} |-> grants[p][x]]
        BY <3>1
      <4> HIDE DEF new
      <4> QED  BY <2>2, <4>1
    <3>2. CASE left # {}
      <4>1. s \in DOMAIN grants[p] /\ left = grants[p][s] \ perms
        BY <3>2 DEF Held
      <4>2. checkGrant(p, s, left)
        BY <2>2, <3>2, <4>1, LeaveGrants
      <4>3. new = [x \in DOMAIN grants[p] \cup {s} |-> IF x = s THEN left ELSE grants[p][x]]
        BY <3>2 DEF With
      <4> HIDE DEF new, left
      <4> QED  BY <2>2, <4>2, <4>3
    <3> QED  BY Zenon, <3>1, <3>2
  <2>a. DOMAIN new \subseteq DOMAIN grants[p] \cup {s}
    BY DEF With
  <2> HIDE DEF new
  <2>4. \A q \in Principals : grants'[q] = IF q = p THEN new ELSE grants[q]
    BY <2>1 DEF StoredInv
  <2>5. ASSUME NEW q \in Principals, NEW x \in DOMAIN grants'[q]
        PROVE  checkGrant(q, x, grants'[q][x])
    BY <2>3, <2>4, <2>5 DEF StoredInv, TypeOK
  <2>6. DOMAIN grants' = Principals /\ protected' \subseteq Branches
    BY <2>1 DEF StoredInv, TypeOK
  <2>7. \A q \in Principals : DOMAIN grants'[q] \subseteq Scopes
    BY <2>a, <2>4 DEF StoredInv
  <2> QED  BY <2>5, <2>6, <2>7 DEF StoredInv, TypeOK, checkGrant, validate
<1> QED  BY <1>1, <1>2

\* Every step keeps the stored grants valid.
LEMMA NextStored == StoredInv /\ [Next]_vars => StoredInv'
<1> SUFFICES ASSUME StoredInv, [Next]_vars PROVE StoredInv'
  OBVIOUS
<1>1. CASE \E p \in Principals, s \in Scopes, perms \in PermSets :
             Grant(p, s, perms) \/ Revoke(p, s, perms)
  BY <1>1, GrantStored, RevokeStored
<1>2. ASSUME NEW b \in Branches \cup {Unnamed, <<"a", "b">>}, Protect(b) \/ Unprotect(b)
      PROVE  StoredInv'
  <2>1. grants' = grants
    BY <1>2 DEF Protect, Unprotect
  <2>2. protected' \subseteq Branches
    <3>1. CASE Protect(b)
      <4>1. Len(<<"a", "b">>) > 1
        OBVIOUS
      <4> QED  BY <3>1, <4>1 DEF Protect, StoredInv, TypeOK
    <3>2. CASE Unprotect(b)
      BY <3>2 DEF Unprotect, StoredInv, TypeOK
    <3> QED  BY <1>2, <3>1, <3>2
  <2> QED  BY ZenonT(60), <2>1, <2>2 DEF StoredInv, TypeOK, checkGrant, validate
<1>3. CASE (\E qs \in Calls : Call(qs)) \/ Ask \/ UNCHANGED vars
  <2>1. grants' = grants /\ protected' = protected
    BY <1>3 DEF Call, Ask, vars
  <2> QED  BY ZenonT(60), <2>1 DEF StoredInv, TypeOK, checkGrant, validate
<1> QED  BY <1>1, <1>2, <1>3 DEF Next

\* What Grant, Revoke, Protect and Unprotect leave stored is always what
\* they accept, for any principals, scopes and permissions: no empty set of
\* permissions, no admin below the database, nothing but read and write on
\* an object, no protected branch without a name.
THEOREM GrantsStored == Spec => []TypeOK
<1>1. StoredInv => TypeOK
  BY DEF StoredInv
<1> QED  BY <1>1, InitStored, NextStored, PTL DEF Spec
-----------------------------------------------------------------------------

\* No moment of the call has allowed a barred question, this one included.
CallInv == AllowedDuringCall /\ \A q \in barred : ~Authorize(Caller, q)

\* A change of grants bars nothing that it allows.
LEMMA ChangesCall == ASSUME CallInv, Changes PROVE CallInv'
<1>1. CASE asks = <<>>
  BY <1>1 DEF Changes, CallInv, AllowedDuringCall
<1>2. CASE asks # <<>>
  <2>1. barred' = {q \in barred : ~Authorize(Caller, q)'} /\ asked' = asked
    BY <1>2 DEF Changes
  <2> QED  BY <2>1 DEF CallInv, AllowedDuringCall
<1> QED  BY <1>1, <1>2

\* Every step keeps barred the questions denied throughout the call.
LEMMA NextCall == CallInv /\ [Next]_vars => CallInv'
<1> SUFFICES ASSUME CallInv, [Next]_vars PROVE CallInv'
  OBVIOUS
<1>1. ASSUME NEW p, NEW s, NEW perms, Grant(p, s, perms) \/ Revoke(p, s, perms) PROVE CallInv'
  BY <1>1, ChangesCall DEF Grant, Revoke
<1>2. ASSUME NEW b, Protect(b) \/ Unprotect(b) PROVE CallInv'
  BY <1>2, ChangesCall DEF Protect, Unprotect
<1>3. ASSUME NEW qs, Call(qs) PROVE CallInv'
  BY <1>3 DEF Call, CallInv, AllowedDuringCall, Authorize
<1>4. CASE Ask
  <2>1. CASE Authorize(Caller, asks[1])
    BY <1>4, <2>1 DEF Ask, CallInv, AllowedDuringCall, Authorize
  <2>2. CASE ~Authorize(Caller, asks[1])
    BY <1>4, <2>2 DEF Ask, CallInv, AllowedDuringCall
  <2> QED  BY <2>1, <2>2
<1>5. CASE UNCHANGED vars
  BY <1>5 DEF vars, CallInv, AllowedDuringCall, Authorize
<1> QED  BY <1>1, <1>2, <1>3, <1>4, <1>5 DEF Next

\* A session's call is let through no question that was denied from its
\* first moment to its last, whatever changes of grants it runs among.
THEOREM CallsAllowed == Spec => []AllowedDuringCall
<1>1. Init => CallInv
  BY DEF Init, CallInv, AllowedDuringCall
<1>2. CallInv => AllowedDuringCall
  BY DEF CallInv
<1> QED  BY <1>1, <1>2, NextCall, PTL DEF Spec
-----------------------------------------------------------------------------

\* The parts of a resource; lines of them.
Parts == STRING \cup {"branch", "path"}

\* A sequence over a set is one over a larger set.
LEMMA MoreParts ==
  ASSUME NEW S, NEW T, S \subseteq T, NEW s \in Seq(S)
  PROVE  s \in Seq(T)
OBVIOUS

\* A resource of one part.
LEMMA OnePart ==
  ASSUME NEW S, NEW x \in S
  PROVE  <<x>> \in Seq(S) /\ Len(<<x>>) = 1 /\ <<x>>[1] = x
OBVIOUS

\* The rest of a resource of two parts is its second.
LEMMA TailOfTwo ==
  ASSUME NEW S, NEW r \in Seq(S), Len(r) = 2
  PROVE  Tail(r) \in Seq(S) /\ Len(Tail(r)) = 1 /\ Tail(r)[1] = r[2]
OBVIOUS

\* A branch's name is its one part.
LEMMA SamePart ==
  ASSUME NEW S, NEW b \in Seq(S), Len(b) = 1
  PROVE  b = <<b[1]>>
OBVIOUS

\* split, of a resource whose parts are known.
LEMMA SplitParts ==
  ASSUME NEW r
  PROVE  /\ (r # <<"repo">> /\ Len(r) > 1 /\ r[1] = "branch" /\ Tail(r) # Unnamed) =>
              split(r) = [kind |-> "branch", branch |-> Tail(r), path |-> Unnamed]
         /\ (r # <<"repo">> /\ Len(r) > 2 /\ r[1] = "path" /\ r[2] # "" /\ SubSeq(r, 3, Len(r)) # Unnamed) =>
              split(r) = [kind |-> "path", branch |-> <<r[2]>>, path |-> SubSeq(r, 3, Len(r))]
         /\ (r # <<"repo">> /\ Len(r) > 1 /\ r[1] = "tag" /\ Tail(r) # Unnamed) => split(r).kind = "tag"
         /\ (r # <<"repo">> /\ Tail(r) = Unnamed /\ r[1] # "path") => split(r).kind = ""
BY Zenon DEF split

\* A resource of two parts: its first, its rest, and that it is not the repository.
LEMMA TwoParts ==
  ASSUME NEW x, NEW y
  PROVE  Tail(<<x, y>>) = <<y>> /\ Len(<<x, y>>) > 1 /\ <<x, y>> # <<"repo">> /\ <<x, y>>[1] = x
OBVIOUS

\* split reads a branch's resource back.
LEMMA SplitBranch ==
  ASSUME NEW b \in Branches
  PROVE  split(<<"branch">> \o b) = [kind |-> "branch", branch |-> b, path |-> Unnamed]
<1> DEFINE r == <<"branch">> \o b
<1>1. b \in Seq(Parts) /\ Len(b) = 1 /\ b # Unnamed
  BY NamesAssumption, MoreParts DEF Parts
<1>2. <<"branch">> \in Seq(Parts) /\ Len(<<"branch">>) = 1 /\ <<"branch">>[1] = "branch"
  BY OnePart DEF Parts
<1>3. r \in Seq(Parts) /\ Len(r) = 2 /\ r[1] = "branch" /\ r[2] = b[1]
  <2>1. b \in Seq(Parts) /\ <<"branch">> \in Seq(Parts)
    BY <1>1, <1>2
  <2>2. /\ r \in Seq(Parts) /\ Len(r) = Len(<<"branch">>) + Len(b)
        /\ \A i \in 1 .. Len(<<"branch">>) : r[i] = <<"branch">>[i]
        /\ \A i \in 1 .. Len(b) : r[Len(<<"branch">>) + i] = b[i]
    BY <2>1, Joined
  <2> HIDE DEF r
  <2>3. Len(<<"branch">>) = 1 /\ Len(b) = 1 /\ 1 \in 1 .. 1
    BY <1>1, <1>2
  <2>4. Len(r) = 2 /\ r[1] = <<"branch">>[1] /\ r[2] = b[1]
    BY <2>2, <2>3
  <2> QED  BY Zenon, <1>2, <2>2, <2>4
<1> HIDE DEF r
<1>5. Tail(r) = b
  <2>1. Tail(r) \in Seq(Parts) /\ Len(Tail(r)) = 1 /\ Tail(r)[1] = r[2]
    BY <1>3, TailOfTwo
  <2>2. Tail(r) = <<r[2]>> /\ b = <<b[1]>>
    BY Zenon, <1>1, <2>1, SamePart
  <2> QED  BY <1>3, <2>2
<1>6. Len(<<"repo">>) = 1
  OBVIOUS
<1>7. r # <<"repo">>
  BY <1>3, <1>6
<1>8. split(r) = [kind |-> "branch", branch |-> Tail(r), path |-> Unnamed]
  <2>1. Len(r) > 1
    BY <1>3
  <2> QED  BY Zenon, <1>1, <1>3, <1>5, <1>7, <2>1, SplitParts
<1> QED  BY SMTT(30), <1>5, <1>8 DEF r

\* split reads a path's resource back, a path of several parts included.
LEMMA SplitPath ==
  ASSUME NEW b \in Branches, NEW p \in Paths
  PROVE  split(<<"path">> \o b \o p) = [kind |-> "path", branch |-> b, path |-> p]
<1> DEFINE head == <<"path">> \o b
           r == head \o p
           part == SubSeq(r, 3, Len(r))
<1>1. b \in Seq(Parts) /\ Len(b) = 1 /\ b # Unnamed
  BY NamesAssumption, MoreParts DEF Parts
<1>2. p \in Seq(Parts) /\ p # <<>> /\ p # Unnamed
  BY NamesAssumption, MoreParts DEF Parts
<1>3. Len(p) \in Nat /\ Len(p) > 0
  BY <1>2
<1>4. <<"path">> \in Seq(Parts) /\ Len(<<"path">>) = 1 /\ <<"path">>[1] = "path"
  BY OnePart DEF Parts
<1>5. head \in Seq(Parts) /\ Len(head) = 2 /\ head[1] = "path" /\ head[2] = b[1]
  BY <1>1, <1>4, Joined
<1> HIDE DEF head
<1>6. /\ r \in Seq(Parts) /\ Len(r) = 2 + Len(p) /\ r[1] = "path" /\ r[2] = b[1]
      /\ \A i \in 1 .. Len(p) : r[2 + i] = p[i]
  <2>1. /\ r \in Seq(Parts) /\ Len(r) = Len(head) + Len(p)
        /\ \A i \in 1 .. Len(head) : r[i] = head[i]
        /\ \A i \in 1 .. Len(p) : r[Len(head) + i] = p[i]
    <3>1. head \in Seq(Parts) /\ p \in Seq(Parts)
      BY <1>2, <1>5
    <3> QED  BY <3>1, Joined
  <2> HIDE DEF r
  <2> QED  BY <1>3, <1>5, <2>1
<1> HIDE DEF r
<1>7. part = p
  <2>1. part \in Seq(Parts) /\ Len(part) = Len(p) /\ \A i \in 1 .. Len(p) : part[i] = r[3 + i - 1]
    <3>1. 3 \in 1 .. Len(r) + 1 /\ Len(r) \in 2 .. Len(r) /\ Len(r) - 3 + 1 = Len(p)
      BY <1>3, <1>6
    <3> QED  BY <1>6, <3>1, PartOf
  <2>2. \A i \in 1 .. Len(p) : part[i] = p[i]
    BY <1>3, <1>6, <2>1
  <2> HIDE DEF part
  <2> QED  BY <1>2, <2>1, <2>2
<1> HIDE DEF part
<1>8. b = <<b[1]>>
  BY <1>1, SamePart
<1>9. b[1] # ""
  BY <1>1, <1>8, Zenon DEF Unnamed
<1>10. r # <<"repo">> /\ Len(r) > 2
  <2>1. Len(<<"repo">>) = 1
    OBVIOUS
  <2> QED  BY <1>3, <1>6, <2>1
<1>11. split(r) = [kind |-> "path", branch |-> <<r[2]>>, path |-> part]
  BY Zenon, <1>2, <1>6, <1>7, <1>9, <1>10, SplitParts DEF part
<1> QED  BY <1>6, <1>7, <1>8, <1>11 DEF r, head

\* split of the repository, a tag, and resources with an empty name or of no kind.
LEMMA SplitOther ==
  /\ split(<<"repo">>).kind = "repo"
  /\ split(<<"tag", "v">>).kind = "tag"
  /\ \A r \in {<<"tag", "">>, <<"path", "", "t">>, <<"branch", "">>, <<"other", "t">>} : split(r).kind = ""
<1>1. split(<<"repo">>).kind = "repo"
  BY Zenon DEF split
<1>2. split(<<"tag", "v">>).kind = "tag"
  <2>1. <<"v">> # Unnamed
    BY DEF Unnamed
  <2> QED  BY Zenon, <2>1, TwoParts, SplitParts
<1>3. split(<<"tag", "">>).kind = ""
  <2>1. Tail(<<"tag", "">>) = Unnamed /\ <<"tag", "">> # <<"repo">> /\ <<"tag", "">>[1] = "tag"
    BY Zenon, TwoParts DEF Unnamed
  <2> QED  BY Zenon, <2>1, SplitParts
<1>4. split(<<"path", "", "t">>).kind = ""
  BY Zenon DEF split, Unnamed
<1>5. split(<<"branch", "">>).kind = ""
  <2>1. Tail(<<"branch", "">>) = Unnamed /\ <<"branch", "">> # <<"repo">> /\ <<"branch", "">>[1] = "branch"
    BY Zenon, TwoParts DEF Unnamed
  <2> QED  BY Zenon, <2>1, SplitParts
<1>6. split(<<"other", "t">>).kind = ""
  BY Zenon DEF split, Unnamed
<1> QED  BY Zenon, <1>1, <1>2, <1>3, <1>4, <1>5, <1>6

Kinds == {"repo", "tag", "branch", "path", ""}

\* One question of a resource that splits into r, against the table.
LEMMA AllowsTable ==
  ASSUME NEW scopes, NEW shut, NEW action \in Actions, NEW resource,
         \A s \in DOMAIN scopes : s = [branch |-> s.branch, object |-> s.object],
         split(resource).kind \in Kinds
  PROVE  LET r == split(resource)
         IN  allows(scopes, shut, action, resource) <=>
               /\ \E s \in DOMAIN scopes : Asked(action) \in scopes[s] /\ Answers(s, action, r)
               /\ ~(r.kind = "branch" /\ action = "Write" /\ r.branch \in shut)
<1> DEFINE r == split(resource)
           holds(k) == \E s \in DOMAIN scopes : k \in scopes[s] /\ Answers(s, action, r)
           database(k) == has(scopes, Database, k)
           branch(k) == has(scopes, BranchScope(r.branch), k)
           object(k) == has(scopes, [branch |-> r.branch, object |-> r.path], k)
           table == /\ holds(Asked(action))
                    /\ ~(r.kind = "branch" /\ action = "Write" /\ r.branch \in shut)
<1>1. \A k : database(k) <=> \E s \in DOMAIN scopes : k \in scopes[s] /\ s = Database
  BY DEF has
<1>2. \A k : branch(k) <=> \E s \in DOMAIN scopes : k \in scopes[s] /\ s.branch = r.branch /\ s.object = Unnamed
  BY Zenon DEF has, BranchScope, Unnamed
<1>3. \A k : object(k) <=> \E s \in DOMAIN scopes : k \in scopes[s] /\ s.branch = r.branch /\ s.object = r.path
  BY DEF has
<1> HIDE DEF database, branch, object, r
<1> SUFFICES allows(scopes, shut, action, resource) <=> table
  BY DEF r
<1>4. CASE r.kind = "repo"
  BY <1>1, <1>2, <1>3, <1>4
     DEF allows, Asked, Answers, anywhere, onAnObject, Actions, r, database, branch, object
<1>5. CASE r.kind = "tag"
  BY <1>1, <1>2, <1>3, <1>5
     DEF allows, Asked, Answers, anywhere, onAnObject, Actions, r, database, branch, object
<1>6. CASE r.kind = "branch"
  BY <1>1, <1>2, <1>3, <1>6
     DEF allows, Asked, Answers, anywhere, onAnObject, Actions, r, database, branch, object
<1>7. CASE r.kind = "path"
  BY <1>1, <1>2, <1>3, <1>7
     DEF allows, Asked, Answers, anywhere, onAnObject, Actions, r, database, branch, object
<1>8. CASE r.kind = ""
  BY Zenon, <1>1, <1>2, <1>3, <1>8
     DEF allows, Asked, Answers, anywhere, onAnObject, Actions, r, database, branch, object
<1> QED  BY Zenon, <1>4, <1>5, <1>6, <1>7, <1>8 DEF Kinds, r

\* The kind of a split resource.
LEMMA KindField ==
  ASSUME NEW x, NEW k, NEW b, NEW p, x = [kind |-> k, branch |-> b, path |-> p]
  PROVE  x.kind = k
OBVIOUS

\* Every resource a question names is of one of the kinds.
LEMMA SplitKinds == \A resource \in Resources : split(resource).kind \in Kinds
<1>1. ASSUME NEW b \in Branches PROVE split(<<"branch">> \o b).kind = "branch"
  BY SplitBranch, KindField, Zenon
<1>2. ASSUME NEW b \in Branches, NEW p \in Paths PROVE split(<<"path">> \o b \o p).kind = "path"
  <2>1. split(<<"path">> \o b \o p) = [kind |-> "path", branch |-> b, path |-> p]
    BY SplitPath
  <2> HIDE DEF split
  <2> QED  BY <2>1, KindField
<1> DEFINE plain == {<<"repo">>, <<"tag", "v">>, <<"tag", "">>, <<"path", "", "t">>, <<"branch", "">>, <<"other", "t">>}
           branches == {<<"branch">> \o b : b \in Branches}
           paths == {<<"path">> \o b \o p : b \in Branches, p \in Paths}
<1>3. Resources = plain \cup branches \cup paths
  BY DEF Resources
<1>4. \A resource \in plain : split(resource).kind \in Kinds
  BY SplitOther, Zenon DEF Kinds
<1>5. \A resource \in branches : split(resource).kind \in Kinds
  BY <1>1, Zenon DEF Kinds
<1>6. ASSUME NEW resource \in paths PROVE split(resource).kind \in Kinds
  <2>1. PICK b \in Branches, p \in Paths : resource = <<"path">> \o b \o p
    BY SMTT(30)
  <2>2. split(<<"path">> \o b \o p).kind = "path"
    BY <1>2
  <2>3. split(resource).kind = "path"
    BY <2>1, <2>2
  <2> QED  BY <2>3 DEF Kinds
<1> HIDE DEF plain, branches, paths
<1> QED  BY <1>3, <1>4, <1>5, <1>6

\* Authorize answers every question as the table in the comment of Grants
\* does, in every state that grants, revocations and protections can reach,
\* for any principals, branches, paths and scopes.
THEOREM GrantsAsTabled == Spec => []GrantsTable
<1>1. StoredInv => GrantsTable
  <2> SUFFICES ASSUME StoredInv, NEW p \in Principals, NEW action \in Actions, NEW resource \in Resources
               PROVE  LET r == split(resource)
                      IN  Authorize(p, Q(action, resource)) <=>
                            /\ \E s \in DOMAIN grants[p] : Asked(action) \in grants[p][s] /\ Answers(s, action, r)
                            /\ ~(r.kind = "branch" /\ action = "Write" /\ r.branch \in protected)
    BY DEF GrantsTable
  <2>1. \A s \in DOMAIN grants[p] : s = [branch |-> s.branch, object |-> s.object]
    BY NamesAssumption DEF StoredInv
  <2>2. Authorize(p, Q(action, resource)) = allows(grants[p], protected, action, resource)
    BY DEF Authorize, Q
  <2> QED  BY Zenon, <2>1, <2>2, SplitKinds, AllowsTable
<1> QED  BY <1>1, InitStored, NextStored, PTL DEF Spec
=============================================================================
