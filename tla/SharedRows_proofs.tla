-------------------------- MODULE SharedRows_proofs --------------------------
(***************************************************************************)
(* Members, accounts and document jobs, the components that share rows,    *)
(* for every number of users, requests, events, deliveries, documents,     *)
(* workers and clean-ups.                                                  *)
(*                                                                         *)
(* Members: a request about to remove an owner has counted another one,    *)
(* and still has it unless it was overtaken.  Accounts: every claimed      *)
(* event is with one delivery at most, and what a delivery has read leaves *)
(* room for the login it is about to count.  Documents: a job has a status *)
(* only while its document has its row, and a clean-up holds expired       *)
(* documents only.                                                         *)
(***************************************************************************)
EXTENDS OrgMembership, UserAccounts, DocumentJobs, FiniteSetTheorems, TLAPS

-----------------------------------------------------------------------------
(* The members                                                             *)

LEMMA RoleNames == Roles = {"viewer", "member", "analyst", "admin", "owner"}
  BY DEF Roles, RoleRank

LEMMA MembershipTypeInit == MembershipInit => MembershipTypeOK
<1> SUFFICES ASSUME MembershipInit PROVE MembershipTypeOK
  OBVIOUS
<1>1. members \in [Users -> [status : {"none", "active", "removed"}, role : Roles]]
  BY RoleNames DEF MembershipInit
<1>2. request \in [Requests -> RequestType]
  BY DEF MembershipInit, RequestType
<1> QED
  BY <1>1, <1>2 DEF MembershipInit, MembershipTypeOK

\* What a request holds while it adds a member or changes a role, and while it removes.
Changes == [step : {"check", "insert", "load role", "set role"},
            auth : Roles, target : Users, role : Roles]
Removals == [step : {"load", "count", "remove"},
             auth : Roles, target : Users, role : Roles \cup {"none"}]

LEMMA RequestTypes == RequestType = {NoRequest} \cup Changes \cup Removals
  BY DEF RequestType, Changes, Removals

\* The step a request is at tells what it holds.
LEMMA HeldRequest ==
  ASSUME MembershipTypeOK, NEW r \in Requests
  PROVE  /\ request[r].step \in {"check", "insert", "load role", "set role"}
              => request[r] \in Changes
         /\ request[r].step \in {"load", "count", "remove"} => request[r] \in Removals
<1>1. request[r] \in {NoRequest} \cup Changes \cup Removals
  BY RequestTypes DEF MembershipTypeOK
<1>2. NoRequest.step = "idle"
  BY DEF NoRequest
<1>3. \A x \in Changes : x.step \in {"check", "insert", "load role", "set role"}
  BY DEF Changes
<1>4. \A x \in Removals : x.step \in {"load", "count", "remove"}
  BY DEF Removals
<1> QED
  BY <1>1, <1>2, <1>3, <1>4

LEMMA MovesTyped ==
  ASSUME MembershipTypeOK, NEW r \in Requests, NEW x \in RequestType,
         request' = [request EXCEPT ![r] = x]
  PROVE  request' \in [Requests -> RequestType]
  BY DEF MembershipTypeOK

LEMMA AuthenticateHolds ==
  ASSUME MembershipTypeOK, NEW r \in Requests, NEW actor \in Users, NEW target \in Users,
         Authenticate(r, actor, target)
  PROVE  \E x \in Changes \cup Removals :
            request' = [request EXCEPT ![r] = x] /\ x.step \notin {"count", "remove"}
<1>1. members[actor].role \in Roles /\ GrantedRoles \subseteq Roles
  BY MembershipAssumption DEF MembershipTypeOK
<1>2. CASE \E role \in GrantedRoles, step \in {"check", "load role"} :
              request' = [request EXCEPT ![r] =
                 [step |-> step, auth |-> members[actor].role,
                  target |-> target, role |-> role]]
  <2>1. PICK role \in GrantedRoles, step \in {"check", "load role"} :
              request' = [request EXCEPT ![r] =
                 [step |-> step, auth |-> members[actor].role,
                  target |-> target, role |-> role]]
    BY <1>2
  <2> DEFINE x == [step |-> step, auth |-> members[actor].role,
                   target |-> target, role |-> role]
  <2>2. x \in Changes /\ x.step \notin {"count", "remove"}
    BY <1>1 DEF Changes
  <2> QED
    BY <2>1, <2>2
<1>3. CASE request' = [request EXCEPT ![r] =
              [step |-> "load", auth |-> members[actor].role,
               target |-> target, role |-> "none"]]
  <2> DEFINE x == [step |-> "load", auth |-> members[actor].role,
                   target |-> target, role |-> "none"]
  <2>1. x \in Removals /\ x.step \notin {"count", "remove"}
    BY <1>1 DEF Removals
  <2> QED
    BY <1>3, <2>1
<1> QED
  BY <1>2, <1>3 DEF Authenticate

LEMMA AnswerTyped ==
  ASSUME MembershipTypeOK, NEW r \in Requests, Answer(r)
  PROVE  request' \in [Requests -> RequestType]
  BY RequestTypes, MovesTyped DEF Answer

LEMMA GoTyped ==
  ASSUME MembershipTypeOK, NEW r \in Requests, NEW s, Go(r, s),
         \/ request[r] \in Changes /\ s \in {"insert", "set role"}
         \/ request[r] \in Removals /\ s = "remove"
  PROVE  request' \in [Requests -> RequestType]
<1>1. [request[r] EXCEPT !.step = s] \in Changes \cup Removals
  BY DEF Changes, Removals
<1>2. request' = [request EXCEPT ![r] = [request[r] EXCEPT !.step = s]]
  BY DEF Go
<1> QED
  BY <1>1, <1>2, RequestTypes, MovesTyped

\* What a request holds once it has loaded the membership it is to remove.
LEMMA LoadedTarget ==
  ASSUME MembershipTypeOK, NEW r \in Requests, LoadTarget(r)
  PROVE  \/ request'[r] = NoRequest
         \/ /\ request'[r].target = request[r].target
            /\ request'[r].role = members[request[r].target].role
            /\ request'[r].step = IF members[request[r].target].role = "owner"
                                  THEN "count" ELSE "remove"
<1> DEFINE role == members[request[r].target].role
           step == IF role = "owner" THEN "count" ELSE "remove"
<1>1. request[r] \in Removals /\ request = [q \in Requests |-> request[q]]
  BY HeldRequest DEF LoadTarget, At, MembershipTypeOK
<1>2. CASE Answer(r)
  BY <1>1, <1>2 DEF Answer
<1>3. CASE ~ Answer(r)
  <2>1. request' = [request EXCEPT ![r].role = role, ![r].step = step]
    BY <1>3 DEF LoadTarget
  <2>2. request'[r] = [request[r] EXCEPT !.role = role, !.step = step]
    BY <1>1, <2>1
  <2> QED
    BY <1>1, <2>2 DEF Removals
<1> QED
  BY <1>2, <1>3

LEMMA MembershipTypeNext ==
  MembershipTypeOK /\ [MembershipNext]_membershipVars => MembershipTypeOK'
<1> SUFFICES ASSUME MembershipTypeOK, [MembershipNext]_membershipVars PROVE MembershipTypeOK'
  OBVIOUS
<1>a. members \in [Users -> [status : {"none", "active", "removed"}, role : Roles]]
  BY DEF MembershipTypeOK
<1> USE DEF At
<1>1. CASE UNCHANGED membershipVars
  BY <1>1 DEF membershipVars, MembershipTypeOK
<1>2. ASSUME NEW r \in Requests, NEW actor \in Users, NEW target \in Users,
             Authenticate(r, actor, target)
      PROVE  MembershipTypeOK'
  <2>1. request' \in [Requests -> RequestType]
    BY <1>2, AuthenticateHolds, RequestTypes, MovesTyped
  <2> QED
    BY <1>2, <2>1 DEF Authenticate, MembershipTypeOK
<1>3. ASSUME NEW r \in Requests, CheckNewMember(r) PROVE MembershipTypeOK'
  <2>1. request' \in [Requests -> RequestType]
    BY <1>3, HeldRequest, AnswerTyped, GoTyped DEF CheckNewMember
  <2> QED
    BY <1>3, <2>1 DEF CheckNewMember, MembershipTypeOK
<1>4. ASSUME NEW r \in Requests, InsertMember(r) PROVE MembershipTypeOK'
  <2>1. request' \in [Requests -> RequestType]
    BY <1>4, AnswerTyped DEF InsertMember
  <2>2. request[r] \in Changes
    BY <1>4, HeldRequest DEF InsertMember
  <2>3. members' \in [Users -> [status : {"none", "active", "removed"}, role : Roles]]
    BY <1>a, <1>4, <2>2 DEF InsertMember, Changes
  <2> QED
    BY <1>4, <2>1, <2>3 DEF InsertMember, MembershipTypeOK
<1>5. ASSUME NEW r \in Requests, LoadForRole(r) PROVE MembershipTypeOK'
  <2>1. request' \in [Requests -> RequestType]
    BY <1>5, HeldRequest, AnswerTyped, GoTyped DEF LoadForRole
  <2> QED
    BY <1>5, <2>1 DEF LoadForRole, MembershipTypeOK
<1>6. ASSUME NEW r \in Requests, SetRole(r) PROVE MembershipTypeOK'
  <2>1. request' \in [Requests -> RequestType]
    BY <1>6, AnswerTyped DEF SetRole
  <2>2. request[r] \in Changes
    BY <1>6, HeldRequest DEF SetRole
  <2>3. members' \in [Users -> [status : {"none", "active", "removed"}, role : Roles]]
    BY <1>a, <1>6, <2>2 DEF SetRole, Changes
  <2>4. demoted' \in BOOLEAN /\ raced' \in BOOLEAN /\ overtaken' \subseteq Requests
    BY <1>6 DEF SetRole, Overtake, MembershipTypeOK
  <2> QED
    BY <2>1, <2>3, <2>4 DEF MembershipTypeOK
<1>7. ASSUME NEW r \in Requests, LoadTarget(r) PROVE MembershipTypeOK'
  <2>1. request[r] \in Removals
    BY <1>7, HeldRequest DEF LoadTarget
  <2>2. ASSUME NEW s \in {"count", "remove"}
        PROVE  [request[r] EXCEPT !.role = members[request[r].target].role, !.step = s]
                  \in Removals
    BY <1>a, <2>1 DEF Removals
  <2>3. \/ Answer(r)
        \/ \E s \in {"count", "remove"} :
              request' = [request EXCEPT ![r] =
                 [request[r] EXCEPT !.role = members[request[r].target].role, !.step = s]]
    BY <1>7 DEF LoadTarget, MembershipTypeOK
  <2>4. request' \in [Requests -> RequestType]
    BY <2>2, <2>3, RequestTypes, MovesTyped, AnswerTyped
  <2> QED
    BY <1>7, <2>4 DEF LoadTarget, MembershipTypeOK
<1>8. ASSUME NEW r \in Requests, CountOwners(r) PROVE MembershipTypeOK'
  <2>1. request' \in [Requests -> RequestType]
    BY <1>8, HeldRequest, AnswerTyped, GoTyped DEF CountOwners
  <2> QED
    BY <1>8, <2>1 DEF CountOwners, MembershipTypeOK
<1>9. ASSUME NEW r \in Requests, RemoveMember(r) PROVE MembershipTypeOK'
  <2>1. request' \in [Requests -> RequestType]
    BY <1>9, AnswerTyped DEF RemoveMember
  <2>2. members' \in [Users -> [status : {"none", "active", "removed"}, role : Roles]]
    BY <1>a, <1>9 DEF RemoveMember
  <2>3. demoted' \in BOOLEAN /\ raced' \in BOOLEAN /\ overtaken' \subseteq Requests
    BY <1>9 DEF RemoveMember, Overtake, MembershipTypeOK
  <2> QED
    BY <2>1, <2>2, <2>3 DEF MembershipTypeOK
<1>10. ASSUME NEW r \in Requests, AbandonRequest(r) PROVE MembershipTypeOK'
  <2>1. request' \in [Requests -> RequestType]
    BY <1>10, AnswerTyped DEF AbandonRequest
  <2> QED
    BY <1>10, <2>1 DEF AbandonRequest, MembershipTypeOK
<1> QED
  BY <1>1, <1>2, <1>3, <1>4, <1>5, <1>6, <1>7, <1>8, <1>9, <1>10 DEF MembershipNext

\* The members' state has its types in every behaviour.
THEOREM MembershipTypeCorrect == MembershipSpec => []MembershipTypeOK
  BY MembershipTypeInit, MembershipTypeNext, PTL DEF MembershipSpec

-----------------------------------------------------------------------------

\* A removed member's row is only ever written by a change of its role.
LEMMA RemovedStays ==
  MembershipTypeOK /\ [MembershipNext]_membershipVars =>
    [\A u \in Users : members[u].status = "removed" => members'[u].status = "removed"]_members
<1> SUFFICES ASSUME MembershipTypeOK, [MembershipNext]_membershipVars,
                    NEW u \in Users, members[u].status = "removed"
             PROVE  members'[u].status = "removed" \/ members' = members
  BY Zenon
<1> USE DEF MembershipTypeOK
<1>1. ASSUME NEW r \in Requests, InsertMember(r) PROVE members'[u].status = "removed"
  BY <1>1 DEF InsertMember, RequestType, At
<1>2. ASSUME NEW r \in Requests, SetRole(r) PROVE members'[u].status = "removed"
  BY <1>2 DEF SetRole, RequestType, At
<1>3. ASSUME NEW r \in Requests, RemoveMember(r) PROVE members'[u].status = "removed"
  BY <1>3 DEF RemoveMember, RequestType, At
<1> QED
  BY <1>1, <1>2, <1>3
     DEF MembershipNext, membershipVars, Authenticate, CheckNewMember, LoadForRole,
         LoadTarget, CountOwners, AbandonRequest

\* A removed member never comes back, however many requests there are.
THEOREM RemovalIsFinalCorrect == MembershipSpec => RemovalIsFinal
  BY MembershipTypeCorrect, RemovedStays, PTL DEF MembershipSpec, RemovalIsFinal

-----------------------------------------------------------------------------

\* A request about to remove an owner that nobody has overtaken leaves another one.
AnotherOwner(r) ==
    (At(r, "remove") /\ request[r].role = "owner" /\ r \notin overtaken) =>
       \E u \in Owners : u # request[r].target

OwnersInv ==
    MembershipTypeOK
    /\ (~ (raced \/ demoted) => Owners # {} /\ \A r \in Requests : AnotherOwner(r))

\* More than one owner are an owner besides any given one.
LEMMA MoreThanOne ==
  ASSUME MembershipTypeOK, Cardinality(Owners) > 1, NEW t
  PROVE  \E u \in Owners : u # t
<1> SUFFICES ASSUME Owners \subseteq {t} PROVE FALSE
  OBVIOUS
<1>1. IsFiniteSet({t}) /\ Cardinality({t}) = 1
  BY FS_Singleton
<1>2. Cardinality(Owners) <= Cardinality({t})
  BY <1>1, FS_Subset
<1>3. Cardinality(Owners) \in Nat
  BY <1>1, FS_Subset, FS_CardinalityType
<1> QED
  BY <1>1, <1>2, <1>3

\* A step that touches neither rows nor histories keeps the invariant if the request
\* it moves does not come to remove an owner.
LEMMA OnlyMoves ==
  ASSUME OwnersInv, UNCHANGED <<members, raced, demoted>>, NEW r \in Requests,
         \A q \in Requests \ {r} : request'[q] = request[q],
         overtaken \subseteq overtaken' \cup {r},
         AnotherOwner(r)' \/ ~ At(r, "remove")'
  PROVE  ~ (raced \/ demoted)' => (Owners # {} /\ \A q \in Requests : AnotherOwner(q))'
<1> SUFFICES ASSUME ~ (raced \/ demoted)'
             PROVE  (Owners # {} /\ \A q \in Requests : AnotherOwner(q))'
  OBVIOUS
<1>1. Owners' = Owners
  BY DEF Owners, Active
<1>2. Owners' # {}
  BY <1>1 DEF OwnersInv
<1>3. ASSUME NEW q \in Requests PROVE AnotherOwner(q)'
  <2>1. CASE q = r
    BY <2>1 DEF AnotherOwner
  <2>2. CASE q # r
    BY <1>1, <2>2 DEF OwnersInv, AnotherOwner, At
  <2> QED
    BY <2>1, <2>2
<1> QED
  BY <1>2, <1>3

LEMMA OwnersInvNext == OwnersInv /\ [MembershipNext]_membershipVars => OwnersInv'
<1> SUFFICES ASSUME OwnersInv, [MembershipNext]_membershipVars, ~ (raced \/ demoted)'
             PROVE  (Owners # {} /\ \A r \in Requests : AnotherOwner(r))'
  BY MembershipTypeNext DEF OwnersInv
<1> DEFINE Goal == Owners # {} /\ \A r \in Requests : AnotherOwner(r)
<1>a. MembershipTypeOK
  BY DEF OwnersInv
<1>b. request = [q \in Requests |-> request[q]]
  BY <1>a DEF MembershipTypeOK
<1>1. CASE UNCHANGED membershipVars
  BY <1>1 DEF membershipVars, OwnersInv, Owners, Active, AnotherOwner, At
<1>2. ASSUME NEW r \in Requests, NEW actor \in Users, NEW target \in Users,
             Authenticate(r, actor, target)
      PROVE  Goal'
  <2>1. request'[r].step # "remove"
    BY <1>2, <1>a, <1>b, AuthenticateHolds
  <2>2. \A q \in Requests \ {r} : request'[q] = request[q]
    BY <1>2, <1>b DEF Authenticate
  <2> QED
    BY <1>2, <2>1, <2>2, OnlyMoves DEF Authenticate, At
<1>3. ASSUME NEW r \in Requests, CheckNewMember(r) \/ LoadForRole(r) \/ AbandonRequest(r)
      PROVE  Goal'
  <2>1. request'[r].step \in {"idle", "insert", "set role"}
    <3>1. CASE Answer(r)
      BY <1>b, <3>1 DEF Answer, NoRequest
    <3>2. CASE ~ Answer(r)
      <4>1. /\ request[r].step \in {"check", "load role"}
            /\ \E s \in {"insert", "set role"} : Go(r, s)
        BY <1>3, <3>2 DEF CheckNewMember, LoadForRole, AbandonRequest, At
      <4>2. request[r] \in Changes
        BY <1>a, <4>1, HeldRequest
      <4> QED
        BY <1>b, <4>1, <4>2 DEF Go, Changes
    <3> QED
      BY <3>1, <3>2
  <2>3. \A q \in Requests \ {r} : request'[q] = request[q]
    BY <1>3, <1>b DEF CheckNewMember, LoadForRole, AbandonRequest, Answer, Go
  <2>2. UNCHANGED <<members, raced, demoted>> /\ overtaken \subseteq overtaken' \cup {r}
    BY <1>3 DEF CheckNewMember, LoadForRole, AbandonRequest
  <2> QED
    BY <2>1, <2>2, <2>3, OnlyMoves DEF At
<1>4. ASSUME NEW r \in Requests, InsertMember(r) PROVE Goal'
  <2>1. Owners \subseteq Owners'
    BY <1>4, <1>a DEF InsertMember, Owners, Active, MembershipTypeOK
  <2>2. request'[r].step # "remove" /\ \A q \in Requests \ {r} : request'[q] = request[q]
    BY <1>4, <1>b DEF InsertMember, Answer, NoRequest
  <2> QED
    BY <1>4, <2>1, <2>2 DEF InsertMember, OwnersInv, AnotherOwner, At
<1>5. ASSUME NEW r \in Requests, SetRole(r) PROVE Goal'
  <2>1. Owners \subseteq Owners'
    BY <1>5, <1>a DEF SetRole, Owners, Active, MembershipTypeOK
  <2>2. request'[r].step # "remove" /\ \A q \in Requests \ {r} : request'[q] = request[q]
    BY <1>5, <1>b DEF SetRole, Answer, NoRequest
  <2>3. overtaken \subseteq overtaken' \cup {r} /\ ~ (raced \/ demoted)
    BY <1>5 DEF SetRole, Overtake
  <2> QED
    BY <2>1, <2>2, <2>3 DEF OwnersInv, AnotherOwner, At
<1>6. ASSUME NEW r \in Requests, LoadTarget(r) PROVE Goal'
  <2>1. \/ request'[r] = NoRequest
        \/ /\ request'[r].role = members[request[r].target].role
           /\ request'[r].step = IF members[request[r].target].role = "owner"
                                 THEN "count" ELSE "remove"
    BY <1>6, <1>a, LoadedTarget
  <2>2. \A q \in Requests \ {r} : request'[q] = request[q]
    BY <1>6, <1>b DEF LoadTarget, Answer
  <2> QED
    BY <1>6, <2>1, <2>2, OnlyMoves DEF LoadTarget, AnotherOwner, At, NoRequest
<1>7. ASSUME NEW r \in Requests, CountOwners(r) PROVE Goal'
  <2>1. \A q \in Requests \ {r} : request'[q] = request[q]
    BY <1>7, <1>b DEF CountOwners, Answer, Go
  <2>2. UNCHANGED <<members, overtaken, raced, demoted>> /\ Owners' = Owners
    BY <1>7 DEF CountOwners, Owners, Active
  <2>3. CASE Cardinality(Owners) > 1
    <3>1. \E u \in Owners : u # request'[r].target
      BY <1>a, <2>3, MoreThanOne
    <3> QED
      BY <2>1, <2>2, <3>1, OnlyMoves DEF AnotherOwner
  <2>4. CASE ~ (Cardinality(Owners) > 1)
    <3>1. request'[r].step # "remove"
      BY <1>7, <1>b, <2>4 DEF CountOwners, Answer, NoRequest
    <3> QED
      BY <2>1, <2>2, <3>1, OnlyMoves DEF At
  <2> QED
    BY <2>3, <2>4
<1>8. ASSUME NEW r \in Requests, RemoveMember(r) PROVE Goal'
  <2> DEFINE u == request[r].target
  <2>1. request'[r].step # "remove" /\ \A q \in Requests \ {r} : request'[q] = request[q]
    BY <1>8, <1>b DEF RemoveMember, Answer, NoRequest
  <2>2. ~ (raced \/ demoted)
    BY <1>8 DEF RemoveMember
  <2>3. Owners # {} /\ \A q \in Requests : AnotherOwner(q)
    BY <2>2 DEF OwnersInv
  <2>4. Owners' = Owners \ {u}
    BY <1>8, <1>a DEF RemoveMember, Owners, Active, MembershipTypeOK
  <2>5. CASE u \in Owners
    <3>1. request[r].role = "owner" /\ r \notin overtaken /\ At(r, "remove")
      BY <1>8, <2>5 DEF RemoveMember
    <3>2. Owners' # {}
      BY <2>3, <2>4, <3>1 DEF AnotherOwner
    <3>3. overtaken' = (overtaken \cup {q \in Requests : At(q, "remove")}) \ {r}
      BY <1>8, <2>4, <2>5 DEF RemoveMember, Overtake
    <3>4. \A q \in Requests : AnotherOwner(q)'
      BY <2>1, <3>3 DEF AnotherOwner, At
    <3> QED
      BY <3>2, <3>4
  <2>6. CASE u \notin Owners
    <3>1. Owners' = Owners
      BY <2>4, <2>6
    <3>2. overtaken' = overtaken \ {r}
      BY <1>8, <3>1 DEF RemoveMember, Overtake
    <3> QED
      BY <2>1, <2>3, <3>1, <3>2 DEF AnotherOwner, At
  <2> QED
    BY <2>5, <2>6
<1> QED
  BY <1>1, <1>2, <1>3, <1>4, <1>5, <1>6, <1>7, <1>8 DEF MembershipNext

\* The inductive invariant of the members, in every behaviour.
THEOREM OwnersInvCorrect == MembershipSpec => []OwnersInv
<1>1. MembershipInit => OwnersInv
  <2> SUFFICES ASSUME MembershipInit PROVE OwnersInv
    OBVIOUS
  <2>1. PICK u \in Users : members[u].status = "active" /\ members[u].role = "owner"
    BY DEF MembershipInit
  <2>2. \A r \in Requests : request[r].step # "remove"
    BY DEF MembershipInit, NoRequest
  <2> QED
    BY <2>1, <2>2, MembershipTypeInit DEF OwnersInv, Owners, Active, AnotherOwner, At
<1> QED
  BY <1>1, OwnersInvNext, PTL DEF MembershipSpec

\* However many members and requests there are, an organization loses its last owner
\* only to a change of role or to a removal another request had overtaken.
THEOREM OwnerlessOnlyIfOvertakenCorrect == MembershipSpec => []OwnerlessOnlyIfOvertaken
<1>1. OwnersInv => OwnerlessOnlyIfOvertaken
  BY DEF OwnersInv, OwnerlessOnlyIfOvertaken
<1> QED
  BY <1>1, OwnersInvCorrect, PTL

-----------------------------------------------------------------------------
(* One request at a time                                                   *)

\* The role a request has loaded is the role its target has.
RoleIsFresh(r) ==
    At(r, "count") \/ At(r, "remove") => request[r].role = members[request[r].target].role

AloneInv ==
    /\ MembershipTypeOK
    /\ ~ raced /\ overtaken = {}
    /\ \A r \in Requests : RoleIsFresh(r)

\* The only request of all moves: what it has loaded is as fresh as before, or fresh.
LEMMA AloneNext ==
  ASSUME \A q, r \in Requests : q = r, AloneInv, [MembershipNext]_membershipVars
  PROVE  AloneInv'
<1>a. MembershipTypeOK /\ ~ raced /\ overtaken = {}
  BY DEF AloneInv
<1>b. request = [q \in Requests |-> request[q]]
  BY <1>a DEF MembershipTypeOK
<1>c. MembershipTypeOK'
  BY <1>a, MembershipTypeNext
<1> DEFINE Goal == ~ raced /\ overtaken = {} /\ \A q \in Requests : RoleIsFresh(q)
<1>d. SUFFICES Goal'
  BY <1>c DEF AloneInv
<1>e. ASSUME NEW r \in Requests, ~ raced', overtaken' = {},
             request'[r].step \notin {"count", "remove"}
      PROVE  Goal'
  BY <1>e DEF RoleIsFresh, At
<1>f. NoRequest.step = "idle"
  BY DEF NoRequest
<1>g. ASSUME NEW r \in Requests, Answer(r) PROVE request'[r].step \notin {"count", "remove"}
  BY <1>b, <1>f, <1>g DEF Answer
<1>1. CASE UNCHANGED membershipVars
  BY <1>1 DEF membershipVars, AloneInv, RoleIsFresh, At
<1>2. ASSUME NEW r \in Requests, NEW actor \in Users, NEW target \in Users,
             Authenticate(r, actor, target)
      PROVE  Goal'
  <2>1. request'[r].step \notin {"count", "remove"}
    BY <1>2, <1>a, <1>b, AuthenticateHolds
  <2> QED
    BY <1>2, <1>a, <1>e, <2>1 DEF Authenticate
<1>3. ASSUME NEW r \in Requests, CheckNewMember(r) \/ LoadForRole(r) PROVE Goal'
  <2>1. request[r] \in Changes /\ request[r].step \in {"check", "load role"}
    BY <1>3, <1>a, HeldRequest DEF CheckNewMember, LoadForRole, At
  <2>2. ~ raced' /\ overtaken' = {}
    <3>1. UNCHANGED <<members, overtaken, raced, demoted>>
      BY <1>3 DEF CheckNewMember, LoadForRole
    <3> QED
      BY <1>a, <3>1
  <2>3. request'[r].step \notin {"count", "remove"}
    <3>1. CASE Answer(r)
      BY <1>g, <3>1
    <3>2. CASE ~ Answer(r)
      <4>1. PICK s \in {"insert", "set role"} : Go(r, s)
        BY <1>3, <3>2 DEF CheckNewMember, LoadForRole
      <4>2. request'[r].step = s
        BY <1>b, <2>1, <4>1 DEF Go, Changes
      <4> QED
        BY <4>2
    <3> QED
      BY <3>1, <3>2
  <2> QED
    BY <1>e, <2>2, <2>3
<1>4. ASSUME NEW r \in Requests, InsertMember(r) \/ AbandonRequest(r) PROVE Goal'
  BY <1>4, <1>a, <1>e, <1>g DEF InsertMember, AbandonRequest
<1>5. ASSUME NEW r \in Requests, SetRole(r) PROVE Goal'
  <2>1. overtaken' = {}
    BY <1>5, <1>a DEF SetRole, Overtake
  <2> QED
    BY <1>5, <1>a, <1>e, <1>g, <2>1 DEF SetRole
<1>6. ASSUME NEW r \in Requests, LoadTarget(r) PROVE Goal'
  <2>1. RoleIsFresh(r)'
    BY <1>6, <1>a, <1>f, LoadedTarget DEF LoadTarget, RoleIsFresh, At
  <2> QED
    BY <1>6, <1>a, <2>1 DEF LoadTarget
<1>7. ASSUME NEW r \in Requests, CountOwners(r) PROVE Goal'
  <2>1. CASE Go(r, "remove")
    <3>1. request[r] \in Removals /\ request[r].role = members[request[r].target].role
      BY <1>7, <1>a, HeldRequest DEF CountOwners, AloneInv, RoleIsFresh, At
    <3>2. request'[r] = [request[r] EXCEPT !.step = "remove"]
      BY <1>b, <2>1 DEF Go
    <3>3. RoleIsFresh(r)'
      BY <1>7, <3>1, <3>2 DEF CountOwners, RoleIsFresh, Removals
    <3> QED
      BY <1>7, <1>a, <3>3 DEF CountOwners
  <2>2. CASE Answer(r)
    BY <1>7, <1>a, <1>e, <1>g, <2>2 DEF CountOwners
  <2> QED
    BY <1>7, <2>1, <2>2 DEF CountOwners
<1>8. ASSUME NEW r \in Requests, RemoveMember(r) PROVE Goal'
  <2>1. request[r].role = members[request[r].target].role
    BY <1>8 DEF RemoveMember, AloneInv, RoleIsFresh
  <2>2. ~ raced'
    BY <1>8, <1>a, <2>1 DEF RemoveMember, Owners
  <2>3. overtaken' = {}
    BY <1>8, <1>a DEF RemoveMember, Overtake
  <2> QED
    BY <1>8, <1>e, <1>g, <2>2, <2>3 DEF RemoveMember
<1> QED
  BY <1>1, <1>2, <1>3, <1>4, <1>5, <1>6, <1>7, <1>8 DEF MembershipNext

\* "Cannot remove the last owner" (api/v1/orgs.py) is true of requests that run one at
\* a time: no removal leaves an organization without an owner, only a change of role.
THEOREM LastOwnerKeptAlone ==
  ASSUME \A q, r \in Requests : q = r
  PROVE  MembershipSpec => [](Owners = {} => demoted)
<1>1. MembershipInit => AloneInv
  <2> SUFFICES ASSUME MembershipInit PROVE AloneInv
    OBVIOUS
  <2>1. \A r \in Requests : request[r].step = "idle"
    BY DEF MembershipInit, NoRequest
  <2> QED
    BY <2>1, MembershipTypeInit DEF MembershipInit, AloneInv, RoleIsFresh, At
<1>2. AloneInv /\ [MembershipNext]_membershipVars => AloneInv'
  BY AloneNext
<1>3. AloneInv /\ OwnerlessOnlyIfOvertaken => (Owners = {} => demoted)
  BY DEF AloneInv, OwnerlessOnlyIfOvertaken
<1> QED
  BY <1>1, <1>2, <1>3, OwnerlessOnlyIfOvertakenCorrect, PTL DEF MembershipSpec

-----------------------------------------------------------------------------
(* The accounts                                                            *)

\* What a delivery holds after its claim, and after it has read the user's row.
ClaimedEvents == [step : {"claimed"}, event : Events]
ReadEvents == [step : {"read"}, event : Events, row : UserRow]

\* The step a delivery is at tells what it holds.
LEMMA HeldDelivery ==
  ASSUME AccountTypeOK, NEW x \in Deliveries
  PROVE  /\ delivery[x].step = "claimed" => delivery[x] \in ClaimedEvents
         /\ delivery[x].step = "read" => delivery[x] \in ReadEvents
         /\ delivery[x].step # "idle" => delivery[x].step \in {"claimed", "read"}
         /\ delivery[x].step # "idle" => delivery[x].event \in Events
         /\ delivery[x].step = "idle" <=> delivery[x] = NoDelivery
<1>1. delivery[x] \in {NoDelivery} \cup ClaimedEvents \cup ReadEvents
  BY DEF AccountTypeOK, ClaimedEvents, ReadEvents
<1>2. NoDelivery.step = "idle"
  BY DEF NoDelivery
<1>3. \A d \in ClaimedEvents : d.step = "claimed" /\ d.event \in Events
  BY DEF ClaimedEvents
<1>4. \A d \in ReadEvents : d.step = "read" /\ d.event \in Events
  BY DEF ReadEvents
<1> QED
  BY <1>1, <1>2, <1>3, <1>4

LEMMA AccountTypeNext == AccountTypeOK /\ [AccountNext]_accountVars => AccountTypeOK'
<1> SUFFICES ASSUME AccountTypeOK, [AccountNext]_accountVars PROVE AccountTypeOK'
  OBVIOUS
<1> DEFINE Held == {NoDelivery} \cup ClaimedEvents \cup ReadEvents
<1>a. /\ users \in [Accounts -> UserRow] /\ claimed \subseteq Events
      /\ delivery \in [Deliveries -> Held] /\ failed \subseteq Events
  BY DEF AccountTypeOK, ClaimedEvents, ReadEvents
<1>b. ASSUME users' \in [Accounts -> UserRow], claimed' \subseteq Events,
             delivery' \in [Deliveries -> Held], failed' \subseteq Events
      PROVE  AccountTypeOK'
  BY <1>b DEF AccountTypeOK, ClaimedEvents, ReadEvents
<1>c. ASSUME NEW x \in Deliveries, Answered(x) PROVE delivery' \in [Deliveries -> Held]
  BY <1>a, <1>c DEF Answered
<1>d. \A e \in Events : e.account \in Accounts
  BY AccountAssumption
<1> HIDE DEF Held
<1>1. CASE UNCHANGED accountVars
  BY <1>a, <1>b, <1>1 DEF accountVars
<1>2. ASSUME NEW x \in Deliveries, NEW e \in Events, Claim(x, e) PROVE AccountTypeOK'
  <2>1. [step |-> "claimed", event |-> e] \in Held
    BY DEF Held, ClaimedEvents
  <2>2. delivery' \in [Deliveries -> Held]
    BY <1>a, <1>2, <2>1 DEF Claim
  <2> QED
    BY <1>a, <1>b, <1>2, <2>2 DEF Claim
<1>3. ASSUME NEW x \in Deliveries, ReadUser(x) PROVE AccountTypeOK'
  <2> DEFINE e == delivery[x].event
  <2>1. e \in Events /\ users[e.account] \in UserRow
    BY <1>a, <1>d, <1>3, HeldDelivery DEF ReadUser, Deliver
  <2>2. [step |-> "read", event |-> e, row |-> users[e.account]] \in Held
    BY <2>1 DEF Held, ReadEvents
  <2>3. delivery' \in [Deliveries -> Held]
    BY <1>a, <1>3, <2>2 DEF ReadUser
  <2> QED
    BY <1>a, <1>b, <1>3, <2>3 DEF ReadUser
<1>4. ASSUME NEW x \in Deliveries, SignUp(x) PROVE AccountTypeOK'
  <2>1. delivery[x].event \in Events
    BY <1>4, HeldDelivery DEF SignUp, Deliver
  <2>2. users' \in [Accounts -> UserRow]
    BY <1>a, <1>4 DEF SignUp, UserRow
  <2> QED
    BY <1>a, <1>b, <1>c, <1>4, <2>1, <2>2 DEF SignUp
<1>5. ASSUME NEW x \in Deliveries, LogIn(x) PROVE AccountTypeOK'
  <2>1. delivery[x].row.logins \in Nat
    BY <1>5, HeldDelivery DEF LogIn, Deliver, ReadEvents, UserRow
  <2> DEFINE n == delivery[x].row.logins + 1
  <2>2. users' = users \/ users' = [users EXCEPT ![delivery[x].event.account].logins = n]
    BY <1>5 DEF LogIn
  <2>3. n \in Nat
    BY <2>1
  <2>4. users' \in [Accounts -> UserRow]
    BY <1>a, <2>2, <2>3 DEF UserRow
  <2> QED
    BY <1>a, <1>b, <1>c, <1>5, <2>4 DEF LogIn
<1>6. ASSUME NEW x \in Deliveries, DeleteUser(x) PROVE AccountTypeOK'
  <2>1. users' \in [Accounts -> UserRow]
    BY <1>a, <1>6 DEF DeleteUser, UserRow
  <2> QED
    BY <1>a, <1>b, <1>c, <1>6, <2>1 DEF DeleteUser
<1>7. ASSUME NEW x \in Deliveries, DeliveryError(x) PROVE AccountTypeOK'
  <2>1. delivery[x].event \in Events
    BY <1>7, HeldDelivery DEF DeliveryError, Deliver
  <2> QED
    BY <1>a, <1>b, <1>c, <1>7, <2>1 DEF DeliveryError
<1> QED
  BY <1>1, <1>2, <1>3, <1>4, <1>5, <1>6, <1>7 DEF AccountNext

\* The accounts' state has its types in every behaviour.
THEOREM AccountTypeCorrect == AccountSpec => []AccountTypeOK
<1>1. AccountInit => AccountTypeOK
  BY DEF AccountInit, AccountTypeOK, NoUser, UserRow
<1> QED
  BY <1>1, AccountTypeNext, PTL DEF AccountSpec

-----------------------------------------------------------------------------

\* A registration leaves a user, an error, or a delivery that has it in hand.
LEMMA ProcessedOrFailedNext ==
  AccountTypeOK /\ ProcessedOrFailed /\ [AccountNext]_accountVars => ProcessedOrFailed'
<1> SUFFICES ASSUME AccountTypeOK, ProcessedOrFailed, [AccountNext]_accountVars,
                    NEW e \in claimed', e.type = "registration"
             PROVE  \/ users'[e.account].exists
                    \/ e \in failed'
                    \/ \E x \in Deliveries : delivery'[x] # NoDelivery /\ delivery'[x].event = e
  BY DEF ProcessedOrFailed
<1> DEFINE Goal == \/ users'[e.account].exists
                   \/ e \in failed'
                   \/ \E x \in Deliveries : delivery'[x] # NoDelivery /\ delivery'[x].event = e
<1>a. delivery = [x \in Deliveries |-> delivery[x]]
  BY DEF AccountTypeOK
<1>b. users \in [Accounts -> UserRow]
  BY DEF AccountTypeOK
<1>c. e \in claimed => \/ users[e.account].exists
                       \/ e \in failed
                       \/ \E x \in Deliveries : delivery[x] # NoDelivery /\ delivery[x].event = e
  BY DEF ProcessedOrFailed
\* An answer takes only its own delivery out of hand.
<1>d. ASSUME NEW x \in Deliveries, Answered(x), e \in claimed, failed \subseteq failed',
             users[e.account].exists => users'[e.account].exists,
             delivery[x].event = e => users'[e.account].exists \/ e \in failed'
      PROVE  Goal
  BY <1>a, <1>c, <1>d DEF Answered
<1>e. e \in Events /\ e.account \in Accounts
  <2>1. claimed' \subseteq Events
    BY AccountTypeNext DEF AccountTypeOK
  <2> QED
    BY <2>1, AccountAssumption
<1>1. CASE UNCHANGED accountVars
  BY <1>1, <1>c DEF accountVars
<1>2. ASSUME NEW x \in Deliveries, NEW f \in Events, Claim(x, f) PROVE Goal
  <2>1. delivery'[x] # NoDelivery /\ delivery'[x].event = f
    <3>1. [step |-> "claimed", event |-> f].step # NoDelivery.step
      BY DEF NoDelivery
    <3> QED
      BY <1>2, <1>a, <3>1 DEF Claim
  <2>2. delivery[x] = NoDelivery
    BY <1>2, HeldDelivery DEF Claim, Deliver
  <2>3. \A y \in Deliveries \ {x} : delivery'[y] = delivery[y]
    BY <1>2, <1>a DEF Claim
  <2>4. users' = users /\ failed' = failed /\ claimed' = claimed \cup {f}
    BY <1>2 DEF Claim
  <2> QED
    BY <1>c, <2>1, <2>2, <2>3, <2>4
<1>3. ASSUME NEW x \in Deliveries, ReadUser(x) PROVE Goal
  <2>1. delivery'[x] # NoDelivery /\ delivery'[x].event = delivery[x].event
    <3>1. delivery'[x] = [step |-> "read", event |-> delivery[x].event,
                          row |-> users[delivery[x].event.account]]
      BY <1>3, <1>a DEF ReadUser
    <3>2. delivery'[x].step # NoDelivery.step
      BY <3>1 DEF NoDelivery
    <3> QED
      BY <3>1, <3>2
  <2>2. \A y \in Deliveries \ {x} : delivery'[y] = delivery[y]
    BY <1>3, <1>a DEF ReadUser
  <2>3. users' = users /\ failed' = failed /\ claimed' = claimed
    BY <1>3 DEF ReadUser
  <2> QED
    BY <1>c, <2>1, <2>2, <2>3
<1>4. ASSUME NEW x \in Deliveries, SignUp(x) PROVE Goal
  <2>1. users[e.account].exists => users'[e.account].exists
    BY <1>4, <1>b, <1>e DEF SignUp
  <2>2. delivery[x].event = e => users'[e.account].exists
    BY <1>4, <1>b, <1>e DEF SignUp
  <2>3. failed \subseteq failed' /\ claimed' = claimed /\ Answered(x)
    BY <1>4 DEF SignUp
  <2> QED
    BY <1>d, <2>1, <2>2, <2>3
<1>5. ASSUME NEW x \in Deliveries, LogIn(x) \/ DeleteUser(x) PROVE Goal
  <2>1. users[e.account].exists => users'[e.account].exists
    BY <1>5, <1>b, <1>e DEF LogIn, DeleteUser, UserRow
  <2>2. delivery[x].event # e
    BY <1>5 DEF LogIn, DeleteUser
  <2>3. failed' = failed /\ claimed' = claimed /\ Answered(x)
    BY <1>5 DEF LogIn, DeleteUser
  <2> QED
    BY <1>d, <2>1, <2>2, <2>3
<1>6. ASSUME NEW x \in Deliveries, DeliveryError(x) PROVE Goal
  BY <1>d, <1>6 DEF DeliveryError
<1> QED
  BY <1>1, <1>2, <1>3, <1>4, <1>5, <1>6 DEF AccountNext

\* However many events and deliveries there are, only an error loses a registration.
THEOREM ProcessedOrFailedCorrect == AccountSpec => []ProcessedOrFailed
<1>1. AccountInit => ProcessedOrFailed
  BY DEF AccountInit, ProcessedOrFailed
<1> QED
  BY <1>1, AccountTypeCorrect, ProcessedOrFailedNext, PTL DEF AccountSpec

-----------------------------------------------------------------------------

\* A delivery that has an event in hand, and the logins that are in nobody's.
InHand(x) == delivery[x].step # "idle"
SettledLogins(a) ==
    {e \in LoginEvents(a) : \A x \in Deliveries : InHand(x) => delivery[x].event # e}

\* An event is in one hand at most; a row counts settled logins only, and so does what
\* a delivery has read, which leaves room for the login it is about to count.
LoginsInv ==
    /\ AccountTypeOK
    /\ \A x, y \in Deliveries :
          InHand(x) /\ InHand(y) /\ delivery[x].event = delivery[y].event => x = y
    /\ \A x \in Deliveries : InHand(x) => delivery[x].event \in claimed
    /\ \A a \in Accounts : users[a].logins <= 1 + Cardinality(SettledLogins(a))
    /\ \A x \in Deliveries, a \in Accounts :
          delivery[x].step = "read" /\ delivery[x].event.account = a =>
             delivery[x].row.logins <= 1 + Cardinality(SettledLogins(a))

LEMMA SettledFinite ==
  ASSUME AccountTypeOK, NEW a
  PROVE  /\ IsFiniteSet(LoginEvents(a)) /\ IsFiniteSet(SettledLogins(a))
         /\ Cardinality(LoginEvents(a)) \in Nat /\ Cardinality(SettledLogins(a)) \in Nat
         /\ Cardinality(SettledLogins(a)) <= Cardinality(LoginEvents(a))
<1>1. LoginEvents(a) \subseteq Events /\ SettledLogins(a) \subseteq LoginEvents(a)
  BY DEF LoginEvents, SettledLogins, AccountTypeOK
<1> QED
  BY <1>1, AccountAssumption, FS_Subset, FS_CardinalityType

\* A finite set has no fewer elements than a part of it, and one more than a part that
\* lacks one.
LEMMA PartIsSmaller ==
  ASSUME NEW S, NEW T, IsFiniteSet(T), S \subseteq T
  PROVE  /\ Cardinality(S) \in Nat /\ Cardinality(T) \in Nat
         /\ Cardinality(S) <= Cardinality(T)
         /\ \A e \in T \ S : Cardinality(S) + 1 <= Cardinality(T)
<1>1. IsFiniteSet(S) /\ Cardinality(S) <= Cardinality(T)
  BY FS_Subset
<1>2. Cardinality(S) \in Nat /\ Cardinality(T) \in Nat
  BY <1>1, FS_CardinalityType
<1>3. ASSUME NEW e \in T \ S PROVE Cardinality(S) + 1 <= Cardinality(T)
  <2>1. Cardinality(S \cup {e}) = Cardinality(S) + 1
    BY <1>1, <1>3, FS_AddElement
  <2>2. Cardinality(S \cup {e}) <= Cardinality(T)
    <3>1. S \cup {e} \subseteq T
      BY <1>3
    <3> QED
      BY <3>1, FS_Subset
  <2> QED
    BY <2>1, <2>2
<1> QED
  BY <1>1, <1>2, <1>3

\* Only a claim takes an event in hand.
LEMMA HandsAfter ==
  ASSUME AccountTypeOK, NEW x \in Deliveries, ReadUser(x) \/ Answered(x)
  PROVE  \A y \in Deliveries :
            InHand(y)' => InHand(y) /\ delivery'[y].event = delivery[y].event
<1>1. delivery = [y \in Deliveries |-> delivery[y]]
  BY DEF AccountTypeOK
<1>2. CASE ReadUser(x)
  BY <1>1, <1>2 DEF ReadUser, InHand, Deliver
<1>3. CASE Answered(x)
  BY <1>1, <1>3 DEF Answered, InHand, NoDelivery
<1> QED
  BY <1>2, <1>3

\* A step that takes no event in hand keeps the hands apart and settled logins settled.
LEMMA SettledStay ==
  ASSUME LoginsInv, claimed' = claimed,
         \A y \in Deliveries :
            InHand(y)' => InHand(y) /\ delivery'[y].event = delivery[y].event
  PROVE  /\ \A x, y \in Deliveries :
               InHand(x)' /\ InHand(y)' /\ delivery'[x].event = delivery'[y].event => x = y
         /\ \A x \in Deliveries : InHand(x)' => delivery'[x].event \in claimed'
         /\ \A a : SettledLogins(a) \subseteq SettledLogins(a)'
<1>1. \A a : LoginEvents(a)' = LoginEvents(a)
  BY DEF LoginEvents
<1>2. \A a : SettledLogins(a) \subseteq SettledLogins(a)'
  BY <1>1 DEF SettledLogins
<1> QED
  BY <1>2 DEF LoginsInv

LEMMA LoginsInvNext == LoginsInv /\ [AccountNext]_accountVars => LoginsInv'
<1> SUFFICES ASSUME LoginsInv, [AccountNext]_accountVars PROVE LoginsInv'
  OBVIOUS
<1> DEFINE Apart == \A x, y \in Deliveries :
               InHand(x) /\ InHand(y) /\ delivery[x].event = delivery[y].event => x = y
           Claimers == \A x \in Deliveries : InHand(x) => delivery[x].event \in claimed
           Rows == \A a \in Accounts : users[a].logins <= 1 + Cardinality(SettledLogins(a))
           Reads == \A x \in Deliveries, a \in Accounts :
               delivery[x].step = "read" /\ delivery[x].event.account = a =>
                  delivery[x].row.logins <= 1 + Cardinality(SettledLogins(a))
<1>a. AccountTypeOK /\ AccountTypeOK' /\ Apart /\ Claimers /\ Rows /\ Reads
  BY AccountTypeNext DEF LoginsInv
<1>b. delivery = [x \in Deliveries |-> delivery[x]] /\ users \in [Accounts -> UserRow]
  BY <1>a DEF AccountTypeOK
<1>c. ASSUME NEW a, SettledLogins(a) \subseteq SettledLogins(a)'
      PROVE  /\ Cardinality(SettledLogins(a)) \in Nat /\ Cardinality(SettledLogins(a)') \in Nat
             /\ Cardinality(SettledLogins(a)) <= Cardinality(SettledLogins(a)')
             /\ \A e \in SettledLogins(a)' \ SettledLogins(a) :
                   Cardinality(SettledLogins(a)) + 1 <= Cardinality(SettledLogins(a)')
  <2>1. SettledLogins(a)' \subseteq Events
    BY <1>a DEF SettledLogins, LoginEvents, AccountTypeOK
  <2>2. IsFiniteSet(SettledLogins(a)')
    BY <2>1, AccountAssumption, FS_Subset
  <2> QED
    BY <1>c, <2>2, PartIsSmaller
<1>d. \A a \in Accounts : users[a].logins \in Nat
  BY <1>b DEF UserRow
<1>e. \A e \in Events : e.account \in Accounts
  BY AccountAssumption
<1>f. ASSUME NEW x \in Deliveries, delivery[x].step = "read"
      PROVE  delivery[x].row.logins \in Nat /\ delivery[x].event \in Events
  BY <1>a, <1>f, HeldDelivery DEF ReadEvents, UserRow
\* Rows and readings that stay keep to settled logins that stay.
<1>g. ASSUME NEW a \in Accounts, SettledLogins(a) \subseteq SettledLogins(a)',
             users'[a].logins = users[a].logins
      PROVE  users'[a].logins <= 1 + Cardinality(SettledLogins(a)')
  BY <1>a, <1>c, <1>d, <1>g
<1>h. ASSUME NEW y \in Deliveries, NEW a \in Accounts, delivery'[y] = delivery[y],
             delivery[y].step = "read", delivery[y].event.account = a,
             SettledLogins(a) \subseteq SettledLogins(a)'
      PROVE  delivery'[y].row.logins <= 1 + Cardinality(SettledLogins(a)')
  <2>1. delivery[y].row.logins <= 1 + Cardinality(SettledLogins(a))
    BY <1>a, <1>h
  <2> QED
    BY <1>c, <1>f, <1>h, <2>1
\* What the answer of a delivery has to show.
<1>k. ASSUME NEW x \in Deliveries, Answered(x), claimed' = claimed,
             \A a \in Accounts : SettledLogins(a) \subseteq SettledLogins(a)' =>
                users'[a].logins <= 1 + Cardinality(SettledLogins(a)')
      PROVE  LoginsInv'
  <2>1. Apart' /\ Claimers' /\ \A a : SettledLogins(a) \subseteq SettledLogins(a)'
    BY <1>a, <1>k, HandsAfter, SettledStay
  <2>2. Rows'
    BY <1>k, <2>1
  <2>3. \A y \in Deliveries : delivery'[y].step = "read" => delivery'[y] = delivery[y]
    BY <1>b, <1>k DEF Answered, NoDelivery
  <2>4. Reads'
    BY <1>h, <2>1, <2>3
  <2> QED
    BY <1>a, <2>1, <2>2, <2>4 DEF LoginsInv
<1>1. CASE UNCHANGED accountVars
  BY <1>1 DEF accountVars, LoginsInv, InHand, SettledLogins, LoginEvents, AccountTypeOK
<1>2. ASSUME NEW x \in Deliveries, NEW f \in Events, Claim(x, f) PROVE LoginsInv'
  <2>1. ~ InHand(x) /\ f \notin claimed /\ claimed' = claimed \cup {f} /\ users' = users
    BY <1>2 DEF Claim, Deliver, InHand
  <2>2. delivery'[x].step = "claimed" /\ delivery'[x].event = f
    BY <1>2, <1>b DEF Claim
  <2>3. \A y \in Deliveries \ {x} : delivery'[y] = delivery[y]
    BY <1>2, <1>b DEF Claim
  <2>4. Apart' /\ Claimers'
    BY <1>a, <2>1, <2>2, <2>3 DEF InHand
  <2>5. ASSUME NEW a PROVE SettledLogins(a) \subseteq SettledLogins(a)'
    BY <2>1, <2>2, <2>3 DEF SettledLogins, LoginEvents, InHand
  <2>6. Rows'
    BY <1>g, <2>1, <2>5
  <2>7. Reads'
    BY <1>h, <2>2, <2>3, <2>5
  <2> QED
    BY <1>a, <2>4, <2>6, <2>7 DEF LoginsInv
<1>3. ASSUME NEW x \in Deliveries, ReadUser(x) PROVE LoginsInv'
  <2>1. claimed' = claimed /\ users' = users
    BY <1>3 DEF ReadUser
  <2>2. Apart' /\ Claimers' /\ \A a : SettledLogins(a) \subseteq SettledLogins(a)'
    BY <1>a, <1>3, <2>1, HandsAfter, SettledStay
  <2>3. Rows'
    BY <1>g, <2>1, <2>2
  <2>4. /\ delivery'[x].event = delivery[x].event
        /\ delivery'[x].row = users[delivery[x].event.account]
    BY <1>3, <1>b DEF ReadUser
  <2>5. \A y \in Deliveries \ {x} : delivery'[y] = delivery[y]
    BY <1>3, <1>b DEF ReadUser
  <2>6. ASSUME NEW y \in Deliveries, NEW a \in Accounts,
               delivery'[y].step = "read", delivery'[y].event.account = a
        PROVE  delivery'[y].row.logins <= 1 + Cardinality(SettledLogins(a)')
    <3>1. CASE y = x
      BY <1>g, <2>1, <2>2, <2>4, <2>6, <3>1
    <3>2. CASE y # x
      BY <1>h, <2>2, <2>5, <2>6, <3>2
    <3> QED
      BY <3>1, <3>2
  <2> QED
    BY <1>a, <2>2, <2>3, <2>6 DEF LoginsInv
<1>4. ASSUME NEW x \in Deliveries, SignUp(x) PROVE LoginsInv'
  <2>1. ASSUME NEW a \in Accounts, SettledLogins(a) \subseteq SettledLogins(a)'
        PROVE  users'[a].logins <= 1 + Cardinality(SettledLogins(a)')
    <3>1. users'[a] = users[a] \/ users'[a].logins = 1
      BY <1>4, <1>b DEF SignUp
    <3> QED
      BY <1>c, <1>g, <2>1, <3>1
  <2> QED
    BY <1>4, <1>k, <2>1 DEF SignUp
<1>5. ASSUME NEW x \in Deliveries, LogIn(x) PROVE LoginsInv'
  <2>0. delivery[x].step = "read" /\ delivery[x].event \in Events /\ InHand(x)
    BY <1>5, <1>f DEF LogIn, Deliver, InHand
  <2> PICK e \in Events : e = delivery[x].event
    BY <2>0
  <2> PICK b \in Accounts : b = e.account
    BY <1>e
  <2>1. delivery[x].step = "read" /\ e = delivery[x].event /\ b = e.account /\ e.type = "login"
    BY <1>5, <2>0 DEF LogIn
  <2>2. e \in LoginEvents(b)' /\ e \notin SettledLogins(b)
    <3>1. e \in claimed /\ claimed' = claimed
      BY <1>a, <1>5, <2>0, <2>1 DEF LogIn
    <3> QED
      BY <2>0, <2>1, <3>1 DEF LoginEvents, SettledLogins
  <2>3. e \in SettledLogins(b)'
    <3>1. \A y \in Deliveries : InHand(y)' => y # x /\ InHand(y) /\ delivery'[y] = delivery[y]
      BY <1>5, <1>b DEF LogIn, Answered, InHand, NoDelivery
    <3>2. \A y \in Deliveries : InHand(y)' => delivery'[y].event # e
      BY <1>a, <2>0, <2>1, <3>1
    <3> QED
      BY <1>5, <2>2, <3>2 DEF LogIn, SettledLogins, LoginEvents
  <2>4. ASSUME NEW a \in Accounts, SettledLogins(a) \subseteq SettledLogins(a)'
        PROVE  users'[a].logins <= 1 + Cardinality(SettledLogins(a)')
    <3>1. CASE users'[a].logins = users[a].logins
      BY <1>g, <2>4, <3>1
    <3>2. CASE users'[a].logins # users[a].logins
      <4>1. a = b /\ users'[a].logins = delivery[x].row.logins + 1
        BY <1>5, <1>b, <2>1, <3>2 DEF LogIn, UserRow
      <4>2. delivery[x].row.logins <= 1 + Cardinality(SettledLogins(a))
        BY <1>a, <2>1, <4>1
      <4>3. Cardinality(SettledLogins(a)) + 1 <= Cardinality(SettledLogins(a)')
        BY <1>c, <2>2, <2>3, <2>4, <4>1
      <4> QED
        BY <1>c, <1>f, <2>1, <2>4, <4>1, <4>2, <4>3
    <3> QED
      BY <3>1, <3>2
  <2> QED
    BY <1>5, <1>k, <2>4 DEF LogIn
<1>6. ASSUME NEW x \in Deliveries, DeleteUser(x) \/ DeliveryError(x) PROVE LoginsInv'
  <2>1. \A a \in Accounts : users'[a].logins = users[a].logins
    BY <1>6, <1>b DEF DeleteUser, DeliveryError, UserRow
  <2> QED
    BY <1>6, <1>g, <1>k, <2>1 DEF DeleteUser, DeliveryError
<1> QED
  BY <1>1, <1>2, <1>3, <1>4, <1>5, <1>6 DEF AccountNext

\* The inductive invariant of the accounts, in every behaviour.
THEOREM LoginsInvCorrect == AccountSpec => []LoginsInv
<1>1. AccountInit => LoginsInv
  <2> SUFFICES ASSUME AccountInit PROVE LoginsInv
    OBVIOUS
  <2>1. AccountTypeOK
    BY DEF AccountInit, AccountTypeOK, NoUser, UserRow
  <2>2. \A x \in Deliveries : delivery[x].step = "idle"
    BY DEF AccountInit, NoDelivery
  <2>3. \A a \in Accounts : users[a].logins = 0 /\ Cardinality(SettledLogins(a)) \in Nat
    BY <2>1, SettledFinite DEF AccountInit, NoUser
  <2> QED
    BY <2>1, <2>2, <2>3 DEF LoginsInv, InHand
<1> QED
  BY <1>1, LoginsInvNext, PTL DEF AccountSpec

\* No login is counted twice, however many events, redeliveries and overlaps there are.
THEOREM LoginsNotOvercountedCorrect == AccountSpec => []LoginsNotOvercounted
<1>1. LoginsInv => LoginsNotOvercounted
  <2> SUFFICES ASSUME LoginsInv, NEW a \in Accounts
               PROVE  users[a].logins <= 1 + Cardinality(LoginEvents(a))
    BY DEF LoginsNotOvercounted
  <2>1. users[a].logins \in Nat /\ users[a].logins <= 1 + Cardinality(SettledLogins(a))
    BY DEF LoginsInv, AccountTypeOK, UserRow
  <2> QED
    BY <2>1, SettledFinite DEF LoginsInv
<1> QED
  BY <1>1, LoginsInvCorrect, PTL

-----------------------------------------------------------------------------
(* The documents                                                           *)

\* What a worker holds that is not idle, and the row of a document.
Tasks == [step : {"imported", "loaded", "reading", "extracted"}, document : Documents]
DocumentRows == [state : {"live", "expired", "gone"}, path : Paths]

\* A clean-up has selected documents that had expired, and keeps them until they are gone.
SweepsExpired ==
    \A c \in Cleaners :
       /\ sweep[c].left \subseteq sweep[c].selected
       /\ \A d \in sweep[c].selected : documents[d].state \in {"expired", "gone"}

\* A job has a status only while its document has a row.
JobsPresent == \A d \in Documents : jobs[d] # "none" => Present(d)

DocumentInv ==
    DocumentTypeOK /\ SweepsExpired /\ JobsPresent /\ RunningHasWorker /\ FileLostOnlyToSharedPath

LEMMA HeldTask ==
  ASSUME DocumentTypeOK, NEW w \in Workers, ~ On(w, "idle")
  PROVE  work[w] \in Tasks /\ work[w].document \in Documents
<1>1. work[w] \in {Idle} \cup Tasks
  BY DEF DocumentTypeOK, Tasks
<1>2. Idle.step = "idle" /\ \A t \in Tasks : t.document \in Documents
  BY DEF Idle, Tasks
<1> QED
  BY <1>1, <1>2 DEF On

LEMMA HeldRow ==
  ASSUME DocumentTypeOK, NEW d \in Documents
  PROVE  /\ documents[d] \in {NoDocument} \cup DocumentRows
         /\ documents[d].state # "none" => documents[d] \in DocumentRows
         /\ documents[d].state \in {"none", "live", "expired", "gone"}
<1>1. documents[d] \in {NoDocument} \cup DocumentRows
  BY DEF DocumentTypeOK, DocumentRows
<1>2. NoDocument.state = "none"
  BY DEF NoDocument
<1>3. \A row \in DocumentRows : row.state \in {"live", "expired", "gone"}
  BY DEF DocumentRows
<1> QED
  BY <1>1, <1>2, <1>3

LEMMA DocumentTypeNext ==
  DocumentTypeOK /\ SweepsExpired /\ [DocumentNext]_documentVars => DocumentTypeOK'
<1> SUFFICES ASSUME DocumentTypeOK, SweepsExpired, [DocumentNext]_documentVars
             PROVE  DocumentTypeOK'
  OBVIOUS
<1> DEFINE Statuses == {"none", "queued", "running", "completed", "failed"}
           Sweeps == [selected : SUBSET Documents, left : SUBSET Documents]
<1>a. /\ documents \in [Documents -> {NoDocument} \cup DocumentRows] /\ jobs \in [Documents -> Statuses]
      /\ files \subseteq Paths /\ work \in [Workers -> {Idle} \cup Tasks]
      /\ sweep \in [Cleaners -> Sweeps]
      /\ cutOff \subseteq Documents /\ abandoned \subseteq Documents
  BY DEF DocumentTypeOK, DocumentRows, Tasks
<1>b. ASSUME documents' \in [Documents -> {NoDocument} \cup DocumentRows], jobs' \in [Documents -> Statuses],
             files' \subseteq Paths, work' \in [Workers -> {Idle} \cup Tasks],
             sweep' \in [Cleaners -> Sweeps],
             cutOff' \subseteq Documents, abandoned' \subseteq Documents
      PROVE  DocumentTypeOK'
  BY <1>b DEF DocumentTypeOK, DocumentRows, Tasks
\* A worker is done, or goes on with what it holds.
<1>c. ASSUME NEW w \in Workers, Done(w) PROVE work' \in [Workers -> {Idle} \cup Tasks]
  BY <1>a, <1>c DEF Done
<1>d. ASSUME NEW w \in Workers, NEW s \in {"reading", "extracted"}, ~ On(w, "idle"), Step(w, s)
      PROVE  work' \in [Workers -> {Idle} \cup Tasks]
  <2>1. work[w] \in Tasks
    BY <1>d, HeldTask
  <2>2. [work[w] EXCEPT !.step = s] \in Tasks
    BY <2>1 DEF Tasks
  <2>3. work' = [work EXCEPT ![w] = [work[w] EXCEPT !.step = s]]
    BY <1>d DEF Step
  <2> QED
    BY <1>a, <2>2, <2>3
<1>e. ASSUME NEW d, NEW status \in Statuses, SetStatus(d, status)
      PROVE  jobs' \in [Documents -> Statuses] /\ cutOff' \subseteq Documents
  BY <1>a, <1>e DEF SetStatus
<1>f. ASSUME NEW w \in Workers, NEW d \in Documents, NEW s \in {"imported", "loaded"},
             work' = [work EXCEPT ![w] = [step |-> s, document |-> d]]
      PROVE  work' \in [Workers -> {Idle} \cup Tasks]
  <2>1. [step |-> s, document |-> d] \in Tasks
    BY DEF Tasks
  <2> QED
    BY <1>a, <1>f, <2>1
<1>1. CASE UNCHANGED documentVars
  BY <1>a, <1>b, <1>1 DEF documentVars
<1>2. ASSUME NEW w \in Workers, NEW d \in Documents, NEW p \in Paths, Import(w, d, p)
      PROVE  DocumentTypeOK'
  <2>1. documents' \in [Documents -> {NoDocument} \cup DocumentRows] /\ jobs' \in [Documents -> Statuses]
    BY <1>2, <1>a DEF Import, DocumentRows
  <2> QED
    BY <1>2, <1>a, <1>b, <1>f, <2>1 DEF Import
<1>3. ASSUME NEW w \in Workers, NEW d \in Documents, Load(w, d) PROVE DocumentTypeOK'
  BY <1>3, <1>a, <1>b, <1>f DEF Load
<1>4. ASSUME NEW w \in Workers, MarkRunning(w) PROVE DocumentTypeOK'
  <2>1. work' \in [Workers -> {Idle} \cup Tasks]
    BY <1>4, <1>c, <1>d DEF MarkRunning, On
  <2> QED
    BY <1>4, <1>a, <1>b, <1>e, <2>1 DEF MarkRunning
<1>5. ASSUME NEW w \in Workers, ReadSource(w) PROVE DocumentTypeOK'
  <2>1. work' \in [Workers -> {Idle} \cup Tasks]
    BY <1>5, <1>d DEF ReadSource, On
  <2> QED
    BY <1>5, <1>a, <1>b, <2>1 DEF ReadSource
<1>6. ASSUME NEW w \in Workers, Complete(w) \/ AnalysisFailed(w) PROVE DocumentTypeOK'
  <2>1. work' \in [Workers -> {Idle} \cup Tasks]
    BY <1>6, <1>c DEF Complete, AnalysisFailed
  <2>2. jobs' \in [Documents -> Statuses] /\ cutOff' \subseteq Documents
    BY <1>6, <1>e DEF Complete, AnalysisFailed
  <2> QED
    BY <1>6, <1>a, <1>b, <2>1, <2>2 DEF Complete, AnalysisFailed
<1>7. ASSUME NEW w \in Workers, AnalysisUnsaved(w) \/ LoseWorker(w) PROVE DocumentTypeOK'
  <2>1. ~ On(w, "idle") /\ Done(w)
    BY <1>7 DEF AnalysisUnsaved, LoseWorker, On
  <2>2. cutOff' \subseteq Documents
    BY <1>7, <1>a, <2>1, HeldTask DEF AnalysisUnsaved, LoseWorker, NoStatus
  <2> QED
    BY <1>7, <1>a, <1>b, <1>c, <2>1, <2>2 DEF AnalysisUnsaved, LoseWorker
<1>8. ASSUME NEW d \in Documents, Expire(d) PROVE DocumentTypeOK'
  <2>1. documents[d] \in DocumentRows
    BY <1>8, HeldRow DEF Expire
  <2>2. documents' \in [Documents -> {NoDocument} \cup DocumentRows]
    BY <1>8, <1>a, <2>1 DEF Expire, DocumentRows
  <2> QED
    BY <1>8, <1>a, <1>b, <2>2 DEF Expire
<1>9. ASSUME NEW c \in Cleaners, SelectExpired(c) PROVE DocumentTypeOK'
  <2>1. sweep' \in [Cleaners -> Sweeps]
    BY <1>9, <1>a DEF SelectExpired
  <2> QED
    BY <1>9, <1>a, <1>b, <2>1 DEF SelectExpired
<1>10. ASSUME NEW c \in Cleaners, NEW d \in Documents, DeleteFile(c, d) PROVE DocumentTypeOK'
  <2>1. sweep' \in [Cleaners -> Sweeps]
    BY <1>10, <1>a DEF DeleteFile
  <2>2. files' \subseteq Paths
    BY <1>10, <1>a DEF DeleteFile
  <2> QED
    BY <1>10, <1>a, <1>b, <2>1, <2>2 DEF DeleteFile
<1>11. ASSUME NEW c \in Cleaners, DeleteRows(c) PROVE DocumentTypeOK'
  <2>1. ASSUME NEW d \in sweep[c].selected
        PROVE  d \in Documents /\ [documents[d] EXCEPT !.state = "gone"] \in DocumentRows
    <3>1. d \in Documents /\ documents[d].state \in {"expired", "gone"}
      BY <1>a, <2>1 DEF SweepsExpired
    <3>2. documents[d] \in DocumentRows
      BY <3>1, HeldRow
    <3> QED
      BY <3>1, <3>2 DEF DocumentRows
  <2>2. documents' \in [Documents -> {NoDocument} \cup DocumentRows]
    BY <1>11, <1>a, <2>1 DEF DeleteRows
  <2>3. jobs' \in [Documents -> Statuses]
    BY <1>11, <1>a DEF DeleteRows
  <2>4. sweep' \in [Cleaners -> Sweeps]
    BY <1>11, <1>a DEF DeleteRows, NoSweep
  <2> QED
    BY <1>11, <1>a, <1>b, <2>2, <2>3, <2>4 DEF DeleteRows
<1>12. ASSUME NEW c \in Cleaners, SweepFail(c) PROVE DocumentTypeOK'
  <2>1. sweep' \in [Cleaners -> Sweeps]
    BY <1>12, <1>a DEF SweepFail, NoSweep
  <2> QED
    BY <1>12, <1>a, <1>b, <2>1 DEF SweepFail
<1> QED
  BY <1>1, <1>2, <1>3, <1>4, <1>5, <1>6, <1>7, <1>8, <1>9, <1>10, <1>11, <1>12 DEF DocumentNext

-----------------------------------------------------------------------------

\* How a document's row changes: it comes, expires and goes, and keeps its path.
RowSteps(d) ==
    \/ documents'[d] = documents[d]
    \/ documents[d] = NoDocument /\ documents'[d].state = "live" /\ documents'[d].path \in files'
    \/ /\ documents[d] \in DocumentRows /\ documents'[d].path = documents[d].path
       /\ \/ documents[d].state = "live" /\ documents'[d].state = "expired"
          \/ documents'[d].state = "gone"

LEMMA RowsStep ==
  ASSUME DocumentTypeOK, SweepsExpired, DocumentNext, NEW d \in Documents
  PROVE  RowSteps(d)
<1>a. documents = [e \in Documents |-> documents[e]]
  BY DEF DocumentTypeOK
<1>1. ASSUME NEW w \in Workers, NEW e \in Documents, NEW p \in Paths, Import(w, e, p)
      PROVE  RowSteps(d)
  BY <1>1, <1>a DEF Import, RowSteps
<1>2. ASSUME NEW e \in Documents, Expire(e) PROVE RowSteps(d)
  <2>1. documents[e] \in DocumentRows
    BY <1>2, HeldRow DEF Expire
  <2> QED
    BY <1>2, <1>a, <2>1 DEF Expire, RowSteps, DocumentRows
<1>3. ASSUME NEW c \in Cleaners, DeleteRows(c) PROVE RowSteps(d)
  <2>1. CASE d \in sweep[c].selected
    <3>1. documents[d] \in DocumentRows
      BY <2>1, HeldRow DEF SweepsExpired
    <3>2. documents'[d] = [documents[d] EXCEPT !.state = "gone"]
      BY <1>3, <2>1 DEF DeleteRows
    <3> QED
      BY <3>1, <3>2 DEF RowSteps, DocumentRows
  <2>2. CASE d \notin sweep[c].selected
    BY <1>3, <2>2 DEF DeleteRows, RowSteps
  <2> QED
    BY <2>1, <2>2
<1>4. CASE UNCHANGED documents
  BY <1>4 DEF RowSteps
<1> QED
  BY <1>1, <1>2, <1>3, <1>4
     DEF DocumentNext, Load, MarkRunning, ReadSource, Complete, AnalysisFailed,
         AnalysisUnsaved, LoseWorker,
         SelectExpired, DeleteFile, SweepFail

\* Sweeps hold expired documents only, whatever row changes.
LEMMA SweepsExpiredNext ==
  DocumentTypeOK /\ SweepsExpired /\ [DocumentNext]_documentVars => SweepsExpired'
<1> SUFFICES ASSUME DocumentTypeOK, SweepsExpired, [DocumentNext]_documentVars
             PROVE  SweepsExpired'
  OBVIOUS
<1>a. sweep = [c \in Cleaners |-> sweep[c]]
      /\ \A c \in Cleaners : sweep[c].selected \subseteq Documents
  BY DEF DocumentTypeOK
<1>1. CASE UNCHANGED documentVars
  BY <1>1 DEF documentVars, SweepsExpired
<1>2. CASE DocumentNext
  <2>1. ASSUME NEW d \in Documents, documents[d].state \in {"expired", "gone"}
        PROVE  documents'[d].state \in {"expired", "gone"}
    BY <1>2, <2>1, RowsStep DEF RowSteps, NoDocument
  <2>2. CASE UNCHANGED sweep
    BY <1>a, <2>1, <2>2 DEF SweepsExpired
  <2>3. ASSUME NEW c \in Cleaners, SelectExpired(c) PROVE SweepsExpired'
    BY <1>a, <2>1, <2>3 DEF SelectExpired, SweepsExpired
  <2>4. ASSUME NEW c \in Cleaners, NEW d \in Documents, DeleteFile(c, d) PROVE SweepsExpired'
    <3>1. /\ sweep'[c].selected = sweep[c].selected
          /\ sweep'[c].left = sweep[c].left \ {d}
          /\ \A b \in Cleaners \ {c} : sweep'[b] = sweep[b]
      BY <2>4 DEF DeleteFile, DocumentTypeOK
    <3> QED
      BY <1>a, <2>1, <3>1 DEF SweepsExpired
  <2>5. ASSUME NEW c \in Cleaners, DeleteRows(c) \/ SweepFail(c) PROVE SweepsExpired'
    <3>1. sweep' = [sweep EXCEPT ![c] = NoSweep]
      BY <2>5 DEF DeleteRows, SweepFail
    <3> QED
      BY <1>a, <2>1, <3>1 DEF SweepsExpired, NoSweep
  <2> QED
    BY <1>2, <2>2, <2>3, <2>4, <2>5
       DEF DocumentNext, Import, Load, MarkRunning, ReadSource, Complete, AnalysisFailed,
           AnalysisUnsaved, LoseWorker, Expire
<1> QED
  BY <1>1, <1>2

-----------------------------------------------------------------------------

\* A worker at work on a document that it has marked running.
Analysing(w, d) == (On(w, "reading") \/ On(w, "extracted")) /\ work[w].document = d

\* A worker that marks a job running is at work on it from then on.
LEMMA MarkStep ==
  ASSUME DocumentTypeOK, NEW w \in Workers, MarkRunning(w), Present(work[w].document)
  PROVE  Analysing(w, work[w].document)'
<1>1. work[w] \in Tasks
  BY HeldTask DEF MarkRunning, On
<1>2. work' = [work EXCEPT ![w].step = "reading"] /\ work = [v \in Workers |-> work[v]]
  BY DEF MarkRunning, Step, DocumentTypeOK
<1>3. work'[w].step = "reading" /\ work'[w].document = work[w].document
  BY <1>1, <1>2 DEF Tasks
<1> QED
  BY <1>3 DEF Analysing, On

\* How the status of a job changes.
LEMMA JobsStep ==
  ASSUME DocumentTypeOK, SweepsExpired, DocumentNext, NEW d \in Documents
  PROVE  \/ jobs'[d] = jobs[d] /\ (Present(d)' \/ ~ Present(d) \/ jobs'[d] = "none")
         \/ jobs'[d] = "none"
         \/ Present(d)' /\ jobs'[d] \in {"queued", "completed", "failed"}
         \/ Present(d)' /\ jobs'[d] = "running" /\ \E w \in Workers : Analysing(w, d)'
<1> DEFINE Goal == \/ jobs'[d] = jobs[d] /\ (Present(d)' \/ ~ Present(d) \/ jobs'[d] = "none")
                   \/ jobs'[d] = "none"
                   \/ Present(d)' /\ jobs'[d] \in {"queued", "completed", "failed"}
                   \/ Present(d)' /\ jobs'[d] = "running" /\ \E w \in Workers : Analysing(w, d)'
<1>a. jobs = [e \in Documents |-> jobs[e]] /\ documents = [e \in Documents |-> documents[e]]
      /\ work = [w \in Workers |-> work[w]]
  BY DEF DocumentTypeOK
<1>b. ASSUME documents' = documents PROVE Present(d)' = Present(d)
  BY <1>b DEF Present
<1>1. ASSUME NEW w \in Workers, NEW e \in Documents, NEW p \in Paths, Import(w, e, p)
      PROVE  Goal
  BY <1>1, <1>a DEF Import, Present
<1>2. ASSUME NEW e \in Documents, Expire(e) PROVE Goal
  <2>1. documents[e] \in DocumentRows
    BY <1>2, HeldRow DEF Expire
  <2>2. jobs' = jobs /\ (Present(d) => Present(d)')
    BY <1>2, <1>a, <2>1 DEF Expire, Present, DocumentRows
  <2> QED
    BY <2>2
<1>3. ASSUME NEW c \in Cleaners, DeleteRows(c) PROVE Goal
  <2>1. CASE d \in sweep[c].selected
    BY <1>3, <2>1 DEF DeleteRows
  <2>2. CASE d \notin sweep[c].selected
    BY <1>3, <2>2 DEF DeleteRows, Present
  <2> QED
    BY <2>1, <2>2
<1>4. ASSUME NEW w \in Workers, MarkRunning(w) PROVE Goal
  <2>1. documents' = documents
    BY <1>4 DEF MarkRunning
  <2>2. CASE d = work[w].document /\ Present(d)
    <3>1. Analysing(w, d)'
      <4>1. d = work[w].document
        BY <2>2
      <4>2. Analysing(w, work[w].document)'
        BY <1>4, <2>2, MarkStep
      <4>3. work'[w].document = work[w].document
        BY <1>4, <1>a, <2>2, HeldTask DEF MarkRunning, Step, On, Tasks
      <4> QED
        BY <4>1, <4>2, <4>3 DEF Analysing
    <3>2. jobs'[d] = "running"
      BY <1>4, <1>a, <2>2 DEF MarkRunning, SetStatus
    <3> QED
      BY <1>b, <2>1, <2>2, <3>1, <3>2
  <2>3. CASE ~ (d = work[w].document /\ Present(d))
    <3>1. jobs'[d] = jobs[d]
      BY <1>4, <1>a, <2>3 DEF MarkRunning, SetStatus
    <3> QED
      BY <1>b, <2>1, <3>1
  <2> QED
    BY <2>2, <2>3
<1>5. ASSUME NEW w \in Workers, NEW status \in {"completed", "failed"},
             SetStatus(work[w].document, status), documents' = documents
      PROVE  Goal
  <2>1. CASE d = work[w].document /\ Present(d)
    BY <1>5, <1>a, <1>b, <2>1 DEF SetStatus
  <2>2. CASE ~ (d = work[w].document /\ Present(d))
    <3>1. jobs'[d] = jobs[d]
      BY <1>5, <1>a, <2>2 DEF SetStatus
    <3> QED
      BY <1>5, <1>b, <3>1
  <2> QED
    BY <2>1, <2>2
<1>6. CASE UNCHANGED <<documents, jobs>>
  BY <1>6, <1>b
<1> QED
  BY <1>1, <1>2, <1>3, <1>4, <1>5, <1>6
     DEF DocumentNext, Load, ReadSource, Complete, AnalysisFailed,
         AnalysisUnsaved, LoseWorker,
         SelectExpired, DeleteFile, SweepFail

LEMMA JobsPresentNext ==
  DocumentTypeOK /\ SweepsExpired /\ JobsPresent /\ [DocumentNext]_documentVars => JobsPresent'
<1> SUFFICES ASSUME DocumentTypeOK, SweepsExpired, JobsPresent, [DocumentNext]_documentVars
             PROVE  JobsPresent'
  OBVIOUS
<1>1. CASE UNCHANGED documentVars
  BY <1>1 DEF documentVars, JobsPresent, Present
<1>2. ASSUME DocumentNext, NEW d \in Documents, jobs'[d] # "none" PROVE Present(d)'
  BY <1>2, JobsStep DEF JobsPresent
<1> QED
  BY <1>1, <1>2 DEF JobsPresent

\* A worker stops analysing only when it ends the job, finds it gone or is cut off.
LEMMA AnalysisStep ==
  ASSUME DocumentTypeOK, SweepsExpired, JobsPresent, DocumentNext,
         NEW w \in Workers, NEW d \in Documents, Analysing(w, d)
  PROVE  Analysing(w, d)' \/ jobs'[d] # "running" \/ d \in cutOff'
<1> DEFINE Goal == Analysing(w, d)' \/ jobs'[d] # "running" \/ d \in cutOff'
<1>a. work = [v \in Workers |-> work[v]] /\ jobs = [e \in Documents |-> jobs[e]]
  BY DEF DocumentTypeOK
<1>b. work[w] \in Tasks
  BY HeldTask DEF Analysing, On
<1>c. ASSUME work'[w] = work[w] PROVE Goal
  BY <1>c DEF Analysing, On
<1>1. ASSUME NEW v \in Workers, NEW e \in Documents, Load(v, e) PROVE Goal
  <2>1. v # w
    BY <1>1 DEF Load, Analysing, On
  <2> QED
    BY <1>1, <1>a, <1>c, <2>1 DEF Load
<1>2. ASSUME NEW v \in Workers, NEW e \in Documents, NEW p \in Paths, Import(v, e, p) PROVE Goal
  <2>1. v # w
    BY <1>2 DEF Import, Analysing, On
  <2> QED
    BY <1>2, <1>a, <1>c, <2>1 DEF Import
<1>3. ASSUME NEW v \in Workers, MarkRunning(v) PROVE Goal
  <2>1. v # w
    BY <1>3 DEF MarkRunning, Analysing, On
  <2> QED
    BY <1>3, <1>a, <1>c, <2>1 DEF MarkRunning, Step, Done
<1>4. ASSUME NEW v \in Workers, ReadSource(v) PROVE Goal
  <2>1. CASE v = w
    BY <1>4, <1>a, <1>b, <2>1 DEF ReadSource, Step, Analysing, On, Tasks
  <2>2. CASE v # w
    BY <1>4, <1>a, <1>c, <2>2 DEF ReadSource, Step
  <2> QED
    BY <2>1, <2>2
<1>5. ASSUME NEW v \in Workers, Done(v), NEW status \in {"completed", "failed"},
             SetStatus(work[v].document, status)
      PROVE  Goal
  <2>1. CASE v = w
    BY <1>5, <1>a, <2>1 DEF SetStatus, Analysing, JobsPresent
  <2>2. CASE v # w
    BY <1>5, <1>a, <1>c, <2>2 DEF Done
  <2> QED
    BY <2>1, <2>2
<1>6. ASSUME NEW v \in Workers, AnalysisUnsaved(v) \/ LoseWorker(v) PROVE Goal
  <2>1. CASE v = w
    <3>1. cutOff' = (IF Present(d) THEN cutOff \cup {d} ELSE cutOff) /\ jobs' = jobs
      BY <1>6, <2>1 DEF AnalysisUnsaved, LoseWorker, NoStatus, Analysing, On
    <3> QED
      BY <3>1 DEF JobsPresent
  <2>2. CASE v # w
    BY <1>6, <1>a, <1>c, <2>2 DEF AnalysisUnsaved, LoseWorker, Done
  <2> QED
    BY <2>1, <2>2
<1>7. CASE UNCHANGED work
  BY <1>7, <1>c
<1> QED
  BY <1>1, <1>2, <1>3, <1>4, <1>5, <1>6, <1>7
     DEF DocumentNext, Complete, AnalysisFailed, Expire, SelectExpired, DeleteFile,
         DeleteRows, SweepFail

\* What was cut off stays so until a status is written or the job is gone.
LEMMA CutOffStep ==
  ASSUME DocumentTypeOK, SweepsExpired, DocumentNext,
         NEW d \in Documents, d \in cutOff, jobs'[d] = "running"
  PROVE  d \in cutOff' \/ \E w \in Workers : Analysing(w, d)'
<1> DEFINE Goal == d \in cutOff' \/ \E w \in Workers : Analysing(w, d)'
<1>a. jobs = [e \in Documents |-> jobs[e]]
  BY DEF DocumentTypeOK
<1>1. ASSUME NEW w \in Workers, MarkRunning(w) PROVE Goal
  <2>1. CASE d = work[w].document /\ Present(d)
    <3>1. Analysing(w, work[w].document)'
      BY <1>1, <2>1, MarkStep
    <3>2. work'[w].document = work[w].document
      BY <1>1, <2>1, HeldTask DEF MarkRunning, Step, On, Tasks, DocumentTypeOK
    <3> QED
      BY <2>1, <3>1, <3>2 DEF Analysing
  <2>2. CASE ~ (d = work[w].document /\ Present(d))
    BY <1>1, <2>2 DEF MarkRunning, SetStatus
  <2> QED
    BY <2>1, <2>2
<1>2. ASSUME NEW w \in Workers, NEW status \in {"completed", "failed"},
             SetStatus(work[w].document, status)
      PROVE  Goal
  BY <1>2, <1>a DEF SetStatus
<1>3. ASSUME NEW w \in Workers, AnalysisUnsaved(w) \/ LoseWorker(w) PROVE Goal
  BY <1>3 DEF AnalysisUnsaved, LoseWorker, NoStatus
<1>4. ASSUME NEW c \in Cleaners, DeleteRows(c) PROVE Goal
  BY <1>4 DEF DeleteRows
<1>5. CASE UNCHANGED cutOff
  BY <1>5
<1> QED
  BY <1>1, <1>2, <1>3, <1>4, <1>5
     DEF DocumentNext, Import, Load, ReadSource, Complete, AnalysisFailed, Expire,
         SelectExpired, DeleteFile, SweepFail

LEMMA RunningHasWorkerNext ==
  DocumentTypeOK /\ SweepsExpired /\ JobsPresent /\ RunningHasWorker /\ [DocumentNext]_documentVars
    => RunningHasWorker'
<1> SUFFICES ASSUME DocumentTypeOK, SweepsExpired, JobsPresent, RunningHasWorker,
                    [DocumentNext]_documentVars
             PROVE  RunningHasWorker'
  OBVIOUS
<1>1. CASE UNCHANGED documentVars
  BY <1>1 DEF documentVars, RunningHasWorker, On
<1>2. ASSUME DocumentNext, NEW d \in Documents, jobs'[d] = "running"
      PROVE  d \in cutOff' \/ \E w \in Workers : Analysing(w, d)'
  <2>1. CASE jobs[d] = "running"
    <3>1. d \in cutOff \/ \E w \in Workers : Analysing(w, d)
      BY <2>1 DEF RunningHasWorker, Analysing
    <3> QED
      BY <1>2, <3>1, CutOffStep, AnalysisStep
  <2>2. CASE jobs[d] # "running"
    BY <1>2, <2>2, JobsStep
  <2> QED
    BY <2>1, <2>2
<1> QED
  BY <1>1, <1>2 DEF RunningHasWorker, Analysing

-----------------------------------------------------------------------------

\* A document whose file a clean-up has deleted stays one, whatever the clean-up does.
LEMMA FileDeletedStep ==
  ASSUME DocumentTypeOK, SweepsExpired, DocumentNext, NEW e \in Documents, FileDeleted(e)
  PROVE  FileDeleted(e)' /\ documents'[e].path = documents[e].path
<1> DEFINE Held == \E c \in Cleaners : e \in sweep[c].selected \ sweep[c].left
           Gone == documents[e].state = "gone"
<1>a. /\ sweep = [c \in Cleaners |-> sweep[c]]
      /\ documents[e].state \in {"expired", "gone"}
  BY DEF DocumentTypeOK, FileDeleted
<1>b. /\ documents'[e].path = documents[e].path
      /\ documents'[e].state \in {"expired", "gone"} /\ (Gone => Gone')
  <2>1. RowSteps(e)
    BY RowsStep
  <2>2. documents[e] # NoDocument
    BY <1>a DEF NoDocument
  <2> QED
    BY <1>a, <2>1, <2>2 DEF RowSteps
<1>c. Gone' \/ e \in abandoned' \/ Held'
  <2>1. CASE Gone
    BY <1>b, <2>1
  <2>2. CASE ~ Gone /\ e \in abandoned
    <3>1. ASSUME NEW c \in Cleaners, DeleteRows(c) PROVE Gone' \/ e \in abandoned'
      BY <2>2, <3>1 DEF DeleteRows
    <3>2. e \in abandoned' \/ \E c \in Cleaners : DeleteRows(c)
      BY <2>2 DEF DocumentNext, Import, Load, MarkRunning, ReadSource, Complete, AnalysisFailed,
                  AnalysisUnsaved, LoseWorker, Expire, SelectExpired, DeleteFile, SweepFail
    <3> QED
      BY <3>1, <3>2
  <2>3. ASSUME ~ Gone, NEW c \in Cleaners, e \in sweep[c].selected \ sweep[c].left
        PROVE  Gone' \/ e \in abandoned' \/ Held'
    <3>1. ASSUME NEW b \in Cleaners, SelectExpired(b) PROVE Held'
      <4>1. b # c
        BY <2>3, <3>1 DEF SelectExpired, NoSweep
      <4> QED
        BY <1>a, <2>3, <3>1, <4>1 DEF SelectExpired
    <3>2. ASSUME NEW b \in Cleaners, NEW d \in Documents, DeleteFile(b, d) PROVE Held'
      <4>1. /\ sweep'[c].selected = sweep[c].selected
            /\ sweep'[c].left \subseteq sweep[c].left
        BY <3>2 DEF DeleteFile, DocumentTypeOK
      <4> QED
        BY <2>3, <4>1
    <3>3. ASSUME NEW b \in Cleaners, DeleteRows(b) PROVE Gone' \/ Held'
      <4>1. CASE b = c
        BY <2>3, <3>3, <4>1 DEF DeleteRows
      <4>2. CASE b # c
        BY <1>a, <2>3, <3>3, <4>2 DEF DeleteRows
      <4> QED
        BY <4>1, <4>2
    <3>4. ASSUME NEW b \in Cleaners, SweepFail(b) PROVE e \in abandoned' \/ Held'
      <4>1. CASE b = c
        BY <2>3, <3>4, <4>1 DEF SweepFail
      <4>2. CASE b # c
        BY <1>a, <2>3, <3>4, <4>2 DEF SweepFail
      <4> QED
        BY <4>1, <4>2
    <3>5. CASE UNCHANGED sweep
      BY <2>3, <3>5
    <3> QED
      BY <3>1, <3>2, <3>3, <3>4, <3>5
         DEF DocumentNext, Import, Load, MarkRunning, ReadSource, Complete, AnalysisFailed,
             AnalysisUnsaved, LoseWorker, Expire
  <2> QED
    BY <2>1, <2>2, <2>3 DEF FileDeleted
<1> QED
  BY <1>b, <1>c DEF FileDeleted

LEMMA FileLostNext ==
  DocumentTypeOK /\ SweepsExpired /\ FileLostOnlyToSharedPath /\ [DocumentNext]_documentVars
    => FileLostOnlyToSharedPath'
<1> SUFFICES ASSUME DocumentTypeOK, SweepsExpired, FileLostOnlyToSharedPath,
                    [DocumentNext]_documentVars
             PROVE  FileLostOnlyToSharedPath'
  OBVIOUS
<1> DEFINE Sharer(e, d) == FileDeleted(e) /\ documents[e].path = documents[d].path
<1>1. CASE UNCHANGED documentVars
  BY <1>1 DEF documentVars, FileLostOnlyToSharedPath, FileDeleted, Present
<1>2. ASSUME DocumentNext, NEW d \in Documents, Present(d)'
      PROVE  documents'[d].path \in files' \/ \E e \in Documents : Sharer(e, d)'
  <2>1. CASE documents[d] = NoDocument
    <3>1. documents'[d].path \in files' \/ documents'[d] = NoDocument
      BY <1>2, <2>1, RowsStep DEF RowSteps, NoDocument, DocumentRows
    <3> QED
      BY <1>2, <3>1 DEF Present, NoDocument
  <2>2. CASE documents[d] # NoDocument
    <3>1. documents'[d].path = documents[d].path /\ Present(d)
      <4>1. RowSteps(d)
        BY <1>2, RowsStep
      <4>2. documents[d] \in DocumentRows
        BY <2>2, HeldRow
      <4>3. documents[d].state \in {"live", "expired", "gone"}
        BY <4>2 DEF DocumentRows
      <4> QED
        BY <1>2, <2>2, <4>1, <4>3 DEF RowSteps, Present
    <3>2. CASE \E e \in Documents : Sharer(e, d)
      BY <1>2, <3>1, <3>2, FileDeletedStep
    <3>3. CASE documents[d].path \in files
      <4>1. ASSUME NEW c \in Cleaners, NEW e \in Documents, DeleteFile(c, e),
                   documents[d].path \notin files'
            PROVE  Sharer(e, d)'
        <5>1. /\ documents[e].state \in {"expired", "gone"}
              /\ e \in sweep[c].selected /\ documents' = documents
          BY <4>1 DEF DeleteFile, SweepsExpired
        <5>2. documents[e].path = documents[d].path
          BY <3>3, <4>1 DEF DeleteFile
        <5>3. e \in sweep'[c].selected \ sweep'[c].left
          BY <4>1, <5>1 DEF DeleteFile, DocumentTypeOK
        <5> QED
          BY <5>1, <5>2, <5>3 DEF FileDeleted
      <4>2. files \subseteq files' \/ \E c \in Cleaners, e \in Documents : DeleteFile(c, e)
        BY <1>2
           DEF DocumentNext, Import, Load, MarkRunning, ReadSource, Complete, AnalysisFailed,
               AnalysisUnsaved, LoseWorker, Expire, SelectExpired, DeleteRows, SweepFail
      <4> QED
        BY <3>1, <3>3, <4>1, <4>2
    <3>4. documents[d].path \in files \/ \E e \in Documents : Sharer(e, d)
      BY <3>1 DEF FileLostOnlyToSharedPath
    <3> QED
      BY <3>2, <3>3, <3>4
  <2> QED
    BY <2>1, <2>2
<1> QED
  BY <1>1, <1>2 DEF FileLostOnlyToSharedPath

\* The inductive invariant of the document jobs, in every behaviour.
THEOREM DocumentInvCorrect == DocumentSpec => []DocumentInv
<1>1. DocumentInit => DocumentInv
  <2> SUFFICES ASSUME DocumentInit PROVE DocumentInv
    OBVIOUS
  <2>1. DocumentTypeOK
    BY DEF DocumentInit, DocumentTypeOK, NoSweep
  <2>2. SweepsExpired
    BY DEF DocumentInit, SweepsExpired, NoSweep
  <2>3. JobsPresent /\ RunningHasWorker
    BY DEF DocumentInit, JobsPresent, RunningHasWorker
  <2>4. FileLostOnlyToSharedPath
    BY DEF DocumentInit, FileLostOnlyToSharedPath, NoDocument, Present
  <2> QED
    BY <2>1, <2>2, <2>3, <2>4 DEF DocumentInv
<1>2. DocumentInv /\ [DocumentNext]_documentVars => DocumentInv'
  BY DocumentTypeNext, SweepsExpiredNext, JobsPresentNext, RunningHasWorkerNext, FileLostNext
     DEF DocumentInv
<1> QED
  BY <1>1, <1>2, PTL DEF DocumentSpec

\* The documents' state has its types in every behaviour.
THEOREM DocumentTypeCorrect == DocumentSpec => []DocumentTypeOK
  BY DocumentInvCorrect, PTL DEF DocumentInv

\* However many documents, workers and clean-ups there are, no job is left running but
\* by an analysis whose worker was lost or whose end the database refused.
THEOREM RunningHasWorkerCorrect == DocumentSpec => []RunningHasWorker
  BY DocumentInvCorrect, PTL DEF DocumentInv

\* A document that has its row loses its file only to the clean-up of an expired one with
\* the same path, or to its own that is not over or failed.
THEOREM FileLostOnlyToSharedPathCorrect == DocumentSpec => []FileLostOnlyToSharedPath
  BY DocumentInvCorrect, PTL DEF DocumentInv
=============================================================================
