---------------------------- MODULE OrgMembership ----------------------------
(***************************************************************************)
(* The members of one organization: api/v1/orgs.py over the org_users rows *)
(* of repositories/organization.py.                                        *)
(*                                                                         *)
(* A request authenticates first, which fixes the role it acts with; what  *)
(* it checks afterwards it reads in statements of its own, and its UPDATE  *)
(* or INSERT is committed before the answer.  Requests run in parallel     *)
(* under READ COMMITTED: each statement sees what is committed by then,    *)
(* and nothing a request has read is locked.  There is one row for a user, *)
(* by the unique constraint; a removed member keeps it.                    *)
(***************************************************************************)
EXTENDS Integers, FiniteSets

CONSTANTS
    Users,        \* the users who may be members
    Requests,     \* the requests that may run at the same time
    GrantedRoles  \* the roles a request may name (the patterns at orgs.py:64 and 71)

RoleRank == [viewer |-> 1, member |-> 2, analyst |-> 3, admin |-> 4, owner |-> 5]
Roles == DOMAIN RoleRank

ASSUME MembershipAssumption ==
    /\ IsFiniteSet(Users)
    /\ GrantedRoles \subseteq Roles \ {"analyst"}

VARIABLES
    members,    \* the org_users row of each user
    request,    \* what each request has read and is about to do
    overtaken,  \* history: requests since whose count an owner was lost
    raced,      \* history: an owner was removed by an overtaken request
    demoted     \* history: an owner was given another role

membershipVars == <<members, request, overtaken, raced, demoted>>

NoRequest == [step |-> "idle"]

\* The steps of the three operations: adding, changing a role, removing.
RequestType ==
    {NoRequest}
    \cup [step : {"check", "insert", "load role", "set role"},
          auth : Roles, target : Users, role : Roles]
    \cup [step : {"load", "count", "remove"},
          auth : Roles, target : Users, role : Roles \cup {"none"}]

MembershipTypeOK ==
    /\ members \in [Users -> [status : {"none", "active", "removed"}, role : Roles]]
    /\ request \in [Requests -> RequestType]
    /\ overtaken \subseteq Requests
    /\ raced \in BOOLEAN /\ demoted \in BOOLEAN

Active(u) == members[u].status = "active"
Owners == {u \in Users : Active(u) /\ members[u].role = "owner"}

\* The organization a signup creates: one member, its owner.
MembershipInit ==
    /\ \E u \in Users :
          members = [v \in Users |-> IF v = u THEN [status |-> "active", role |-> "owner"]
                                              ELSE [status |-> "none", role |-> "member"]]
    /\ request = [r \in Requests |-> NoRequest]
    /\ overtaken = {} /\ raced = FALSE /\ demoted = FALSE

IsAdmin(role) == RoleRank[role] >= RoleRank["admin"]

CanManage(role, target) ==
    \/ role = "owner"
    \/ role = "admin" /\ RoleRank[target] < RoleRank["admin"]

Answer(r) == request' = [request EXCEPT ![r] = NoRequest]
At(r, step) == request[r].step = step
Go(r, step) == request' = [request EXCEPT ![r].step = step]

\* What a write that left fewer owners does to the counts taken before it.
Overtake(r) ==
    overtaken' = IF Owners' \subseteq Owners /\ Owners' # Owners
                 THEN (overtaken \cup {q \in Requests : At(q, "remove")}) \ {r}
                 ELSE overtaken \ {r}

-----------------------------------------------------------------------------
\* Authentication reads the actor's active membership; the checks on its role and
\* on the role it names follow at once.  Only removal forbids itself as a target.
Authenticate(r, actor, target) ==
    /\ At(r, "idle")
    /\ Active(actor)
    /\ IsAdmin(members[actor].role)
    /\ \/ \E role \in GrantedRoles, step \in {"check", "load role"} :
            /\ CanManage(members[actor].role, role)
            /\ request' = [request EXCEPT ![r] =
                 [step |-> step, auth |-> members[actor].role,
                  target |-> target, role |-> role]]
       \/ /\ target # actor
          /\ request' = [request EXCEPT ![r] =
               [step |-> "load", auth |-> members[actor].role,
                target |-> target, role |-> "none"]]
    /\ UNCHANGED <<members, overtaken, raced, demoted>>

\* add_member: an active membership is a conflict; a removed one is not seen.
CheckNewMember(r) ==
    /\ At(r, "check")
    /\ IF Active(request[r].target) THEN Answer(r) ELSE Go(r, "insert")
    /\ UNCHANGED <<members, overtaken, raced, demoted>>

\* Mutant: the row of a removed member is taken back.
InsertOrRevive(r) ==
    /\ At(r, "insert")
    /\ members' = [members EXCEPT ![request[r].target] =
                     [status |-> "active", role |-> request[r].role]]
    /\ Answer(r)
    /\ UNCHANGED <<overtaken, raced, demoted>>

\* The INSERT, which a row of whatever status makes fail on uq_org_user.
InsertMember(r) ==
    LET u == request[r].target IN
    /\ At(r, "insert")
    /\ members' = IF members[u].status = "none"
                  THEN [members EXCEPT ![u] = [status |-> "active", role |-> request[r].role]]
                  ELSE members
    /\ Answer(r)
    /\ UNCHANGED <<overtaken, raced, demoted>>

\* update_member_role: the role of the row is loaded, to be compared at the flush.
LoadForRole(r) ==
    LET u == request[r].target IN
    /\ At(r, "load role")
    /\ IF Active(u) /\ members[u].role # request[r].role THEN Go(r, "set role") ELSE Answer(r)
    /\ UNCHANGED <<members, overtaken, raced, demoted>>

\* The UPDATE, whatever has become of the row since.
SetRole(r) ==
    LET u == request[r].target IN
    /\ At(r, "set role")
    /\ members' = [members EXCEPT ![u].role = request[r].role]
    /\ Answer(r)
    /\ Overtake(r)
    /\ demoted' = (demoted \/ (u \in Owners /\ request[r].role # "owner"))
    /\ UNCHANGED raced

\* remove_member: the target's membership and the role it has now.
LoadTarget(r) ==
    LET u == request[r].target IN
    /\ At(r, "load")
    /\ IF Active(u) /\ CanManage(request[r].auth, members[u].role)
       THEN request' = [request EXCEPT ![r].role = members[u].role,
                          ![r].step = IF members[u].role = "owner" THEN "count" ELSE "remove"]
       ELSE Answer(r)
    /\ UNCHANGED <<members, overtaken, raced, demoted>>

\* Mutant: the count is compared with zero.
CountOwnersOffByOne(r) ==
    /\ At(r, "count")
    /\ IF Cardinality(Owners) > 0 THEN Go(r, "remove") ELSE Answer(r)
    /\ UNCHANGED <<members, overtaken, raced, demoted>>

\* The last owner is not removed.
CountOwners(r) ==
    /\ At(r, "count")
    /\ IF Cardinality(Owners) > 1 THEN Go(r, "remove") ELSE Answer(r)
    /\ UNCHANGED <<members, overtaken, raced, demoted>>

\* The row is read again and, if active, marked removed.
RemoveMember(r) ==
    LET u == request[r].target IN
    /\ At(r, "remove")
    /\ members' = IF Active(u) THEN [members EXCEPT ![u].status = "removed"] ELSE members
    /\ Answer(r)
    /\ Overtake(r)
    /\ raced' = (raced \/ (u \in Owners /\ (r \in overtaken \/ request[r].role # "owner")))
    /\ UNCHANGED demoted

\* An error or a lost process: nothing was written.
AbandonRequest(r) ==
    /\ ~ At(r, "idle")
    /\ Answer(r)
    /\ overtaken' = overtaken \ {r}
    /\ UNCHANGED <<members, raced, demoted>>

MembershipNext ==
    \E r \in Requests :
       \/ \E actor, target \in Users : Authenticate(r, actor, target)
       \/ CheckNewMember(r) \/ InsertMember(r)
       \/ LoadForRole(r) \/ SetRole(r)
       \/ LoadTarget(r) \/ CountOwners(r) \/ RemoveMember(r)
       \/ AbandonRequest(r)

MembershipSpec == MembershipInit /\ [][MembershipNext]_membershipVars

-----------------------------------------------------------------------------
(* Properties                                                              *)

\* The organization is left without an owner only after an owner was given another
\* role, which nothing counts, or after a removal whose count or whose loaded role
\* another request had overtaken ("Cannot remove the last owner").
OwnerlessOnlyIfOvertaken == Owners = {} => raced \/ demoted

\* A removed member never comes back: its row is in the way of a new one, and no
\* request sees it.
RemovalIsFinal ==
    [][\A u \in Users : members[u].status = "removed" => members'[u].status = "removed"]_members
=============================================================================
