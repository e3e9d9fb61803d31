---------------------------- MODULE MCSharedState ----------------------------
(***************************************************************************)
(* Instances for TLC of eight components that share nothing with each      *)
(* other, each a few sessions over what they do share: rows of the         *)
(* database (members, sources, documents, accounts) or Redis keys          *)
(* (refresh limit, idempotency key, circuit, compute lock).                *)
(*                                                                         *)
(* The initial state chooses the component that moves, so the states of    *)
(* the eight are added and not multiplied.  They share their names, which  *)
(* keeps the symmetries few.  An hour of the brief refresh is Cooldown = 2 *)
(* units, and a brief is stale a unit later.                               *)
(***************************************************************************)
EXTENDS OrgMembership, SourceDiscovery, DocumentJobs, UserAccounts,
        BriefRefresh, IdempotencyKeys, CircuitBreaker, ComputeLock, TLC

CONSTANTS
    k1, k2, k3,   \* members; deliveries; requests with a key, or for a value
    r1, r2,       \* requests; batches; workers; refresh runs; guarded calls
    t1, t2,       \* admins; documents; bodies
    f1, f2,       \* files; briefs
    one           \* the source, the clean-up, the account

VARIABLE active   \* the component that moves

\* Two signups and two logins of one account, and its deletion.
AccountEvents ==
    [account : {one}, type : {"registration", "login"}, nr : {1, 2}]
        \cup {[account |-> one, type |-> "deletion", nr |-> 1]}

Symmetry == Permutations({k1, k2, k3}) \cup Permutations({r1, r2}) \cup Permutations({t1, t2})

rowVars == <<membershipVars, discoveryVars, documentVars, accountVars>>
keyVars == <<refreshVars, idempotencyVars, breakerVars, computeVars>>

SharedInit ==
    /\ active \in {"members", "sources", "documents", "accounts",
                   "refresh", "idempotency", "breaker", "compute"}
    /\ MembershipInit /\ DiscoveryInit /\ DocumentInit /\ AccountInit
    /\ RefreshInit /\ IdempotencyInit /\ BreakerInit /\ ComputeInit
    /\ active # "refresh" => refreshed = [b \in Briefs |-> 0]

RowNext ==
    \/ /\ active = "members" /\ MembershipNext
       /\ UNCHANGED <<discoveryVars, documentVars, accountVars>>
    \/ /\ active = "sources" /\ DiscoveryNext
       /\ UNCHANGED <<membershipVars, documentVars, accountVars>>
    \/ /\ active = "documents" /\ DocumentNext
       /\ UNCHANGED <<membershipVars, discoveryVars, accountVars>>
    \/ /\ active = "accounts" /\ AccountNext
       /\ UNCHANGED <<membershipVars, discoveryVars, documentVars>>

KeyNext ==
    \/ /\ active = "refresh" /\ RefreshNext
       /\ UNCHANGED <<idempotencyVars, breakerVars, computeVars>>
    \/ /\ active = "idempotency" /\ IdempotencyNext
       /\ UNCHANGED <<refreshVars, breakerVars, computeVars>>
    \/ /\ active = "breaker" /\ BreakerNext
       /\ UNCHANGED <<refreshVars, idempotencyVars, computeVars>>
    \/ /\ active = "compute" /\ ComputeNext
       /\ UNCHANGED <<refreshVars, idempotencyVars, breakerVars>>

SharedNext ==
    /\ UNCHANGED active
    /\ \/ RowNext /\ UNCHANGED keyVars
       \/ KeyNext /\ UNCHANGED rowVars

SharedSpec == SharedInit /\ [][SharedNext]_<<rowVars, keyVars, active>>
=============================================================================
