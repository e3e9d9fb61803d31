-------------------------- MODULE SignalAcquisition --------------------------
(***************************************************************************)
(* Acquisition: jobs fetch the signal contracts, store what is new and     *)
(* keep each contract's health (SignalAcquisitionService).                 *)
(*                                                                         *)
(* A tier job takes every contract of its tier that is active, one by one, *)
(* in one database session that commits at the end of the batch; the       *)
(* scheduler starts tier jobs for ever, and two of one tier may overlap    *)
(* when a queue is behind.  An on-demand job takes a single contract.      *)
(* Admins activate, deactivate or patch contracts.  A session works on the *)
(* instances its first SELECT loaded (its view) and an UPDATE writes only  *)
(* the columns it changed against them; the flush takes the row lock and   *)
(* the refresh after it rereads the row.  MaxFaults bounds failed fetches  *)
(* and lost jobs.  The refinement jobs a batch enqueues are outside this   *)
(* module.                                                                 *)
(***************************************************************************)
EXTENDS Integers, Sequences, SequencesExt

CONSTANTS
    Contracts,    \* contracts of one schedule tier
    Webhooks,     \* those that only deliver: nothing to fetch
    Items,        \* contents that pass the extractor's quality gate, by hash
    TierJobs,     \* workers that may run the tier job
    OnDemandJobs, \* on-demand fetches, each run once
    Admins,       \* contract updates of the API, each made once
    MaxFailures,  \* signal_contracts.max_failures
    MaxFaults,    \* bound: failed fetches and lost jobs
    None          \* no contract is being worked on

Jobs == TierJobs \cup OnDemandJobs
Sessions == Jobs \cup Admins

ASSUME AcquisitionAssumption ==
    /\ Webhooks \subseteq Contracts
    /\ None \notin Sessions \cup Contracts
    /\ TierJobs \cap OnDemandJobs = {} /\ Jobs \cap Admins = {}
    /\ MaxFailures \in Nat \ {0} /\ MaxFaults \in Nat

VARIABLES
    row,        \* committed health columns of each contract
    lock,       \* a contract's row lock: its holder, then those who wait for it
    stored,     \* how many committed signals have this contract and content
    published,  \* what each contract's source has published so far
    pc,         \* where each session is
    todo,       \* contracts left in each session's batch
    cur,        \* the contract a job is working on, or None
    found,      \* results of the fetch a job is working on
    own,        \* signals each job has inserted and not committed
    view,       \* each session's instances of the contracts
    faults,     \* faults so far
    streak,     \* history: failed fetches since the last recorded success
    stale       \* history: contracts that were written from an outdated view

vars == <<row, lock, stored, published, pc, todo, cur, found, own, view,
          faults, streak, stale>>

Health == [active : BOOLEAN, status : {"active", "degraded", "disabled"},
           failures : Nat]
Healthy == [active |-> TRUE, status |-> "active", failures |-> 0]
Signals == Contracts \X Items

TypeOK ==
    /\ row \in [Contracts -> Health]
    /\ lock \in [Contracts -> Seq(Jobs)]
    /\ stored \in [Signals -> Nat]
    /\ published \in [Contracts -> SUBSET Items]
    /\ pc \in [Sessions -> {"idle", "loop", "filter", "insert", "mark",
                            "raised", "failed", "loaded", "done"}]
    /\ todo \in [Sessions -> SUBSET Contracts]
    /\ cur \in [Jobs -> Contracts \cup {None}]
    /\ found \in [Jobs -> SUBSET Items]
    /\ own \in [Jobs -> SUBSET Signals]
    /\ view \in [Sessions -> [Contracts -> Health]]
    /\ faults \in 0..MaxFaults
    /\ streak \in [Contracts -> Nat]
    /\ stale \subseteq Contracts

Nothing == [c \in Contracts |-> Healthy]

Init ==
    /\ row = Nothing
    /\ lock = [c \in Contracts |-> <<>>]
    /\ stored = [s \in Signals |-> 0]
    /\ published = [c \in Contracts |-> {}]
    /\ pc = [s \in Sessions |-> "idle"]
    /\ todo = [s \in Sessions |-> {}]
    /\ cur = [j \in Jobs |-> None]
    /\ found = [j \in Jobs |-> {}]
    /\ own = [j \in Jobs |-> {}]
    /\ view = [s \in Sessions |-> Nothing]
    /\ faults = 0
    /\ streak = [c \in Contracts |-> 0]
    /\ stale = {}

Polled(c) == row[c].active /\ row[c].status = "active"

Goto(s, label) == pc' = [pc EXCEPT ![s] = label]

\* Mutant: the UPDATE sets every column, as after a merge of the instance.
WrittenAllColumns(base, old, new) == new

\* What an UPDATE of the columns changed from old to new leaves in the row.
Written(base, old, new) ==
    [col \in DOMAIN base |-> IF new[col] = old[col] THEN base[col] ELSE new[col]]

\* Mutant: a failing contract gets a status nobody reads.
FailedOtherStatus(v) ==
    [v EXCEPT !.failures = @ + 1,
              !.status = IF v.failures + 1 >= MaxFailures THEN "failing" ELSE @]

\* mark_failed: one failure more, degraded from max_failures on.
Failed(v) ==
    [v EXCEPT !.failures = @ + 1,
              !.status = IF v.failures + 1 >= MaxFailures THEN "degraded" ELSE @]

\* Mutant: the failures are reset, the status is not.
FetchedKeepStatus(v) == [v EXCEPT !.failures = 0]

\* mark_fetched: failures and status reset together.
Fetched(v) == [v EXCEPT !.failures = 0, !.status = "active"]

-----------------------------------------------------------------------------
(* The sources                                                             *)

Publish(c, x) ==
    /\ c \notin Webhooks
    /\ x \notin published[c]
    /\ published' = [published EXCEPT ![c] = @ \cup {x}]
    /\ UNCHANGED <<row, lock, stored, pc, todo, cur, found, own, view,
                   faults, streak, stale>>

-----------------------------------------------------------------------------
(* The jobs.  A job in "loop" picks the next contract; "filter", "insert"  *)
(* and "mark" are the stages of fetch_contract, for Current(j).            *)

\* _dispatch_tier, then get_by_schedule_tier in the worker.
TierStart(j) ==
    /\ pc[j] = "idle"
    /\ Goto(j, "loop")
    /\ todo' = [todo EXCEPT ![j] = {c \in Contracts : Polled(c)}]
    /\ view' = [view EXCEPT ![j] = row]
    /\ UNCHANGED <<row, lock, stored, published, cur, found, own,
                   faults, streak, stale>>

\* fetch_contract_by_id, for a contract the API lets a user fetch.
OnDemandStart(j, c) ==
    /\ pc[j] = "idle"
    /\ c \notin Webhooks
    /\ IF row[c].active
       THEN /\ Goto(j, "loop")
            /\ todo' = [todo EXCEPT ![j] = {c}]
            /\ view' = [view EXCEPT ![j][c] = row[c]]
       ELSE /\ Goto(j, "done")
            /\ UNCHANGED <<todo, view>>
    /\ UNCHANGED <<row, lock, stored, published, cur, found, own,
                   faults, streak, stale>>

\* The fetcher returns what the source has published.
FetchOk(j, c) ==
    /\ pc[j] = "loop"
    /\ c \in todo[j] \ Webhooks
    /\ cur' = [cur EXCEPT ![j] = c]
    /\ found' = [found EXCEPT ![j] = published[c]]
    /\ Goto(j, "filter")
    /\ UNCHANGED <<row, lock, stored, published, todo, own, view,
                   faults, streak, stale>>

\* A failed fetch: "failed" when the fetcher returned a FetchError, "raised" when it
\* raised another exception.  An on-demand job then fails as a whole: see Abort.
FetchFails(j, c, outcome) ==
    /\ j \in TierJobs
    /\ pc[j] = "loop"
    /\ c \in todo[j] \ Webhooks
    /\ faults < MaxFaults
    /\ faults' = faults + 1
    /\ cur' = [cur EXCEPT ![j] = c]
    /\ Goto(j, outcome)
    /\ UNCHANGED <<row, lock, stored, published, todo, found, own, view,
                   streak, stale>>

\* There is nothing to fetch for a webhook contract.
SkipFetch(j, c) ==
    /\ pc[j] = "loop"
    /\ c \in todo[j] \cap Webhooks
    /\ cur' = [cur EXCEPT ![j] = c]
    /\ Goto(j, "mark")
    /\ UNCHANGED <<row, lock, stored, published, todo, found, own, view,
                   faults, streak, stale>>

Marking == {"mark", "raised", "failed"}
Holds(j, c) == lock[c] # <<>> /\ Head(lock[c]) = j
Waits(j, c) == \E n \in DOMAIN lock[c] : lock[c][n] = j

\* The flush of a health UPDATE finds the row locked.
WaitForRow(j) ==
    /\ pc[j] \in Marking
    /\ lock[cur[j]] # <<>>
    /\ ~Waits(j, cur[j])
    /\ lock' = [lock EXCEPT ![cur[j]] = Append(@, j)]
    /\ UNCHANGED <<row, stored, published, pc, todo, cur, found, own, view,
                   faults, streak, stale>>

\* The health UPDATE of the current contract, from the flush that has the row lock
\* to the refresh, which leaves the instance with the columns of the row; then the
\* loop goes on.
UpdateHealth(j, refreshed) ==
    LET c == cur[j]
    IN  /\ lock[c] = <<>> \/ Holds(j, c)
        /\ lock' = [lock EXCEPT ![c] = IF @ = <<>> THEN <<j>> ELSE @]
        /\ view' = [view EXCEPT ![j][c] = refreshed]
        /\ stale' = IF view[j][c] = row[c] THEN stale ELSE stale \cup {c}
        /\ todo' = [todo EXCEPT ![j] = @ \ {c}]
        /\ cur' = [cur EXCEPT ![j] = None]
        /\ found' = [found EXCEPT ![j] = {}]
        /\ Goto(j, "loop")
        /\ UNCHANGED <<row, stored, published, own, faults>>

\* What the row becomes when a job sets the columns of its instance to new's.
Marked(j, new) == Written(row[cur[j]], view[j][cur[j]], new)

\* The loop of fetch_by_tier catches the exception and marks the failure, which
\* fetch_contract has already done once for a FetchError.
MarkFailed(j) ==
    /\ LET once == Marked(j, Failed(view[j][cur[j]]))
       IN  \/ pc[j] = "raised" /\ UpdateHealth(j, once)
           \/ pc[j] = "failed" /\ UpdateHealth(j, Failed(once))
    /\ streak' = [streak EXCEPT ![cur[j]] = @ + 1]

\* The last call of fetch_contract; a webhook's failures are left alone.
MarkFetched(j) ==
    /\ pc[j] = "mark"
    /\ UpdateHealth(j, IF cur[j] \in Webhooks THEN row[cur[j]]
                       ELSE Marked(j, Fetched(view[j][cur[j]])))
    /\ UNCHANGED streak

\* filter_duplicates: the hashes of every contract's signals count, those this
\* session has inserted included.
FilterDuplicates(j) ==
    /\ pc[j] = "filter"
    /\ found' = [found EXCEPT ![j] =
                   {x \in @ : \A c \in Contracts :
                        stored[<<c, x>>] = 0 /\ <<c, x>> \notin own[j]}]
    /\ Goto(j, "insert")
    /\ UNCHANGED <<row, lock, stored, published, todo, cur, own, view,
                   faults, streak, stale>>

Inserts(j) == {cur[j]} \X found[j]

\* The jobs whose uncommitted rows the unique index makes this insert wait for.
InsertWaitsFor(j) == {k \in Jobs \ {j} : own[k] \cap Inserts(j) # {}}

\* Mutant: the inserted signals are committed on the spot.
InsertAutocommit(j) ==
    /\ pc[j] = "insert"
    /\ stored' = [s \in Signals |-> IF s \in Inserts(j) THEN stored[s] + 1
                                                        ELSE stored[s]]
    /\ Goto(j, "mark")
    /\ UNCHANGED <<row, lock, published, todo, cur, found, own, view,
                   faults, streak, stale>>

\* Mutant: no unique index on (contract_id, content_hash).
InsertWithoutIndex(j) ==
    /\ pc[j] = "insert"
    /\ own' = [own EXCEPT ![j] = @ \cup Inserts(j)]
    /\ Goto(j, "mark")
    /\ UNCHANGED <<row, lock, stored, published, todo, cur, found, view,
                   faults, streak, stale>>

\* create_many: one flush, which waits for other sessions' rows with the same key.
Insert(j) ==
    /\ pc[j] = "insert"
    /\ InsertWaitsFor(j) = {}
    /\ \A s \in Inserts(j) : stored[s] = 0
    /\ own' = [own EXCEPT ![j] = @ \cup Inserts(j)]
    /\ Goto(j, "mark")
    /\ UNCHANGED <<row, lock, stored, published, todo, cur, found, view,
                   faults, streak, stale>>

\* The end of a session, which leaves every queue; its worker is free again.
Place(j, c) == CHOOSE n \in DOMAIN lock[c] : lock[c][n] = j
Unlock(j) ==
    lock' = [c \in Contracts |-> IF Waits(j, c) THEN RemoveAt(lock[c], Place(j, c))
                                               ELSE lock[c]]
Forget(j) ==
    /\ todo' = [todo EXCEPT ![j] = {}]
    /\ cur' = [cur EXCEPT ![j] = None]
    /\ found' = [found EXCEPT ![j] = {}]
    /\ own' = [own EXCEPT ![j] = {}]
    /\ view' = [view EXCEPT ![j] = Nothing]
    /\ Goto(j, IF j \in TierJobs THEN "idle" ELSE "done")

\* get_db_context commits the whole batch.
Commit(j) ==
    /\ pc[j] = "loop"
    /\ todo[j] = {}
    /\ row' = [c \in Contracts |-> IF Holds(j, c) THEN view[j][c] ELSE row[c]]
    /\ stored' = [s \in Signals |-> IF s \in own[j] THEN stored[s] + 1 ELSE stored[s]]
    /\ streak' = [c \in Contracts |->
                    IF Holds(j, c) /\ c \notin Webhooks /\ view[j][c].failures = 0
                    THEN 0 ELSE streak[c]]
    /\ Unlock(j)
    /\ Forget(j)
    /\ UNCHANGED <<published, faults, stale>>

\* Mutant: the failed session's row locks stay.
RollBackKeepLocks(j) ==
    /\ Forget(j)
    /\ UNCHANGED <<row, lock, stored, published, streak, stale>>

RollBack(j) ==
    /\ Unlock(j)
    /\ Forget(j)
    /\ UNCHANGED <<row, stored, published, streak, stale>>

\* A lost worker, a job timeout, a failed on-demand fetch: any exception that
\* the loop of fetch_by_tier does not catch.
Abort(j) ==
    /\ pc[j] \in {"loop", "filter", "insert"} \cup Marking
    /\ faults < MaxFaults
    /\ faults' = faults + 1
    /\ RollBack(j)

\* The unique index refuses the insert.  The session is unusable after the failed
\* flush, so the handler's _handle_failure fails too, and the batch is lost.
InsertConflicts(j) ==
    /\ pc[j] = "insert"
    /\ \E s \in Inserts(j) : stored[s] > 0
    /\ RollBack(j)
    /\ UNCHANGED faults

WaitsFor(j) ==
    IF pc[j] = "insert" THEN InsertWaitsFor(j)
    ELSE {k \in Jobs : \E c \in Contracts : \E m, n \in DOMAIN lock[c] :
             m < n /\ lock[c][m] = k /\ lock[c][n] = j}

\* Sessions that wait in a cycle: Postgres cancels the statement of one of them.
DeadlockVictim(j) ==
    /\ \E S \in SUBSET Jobs :
         /\ j \in S
         /\ \A k \in S : WaitsFor(k) \cap S # {} /\ \E m \in S : k \in WaitsFor(m)
    /\ RollBack(j)
    /\ UNCHANGED faults

-----------------------------------------------------------------------------
(* Contract updates of the API                                             *)

\* get_scoped loads the instance that the update will work on.
AdminLoad(a, c) ==
    /\ pc[a] = "idle"
    /\ Goto(a, "loaded")
    /\ todo' = [todo EXCEPT ![a] = {c}]
    /\ view' = [view EXCEPT ![a][c] = row[c]]
    /\ UNCHANGED <<row, lock, stored, published, cur, found, own,
                   faults, streak, stale>>

\* activate_contract, deactivate_contract, and update_contract on is_active.
AdminVersions(v) == {Healthy, [v EXCEPT !.active = FALSE, !.status = "disabled"],
                     [v EXCEPT !.active = TRUE], [v EXCEPT !.active = FALSE]}

AdminWrite(a, c, new) ==
    /\ pc[a] = "loaded"
    /\ c \in todo[a]
    /\ lock[c] = <<>>
    /\ row' = [row EXCEPT ![c] = Written(row[c], view[a][c], new)]
    /\ stale' = IF view[a][c] = row[c] THEN stale ELSE stale \cup {c}
    /\ todo' = [todo EXCEPT ![a] = {}]
    /\ view' = [view EXCEPT ![a] = Nothing]
    /\ Goto(a, "done")
    /\ UNCHANGED <<lock, stored, published, cur, found, own, faults, streak>>

-----------------------------------------------------------------------------

JobStep(j) ==
    \/ FilterDuplicates(j) \/ Insert(j) \/ InsertConflicts(j)
    \/ WaitForRow(j) \/ MarkFetched(j) \/ MarkFailed(j)
    \/ Commit(j) \/ DeadlockVictim(j)
    \/ \E c \in Contracts : FetchOk(j, c) \/ SkipFetch(j, c)

AdminStep == \E a \in Admins, c \in Contracts :
    \/ AdminLoad(a, c)
    \/ \E new \in AdminVersions(view[a][c]) : AdminWrite(a, c, new)

Next ==
    \/ \E c \in Contracts, x \in Items : Publish(c, x)
    \/ \E j \in TierJobs : TierStart(j)
    \/ \E j \in OnDemandJobs, c \in Contracts : OnDemandStart(j, c)
    \/ \E j \in Jobs : JobStep(j) \/ Abort(j)
    \/ \E j \in TierJobs, c \in Contracts, outcome \in {"raised", "failed"} :
          FetchFails(j, c, outcome)
    \/ AdminStep

\* The scheduler keeps starting tier jobs and a job that runs goes on; an insert
\* that waits is woken whenever the session it waits for ends.  Neither a fault nor
\* an admin is ever owed.
Fairness ==
    /\ \A j \in TierJobs : WF_vars(TierStart(j))
    /\ \A j \in Jobs : WF_vars(JobStep(j)) /\ SF_vars(Insert(j))

Spec == Init /\ [][Next]_vars
FairSpec == Spec /\ Fairness

-----------------------------------------------------------------------------
(* Properties                                                              *)

\* Overlapping jobs never store one content twice for a contract, although each
\* filters before the other commits (uq_signals_contract_content_hash, "Prevents
\* concurrent signal fetchers from inserting duplicate signals").
NoDuplicateSignals == \A s \in Signals : stored[s] <= 1

\* Unless it was written from an outdated view, a contract is degraded exactly if
\* it has max_failures failures, whoever wrote it last (mark_failed, mark_fetched,
\* activate_contract), and its failures were seen: no more than two for each
\* fetch that failed since the last recorded success.
HealthIsEarned ==
    \A c \in Contracts \ stale :
        /\ row[c].status = "degraded" => row[c].failures >= MaxFailures
        /\ row[c].status = "active" => row[c].failures < MaxFailures
        /\ row[c].failures <= 2 * streak[c]

\* A worker never switches a deactivated contract on again, not even when it
\* writes from a view that is older than the deactivation.
OnlyAdminsActivate ==
    [][\A c \in Contracts : row'[c].active /\ ~row[c].active =>
          \E a \in Admins : pc[a] = "loaded" /\ pc'[a] = "done"]_vars

\* A batch is all or nothing: new signals of a contract appear in the step that
\* records its successful fetch (one commit for fetch_by_tier's session).
SignalsComeWithHealth ==
    [][\A c \in Contracts :
          (\E x \in Items : stored'[<<c, x>>] > stored[<<c, x>>]) =>
              c \in stale' \/ (row'[c].failures = 0 /\ row'[c].status = "active")]_vars

\* Whatever overlaps, fails or is rolled back, the committed signals are those of the
\* signal store: a batch appears at once, with nothing in it that was not published or
\* is stored already (fetch_contract, create_many, the commit of get_db_context).
Store == INSTANCE SignalStore
RefinesStore == Store!Spec

\* What a source has published is stored, for this contract or for another with
\* the same content, unless the contract stops being polled: rolled back batches,
\* conflicts and deadlocks of overlapping jobs only delay it.
PublishedIsStored ==
    \A c \in Contracts, x \in Items :
        (x \in published[c]) ~> (~Polled(c) \/ \E d \in Contracts : stored[<<d, x>>] > 0)

\* _handle_failure: "After max_failures (default 3), contract status -> degraded".
DegradedAfterMaxFailures ==
    \A c \in Contracts : row[c].status = "degraded" => streak[c] >= MaxFailures
=============================================================================
