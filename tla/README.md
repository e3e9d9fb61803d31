# Cogentic in TLA+

A verification project for the backend of Cogentic (Cogent): a FastAPI API, RQ
workers and a scheduler process around one PostgreSQL database and one Redis.
TLA+ modules model the parts that carry the product's own logic, TLC checks them
on small instances, and TLAPS proves the most important invariants for every
instance. Paths below are relative to the repository's root (`src/` here).

How to run it, from this directory:

    tlc -config MCCreditLedger.cfg MCCreditLedger      (any MC module and cfg)
    tlapm CreditLedger_proofs.tla                      (any *_proofs module)

## 1. Inventory

### How the system runs

* API processes (FastAPI, asyncio). A request gets a database session from
  `get_db` (`backend/database.py:264`): it commits after the handler has answered,
  and rolls back on any exception. Sessions are SQLAlchemy sessions: they keep an
  identity map, so a row that was loaded once keeps its attribute values until the
  session refreshes it, and an UPDATE sets only the columns that changed.
* RQ workers run jobs from Redis queues. A job opens a session with
  `get_db_context` (`backend/database.py:286`), which commits once, at the end.
  `enqueue_job` asks for no retry.
* One scheduler process (`worker.py --scheduler`) starts periodic jobs.

Everything hard comes from this: sessions interleave on the same rows with views
of different age, a commit comes long after the read it rests on, jobs are lost or
run twice, and Redis keys expire while their owner believes it has them.

### Components

| Component | State | Operations | What makes it correct | Status |
|---|---|---|---|---|
| Credit ledger (`services/credit_service.py`, `repositories/credit_repository.py`, `middleware/feature_gating.py`, `database.py`) | `organizations.credits_allocated_monthly`, `credits_consumed`; `credit_transactions` | check and charge under a row lock, refuse with 402, commit or roll back after the handler | no overspending; counter and transactions agree; the lock is always released | modelled, proved |
| Billing (`services/paystack_service.py`, `webhooks/paystack.py`) | `subscriptions`, tier and credit columns of the organization | start checkout, verify and activate, webhook events, cancel | no payment is forgotten; the row follows what happened at Paystack; a cancellation stays possible | modelled, proved |
| Trials (`services/trial_service.py`, `jobs/trial_expiry_job.py`) | trial status and dates, tier, credits | start, expire, convert, extend | nobody keeps a tier for nothing; who has paid keeps the tier | modelled with billing, proved |
| Signal acquisition (`services/signal_acquisition.py`, `repositories/signal_contract.py`, `signals/processors/`) | health columns of `signal_contracts`, `signals` | fetch a tier, fetch one contract, deduplicate, insert, mark fetched or failed; activate, deactivate | no duplicate signals, nothing published is lost, health is what the fetches were | modelled, proved |
| Signal refinement (`services/refinement_service.py`, `ai/embeddings.py`) | embedding and confidence of `signals`, extracted facts | refine a batch, catch up | every signal is processed; only real duplicates are suppressed | modelled, proved |
| Scheduler lock (`worker.py`) | a Redis key with a token and a life | take, renew, lose, release | one scheduler; a lost key stops its owner; scheduling resumes after a crash | modelled, proved |
| Scheduler (`signals/scheduler.py`, `job_queue.py`) | APScheduler jobs in memory | start a job per period | periodic jobs keep starting | as fairness |
| Briefs (`briefs/`, `jobs/sprint4_jobs.py`) | `briefs`, a rate-limit key | generate, refresh the stale ones | at most one regeneration an hour; a key stands for a refresh that was saved | the refresh: modelled, proved |
| Source discovery (`services/source_discovery.py`, `api/v1/discovered_sources.py`, `jobs/source_discovery_job.py`) | `discovered_sources`, contracts they become | track a reference, promote, activate, dismiss | recommended means referred to often enough; one contract per source | modelled, proved |
| Document jobs (`job_handlers.py`, `api/v1/documents.py`) | status of a document and of its AI job, the file | import, analyse, fail, clean up | "running" means that somebody works; no file of a kept document is deleted | modelled, proved |
| Organization members (`api/v1/orgs.py`, `repositories/organization.py`) | `org_users` | add, change role, remove | an organization keeps an owner; a removal is final | modelled, proved |
| User accounts (`webhooks/auth0.py`) | `users`, a claim per event | signup, login, deletion, redelivered | each event counts once; a registration leaves a user | modelled, proved |
| Redis helpers: idempotency keys, circuit breaker, cache stampede lock (`middleware/idempotency.py`, `services/circuit_breaker.py`, `services/cache_stampede.py`) | a few keys each | claim, answer, release; trip, probe, close; compute under a lock | one execution per key; an open circuit recovers; one computes at a time | modelled, proved; no route or job uses them yet |
| Job retry and dead letters (`jobs/retry_strategy.py`) | a Redis list | retry with delay, bury, requeue | | not modelled: nothing calls it, except to report its size |
| Authentication (`auth/`) | key cache, sessions, users | verify a token, track a session | | not modelled: calls of an external issuer |
| Live updates (`services/ws_manager.py`, `services/situation_room.py`) | connections in memory | connect, broadcast | | not modelled |
| Chat, agent, synthesis, change detection, entities, machine learning | | prompting, heuristics, numeric models | | not modelled: the logic is in model calls and numbers |
| Compliance (`compliance/`) | rows of many tables | delete, export, retain | | candidate for later |
| Frontend | | presentation | | not modelled |

Interactions: a route charges the ledger before it works or enqueues a job; a payment
and a trial check write the same organization row; acquisition stores signals and
enqueues refinement, which reads what acquisition has committed and tracks the sources
its signals refer to; an activated source is a contract that acquisition fetches; the
scheduler starts acquisition and refinement catch-ups for as long as it holds its Redis
key. The behaviours that are hard to test are listed one by one, with their lines, in
PROJECT.json under "hazards".

## 2. Modules

| Module | Models | Key state |
|---|---|---|
| PrepaidAccount | what "strict prepaid" promises, without machinery | balance, charged |
| CreditLedger | one organization row and the sessions that charge or renew it | row, lock, pc, view, ledger |
| CreditLedger_proofs | its invariants and the refinement of PrepaidAccount | |
| SubscriptionBilling | the plan of one organization: checkouts, Paystack's events, cancellation, the trial check | org, sub, session, checkout, provider, events |
| SubscriptionBilling_proofs | its two inductive invariants and its six safety properties | |
| SignalAcquisition | tier jobs, on-demand fetches and contract updates | row, lock, stored, own, view |
| SignalStore | what acquisition promises, without sessions, locks and health | published, stored |
| SignalAcquisition_proofs | its inductive invariants, its safety properties and the refinement of SignalStore | |
| SignalRefinement | refinement jobs and catch-ups on stored signals | embedded, confidence, facts, own, view, lock |
| SignalRefinement_proofs | its inductive invariant and its safety properties | |
| SchedulerLease | the scheduler processes and their key, in discrete time | key, ttl, pc, age |
| SchedulerLease_proofs | its mutual exclusion | |
| OrgMembership | requests on the members of one organization | members, request |
| UserAccounts | deliveries of Auth0's events | users, claimed, delivery |
| SourceDiscovery | refinement batches, admins and the activation job on sources | sources, flushed, batch, admin |
| SourceDiscovery_proofs | its inductive invariant | |
| DocumentJobs | workers, clean-ups and files | documents, jobs, files, work, sweep |
| SharedRows_proofs | the invariants of OrgMembership, UserAccounts and DocumentJobs, which share table rows | |
| BriefRefresh | refresh runs and the key of each brief, in discrete time | refreshed, limit, run |
| IdempotencyKeys | the requests that come with one key | entry, caller |
| CircuitBreaker | the calls through one circuit | circuit, failures, successes, opened, call |
| ComputeLock | the requests for one cached value | cache, lockLeft, getter |
| SharedKeys_proofs | the invariants of BriefRefresh and of these three, which share Redis keys | |
| MCSharedState | one instance of the eight modules from OrgMembership on, one at a time | active |
| other MC* | instances for TLC | |

Conventions shared by the modules. `view` is a session's identity map: what its
instances knew when they were loaded. `row` (or `embedded`, `confidence`) is what is
committed. `lock` is PostgreSQL's row lock, held from the first flush of a row to the
end of the session. `own` is flushed and not committed: only the session itself sees it.
A step of a session is what it does between two points where others can get in between:
a query that takes a lock, a flush, a commit. History variables, marked in their
comments, record what a property needs to say; no action reads them. A definition whose
comment begins with "Mutant:" is no part of the model: it is a plausible bug that shows
that a property would notice.

### CreditLedger

A request authenticates (`get_current_user`; routes with `get_current_organization`
also load the organization: Preloaded), locks the row (`SELECT ... FOR UPDATE`),
charges or refuses, answers, and commits after it has answered. Loading before
locking matters: the locking SELECT returns the instance the identity map already
has, with the values from before the lock, because it does not ask for
`populate_existing`. Renewals are `verify_and_activate_checkout` and
`check_trial_expiry`: load, set the plan and zero the counter in the instance,
flush, commit; a column whose loaded value equals the new one is not in the UPDATE.
`Abort` is any exception, failed commit or lost process.
Actions whose cost is zero are left out: they write a transaction and no counter.

### SubscriptionBilling

`org` and `sub` are the committed rows, `session[h]` a database session with the
instances it has loaded. `verify_and_activate_checkout` and
`initialize_subscription_checkout` load the organization, then the subscription
(ReadSubscription); what was loaded is not read again, because expire_on_commit is
off and nothing refreshes it. The end of a session is one action: the flushed rows stay
locked until the commit, so nobody gets in between. `Written` is the UPDATE: it sets
the columns whose value differs from the one loaded, and leaves the others as
the row has them now. FastAPI sends the answer before `get_db` commits, hence
`LoseCommit`: Paystack takes the event for delivered although nothing was stored.

| Action | Code |
|---|---|
| StartCheckout, Initialized, Opened | `upgrade_tier`, `initialize_subscription_checkout` |
| Verify, Activated, ActivatedOrg | `verify_and_activate_checkout`: for charge.success (DeliverCharge) or for the route, with no event |
| Deliver, EventHandled | `_find_subscription_for_event` and the four handlers of other events |
| Ignore | no subscription found: the answer is "ignored", with status 200 |
| StartCancel, AskToDisable, Refused | `cancel_subscription` and Paystack's answer |
| StartTrialCheck, TrialChecked | `check_all_expired_trials`, `check_trial_expiry` |
| Commit, Conflict, LoseCommit, Abort | the end of `get_db`: commit, a second row for one org_id, a commit lost after the answer, any failure before it |
| Pay, Invoice, Disable | Paystack: external, from the events the code handles |

`events` is a set: Paystack delivers in any order and repeats what was not
acknowledged; an answer may be lost, so a handled event may come again. Whether the events
of a subscription carry a reference is Paystack's affair, so both are possible.
`start_trial` is an initial state (no route calls it), and `convert_trial_to_paid`,
which nothing calls, is left out. Prices change in no API and are part of a tier;
periods, dates and the settings column are abstracted. The credit columns, which
activation and trial check write too, are CreditLedger's.

### SignalAcquisition

`TierStart` is `get_by_schedule_tier` in a new session; the job then takes the contracts
of its list in any order (the SELECT has none). A fetch returns what the source has
published, or fails with a FetchError ("failed": counted by `fetch_contract` and again
by the loop that catches it) or with another exception ("raised": counted once).
`FilterDuplicates`, `Insert` and `MarkFetched` are the stages of `fetch_contract`. An
insert waits for another session's uncommitted row with the same (contract, hash) and
conflicts with a committed one; either failure leaves the session unusable,
`_handle_failure` raises in the except branch, and the whole batch is rolled back. Row
locks are queues, as in PostgreSQL: first come, first served. `AdminLoad` and
`AdminWrite` are the contract routes that touch the health columns. Items are contents
that pass the extractor's quality gate. Creation and deletion of contracts, and the
webhook delivery that `fetch_contract` can never reach, are left out.

SignalStore is the same system seen from outside: sources publish, and batches of what
is published and not yet stored appear at once. RefinesStore says that acquisition
implements it: `published` and `stored` are mapped to themselves, each commit of a job is
a `Store` of what the job has inserted, and every other step leaves the store alone.

### SignalRefinement

A job loads what it finds of its batch, embeds what has no embedding in one flush
in the order of the primary keys, then refines signal by signal and commits once.
Refining embeds again (mostly from the cache), flushes, and asks for the nearest
embedding in the table; a duplicate gets confidence 0, anything else is analysed.
When the embedding fails, the duplicate check is skipped and the analysis runs. The
stages of the analysis (entities, market data, scores, events) each log their failure
and go on; the model keeps two results, market data and score, and lets each be
missing. The catch-up takes the newest signals without an embedding whose confidence
is above zero. Uncommitted writes lock their rows; jobs that wait for each other in a
circle of any length deadlock, and PostgreSQL aborts one of them (`DeadlockVictim`).

### SchedulerLease

A process sets the key with NX and EX, renews it every third of its life by GET
and EXPIRE, exits at once when the GET shows another token, and releases it by GET
and DELETE. `Tick` is time: a renewal may come late by MaxStall, because of a
paused machine or a blocked event loop (the Redis calls and the periodic jobs
share it). A process is its token; the supervisor may restart any process that is down.

### OrgMembership

| Action | Code |
|---|---|
| Authenticate | `_handle_user_token` and the role checks at the head of the three handlers in `api/v1/orgs.py` |
| CheckNewMember, InsertMember | `add_member`: the conflict check, the INSERT |
| LoadForRole, SetRole | `update_member_role`: the membership loaded, the UPDATE at the flush |
| LoadTarget, CountOwners, RemoveMember | `remove_member`: the target, `count_members` of the owners, the repository's `remove_member` |
| AbandonRequest | any exception or lost process |

Each is one statement with what follows from it; between two statements of one request,
other requests commit. Setting a role equal to the loaded one writes nothing, so the
request ends in LoadForRole. Only the status, the role and the unique constraint of a
row are kept.

### UserAccounts

`Claim` is `check_idempotency`, a SET NX that nothing ever releases; the handlers read
the row (`ReadUser`) and commit (`SignUp`, `LogIn`, `DeleteUser`). `DeliveryError` is any
failure in between: Auth0 delivers again and is told that the event was processed. A user's
organization and membership are committed with the user, so the row stands for all three.

### SourceDiscovery

`TrackRead`, `TrackWrite` are `track_sources`, for one source at a time; relevance is a
function of the mentions, so the two thresholds are numbers of mentions. `flushed[b]` is
what a batch has written, with the row lock that goes with it; `Tracked` is its UPDATE:
the columns that changed since the batch read the row, from the values it read. The
flush of a new source that another batch has inserted fails, is swallowed, and leaves
the session unusable ("broken"). `AdminRead` and what follows are the routes and the
periodic job, which go on from the row they read; the job's query runs every six hours
(`signals/scheduler.py:116`). Whether a source finds an industry, and so activates at
once, is open.

### DocumentJobs

`Import` is one entry of `batch_document_import`; the analysis is Load, MarkRunning,
ReadSource, then Complete or AnalysisFailed (`_set_job_failed`). AnalysisUnsaved is a
result or an error message that the database refuses (a NUL byte, say): the except branch
does not roll back, so `_set_job_failed` commits on a session that raises
PendingRollbackError, nothing is written and the worker goes on to the next job. `Load`
may also come for a job that was queued by itself or queued again. SelectExpired, DeleteFile,
DeleteRows and SweepFail are `cleanup_expired_documents`: files go at once, one after
the other, rows all together in the commit at the end. Two documents may be imported
from one path, because nothing makes `storage_path` unique. The history variables are
`cutOff`, the documents whose last analysis ended without a status, and `abandoned`, those
whose file a clean-up deleted before it failed.

### BriefRefresh

`CheckAll` is the query of `check_and_refresh_all` with its LIMIT and no ORDER BY,
`RefreshSingle` the route's refresh of one brief. For each brief: CheckLimit (the key),
Regenerate (the model call; `refreshed_at` is taken, `generator.py:139`), Flush (which may
wait for another run), SetLimit (SETEX); then CommitRun or FailRun. A run keeps the `age`
of each stamp, and that is what it commits: `refreshed` may be old at the commit, and
older than before, when another run has committed a later stamp. `MaxPasses` bounds the
life of a run: RQ kills a job after its `job_timeout`; that the route's request takes no
longer is assumed.
An error after the flush leaves it to be committed and sets no key. A scheduled run may
always end there: `generator.py:145` assigns `signal_links`, a collection that only
`refresh_single` has loaded, in an async session that cannot load it on assignment. The model allows both.
Redis may fail in each use. A global brief is looked for under the all-zero organization
and never found (RegenerateFails). Time is in units, `Pass`; `refreshed` and `limit`
count them.

### IdempotencyKeys, CircuitBreaker, ComputeLock

One action per Redis call of the decorator, of `CircuitBreaker.call` with its
`_on_success` and `_on_failure`, and of `cached_with_lock` with its background task. Redis
commands of several processes interleave freely, and a process may be lost between any two.
IdempotencyKeys excludes a handler that outlives the key's day; ComputeLock does not
exclude a computation that outlives its lock. Its history variables are `owner`, whose
lock it is, and `exposed`, the winners that have lost theirs because it ran out, or because
one that was exposed before deleted it. A waiter that gives up does not compute:
`cache_stampede.py:160` passes `key=` to a standard logger, which raises TypeError before
the fallback, so FallBack is the request's failure.
In CircuitBreaker, `RecordAsFailure` is a Redis error in `_on_success`, which the caller's
except clause takes for a failure of the service.

## 3. Runs

| Run | Instance | Shows |
|---|---|---|
| credit_ledger | three requests of which two preload, two renewals, allocation 3 | TypeOK, LedgerBalances, ChargeIsAtomic, LostChargesStayHidden, RefinesAccount, EverySessionSettles |
| credit_claim | two preloading requests | NoOverspend is violated |
| subscription_billing | one checkout for a tier above the trial's, two sessions, one fault, an organization with or without a trial | TypeOK, TierIsPaidFor, StatusFollowsPaystack, CancelStaysPossible, PaymentIsNotForgotten, OnlyLateChecksDowngrade |
| billing_claim | two checkouts, two sessions | SubscribersKeepTier is violated |
| signal_acquisition | a feed and a webhook, one tier worker, one on-demand fetch, one contract update, two faults | TypeOK, HealthIsEarned, OnlyAdminsActivate, SignalsComeWithHealth |
| signal_overlap | the same contracts, two contents, two tier workers that start for ever, one fault | RefinesStore, PublishedIsStored |
| acquisition_claim | one feed, max_failures 3 | DegradedAfterMaxFailures is violated |
| signal_refinement | two batches of three signals, two of them similar; two workers, two faults | TypeOK, RepeatedOnlyAfterOutage, SuppressionIsFinal |
| refinement_catchup | one batch of two signals, two workers, three faults | EverySignalIsProcessed |
| refinement_claim | no faults | DuplicateHasAnOriginal is violated |
| scheduler_lease | three processes, a key of three units, stalls of up to three | TypeOK, OneScheduler, LosersExit, SchedulingResumes |
| shared_state | the eight smaller components, one of them moving in each behaviour | the members' OwnerlessOnlyIfOvertaken, RemovalIsFinal; the sources' RecommendedIsEarned, SecondContractExplained; the documents' RunningHasWorker, FileLostOnlyToSharedPath; the accounts' LoginsNotOvercounted, ProcessedOrFailed; the briefs' RefreshesApart, LimitedIsRefreshed; OneEffect, OrphanedOnlyIfCut; StuckOpenExplained; OneUnderLock |

Bounds, and why they are enough:

* CreditLedger: the costs 2, 1, 2 of an allocation of 3 make any two requests compete
  for credits that only one can have, and let one pair fit; a renewal moves the
  allocation down to 2 or sets it to 3 again. All three races (request with request,
  request with renewal, renewal with renewal) occur, with and without an outdated
  instance.
* SubscriptionBilling: every race is between two sessions on one organization, so two
  interchangeable sessions give each session an outdated view of the other; one fault
  gives each single loss. One checkout bounds the payments to one, with all of its
  events; MaxInFlight = 1 lets invoices come once everything else is delivered. Two paid
  checkouts (an upgrade) are beyond the run, but not beyond the proofs, which hold for
  any number of checkouts.
* SignalAcquisition: what sessions fight over is one health row and one pair of
  (contract, content), so one feed and one content suffice for each race; the second
  contract gives batches an order, and so deadlocks. signal_overlap takes two contents, so
  that a batch is more than one signal and two batches may differ in one of them. MaxFailures 3 is the default; two
  faults reach it, because a FetchError counts twice.
* SignalRefinement: deadlocks need two signals and one failed batch embedding; a
  repetition needs a failed batch embedding and a failed single one; the catch-up limit
  of 2 cuts three signals. MaxFaults bounds failures and lost jobs, not time: a fault
  may come at any point.
* SchedulerLease: with one unit of time for a third of the key's life (30 s of the
  default 90 s), a stall of three units oversleeps the key by one, and three processes
  let a third one meet the two that overlap.
* shared_state: the initial state chooses the component that moves, and the others keep
  their first state, so that their states add up instead of multiplying; about
  610,000 in all. The components share their constants' names, which are permuted
  (symmetry is sound here: the run checks safety only). Members: three users, so that an
  organization can have two owners and someone who removes them, and two requests, since
  every race is between a check and one other write. Sources: one, as no property
  relates two; two batches and two admins or jobs; promoted at 3 mentions and activated
  at 4, so that both thresholds are crossed from outdated rows; MaxRefs and MaxContracts
  end the counting right after. Documents: two that may share a path of two, two workers
  and a clean-up. Accounts: two signups, two logins and a deletion of one account, three
  deliveries at once. Briefs: two, of which one global, two runs, an hour of two units,
  stale after three, and a run that may last one: LimitedIsRefreshed then says "not
  stale". Idempotency: three requests with two
  bodies, two polls. Breaker: two calls, thresholds of two, counters up to three, which
  is past both thresholds. Compute lock: three requests, a lock of three units.

Fairness. A session that has started is executed by its server or worker, and a
statement that waits for a lock is woken when the lock is free: weak fairness of a
session's steps. SignalAcquisition adds strong fairness of `Insert`, which waits on
rows whose owners come and go: PostgreSQL wakes the waiter whenever the owner ends.
The scheduler's periods are weak fairness of starting tier jobs and catch-ups. In
SchedulerLease, time passes, the supervisor restarts some process, and a live process goes
on with its renewals or its shutdown. No fault, no admin and no API request is ever
owed. RefinesAccount and the other safety properties need no fairness.

CHECK_DEADLOCK FALSE stands in the runs whose sessions or arrivals are finitely
many and really end; the others check for deadlock.

What the violated claims show (details in PROJECT.json, "findings"):

* NoOverspend: two requests on routes that load the organization first both pass
  the check on the same credits, and the later commit overwrites the earlier one.
  LostChargesStayHidden says why nobody sees it: the stored counter stays within
  the allocation.
* SubscribersKeepTier: the check of expired trials asks instances that it loaded in
  one query before it came to them. A payment committed in between is not seen: the
  organization is downgraded to Explorer although it has just paid.
  OnlyLateChecksDowngrade says that this is the only way.
* DegradedAfterMaxFailures: a contract degrades after two failed fetches, not
  three, and a degraded contract is not polled any more.
* DuplicateHasAnOriginal: a signal is compared with itself. Whatever is embedded is
  suppressed, and the analysis only runs when the embedding fails:
  EmbeddedAreSuppressed, which section 4 proves.

OneScheduler and SingletonWithoutStalls explain the one other claim of that kind, the
"singleton scheduler service" of `worker.py:120`: a process that oversleeps its key
schedules beside its successor until its next renewal reads the key. LosersExit says
that it then stops.

What the properties of shared_state say of the code, beside what they promise. They are
stated with the cases that break the simpler claim, and TLC found each of those cases:

* "Cannot remove the last owner" holds unless an owner was given another role (which
  counts no owners), or two removals overlapped (OwnerlessOnlyIfOvertaken). A removed
  member cannot be added again: its row is in the way of the INSERT (RemovalIsFinal).
* A source may be activated twice: after a dismissal, by two overlapping activations, or
  because a batch that read the row earlier writes "recommended" over "activated" and
  the job takes it up again (SecondContractExplained).
* A registration whose handling failed is claimed all the same, so no redelivery creates
  the user (ProcessedOrFailed). `handle_user_deletion` marks only the user, although its
  docstring lists the personal organization and the memberships as well.
* A worker lost in an analysis leaves the job "running", and so does a result that the
  database refuses: the handler of the error fails on the same session
  (RunningHasWorker). A clean-up deletes the file of another document that was imported
  from the same path, and one that fails leaves rows whose files are gone
  (FileLostOnlyToSharedPath).
* A run that fails at its commit leaves the keys of the briefs it had flushed, and they
  are not refreshed for the rest of the hour. A key that was saved stands for a
  `refreshed_at` that may be older than the hour, by the time between stamp and key,
  but by no more than a run may take (LimitedIsRefreshed).
* A lost process, or an answer that is not JSON, leaves an idempotency key "processing"
  for a day (OrphanedOnlyIfCut). A waiter whose claim is released between its SET and
  its GET fails, because the GET returns nothing.
* A circuit stays open for ever when the process dies between the state and the time,
  and also when a call that closed the circuit deletes its keys after another has opened
  it again (StuckOpenExplained).
* The compute lock is anyone's to delete, so one computation that outlives it can let
  many others in: it deletes the next one's lock, which deletes the next. Nothing else
  takes a lock from its owner (OneUnderLock).
* Some properties hold from one side only, because the code promises no more: a login is
  never counted twice, but overlapping logins lose counts (LoginsNotOvercounted); no source
  is recommended too early, but mentions get lost (RecommendedIsEarned). In the billing,
  StatusFollowsPaystack lets a row stay active after a process was lost between Paystack's
  answer and the commit; in the acquisition, HealthIsEarned leaves out contracts that were
  written from an outdated instance.

## 4. Proofs

CreditLedger_proofs, from SessionsAssumption and CreditsAssumption (requests and
renewals are different sessions, costs are positive, allocations are natural
numbers; nothing is assumed finite). LedgerBalances is not inductive: it
needs to know who holds the row lock (LockHeld: exactly the one session between its
lock and its end), what that session's instance knows of the row (HolderKnowsRow: the
row itself, plus its own charge), and that a charge has passed its check
(ChargePassedCheck). With FirstAllocation for LostChargesStayHidden, and the roles
of the labels, their conjunction IInv is inductive, one step per action. From it:
TypeCorrect, LedgerBalancesCorrect, ChargeIsAtomicCorrect,
LostChargesStayHiddenCorrect, and RefinesAccountCorrect: every step in which nobody
has acted on an outdated instance is a step of PrepaidAccount or leaves it alone.
NoOverspendWithoutPreloading asks for the cause of the violated claim: if no request loads
the organization before it locks it (Preloaded = {}), NoOverspend holds for any requests
and renewals. FreshInv carries it: a request that is past its lock knows the row
(RequestsKnowRow), and the committed counter covers the charges since the last
renewal (CounterCovers), also when renewals write from outdated instances.

SubscriptionBilling_proofs, from RefsAssumption, TiersAssumption, BoundsAssumption and
EventsAssumption (references are finitely many and differ from None, no checkout is for
Explorer; any number of sessions). TierIsPaidFor is not inductive, because an
outdated instance may write. IInv says what such an instance still knows (SessionOK):
if it says billed, the row is billed; a tier that no trial gives was billed; a check that
saw Explorer saw a tier that was Settled, that is, the lowest or paid for, and what
is settled stays so. A checkout under way has its reference to itself
(CheckoutsApart), so no session opens a checkout that is paid. From IInv: TypeCorrect,
TierIsPaidForCorrect, OnlyLateChecksDowngradeCorrect, PaymentIsNotForgottenCorrect.
RowInv says the same of the subscription row: the row, the undelivered events
and all outdated instances claim nothing that is not true of Paystack, and every code
that an instance has is in the row too. Its step cites IInv (a verified reference is
paid). From it: StatusFollowsPaystackCorrect, CancelStaysPossibleCorrect.

SchedulerLease_proofs, from LeaseAssumption (0 < Renewal < TTL; any number of
processes, any stall). OneScheduler needs Owned: while nobody has overslept, a
process that schedules owns the key, and the life left plus the time since its last
renewal make at least the whole life, so the key cannot have expired.
SingletonWithoutStalls adds that with MaxStall = 0 nobody is ever late, so that the
singleton is unconditional: the claim fails for delays and for nothing else.
TypeCorrect is inductive by itself.

SignalAcquisition_proofs, from AcquisitionAssumption (contracts, contents, jobs and
admins are any sets). IInv has four parts. QueueInv: everyone behind the first in the
queue of a row lock is about to write that row, and nobody is in a queue twice; that
leaving a queue (RemoveAt) keeps this is a lemma about the last step of a session.
HealthInv: the committed health of a row, and the one its lock's holder has written,
agree with the failures that the fetches had in a row, except where an outdated view was
written (`stale`). StoreInv: a signal is stored once at most, and an uncommitted one is
nobody else's and not stored. OwnInv and Recorded: a session that has inserted signals
has, or is about to have, the health update that goes with them. From it: TypeCorrect,
NoDuplicateSignalsCorrect, HealthIsEarnedCorrect, OnlyAdminsActivateCorrect,
SignalsComeWithHealthCorrect. RefinesStoreCorrect is the refinement: the initial states
agree, and every step is one of the store or leaves it alone (StoreNext). A commit stores
signals that are not stored yet by StoreInv, and signals that were published by fetched
sources by an invariant of its own, Provenance: what a session has fetched, kept by its
filter or inserted was published by the contract it works on. OnlyOverlapHarms takes
one job and no contract updates (SoleInv): no health is then written from an outdated
instance, and no content is stored for two contracts, which `filter_duplicates` is
for. With two jobs, TLC shows both.

SignalRefinement_proofs, from RefinementAssumption (any batches, workers, limit and
faults; a signal is similar to itself, which is what the cosine of an embedding with
itself says). RepeatedOnlyAfterOutage and SuppressionIsFinal rest on what a job
that writes from old instances may still know. IInv says: a job has written only signals
whose lock it holds (WritersHoldLocks), so no two jobs have written one signal; it
has suppressed only what is embedded or had an outage, and analysed only what had one
(OwnEarned); what it has embedded and gone through it has suppressed, unless it knew
that the signal was (OwnSuppressed), and what its instances knew to be suppressed still
is, or had an outage (ViewsKeep). The committed rows are what such jobs leave behind
(AnalysedOnlyInOutage, SuppressedEarned, EmbeddedAreSuppressed). From it: TypeCorrect,
RepeatedOnlyAfterOutageCorrect, SuppressionIsFinalCorrect, WritesApartCorrect, and
EmbeddedAreSuppressedCorrect: a signal that is embedded is suppressed, and one that is
analysed is not embedded at the time, except by an outage. This is the whole extent of the
violated claim DuplicateHasAnOriginal, for any signals and jobs. No run checks
EmbeddedAreSuppressed by itself.

SourceDiscovery_proofs, from DiscoveryAssumption. DiscoveryInv adds to the types: a
version of a row has at least as many references as it counts mentions, and enough of
them if it is recommended (Earned); what a session has read is not later than the row
(Later); one batch at a time has written a row; and a status other than "activated"
together with a contract is explained by reopened or outpaced. From it:
RecommendedIsEarnedCorrect, SecondContractExplainedCorrect.

SharedRows_proofs. For the members, OwnersInv: a removal of an owner that is not overtaken
leaves another owner active, since its count saw two (AnotherOwner); it counts a set,
hence the finiteness in MembershipAssumption. LastOwnerKeptAlone is what is left of
"Cannot remove the last owner": with one request at a time the role a removal has loaded
is the role the row has (RoleIsFresh), so no removal takes the last owner. For the
accounts, LoginsInv: the logins that any version of a row has counted are at most one
more than the login events that are claimed and no longer under way (SettledLogins); a
claim in progress adds its own when it writes. For the documents, DocumentInv: a running
job of a document that is present is some worker's or its last analysis was cut off, a
sweep's documents have expired and stay so (SweepsExpired), and a file that is missing was
that of a document that a clean-up has in hand, has deleted, or deleted the file of before
it failed (FileDeleted).

SharedKeys_proofs. For the briefs, RefreshInv, from RefreshAssumption: a run is at one
brief at most (OneBrief); what is left of a key and the age of the committed
`refreshed_at` make at most an hour and the time a run may take (KeyKeepsTime): the stamp is
older than the key, but the run that took both is not over; a brief regenerated within the hour
still has its key, unless none was set after it (KeyHoldsOff); and a run that passed a
check beside another is known (SlipsKnown). For the idempotency keys, one claim has one
owner, and nobody succeeds without it (ClaimHasOneOwner). For the compute lock, whoever works
under it and is not exposed is its owner, and there is one owner at most
(LockHasOneHolder). For the
circuit, StuckOpenExplained is inductive with the types; StuckOpenAlone adds that calls
which follow one another never sweep the time of an open circuit (TidyWhileClosed), so
that the late DELETE needs two calls.

Only model-checked: all liveness (EverySessionSettles, PublishedIsStored,
EverySignalIsProcessed, LosersExit, SchedulingResumes), which needs fairness and ENABLED
and is out of the prover's reach. Every safety property of a passing run is a theorem.

## 5. Plan

The components planned at first are there. What would come next:

1. SubscriptionBilling, narrower and longer: an upgrade with two paid checkouts and
   cancellation, where a late disable of the replaced subscription hits the new one. The
   proofs cover it already; the run does not.
2. Compliance: deletion over many tables, with its grace period and retries. The code
   reads relationships of a deletion request that its session does not load
   (`compliance/deletion.py:91`, `compliance/consent.py:96`), so it has to work before
   its order of steps can be judged.
3. The limits of chat requests and the in-memory connections of
   `services/ws_manager.py`.

## 6. Not modelled, and why

Wording, formatting, logging and metrics; HTTP and token verification; prompts
and answers of language models; numeric scoring and training; the frontend;
migrations, except the unique index that acquisition relies on. The setting
ENFORCE_TENANT_SCOPED_REPOSITORIES, which `infrastructure-aws/main.tf:24` turns on,
makes the unscoped calls of acquisition and refinement raise; the modules follow
the default, under which they run.

Most of the source is of these kinds: seed data and migrations, content and prompts,
scoring formulas, response schemas, dashboards. It keeps no state that actors share, or
keeps it only by what one statement writes, and the modules leave it out on purpose; so
the lines that the modules stand for are a small part of the repository.

What the modelled components leave out is said in their modules' heads and sections
above. Code that nothing calls is modelled only where it is a mechanism of its own (the
three Redis helpers); `enqueue_with_retry`, the dead letters and `convert_trial_to_paid`
are not. The upsert in `repositories/user_session.py:111` names a constraint where the
migrations have an index, so session tracking has to work before it can be modelled.
