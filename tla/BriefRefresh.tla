---------------------------- MODULE BriefRefresh ----------------------------
(***************************************************************************)
(* The refresh of published intelligence briefs: briefs/refresh.py, over   *)
(* briefs/generator.py.                                                    *)
(*                                                                         *)
(* A run takes stale briefs, and for each of them checks a Redis key,      *)
(* regenerates the brief - the costly call - stamps it with the time,      *)
(* flushes it and sets the key for an hour.  One commit at the end of the  *)
(* run saves what it flushed, with the stamps it had then.                 *)
(* Runs overlap: the scheduler's every two hours, those an admin asks for, *)
(* and the route that refreshes one brief.  Redis may fail at each use,    *)
(* which lets a refresh through.                                           *)
(*                                                                         *)
(* Time passes in Pass, in units that a run may outlive by MaxPasses.      *)
(***************************************************************************)
EXTENDS Integers, FiniteSets

CONSTANTS
    Briefs,         \* the published briefs
    GlobalBriefs,   \* those of no organization
    Refreshers,     \* the runs that may overlap
    MaxRefreshes,   \* the LIMIT of the stale briefs a run takes
    Cooldown,       \* REFRESH_COOLDOWN_SECONDS
    StaleAfter,     \* stale_hours
    MaxPasses       \* how long a run may take: job_timeout

ASSUME RefreshAssumption ==
    /\ GlobalBriefs \subseteq Briefs
    /\ Cooldown \in Nat /\ StaleAfter \in Nat /\ MaxPasses \in Nat /\ MaxRefreshes \in Nat
    /\ 0 < Cooldown /\ Cooldown < StaleAfter

VARIABLES
    refreshed,    \* time since the committed refreshed_at of each brief, up to StaleAfter
    limit,        \* what is left of the life of each brief's key
    run,          \* what each run is doing
    since,        \* history: time since a brief was last regenerated, up to Cooldown
    slipped,      \* history: checks that passed and could not have known of another
    unlimited,    \* history: briefs regenerated last without setting their key
    rolledBack    \* history: briefs whose key is set and whose refresh was lost

refreshVars == <<refreshed, limit, run, since, slipped, unlimited, rolledBack>>

\* The briefs a run has yet to check, the one it is at, and those it has flushed.
\* age is the time since it stamped a brief's refreshed_at, or since it began.
NoRun == [step |-> "idle", left |-> {}, current |-> {}, flushed |-> {}, passes |-> 0,
          age |-> [b \in Briefs |-> 0]]
RunType ==
    [step : {"idle", "checking", "regenerating", "flushing", "limiting", "broken"},
     left : SUBSET Briefs, current : SUBSET Briefs, flushed : SUBSET Briefs,
     passes : 0..MaxPasses, age : [Briefs -> 0..MaxPasses]]

RefreshTypeOK ==
    /\ refreshed \in [Briefs -> 0..StaleAfter]
    /\ limit \in [Briefs -> 0..Cooldown]
    /\ run \in [Refreshers -> RunType]
    /\ since \in [Briefs -> 0..Cooldown]
    /\ slipped \subseteq Refreshers \X Briefs
    /\ unlimited \subseteq Briefs
    /\ rolledBack \subseteq Briefs

RefreshInit ==
    /\ refreshed \in [Briefs -> {0, StaleAfter}]
    /\ limit = [b \in Briefs |-> 0]
    /\ run = [r \in Refreshers |-> NoRun]
    /\ since = [b \in Briefs |-> Cooldown]
    /\ slipped = {} /\ unlimited = {} /\ rolledBack = {}

InStep(r, step) == run[r].step = step
Running(r) == ~ InStep(r, "idle")

\* Between its check and its key, a run is invisible to the checks of others.
Between(r, b) == b \in run[r].current

Skip(r) == run' = [run EXCEPT ![r].step = "checking", ![r].current = {}]

-----------------------------------------------------------------------------
BeginRun(r, briefs) ==
    /\ ~ Running(r)
    /\ run' = [run EXCEPT ![r] = [NoRun EXCEPT !.step = "checking", !.left = briefs]]
    /\ UNCHANGED <<refreshed, limit, since, slipped, unlimited, rolledBack>>

\* The stale briefs a run takes, in no order: any of them, up to the limit.
CheckAll(r) ==
    LET stale == {b \in Briefs : refreshed[b] = StaleAfter} IN
    \E briefs \in SUBSET stale :
       /\ Cardinality(briefs) <= MaxRefreshes
       /\ briefs = stale \/ Cardinality(briefs) = MaxRefreshes
       /\ BeginRun(r, briefs)

\* The route's refresh of one brief of the caller's organization, stale or not.
RefreshSingle(r) == \E b \in Briefs \ GlobalBriefs : BeginRun(r, {b})

\* The key is looked for; Redis failing counts as no key.
CheckLimit(r, b) ==
    /\ InStep(r, "checking")
    /\ b \in run[r].left
    /\ \E redisUp \in BOOLEAN :
          IF redisUp /\ limit[b] > 0
          THEN /\ run' = [run EXCEPT ![r].left = @ \ {b}]
               /\ UNCHANGED slipped
          ELSE LET others == {q \in Refreshers : Between(q, b)} IN
               /\ run' = [run EXCEPT ![r].left = @ \ {b}, ![r].current = {b},
                                     ![r].step = "regenerating"]
               /\ slipped' = (slipped \ {<<r, b>>}) \cup
                    (IF others # {} \/ limit[b] > 0 THEN (others \cup {r}) \X {b} ELSE {})
    /\ UNCHANGED <<refreshed, limit, since, unlimited, rolledBack>>

\* The synthesis fails, or the brief is not found: a global one is looked for under
\* an organization that owns none.
RegenerateFails(r) ==
    /\ InStep(r, "regenerating")
    /\ Skip(r)
    /\ UNCHANGED <<refreshed, limit, since, slipped, unlimited, rolledBack>>

\* The synthesis ends, and the brief gets its content and refreshed_at: the time it is.
Regenerate(r, b) ==
    /\ InStep(r, "regenerating")
    /\ b \in run[r].current \ GlobalBriefs
    /\ run' = [run EXCEPT ![r].step = "flushing", ![r].age[b] = 0]
    /\ UNCHANGED <<refreshed, limit, since, slipped, unlimited, rolledBack>>

\* The new content is flushed, which waits for another run's flush of it; or it is and
\* an error follows, which leaves the flush to be committed and sets no key.
Flush(r, b) ==
    /\ InStep(r, "flushing")
    /\ b \in run[r].current
    /\ \A q \in Refreshers \ {r} : b \notin run[q].flushed
    /\ \/ run' = [run EXCEPT ![r].flushed = @ \cup {b}, ![r].step = "limiting"]
       \/ run' = [run EXCEPT ![r].flushed = @ \cup {b}, ![r].step = "checking",
                             ![r].current = {}]
    /\ since' = [since EXCEPT ![b] = 0]
    /\ unlimited' = unlimited \cup {b}
    /\ UNCHANGED <<refreshed, limit, slipped, rolledBack>>

\* A query or a flush that fails rolls everything back, and the session is of no more
\* use: the other briefs fail too, and so does the commit.
BreakSession(r) ==
    /\ InStep(r, "regenerating") \/ InStep(r, "flushing")
    /\ run' = [run EXCEPT ![r].step = "broken", ![r].current = {},
                          ![r].flushed = {}]
    /\ rolledBack' = rolledBack \cup run[r].flushed
    /\ UNCHANGED <<refreshed, limit, since, slipped, unlimited>>

\* Mutant: the key of another brief, or none, is set.
SetLimitNever(r, b) ==
    /\ InStep(r, "limiting")
    /\ b \in run[r].current
    /\ Skip(r)
    /\ unlimited' = unlimited \ {b}
    /\ UNCHANGED <<refreshed, limit, since, slipped, rolledBack>>

\* SETEX, or a failure that is logged.
SetLimit(r, b) ==
    /\ InStep(r, "limiting")
    /\ b \in run[r].current
    /\ Skip(r)
    /\ \/ /\ limit' = [limit EXCEPT ![b] = Cooldown]
          /\ unlimited' = unlimited \ {b}
          /\ rolledBack' = rolledBack \ {b}
       \/ UNCHANGED <<limit, unlimited, rolledBack>>
    /\ UNCHANGED <<refreshed, since, slipped>>

\* Mutant: the run ends without a commit.
EndWithoutCommit(r) ==
    /\ InStep(r, "checking") /\ run[r].left = {}
    /\ run' = [run EXCEPT ![r] = NoRun]
    /\ UNCHANGED <<refreshed, limit, since, slipped, unlimited, rolledBack>>

\* The stamps are committed as they were taken, which may be long ago, and earlier
\* than one that another run has committed meanwhile.
CommitRun(r) ==
    /\ InStep(r, "checking") /\ run[r].left = {}
    /\ refreshed' = [b \in Briefs |->
          IF b \notin run[r].flushed THEN refreshed[b]
          ELSE IF run[r].age[b] < StaleAfter THEN run[r].age[b] ELSE StaleAfter]
    /\ run' = [run EXCEPT ![r] = NoRun]
    /\ UNCHANGED <<limit, since, slipped, unlimited, rolledBack>>

\* The commit fails, the job times out or its worker is lost.
FailRun(r) ==
    /\ Running(r)
    /\ rolledBack' = rolledBack \cup run[r].flushed
    /\ run' = [run EXCEPT ![r] = NoRun]
    /\ UNCHANGED <<refreshed, limit, since, slipped, unlimited>>

Up(n, bound) == IF n < bound THEN n + 1 ELSE bound

Pass ==
    /\ \A r \in Refreshers : Running(r) => run[r].passes < MaxPasses
    /\ run' = [r \in Refreshers |->
          IF Running(r) THEN [run[r] EXCEPT !.passes = @ + 1,
                                  !.age = [b \in Briefs |-> Up(@[b], MaxPasses)]]
          ELSE run[r]]
    /\ refreshed' = [b \in Briefs |-> Up(refreshed[b], StaleAfter)]
    /\ limit' = [b \in Briefs |-> IF limit[b] > 0 THEN limit[b] - 1 ELSE 0]
    /\ since' = [b \in Briefs |-> Up(since[b], Cooldown)]
    /\ UNCHANGED <<slipped, unlimited, rolledBack>>

RefreshNext ==
    \/ \E r \in Refreshers :
          \/ CheckAll(r) \/ RefreshSingle(r)
          \/ \E b \in Briefs : \/ CheckLimit(r, b) \/ Regenerate(r, b)
                           \/ Flush(r, b) \/ SetLimit(r, b)
          \/ RegenerateFails(r) \/ BreakSession(r)
          \/ CommitRun(r) \/ FailRun(r)
    \/ Pass

RefreshSpec == RefreshInit /\ [][RefreshNext]_refreshVars

-----------------------------------------------------------------------------
(* Properties                                                              *)

\* A brief is regenerated twice within the hour only by two runs that both checked
\* its key before either set it, or after Redis failed or an error came between the
\* two ("max 1 refresh per brief per hour").
RefreshesApart ==
    [][\A b \in Briefs, r \in Refreshers :
          (b \in run'[r].flushed \ run[r].flushed /\ since[b] < Cooldown)
          => <<r, b>> \in slipped \/ b \in unlimited]_refreshVars

\* A brief whose key is set has a refreshed_at within the hour that the key lasts and the
\* time a run may take from its stamp to its commit, or it is about to be committed, or
\* its refresh was rolled back and the key holds off the next one.
LimitedIsRefreshed ==
    \A b \in Briefs : limit[b] > 0 =>
       \/ refreshed[b] < Cooldown + MaxPasses
       \/ b \in rolledBack
       \/ \E r \in Refreshers : Running(r) /\ b \in run[r].flushed
=============================================================================
