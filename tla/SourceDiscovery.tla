--------------------------- MODULE SourceDiscovery ---------------------------
(***************************************************************************)
(* The sources that signals refer to: services/source_discovery.py, called *)
(* by the refinement for every signal, by the admins' routes in            *)
(* api/v1/discovered_sources.py and by the job that activates what has     *)
(* been recommended, every six hours (jobs/source_discovery_job.py).       *)
(*                                                                         *)
(* A refinement batch tracks many references in one transaction: it reads  *)
(* a source's row, adds a mention to what it read, and flushes; the UPDATE *)
(* writes the columns that changed and keeps the row locked until the      *)
(* batch commits.  Reads wait for nobody, so a row may change between the  *)
(* read and the UPDATE of another session.  The job's activations, which   *)
(* commit together, are taken one by one: no property relates two sources. *)
(* The contract of an activated source stays active here.                  *)
(***************************************************************************)
EXTENDS Integers

CONSTANTS
    Sources,       \* the URLs signals refer to
    Batches,       \* the refinement batches that may run at the same time
    Admins,        \* the admins' requests and the activation jobs, likewise
    RecommendAt,   \* mentions at which relevance reaches RECOMMEND_MIN_RELEVANCE
    ActivateAt,    \* mentions at which it reaches AUTO_ACTIVATE_MIN_RELEVANCE
    MaxRefs,       \* bound: references to a source that batches still track
    MaxContracts   \* bound: contracts of a source for an activation to begin

ASSUME DiscoveryAssumption ==
    /\ RecommendAt \in Nat /\ ActivateAt \in Nat
    /\ 1 < RecommendAt /\ RecommendAt <= ActivateAt
    /\ MaxRefs \in Nat /\ MaxContracts \in Nat

VARIABLES
    sources,    \* the committed row of each source
    flushed,    \* what each batch has written and not committed
    batch,      \* where each batch is, with the row it has read
    admin,      \* where each request or job is, with the row it has read
    reopened,   \* history: sources whose status "activated" was overwritten
    outpaced    \* history: sources activated from a row read before another activation

discoveryVars == <<sources, flushed, batch, admin, reopened, outpaced>>

Statuses == {"none", "discovered", "recommended", "activated", "dismissed"}

\* A row with its contracts; "refs" is history, the references its writes stand for.
SourceRow == [status : Statuses, mentions : Nat, contracts : Nat, refs : Nat]
NoRow == [status |-> "none", mentions |-> 0, contracts |-> 0, refs |-> 0]
Unwritten == [status |-> "unwritten"]

Ready == [step |-> "ready"]
Broken == [step |-> "broken"]
NoVisit == [step |-> "away"]

DiscoveryTypeOK ==
    /\ sources \in [Sources -> SourceRow]
    /\ flushed \in [Batches -> [Sources -> SourceRow \cup {Unwritten}]]
    /\ batch \in [Batches -> {Ready, Broken}
                     \cup [step : {"tracking"}, source : Sources, row : SourceRow]]
    /\ admin \in [Admins -> {NoVisit}
                     \cup [step : {"activate", "auto", "dismiss"}, source : Sources, row : SourceRow]]
    /\ reopened \subseteq Sources /\ outpaced \subseteq Sources

NothingFlushed == [s \in Sources |-> Unwritten]

DiscoveryInit ==
    /\ sources = [s \in Sources |-> NoRow]
    /\ flushed = [b \in Batches |-> NothingFlushed]
    /\ batch = [b \in Batches |-> Ready]
    /\ admin = [a \in Admins |-> NoVisit]
    /\ reopened = {} /\ outpaced = {}

\* The row as a batch sees it: its own version of it, or the committed one.
Seen(b, s) == IF flushed[b][s] = Unwritten THEN sources[s] ELSE flushed[b][s]

\* Nobody but b has the row locked.
FreeFor(b, s) == \A c \in Batches \ {b} : flushed[c][s] = Unwritten

-----------------------------------------------------------------------------
\* A reference is tracked unless a contract fetches the source already.
TrackRead(b, s) ==
    /\ batch[b] = Ready
    /\ Seen(b, s).contracts = 0
    /\ Seen(b, s).refs < MaxRefs
    /\ batch' = [batch EXCEPT ![b] = [step |-> "tracking", source |-> s, row |-> Seen(b, s)]]
    /\ UNCHANGED <<sources, flushed, admin, reopened, outpaced>>

\* Mutant: a promotion looks at the relevance only after the next mention.
PromotedEarly(status, mentions) ==
    IF status = "discovered" /\ mentions + 1 >= RecommendAt THEN "recommended" ELSE status

\* Relevance follows from the mentions, and the status from both: promoted at
\* RecommendAt, then activated at ActivateAt if an industry is found for it.
Promoted(status, mentions) ==
    IF status = "discovered" /\ mentions >= RecommendAt THEN "recommended" ELSE status

Tracked(row, old, activates) ==
    LET n == old.mentions + 1
        status == IF activates THEN "activated" ELSE Promoted(old.status, n)
    IN [status    |-> IF status = old.status THEN row.status ELSE status,
        mentions  |-> n,
        contracts |-> row.contracts + (IF activates THEN 1 ELSE 0),
        refs      |-> row.refs + 1]

\* The INSERT of a source nobody had seen.  Where another batch committed it since,
\* url_hash is taken: the failed flush is logged and swallowed, but it has rolled
\* the whole transaction back and the session refuses everything that follows.
TrackInsert(b, s) ==
    /\ batch[b].row.status = "none"
    /\ IF sources[s].status = "none"
       THEN /\ flushed' = [flushed EXCEPT ![b][s] =
                  [status |-> "discovered", mentions |-> 1, contracts |-> 0, refs |-> 1]]
            /\ batch' = [batch EXCEPT ![b] = Ready]
       ELSE /\ flushed' = [flushed EXCEPT ![b] = NothingFlushed]
            /\ batch' = [batch EXCEPT ![b] = Broken]
    /\ UNCHANGED outpaced

\* The UPDATE of a known source, from the row as it was read.
TrackUpdate(b, s) ==
    LET old == batch[b].row IN
    /\ old.status # "none"
    /\ \E activates \in BOOLEAN :
          /\ activates => /\ Promoted(old.status, old.mentions + 1) = "recommended"
                          /\ old.mentions + 1 >= ActivateAt
          /\ flushed' = [flushed EXCEPT ![b][s] = Tracked(Seen(b, s), old, activates)]
          /\ outpaced' = IF activates /\ Seen(b, s).contracts > old.contracts
                         THEN outpaced \cup {s} ELSE outpaced
    /\ batch' = [batch EXCEPT ![b] = Ready]

\* A flush waits for the sessions that hold the row.
TrackWrite(b) ==
    /\ batch[b].step = "tracking"
    /\ LET s == batch[b].source IN
          /\ FreeFor(b, s)
          /\ TrackInsert(b, s) \/ TrackUpdate(b, s)
    /\ UNCHANGED <<sources, admin, reopened>>

Reopen == reopened' = reopened \cup {s \in Sources : sources[s].status = "activated"
                                              /\ sources'[s].status # "activated"}

\* The end of the batch.
BatchCommit(b) ==
    /\ batch[b] = Ready
    /\ sources' = [s \in Sources |-> Seen(b, s)]
    /\ flushed' = [flushed EXCEPT ![b] = NothingFlushed]
    /\ Reopen
    /\ UNCHANGED <<batch, admin, outpaced>>

\* An error, a deadlock between two batches, a lost process, or the commit of a
\* broken session: everything the batch wrote is rolled back.
BatchFail(b) ==
    /\ flushed' = [flushed EXCEPT ![b] = NothingFlushed]
    /\ batch' = [batch EXCEPT ![b] = Ready]
    /\ UNCHANGED <<sources, admin, reopened, outpaced>>

\* Mutant: a source is activated whatever its status.
AdminReadUnchecked(a, s) ==
    /\ admin[a] = NoVisit
    /\ sources[s].status # "none"
    /\ \E step \in {"activate", "auto", "dismiss"} :
          /\ step # "dismiss" => sources[s].contracts < MaxContracts
          /\ admin' = [admin EXCEPT ![a] = [step |-> step, source |-> s, row |-> sources[s]]]
    /\ UNCHANGED <<sources, flushed, batch, reopened, outpaced>>

\* The routes' db.get, or the job's SELECT, whose rows it keeps while it goes through
\* them.  A route refuses only to activate a source that has been already.
AdminRead(a, s) ==
    /\ admin[a] = NoVisit
    /\ sources[s].status # "none"
    /\ \E step \in {"activate", "auto", "dismiss"} :
          /\ step # "dismiss" => sources[s].contracts < MaxContracts
          /\ step = "activate" => sources[s].status # "activated"
          /\ step = "auto" => /\ sources[s].status = "recommended"
                              /\ sources[s].mentions >= ActivateAt
          /\ admin' = [admin EXCEPT ![a] = [step |-> step, source |-> s, row |-> sources[s]]]
    /\ UNCHANGED <<sources, flushed, batch, reopened, outpaced>>

\* activate_source: a contract, and the status; then the commit.
AdminActivate(a) ==
    /\ admin[a].step \in {"activate", "auto"}
    /\ LET s == admin[a].source IN
          /\ \A b \in Batches : flushed[b][s] = Unwritten
          /\ sources' = [sources EXCEPT ![s].status = "activated", ![s].contracts = @ + 1]
          /\ outpaced' = IF sources[s].contracts > admin[a].row.contracts
                         THEN outpaced \cup {s} ELSE outpaced
    /\ admin' = [admin EXCEPT ![a] = NoVisit]
    /\ UNCHANGED <<flushed, batch, reopened>>

\* dismiss_source, from any status; no column is written for one dismissed already.
AdminDismiss(a) ==
    /\ admin[a].step = "dismiss"
    /\ LET s == admin[a].source IN
          /\ \A b \in Batches : flushed[b][s] = Unwritten
          /\ sources' = IF admin[a].row.status = "dismissed" THEN sources
                        ELSE [sources EXCEPT ![s].status = "dismissed"]
    /\ Reopen
    /\ admin' = [admin EXCEPT ![a] = NoVisit]
    /\ UNCHANGED <<flushed, batch, outpaced>>

\* No industry is found for the source, or an error: nothing is written.
AdminAbandon(a) ==
    /\ admin[a] # NoVisit
    /\ admin' = [admin EXCEPT ![a] = NoVisit]
    /\ UNCHANGED <<sources, flushed, batch, reopened, outpaced>>

DiscoveryNext ==
    \/ \E b \in Batches, s \in Sources : TrackRead(b, s)
    \/ \E b \in Batches : TrackWrite(b) \/ BatchCommit(b) \/ BatchFail(b)
    \/ \E a \in Admins, s \in Sources : AdminRead(a, s)
    \/ \E a \in Admins : AdminActivate(a) \/ AdminDismiss(a) \/ AdminAbandon(a)

DiscoverySpec == DiscoveryInit /\ [][DiscoveryNext]_discoveryVars

-----------------------------------------------------------------------------
(* Properties                                                              *)

\* A recommended source was referred to by RECOMMEND_MIN_MENTIONS signals whose
\* batches committed, although mentions are counted from stale rows, batches are
\* rolled back and recommendations outlive a count that was overwritten.
RecommendedIsEarned ==
    \A s \in Sources : sources[s].status = "recommended" => sources[s].refs >= RecommendAt

\* A source gets a second contract only if the status that says it has one was
\* overwritten, by a dismissal or by a promotion of a row read earlier, or if two
\* activations had read it before either was committed ("already activated").
SecondContractExplained ==
    \A s \in Sources : sources[s].contracts > 1 => s \in reopened \cup outpaced
=============================================================================
