-------------------------- MODULE SignalRefinement --------------------------
(***************************************************************************)
(* Refinement: jobs embed the stored signals, suppress near-duplicates and *)
(* analyse the rest (RefinementService).                                   *)
(*                                                                         *)
(* An acquisition job inserts a batch of signals, enqueues a refinement    *)
(* job for it and commits later, or not at all.  A refinement job loads    *)
(* what it finds of its batch, embeds the batch, goes through it signal by *)
(* signal and commits at the end.  Every hour a catch-up job does the same *)
(* for the newest signals that have no embedding.  Sessions see their own  *)
(* writes and what others have committed; an UPDATE takes the row lock and *)
(* keeps it to the end of the session.  Signals are numbered by created_at.*)
(* MaxFaults bounds failed embeddings and lost jobs.                       *)
(***************************************************************************)
EXTENDS Integers, FiniteSets, FiniteSetsExt

CONSTANTS
    Batches,    \* what acquisition inserts: disjoint, nonempty sets of numbers
    Similar,    \* near-duplicate contents: a reflexive, symmetric relation
    Workers,    \* workers that run refinement jobs
    Limit,      \* most signals of one catch-up
    MaxFaults,  \* bound: failed embeddings and lost jobs
    None        \* no worker, no signal

Signals == UNION Batches

ASSUME RefinementAssumption ==
    /\ Signals \subseteq Nat
    /\ \A B, C \in Batches : B # {} /\ (B # C => B \cap C = {})
    /\ \A s \in Signals : <<s, s>> \in Similar
    /\ None \notin Workers \cup Signals
    /\ Limit \in Nat \ {0} /\ MaxFaults \in Nat

VARIABLES
    state,       \* of each signal's row: is it there for others?
    queue,       \* batches whose refinement job waits
    embedded,    \* committed signals with an embedding
    confidence,  \* committed confidence of each signal
    facts,       \* signals whose market data has been extracted and committed
    pc,          \* where each worker is
    todo,        \* signals a worker's job has not refined yet
    cur,         \* the signal a worker refines, or None
    view,        \* what a job's instances know: who is embedded, who is at zero
    own,         \* what a job has flushed and not committed
    lock,        \* the worker that holds a signal's row lock, or None
    faults,      \* faults so far
    outages      \* history: signals whose embedding has failed

vars == <<state, queue, embedded, confidence, facts, pc, todo, cur, view, own,
          lock, faults, outages>>
rows == <<embedded, confidence, facts>>
arrivals == <<state, queue>>

Confidence == {"initial", "scored", "zero"}
Views == [embedded : SUBSET Signals, zero : SUBSET Signals]
Writes == [embedded : SUBSET Signals, scored : SUBSET Signals,
           zero : SUBSET Signals, facts : SUBSET Signals]

TypeOK ==
    /\ state \in [Signals -> {"unseen", "inserted", "stored", "lost"}]
    /\ queue \subseteq Batches
    /\ embedded \subseteq Signals
    /\ confidence \in [Signals -> Confidence]
    /\ facts \subseteq Signals
    /\ pc \in [Workers -> {"idle", "batch", "refine"}]
    /\ todo \in [Workers -> SUBSET Signals]
    /\ cur \in [Workers -> Signals \cup {None}]
    /\ view \in [Workers -> Views]
    /\ own \in [Workers -> Writes]
    /\ lock \in [Signals -> Workers \cup {None}]
    /\ faults \in 0..MaxFaults
    /\ outages \subseteq Signals

NoView == [embedded |-> {}, zero |-> {}]
NoWrites == [embedded |-> {}, scored |-> {}, zero |-> {}, facts |-> {}]

Init ==
    /\ state = [s \in Signals |-> "unseen"]
    /\ queue = {}
    /\ embedded = {}
    /\ confidence = [s \in Signals |-> "initial"]
    /\ facts = {}
    /\ pc = [w \in Workers |-> "idle"]
    /\ todo = [w \in Workers |-> {}]
    /\ cur = [w \in Workers |-> None]
    /\ view = [w \in Workers |-> NoView]
    /\ own = [w \in Workers |-> NoWrites]
    /\ lock = [s \in Signals |-> None]
    /\ faults = 0
    /\ outages = {}

Stored == {s \in Signals : state[s] = "stored"}
Becomes(B, st) == state' = [s \in Signals |-> IF s \in B THEN st ELSE state[s]]

-----------------------------------------------------------------------------
(* Acquisition jobs                                                        *)

\* create_many, then the enqueueing, whose failure is only logged.
Acquire(B) ==
    /\ \A s \in B : state[s] = "unseen"
    /\ Becomes(B, "inserted")
    /\ queue' \in {queue, queue \cup {B}}
    /\ UNCHANGED <<rows, pc, todo, cur, view, own, lock, faults, outages>>

\* The batch's session ends; a rollback leaves the enqueued job behind.
CommitAcquired(B) ==
    /\ \A s \in B : state[s] = "inserted"
    /\ Becomes(B, "stored")
    /\ UNCHANGED <<queue, rows, pc, todo, cur, view, own, lock, faults, outages>>

LoseAcquired(B) ==
    /\ \A s \in B : state[s] = "inserted"
    /\ faults < MaxFaults
    /\ faults' = faults + 1
    /\ Becomes(B, "lost")
    /\ UNCHANGED <<queue, rows, pc, todo, cur, view, own, lock, outages>>

-----------------------------------------------------------------------------
(* Refinement jobs                                                         *)

\* refine_batch loads the instances it works on; a batch of nothing is done.
Load(w, S) ==
    /\ pc' = [pc EXCEPT ![w] = IF S = {} THEN "idle" ELSE "batch"]
    /\ todo' = [todo EXCEPT ![w] = S]
    /\ view' = [view EXCEPT ![w] = [embedded |-> embedded \cap S,
                                    zero |-> {s \in S : confidence[s] = "zero"}]]
    /\ UNCHANGED <<state, rows, cur, own, lock, faults, outages>>

\* Mutant: what the job did not find is enqueued again.
StartRefineRequeue(w, B) ==
    /\ pc[w] = "idle"
    /\ B \in queue
    /\ queue' = (queue \ {B}) \cup {B \ Stored}
    /\ Load(w, B \cap Stored)

\* The refinement job that acquisition enqueued.
StartRefine(w, B) ==
    /\ pc[w] = "idle"
    /\ B \in queue
    /\ queue' = queue \ {B}
    /\ Load(w, B \cap Stored)

\* Mutant: a signal that was scored without its embedding is taken for processed.
UnprocessedInitial == {s \in Stored \ embedded : confidence[s] = "initial"}

\* Where the catch-up looks.
Unprocessed == {s \in Stored \ embedded : confidence[s] # "zero"}

\* ORDER BY created_at DESC LIMIT n
Newest(S, n) == {s \in S : Cardinality({t \in S : t > s}) < n}

\* refine_unprocessed
StartCatchUp(w) ==
    /\ pc[w] = "idle"
    /\ Unprocessed # {}
    /\ Load(w, Newest(Unprocessed, Limit))
    /\ UNCHANGED queue

Free(w, S) == \A s \in S : lock[s] \in {w, None}
Lock(w, S) == lock' = [s \in Signals |-> IF s \in S THEN w ELSE lock[s]]

Unembedded(w) == todo[w] \ view[w].embedded
Unlocked(w) == {s \in Unembedded(w) : lock[s] # w}

\* batch_embed_signals flushes the embeddings in the order of the primary keys.  The
\* keys are random; one order of the numbers stands for theirs.
LockForBatch(w) ==
    /\ pc[w] = "batch"
    /\ Unlocked(w) # {}
    /\ LET s == Min(Unlocked(w)) IN Free(w, {s}) /\ Lock(w, {s})
    /\ UNCHANGED <<arrivals, rows, pc, todo, cur, view, own, faults, outages>>

BatchEmbed(w) ==
    /\ pc[w] = "batch"
    /\ Unlocked(w) = {}
    /\ own' = [own EXCEPT ![w].embedded = Unembedded(w)]
    /\ pc' = [pc EXCEPT ![w] = "refine"]
    /\ UNCHANGED <<arrivals, rows, todo, cur, view, lock, faults, outages>>

\* "Batch embedding failed", before the flush: the loop goes on without it.
BatchEmbedFails(w) ==
    /\ pc[w] = "batch"
    /\ Unembedded(w) # {}
    /\ \A s \in Signals : lock[s] # w
    /\ faults < MaxFaults
    /\ faults' = faults + 1
    /\ pc' = [pc EXCEPT ![w] = "refine"]
    /\ UNCHANGED <<arrivals, rows, todo, cur, view, own, lock, outages>>

Pick(w, s) ==
    /\ pc[w] = "refine" /\ cur[w] = None
    /\ s \in todo[w]
    /\ cur' = [cur EXCEPT ![w] = s]
    /\ UNCHANGED <<arrivals, rows, pc, todo, view, own, lock, faults, outages>>

\* The current signal's row is written: the flush waits for its lock.
Flushed(w, writes) ==
    /\ pc[w] = "refine" /\ cur[w] # None
    /\ Free(w, {cur[w]})
    /\ Lock(w, {cur[w]})
    /\ own' = [own EXCEPT ![w] = writes]
    /\ todo' = [todo EXCEPT ![w] = @ \ {cur[w]}]
    /\ cur' = [cur EXCEPT ![w] = None]
    /\ UNCHANGED <<arrivals, rows, pc, view>>

\* Extraction, scoring and provenance; extraction and scoring may fail.
Analysed(s, writes) ==
    {[writes EXCEPT !.facts = @ \cup F, !.scored = @ \cup Z] : F, Z \in {{}, {s}}}

\* is_semantic_duplicate: is the nearest embedding in the table near enough?
Duplicate(s, table) == \E t \in table : <<s, t>> \in Similar

\* Mutant: an instance at zero is taken for one without a score ("or" a default).
SuppressedOrDefault(w, s, writes) ==
    IF s \in view[w].zero THEN [writes EXCEPT !.scored = @ \cup {s}]
                          ELSE [writes EXCEPT !.zero = @ \cup {s}]

\* A duplicate's confidence is set to zero; an instance that is at zero already does
\* not change.
Suppressed(w, s, writes) ==
    IF s \in view[w].zero THEN writes ELSE [writes EXCEPT !.zero = @ \cup {s}]

\* Mutant: the single embedding is computed and not stored.
RefineEmbeddedInMemory(w) ==
    LET s == cur[w]
    IN  /\ \E new \in IF Duplicate(s, embedded \cup own[w].embedded)
                     THEN {Suppressed(w, s, own[w])}
                     ELSE Analysed(s, own[w]) : Flushed(w, new)
        /\ UNCHANGED <<faults, outages>>

\* refine_signal with an embedding, which is flushed before the duplicate check.
RefineEmbedded(w) ==
    LET s == cur[w]
        writes == [own[w] EXCEPT !.embedded = @ \cup {s}]
    IN  /\ \E new \in IF Duplicate(s, embedded \cup writes.embedded)
                     THEN {Suppressed(w, s, writes)}
                     ELSE Analysed(s, writes) : Flushed(w, new)
        /\ UNCHANGED <<faults, outages>>

\* refine_signal when the embedding fails: the duplicate check is skipped.
RefineUnembedded(w) ==
    /\ cur[w] # None
    /\ faults < MaxFaults
    /\ faults' = faults + 1
    /\ outages' = outages \cup {cur[w]}
    /\ \E new \in Analysed(cur[w], own[w]) : Flushed(w, new)

EndSession(w) ==
    /\ pc' = [pc EXCEPT ![w] = "idle"]
    /\ todo' = [todo EXCEPT ![w] = {}]
    /\ cur' = [cur EXCEPT ![w] = None]
    /\ view' = [view EXCEPT ![w] = NoView]
    /\ own' = [own EXCEPT ![w] = NoWrites]
    /\ lock' = [s \in Signals |-> IF lock[s] = w THEN None ELSE lock[s]]

\* get_db_context commits the whole batch.
Commit(w) ==
    /\ pc[w] = "refine" /\ cur[w] = None /\ todo[w] = {}
    /\ embedded' = embedded \cup own[w].embedded
    /\ confidence' = [s \in Signals |-> IF s \in own[w].scored THEN "scored"
                                        ELSE IF s \in own[w].zero THEN "zero"
                                        ELSE confidence[s]]
    /\ facts' = facts \cup own[w].facts
    /\ EndSession(w)
    /\ UNCHANGED <<arrivals, faults, outages>>

\* A lost worker or a job timeout; nobody enqueues the job again.
Abort(w) ==
    /\ pc[w] # "idle"
    /\ faults < MaxFaults
    /\ faults' = faults + 1
    /\ EndSession(w)
    /\ UNCHANGED <<arrivals, rows, outages>>

\* The row a job's flush wants next.
Wanted(w) == IF pc[w] = "batch" /\ Unlocked(w) # {} THEN {Min(Unlocked(w))}
             ELSE {cur[w]} \ {None}
WaitsFor(w) == {lock[s] : s \in Wanted(w)} \ {w, None}

\* Jobs that wait for each other in a circle: Postgres cancels the statement of one.
\* Its session is unusable; the loop logs every failure and the commit fails.
DeadlockVictim(w) ==
    /\ \E circle \in SUBSET Workers :
          w \in circle /\ UNION {WaitsFor(v) : v \in circle} = circle
    /\ EndSession(w)
    /\ UNCHANGED <<arrivals, rows, faults, outages>>

-----------------------------------------------------------------------------

Arrival(B) == Acquire(B) \/ CommitAcquired(B) \/ LoseAcquired(B)
Start(w) == StartCatchUp(w) \/ \E B \in Batches : StartRefine(w, B)
Embed(w) == LockForBatch(w) \/ BatchEmbed(w)
Refine(w) == RefineEmbedded(w) \/ RefineUnembedded(w) \/ \E s \in Signals : Pick(w, s)

Next ==
    \/ \E B \in Batches : Arrival(B)
    \/ \E w \in Workers :
          Start(w) \/ Embed(w) \/ BatchEmbedFails(w) \/ Refine(w) \/ Commit(w)
            \/ Abort(w) \/ DeadlockVictim(w)

\* The scheduler keeps enqueueing catch-ups and a job that runs goes on; no fault, and
\* not even the commit of an acquisition, is owed.
Fairness ==
    \A w \in Workers : WF_vars(Start(w)) /\
        WF_vars(Embed(w) \/ Refine(w) \/ Commit(w) \/ DeadlockVictim(w))

Spec == Init /\ [][Next]_vars
FairSpec == Spec /\ Fairness

-----------------------------------------------------------------------------
(* Properties                                                              *)

\* Whatever a signal's job met - started before the commit, lost, failed, cancelled,
\* never enqueued - the catch-up brings the signal to its embedding in the end
\* (refine_unprocessed, "Useful for batch catchup processing").
EverySignalIsProcessed ==
    \A s \in Signals : (state[s] = "stored") ~> (s \in embedded)

\* The results of a refinement are committed together with the embedding that marks
\* the signal as done, so only a failed embedding makes the catch-up repeat it.
RepeatedOnlyAfterOutage ==
    \A s \in Signals \ embedded :
        s \in facts \/ confidence[s] # "initial" => s \in outages

\* Once suppressed, a signal never comes back (confidence 0 filters it out for good,
\* refine_signal step 2), unless a job whose embedding of it failed analysed it, be
\* it from an outdated instance.
SuppressionIsFinal ==
    [][\A s \in Signals :
          confidence[s] = "zero" /\ confidence'[s] # "zero" => s \in outages]_vars

\* Whatever is embedded is suppressed, unless a job whose embedding of it failed
\* analysed it: the nearest embedding in the table is the signal's own, so that the
\* analysis is left for outages (refine_signal, steps 1 and 2).
EmbeddedAreSuppressed ==
    \A s \in embedded : confidence[s] = "zero" \/ s \in outages

\* is_semantic_duplicate: "True if a near-duplicate exists".
DuplicateHasAnOriginal ==
    \A s \in Signals : confidence[s] = "zero" =>
        \E t \in embedded \ {s} : <<s, t>> \in Similar
=============================================================================
