----------------------- MODULE SignalRefinement_proofs -----------------------
(***************************************************************************)
(* Proofs about SignalRefinement, for any batches, workers, faults and     *)
(* limit, and any relation of similarity that has a signal similar to      *)
(* itself.                                                                 *)
(*                                                                         *)
(* A job's uncommitted writes are its own: it holds the lock of each row.  *)
(* Whatever it embedded and has gone through is suppressed, unless its     *)
(* embedding failed once; whatever it analysed had a failed embedding.     *)
(***************************************************************************)
EXTENDS SignalRefinement, TLAPS

-----------------------------------------------------------------------------
(* The inductive invariant                                                 *)

\* A job works on a signal of its batch only while it goes through it.
Stages ==
    \A w \in Workers :
       /\ pc[w] = "idle" => todo[w] = {} /\ view[w].zero = {}
       /\ pc[w] # "refine" => own[w] = NoWrites /\ cur[w] = None
       /\ cur[w] # None => cur[w] \in todo[w]

Written(w) == own[w].embedded \cup own[w].scored \cup own[w].zero \cup own[w].facts

\* Who has written a row and not committed holds its lock.
WritersHoldLocks ==
    /\ \A w \in Workers, s \in Signals : s \in Written(w) => lock[s] = w
    /\ \A w \in Workers, s \in Signals : pc[w] = "idle" => lock[s] # w

\* Of two jobs, only one has uncommitted writes of a signal: no commit overwrites
\* what another job has written since (the flushes of RefinementService).
WritesApart ==
    \A v, w \in Workers : v # w => Written(v) \cap Written(w) = {}

\* What a job has written comes with the embedding, or after an outage; what it has
\* analysed comes after an outage.
OwnEarned ==
    \A w \in Workers :
       /\ own[w].zero \subseteq own[w].embedded \cup outages
       /\ own[w].scored \cup own[w].facts \subseteq outages

\* The analysis runs only on signals whose embedding has failed: an embedding that
\* succeeds finds itself in the table (is_semantic_duplicate).
AnalysedOnlyInOutage ==
    \A s \in Signals : s \in facts \/ confidence[s] = "scored" => s \in outages

\* Every suppression rests on an embedding or follows an outage.
SuppressedEarned ==
    \A s \in Signals : confidence[s] = "zero" => s \in embedded \cup outages

\* What an instance knew to be suppressed still is, or had an outage.
ViewsKeep ==
    \A w \in Workers : \A s \in view[w].zero : confidence[s] = "zero" \/ s \in outages

\* What a job has embedded and gone through it has suppressed, if it was not.
OwnSuppressed ==
    \A w \in Workers :
       own[w].embedded \subseteq own[w].zero \cup view[w].zero \cup outages \cup todo[w]

IInv ==
    /\ TypeOK /\ Stages /\ WritersHoldLocks /\ OwnEarned
    /\ AnalysedOnlyInOutage /\ SuppressedEarned /\ ViewsKeep /\ OwnSuppressed
    /\ EmbeddedAreSuppressed

-----------------------------------------------------------------------------
(* Type correctness                                                        *)

\* Loading a batch of stored signals keeps the types.
LEMMA LoadTyped ==
  ASSUME TypeOK, NEW w \in Workers, NEW S \in SUBSET Signals, Load(w, S), queue' \subseteq Batches
  PROVE  TypeOK'
<1>1. [embedded |-> embedded \cap S, zero |-> {s \in S : confidence[s] = "zero"}] \in Views
  BY DEF Views, TypeOK
<1>2. view' \in [Workers -> Views]
  BY <1>1 DEF Load, TypeOK
<1>3. pc' \in [Workers -> {"idle", "batch", "refine"}] /\ todo' \in [Workers -> SUBSET Signals]
  BY DEF Load, TypeOK
<1> QED
  BY <1>2, <1>3 DEF Load, TypeOK, rows

\* The end of a session keeps the types, whatever it does to the rows.
LEMMA EndTyped ==
  ASSUME TypeOK, NEW w \in Workers, EndSession(w)
  PROVE  /\ pc' \in [Workers -> {"idle", "batch", "refine"}]
         /\ todo' \in [Workers -> SUBSET Signals]
         /\ cur' \in [Workers -> Signals \cup {None}]
         /\ view' \in [Workers -> Views]
         /\ own' \in [Workers -> Writes]
         /\ lock' \in [Signals -> Workers \cup {None}]
<1>1. NoView \in Views /\ NoWrites \in Writes
  BY DEF NoView, NoWrites, Views, Writes
<1> QED
  BY <1>1 DEF EndSession, TypeOK

\* What an analysis leaves: the facts and the score of the current signal, or not.
LEMMA AnalysedWrites ==
  ASSUME NEW writes \in Writes, NEW s \in Signals, NEW new \in Analysed(s, writes)
  PROVE  /\ new \in Writes
         /\ new.embedded = writes.embedded /\ new.zero = writes.zero
         /\ writes.facts \subseteq new.facts /\ new.facts \subseteq writes.facts \cup {s}
         /\ writes.scored \subseteq new.scored /\ new.scored \subseteq writes.scored \cup {s}
<1>1. PICK F \in {{}, {s}}, Z \in {{}, {s}} :
         new = [writes EXCEPT !.facts = @ \cup F, !.scored = @ \cup Z]
  BY DEF Analysed
<1>2. writes.facts \cup F \in SUBSET Signals /\ writes.scored \cup Z \in SUBSET Signals
  BY DEF Writes
<1> QED
  BY <1>1, <1>2 DEF Writes

\* What a suppression leaves: the current signal at zero, if it was not.
LEMMA SuppressedWrites ==
  ASSUME NEW x \in Writes, NEW s \in Signals, NEW w \in Workers,
         NEW y, y = Suppressed(w, s, x)
  PROVE  /\ y \in Writes
         /\ y.embedded = x.embedded /\ y.facts = x.facts /\ y.scored = x.scored
         /\ x.zero \subseteq y.zero /\ y.zero \subseteq x.zero \cup {s}
         /\ s \in view[w].zero \cup y.zero
BY DEF Suppressed, Writes

\* The single embedding of the current signal.
LEMMA EmbeddedWrites ==
  ASSUME NEW writes \in Writes, NEW s \in Signals,
         NEW new, new = [writes EXCEPT !.embedded = @ \cup {s}]
  PROVE  /\ new \in Writes
         /\ new.embedded = writes.embedded \cup {s}
         /\ new.facts = writes.facts /\ new.scored = writes.scored /\ new.zero = writes.zero
BY DEF Writes

\* A successful embedding finds itself in the table: the signal is suppressed.
LEMMA EmbeddedOutcome ==
  ASSUME RefinementAssumption, TypeOK, NEW w \in Workers, RefineEmbedded(w)
  PROVE  \E new \in Writes :
            /\ Flushed(w, new)
            /\ new.embedded = own[w].embedded \cup {cur[w]}
            /\ new.facts = own[w].facts /\ new.scored = own[w].scored
            /\ own[w].zero \subseteq new.zero /\ new.zero \subseteq own[w].zero \cup {cur[w]}
            /\ cur[w] \in view[w].zero \cup new.zero
<1> DEFINE writes == [own[w] EXCEPT !.embedded = @ \cup {cur[w]}]
           result == Suppressed(w, cur[w], writes)
<1>1. cur[w] \in Signals /\ own[w] \in Writes
  BY DEF RefineEmbedded, Flushed, TypeOK
<1>2. /\ writes \in Writes
      /\ writes.embedded = own[w].embedded \cup {cur[w]}
      /\ writes.facts = own[w].facts /\ writes.scored = own[w].scored
      /\ writes.zero = own[w].zero
  BY <1>1, EmbeddedWrites
<1>3. Duplicate(cur[w], embedded \cup writes.embedded)
  BY <1>1, <1>2 DEF Duplicate, RefinementAssumption
<1>4. Flushed(w, result)
  BY <1>3 DEF RefineEmbedded
<1> HIDE DEF writes
<1>5. PICK y : y = Suppressed(w, cur[w], writes)
  OBVIOUS
<1>6. Flushed(w, y)
  BY <1>4, <1>5
<1>7. PICK s \in Signals : s = cur[w]
  BY <1>1
<1>8. /\ y \in Writes
      /\ y.embedded = writes.embedded /\ y.facts = writes.facts /\ y.scored = writes.scored
      /\ writes.zero \subseteq y.zero /\ y.zero \subseteq writes.zero \cup {cur[w]}
      /\ cur[w] \in view[w].zero \cup y.zero
  BY <1>2, <1>5, <1>7, SuppressedWrites
<1> QED
  BY <1>2, <1>6, <1>8

\* Without an embedding, the analysis leaves what it can.
LEMMA UnembeddedOutcome ==
  ASSUME TypeOK, NEW w \in Workers, RefineUnembedded(w)
  PROVE  \E new \in Writes :
            /\ Flushed(w, new)
            /\ new.embedded = own[w].embedded /\ new.zero = own[w].zero
            /\ own[w].facts \subseteq new.facts /\ new.facts \subseteq own[w].facts \cup {cur[w]}
            /\ own[w].scored \subseteq new.scored /\ new.scored \subseteq own[w].scored \cup {cur[w]}
<1>1. cur[w] \in Signals /\ own[w] \in Writes
  BY DEF RefineUnembedded, TypeOK
<1>2. PICK new \in Analysed(cur[w], own[w]) : Flushed(w, new)
  BY DEF RefineUnembedded
<1> QED
  BY <1>1, <1>2, AnalysedWrites

\* A flush of the current signal keeps the types.
LEMMA FlushTyped ==
  ASSUME TypeOK, NEW w \in Workers, NEW writes \in Writes, Flushed(w, writes),
         faults' \in 0..MaxFaults, outages' \subseteq Signals
  PROVE  TypeOK'
<1>1. cur[w] \in Signals
  BY DEF Flushed, TypeOK
<1>2. lock' \in [Signals -> Workers \cup {None}]
  BY DEF Flushed, Lock, TypeOK
<1>3. own' \in [Workers -> Writes] /\ todo' \in [Workers -> SUBSET Signals]
      /\ cur' \in [Workers -> Signals \cup {None}]
  BY DEF Flushed, TypeOK
<1> QED
  BY <1>2, <1>3 DEF Flushed, TypeOK, arrivals, rows

\* One more fault stays within the bound.
LEMMA FaultCounted ==
  ASSUME RefinementAssumption, TypeOK, faults < MaxFaults, faults' = faults + 1
  PROVE  faults' \in 0..MaxFaults
BY DEF RefinementAssumption, TypeOK

\* Every step of arrivals and jobs keeps TypeOK.
LEMMA TypeNext ==
  ASSUME RefinementAssumption, TypeOK, [Next]_vars
  PROVE  TypeOK'
<1>1. ASSUME NEW B \in Batches, Arrival(B) PROVE TypeOK'
  <2>1. B \subseteq Signals
    BY DEF Signals
  <2>2. ASSUME NEW st \in {"unseen", "inserted", "stored", "lost"}, Becomes(B, st)
        PROVE  state' \in [Signals -> {"unseen", "inserted", "stored", "lost"}]
    BY <2>2 DEF Becomes, TypeOK
  <2>3. CASE Acquire(B)
    BY <2>2, <2>3 DEF Acquire, TypeOK, rows
  <2>4. CASE CommitAcquired(B)
    BY <2>2, <2>4 DEF CommitAcquired, TypeOK, rows
  <2>5. CASE LoseAcquired(B)
    BY <2>2, <2>5, FaultCounted DEF LoseAcquired, TypeOK, rows
  <2> QED
    BY <1>1, <2>3, <2>4, <2>5 DEF Arrival
<1>2. ASSUME NEW w \in Workers, Start(w) PROVE TypeOK'
  <2>1. CASE StartCatchUp(w)
    <3>1. Newest(Unprocessed, Limit) \in SUBSET Signals
      BY DEF Newest, Unprocessed, Stored
    <3>2. Load(w, Newest(Unprocessed, Limit)) /\ queue' \subseteq Batches
      BY <2>1 DEF StartCatchUp, TypeOK
    <3> QED
      BY <3>1, <3>2, LoadTyped
  <2>2. ASSUME NEW B \in Batches, StartRefine(w, B) PROVE TypeOK'
    <3>1. B \cap Stored \in SUBSET Signals
      BY DEF Stored
    <3>2. Load(w, B \cap Stored) /\ queue' \subseteq Batches
      BY <2>2 DEF StartRefine, TypeOK
    <3> QED
      BY <3>1, <3>2, LoadTyped
  <2> QED
    BY <1>2, <2>1, <2>2 DEF Start
<1>3. ASSUME NEW w \in Workers, LockForBatch(w) PROVE TypeOK'
  <2>1. \E s : Lock(w, {s})
    BY <1>3 DEF LockForBatch
  <2>2. lock' \in [Signals -> Workers \cup {None}]
    BY <2>1 DEF Lock, TypeOK
  <2> QED
    BY <1>3, <2>2 DEF LockForBatch, TypeOK, arrivals, rows
<1>4. ASSUME NEW w \in Workers, BatchEmbed(w) PROVE TypeOK'
  <2>1. [own[w] EXCEPT !.embedded = Unembedded(w)] \in Writes
    BY DEF TypeOK, Writes, Unembedded
  <2>2. own' = [own EXCEPT ![w] = [own[w] EXCEPT !.embedded = Unembedded(w)]]
    BY <1>4 DEF BatchEmbed
  <2> QED
    BY <1>4, <2>1, <2>2 DEF BatchEmbed, TypeOK, arrivals, rows
<1>5. ASSUME NEW w \in Workers, BatchEmbedFails(w) PROVE TypeOK'
  BY <1>5, FaultCounted DEF BatchEmbedFails, TypeOK, arrivals, rows
<1>6. ASSUME NEW w \in Workers, NEW s \in Signals, Pick(w, s) PROVE TypeOK'
  BY <1>6 DEF Pick, TypeOK, arrivals, rows
<1>7. ASSUME NEW w \in Workers, RefineEmbedded(w) PROVE TypeOK'
  <2>1. PICK new \in Writes : Flushed(w, new)
    BY <1>7, EmbeddedOutcome
  <2>2. faults' \in 0..MaxFaults /\ outages' \subseteq Signals
    BY <1>7 DEF RefineEmbedded, TypeOK
  <2> QED
    BY <2>1, <2>2, FlushTyped
<1>8. ASSUME NEW w \in Workers, RefineUnembedded(w) PROVE TypeOK'
  <2>1. cur[w] \in Signals
    BY <1>8 DEF RefineUnembedded, TypeOK
  <2>2. PICK new \in Writes : Flushed(w, new)
    BY <1>8, UnembeddedOutcome
  <2>3. faults' \in 0..MaxFaults /\ outages' \subseteq Signals
    BY <1>8, <2>1, FaultCounted DEF RefineUnembedded, TypeOK
  <2> QED
    BY <2>2, <2>3, FlushTyped
<1>9. ASSUME NEW w \in Workers, Commit(w) PROVE TypeOK'
  <2>1. own[w] \in Writes
    BY DEF TypeOK
  <2>2. embedded' \subseteq Signals /\ facts' \subseteq Signals
        /\ confidence' \in [Signals -> Confidence]
    BY <1>9, <2>1 DEF Commit, TypeOK, Writes, Confidence
  <2>3. EndSession(w)
    BY <1>9 DEF Commit
  <2> QED
    BY <1>9, <2>2, <2>3, EndTyped DEF Commit, TypeOK, arrivals
<1>10. ASSUME NEW w \in Workers, Abort(w) \/ DeadlockVictim(w) PROVE TypeOK'
  <2>1. EndSession(w) /\ UNCHANGED <<arrivals, rows, outages>>
        /\ faults' \in 0..MaxFaults
    BY <1>10, FaultCounted DEF Abort, DeadlockVictim, TypeOK
  <2> QED
    BY <2>1, EndTyped DEF TypeOK, arrivals, rows
<1>11. CASE UNCHANGED vars
  BY <1>11 DEF vars, TypeOK
<1> QED
  BY <1>1, <1>2, <1>3, <1>4, <1>5, <1>6, <1>7, <1>8, <1>9, <1>10, <1>11
     DEF Next, Embed, Refine

-----------------------------------------------------------------------------
(* Steps                                                                   *)

\* What every step but a commit leaves: the rows, and the writes of others.
Untouched(w) ==
    /\ UNCHANGED rows
    /\ \A v \in Workers \ {w} :
          /\ pc'[v] = pc[v] /\ todo'[v] = todo[v] /\ cur'[v] = cur[v]
          /\ view'[v] = view[v] /\ own'[v] = own[v]

\* Arrivals, and any other step that touches no job and no row.
LEMMA QuietStep ==
  ASSUME IInv, TypeOK', UNCHANGED <<rows, pc, todo, cur, view, own, lock, outages>>
  PROVE  IInv'
BY DEF IInv, rows, Stages, WritersHoldLocks, Written, OwnEarned, AnalysedOnlyInOutage,
       SuppressedEarned, ViewsKeep, OwnSuppressed, EmbeddedAreSuppressed

\* A job that loads knows what is suppressed now.
LEMMA LoadStep ==
  ASSUME IInv, TypeOK', NEW w \in Workers, NEW S \in SUBSET Signals, pc[w] = "idle", Load(w, S)
  PROVE  IInv'
<1>1. TypeOK /\ Stages /\ own[w] = NoWrites /\ cur[w] = None
  BY DEF IInv, Stages
<1>2. view'[w].zero = {s \in S : confidence[s] = "zero"} /\ todo'[w] = S
      /\ pc'[w] = IF S = {} THEN "idle" ELSE "batch"
  BY <1>1 DEF Load, TypeOK
<1>3. Untouched(w) /\ UNCHANGED <<own, lock, cur, outages>>
  BY <1>1 DEF Load, TypeOK, Untouched
<1>4. Stages'
  BY <1>1, <1>2, <1>3 DEF Stages, Untouched
<1>5. WritersHoldLocks'
  <2>1. \A v \in Workers : pc'[v] = "idle" => pc[v] = "idle"
    BY <1>1, <1>2, <1>3 DEF Untouched
  <2> QED
    BY <1>3, <2>1 DEF IInv, WritersHoldLocks, Written
<1>6. ViewsKeep'
  BY <1>2, <1>3 DEF IInv, ViewsKeep, Untouched, rows
<1>7. OwnSuppressed'
  <2>1. own[w].embedded = {}
    BY <1>1 DEF NoWrites
  <2> QED
    BY <1>3, <2>1 DEF IInv, OwnSuppressed, Untouched
<1> QED
  BY <1>3, <1>4, <1>5, <1>6, <1>7
     DEF IInv, OwnEarned, AnalysedOnlyInOutage, SuppressedEarned, EmbeddedAreSuppressed,
         Untouched, rows

\* The end of a session leaves nothing of it behind, whatever became of the rows.
LEMMA EndStep ==
  ASSUME IInv, NEW w \in Workers, EndSession(w), outages' = outages
  PROVE  /\ Stages' /\ WritersHoldLocks' /\ OwnEarned' /\ OwnSuppressed'
         /\ \A v \in Workers : view'[v].zero \subseteq view[v].zero
<1>1. TypeOK /\ WritersHoldLocks
  BY DEF IInv
<1>2. /\ pc'[w] = "idle" /\ todo'[w] = {} /\ cur'[w] = None
      /\ view'[w] = NoView /\ own'[w] = NoWrites
  BY <1>1 DEF EndSession, TypeOK
<1>3. \A v \in Workers \ {w} :
          /\ pc'[v] = pc[v] /\ todo'[v] = todo[v] /\ cur'[v] = cur[v]
          /\ view'[v] = view[v] /\ own'[v] = own[v]
  BY <1>1 DEF EndSession, TypeOK
<1>4. Stages'
  BY <1>2, <1>3 DEF IInv, Stages, NoView
<1>5. WritersHoldLocks'
  <2>1. \A s \in Signals : lock'[s] = IF lock[s] = w THEN None ELSE lock[s]
    BY DEF EndSession
  <2>2. ASSUME NEW v \in Workers \ {w}, NEW s \in Signals
        PROVE  (s \in Written(v)' => lock'[s] = v) /\ (pc'[v] = "idle" => lock'[s] # v)
    BY <1>1, <1>3, <2>1, RefinementAssumption
       DEF WritersHoldLocks, Written, RefinementAssumption
  <2>3. ASSUME NEW s \in Signals PROVE s \notin Written(w)' /\ lock'[s] # w
    BY <1>2, <2>1, RefinementAssumption DEF Written, NoWrites, RefinementAssumption
  <2> QED
    BY <2>2, <2>3 DEF WritersHoldLocks
<1>6. OwnEarned' /\ OwnSuppressed'
  BY <1>2, <1>3 DEF IInv, OwnEarned, OwnSuppressed, NoWrites, NoView
<1> QED
  BY <1>2, <1>3, <1>4, <1>5, <1>6 DEF NoView

\* A session that is lost, or cancelled, leaves the rows as they are.
LEMMA DropStep ==
  ASSUME IInv, TypeOK', NEW w \in Workers, EndSession(w), UNCHANGED <<rows, outages>>
  PROVE  IInv'
<1>1. ViewsKeep'
  BY EndStep DEF IInv, ViewsKeep, rows
<1> QED
  BY <1>1, EndStep DEF IInv, AnalysedOnlyInOutage, SuppressedEarned, EmbeddedAreSuppressed, rows

\* The batch takes the locks of the signals it will write, one by one.
LEMMA LockStep ==
  ASSUME IInv, TypeOK', NEW w \in Workers, LockForBatch(w)
  PROVE  IInv'
<1>1. pc[w] # "idle" /\ UNCHANGED <<rows, pc, todo, cur, view, own, outages>>
  BY DEF LockForBatch
<1>2. PICK s : Free(w, {s}) /\ Lock(w, {s})
  BY DEF LockForBatch
<1>3. \A t \in Signals : lock'[t] = lock[t] \/ (lock[t] \in {w, None} /\ lock'[t] = w)
  BY <1>2 DEF Free, Lock
<1>4. WritersHoldLocks'
  BY <1>1, <1>3, RefinementAssumption
     DEF IInv, WritersHoldLocks, Written, RefinementAssumption
<1> QED
  BY <1>1, <1>4 DEF IInv, rows, Stages, OwnEarned, AnalysedOnlyInOutage, SuppressedEarned,
                    ViewsKeep, OwnSuppressed, EmbeddedAreSuppressed

\* The batch writes the embeddings of the rows it has locked, or none.
LEMMA BatchStep ==
  ASSUME IInv, TypeOK', NEW w \in Workers, BatchEmbed(w) \/ BatchEmbedFails(w)
  PROVE  IInv'
<1>1. TypeOK /\ Stages /\ own[w] = NoWrites /\ cur[w] = None /\ pc[w] = "batch"
  BY DEF IInv, Stages, BatchEmbed, BatchEmbedFails
<1>2. Untouched(w) /\ UNCHANGED <<todo, cur, view, lock, outages>> /\ pc'[w] = "refine"
  BY <1>1 DEF BatchEmbed, BatchEmbedFails, Untouched, TypeOK
<1>3. /\ own'[w].embedded # {} => own'[w].embedded = Unembedded(w) /\ Unlocked(w) = {}
      /\ own'[w].scored = {} /\ own'[w].zero = {} /\ own'[w].facts = {}
  <2>1. CASE BatchEmbed(w)
    <3>1. own'[w] = [NoWrites EXCEPT !.embedded = Unembedded(w)]
      BY <1>1, <2>1 DEF BatchEmbed, TypeOK
    <3> QED
      BY <2>1, <3>1 DEF BatchEmbed, NoWrites
  <2>2. CASE BatchEmbedFails(w)
    BY <1>1, <2>2 DEF BatchEmbedFails, NoWrites
  <2> QED
    BY <2>1, <2>2
<1>4. Stages'
  BY <1>1, <1>2 DEF Stages, Untouched
<1>5. WritersHoldLocks'
  <2>1. \A s \in Signals : s \in Written(w)' => lock[s] = w
    BY <1>3 DEF Written, Unlocked
  <2> QED
    BY <1>1, <1>2, <2>1 DEF IInv, WritersHoldLocks, Untouched, Written
<1>6. OwnEarned' /\ OwnSuppressed'
  BY <1>2, <1>3 DEF IInv, OwnEarned, OwnSuppressed, Untouched, Unembedded
<1>7. ViewsKeep'
  BY <1>2 DEF IInv, ViewsKeep, Untouched, rows
<1> QED
  BY <1>2, <1>4, <1>5, <1>6, <1>7
     DEF IInv, AnalysedOnlyInOutage, SuppressedEarned, EmbeddedAreSuppressed, Untouched, rows

\* A signal of the batch is chosen.
LEMMA PickStep ==
  ASSUME IInv, TypeOK', NEW w \in Workers, NEW s \in Signals, Pick(w, s)
  PROVE  IInv'
<1>1. UNCHANGED <<rows, pc, todo, view, own, lock, outages>> /\ pc[w] = "refine"
      /\ s \in todo[w]
  BY DEF Pick
<1>2. Stages'
  BY <1>1 DEF Pick, IInv, Stages, TypeOK
<1> QED
  BY <1>1, <1>2 DEF IInv, rows, WritersHoldLocks, Written, OwnEarned, AnalysedOnlyInOutage,
                    SuppressedEarned, ViewsKeep, OwnSuppressed, EmbeddedAreSuppressed

\* The current signal is written: with its embedding it is suppressed, and only after
\* an outage it is analysed.
LEMMA FlushStep ==
  ASSUME IInv, TypeOK', NEW w \in Workers, NEW new \in Writes, Flushed(w, new),
         NEW s, s = cur[w],
         outages \subseteq outages',
         own[w].zero \subseteq new.zero,
         new.embedded \subseteq own[w].embedded \cup {s},
         new.zero \subseteq own[w].zero \cup {s}, new.scored \subseteq own[w].scored \cup {s},
         new.facts \subseteq own[w].facts \cup {s},
         own[w].embedded \subseteq new.embedded,
         s \in new.zero => s \in new.embedded \cup outages',
         s \in new.scored \cup new.facts => s \in own[w].scored \cup own[w].facts \cup outages',
         s \in new.embedded => s \in new.zero \cup view[w].zero \cup outages'
  PROVE  IInv'
<1>1. TypeOK /\ Stages /\ s \in Signals /\ pc[w] = "refine"
  BY DEF IInv, Flushed, TypeOK
<1>2. /\ own'[w] = new /\ todo'[w] = todo[w] \ {s} /\ cur'[w] = None
      /\ UNCHANGED <<rows, pc, view>>
  BY <1>1 DEF Flushed, TypeOK
<1>3. Untouched(w)
  BY <1>1 DEF Flushed, TypeOK, Untouched
<1>4. \A t \in Signals : lock'[t] = lock[t] \/ (lock[t] \in {w, None} /\ lock'[t] = w)
  BY <1>1 DEF Flushed, Free, Lock
<1>5. lock'[s] = w
  BY <1>1 DEF Flushed, Lock
<1>6. Stages'
  BY <1>1, <1>2, <1>3 DEF Stages, Untouched
<1>7. WritersHoldLocks'
  <2>1. \A t \in Signals : t \in Written(w)' => lock'[t] = w
    <3>1. Written(w)' \subseteq Written(w) \cup {s}
      BY <1>2 DEF Written
    <3> QED
      BY <1>4, <1>5, <3>1, RefinementAssumption
         DEF IInv, WritersHoldLocks, RefinementAssumption
  <2>2. ASSUME NEW v \in Workers \ {w}, NEW t \in Signals
        PROVE  (t \in Written(v)' => lock'[t] = v) /\ (pc'[v] = "idle" => lock'[t] # v)
    BY <1>3, <1>4, RefinementAssumption
       DEF IInv, WritersHoldLocks, Written, Untouched, RefinementAssumption
  <2> QED
    BY <1>1, <1>2, <2>1, <2>2 DEF WritersHoldLocks
<1>8. OwnEarned'
  <2>1. own'[w].zero \subseteq own'[w].embedded \cup outages'
    BY <1>2 DEF IInv, OwnEarned
  <2>2. own'[w].scored \cup own'[w].facts \subseteq outages'
    BY <1>2 DEF IInv, OwnEarned
  <2> QED
    BY <1>3, <2>1, <2>2 DEF IInv, OwnEarned, Untouched
<1>9. OwnSuppressed'
  <2>1. own'[w].embedded \subseteq own'[w].zero \cup view'[w].zero \cup outages' \cup todo'[w]
    BY <1>2 DEF IInv, OwnSuppressed
  <2> QED
    BY <1>3, <2>1 DEF IInv, OwnSuppressed, Untouched
<1>10. ViewsKeep'
  BY <1>2 DEF IInv, ViewsKeep, rows
<1> QED
  BY <1>2, <1>6, <1>7, <1>8, <1>9, <1>10
     DEF IInv, AnalysedOnlyInOutage, SuppressedEarned, EmbeddedAreSuppressed, rows

\* A commit writes what the job wrote, and nothing else.
LEMMA CommitStep ==
  ASSUME IInv, TypeOK', NEW w \in Workers, Commit(w)
  PROVE  /\ IInv'
         /\ \A s \in Signals : confidence[s] = "zero" /\ confidence'[s] # "zero" => s \in outages
<1>1. TypeOK /\ own[w] \in Writes /\ todo[w] = {}
  BY DEF IInv, Commit, TypeOK
<1>2. /\ embedded' = embedded \cup own[w].embedded
      /\ facts' = facts \cup own[w].facts
      /\ \A s \in Signals : confidence'[s] = IF s \in own[w].scored THEN "scored"
                                             ELSE IF s \in own[w].zero THEN "zero"
                                             ELSE confidence[s]
      /\ EndSession(w) /\ outages' = outages
  BY DEF Commit
<1>3. own[w].scored \cup own[w].facts \subseteq outages
      /\ own[w].zero \subseteq own[w].embedded \cup outages
  BY DEF IInv, OwnEarned
<1>4. \A s \in Signals : confidence[s] = "zero" => confidence'[s] = "zero" \/ s \in outages
  BY <1>2, <1>3
<1>7. /\ Stages' /\ WritersHoldLocks' /\ OwnEarned' /\ OwnSuppressed'
      /\ \A v \in Workers : view'[v].zero \subseteq view[v].zero
  BY <1>2, EndStep
<1>8. AnalysedOnlyInOutage'
  BY <1>2, <1>3 DEF IInv, AnalysedOnlyInOutage
<1>9. SuppressedEarned'
  BY <1>2, <1>3 DEF IInv, SuppressedEarned
<1>10. ViewsKeep'
  <2>1. \A v \in Workers : view[v].zero \subseteq Signals
    BY <1>1 DEF TypeOK, Views
  <2> QED
    BY <1>2, <1>4, <1>7, <2>1 DEF IInv, ViewsKeep
<1>11. EmbeddedAreSuppressed'
  <2>1. own[w].embedded \subseteq own[w].zero \cup view[w].zero \cup outages
    BY <1>1 DEF IInv, OwnSuppressed
  <2>2. \A s \in view[w].zero : confidence[s] = "zero" \/ s \in outages
    BY DEF IInv, ViewsKeep
  <2>3. embedded' \subseteq Signals
    BY DEF TypeOK
  <2> QED
    BY <1>2, <1>3, <1>4, <2>1, <2>2, <2>3 DEF IInv, EmbeddedAreSuppressed
<1> QED
  BY <1>4, <1>7, <1>8, <1>9, <1>10, <1>11 DEF IInv

-----------------------------------------------------------------------------
(* The theorems                                                            *)

\* The first state has no job and nothing processed.
LEMMA IInvInit == ASSUME RefinementAssumption, Init PROVE IInv
<1>1. TypeOK
  BY DEF Init, TypeOK, RefinementAssumption, NoView, NoWrites, Views, Writes, Confidence
<1> QED
  BY <1>1, RefinementAssumption
     DEF Init, IInv, RefinementAssumption, Stages, WritersHoldLocks, Written, OwnEarned,
         AnalysedOnlyInOutage, SuppressedEarned, ViewsKeep, OwnSuppressed,
         EmbeddedAreSuppressed, NoView, NoWrites

\* Every step keeps the invariant, and only an outage brings a signal back.
LEMMA IInvNext ==
  ASSUME RefinementAssumption, IInv, [Next]_vars
  PROVE  /\ IInv'
         /\ \A s \in Signals : confidence[s] = "zero" /\ confidence'[s] # "zero" => s \in outages
<1>1. TypeOK /\ TypeOK'
  BY TypeNext DEF IInv
<1> DEFINE Goal == /\ IInv'
                   /\ \A s \in Signals :
                         confidence[s] = "zero" /\ confidence'[s] # "zero" => s \in outages
<1>2. ASSUME NEW B \in Batches, Arrival(B) PROVE Goal
  <2>1. UNCHANGED <<rows, pc, todo, cur, view, own, lock, outages>>
    BY <1>2 DEF Arrival, Acquire, CommitAcquired, LoseAcquired
  <2> QED
    BY <1>1, <2>1, QuietStep DEF rows
<1>3. ASSUME NEW w \in Workers, Start(w) PROVE Goal
  <2>1. PICK S \in SUBSET Signals : Load(w, S) /\ pc[w] = "idle"
    BY <1>3 DEF Start, StartCatchUp, StartRefine, Newest, Unprocessed, Stored
  <2> QED
    BY <1>1, <2>1, LoadStep DEF Load, rows
<1>4. ASSUME NEW w \in Workers, Embed(w) \/ BatchEmbedFails(w) PROVE Goal
  BY <1>1, <1>4, LockStep, BatchStep
     DEF Embed, LockForBatch, BatchEmbed, BatchEmbedFails, rows
<1>5. ASSUME NEW w \in Workers, NEW s \in Signals, Pick(w, s) PROVE Goal
  BY <1>1, <1>5, PickStep DEF Pick, rows
<1>6. ASSUME NEW w \in Workers, RefineEmbedded(w) PROVE Goal
  <2>1. PICK new \in Writes :
            /\ Flushed(w, new)
            /\ new.embedded = own[w].embedded \cup {cur[w]}
            /\ new.facts = own[w].facts /\ new.scored = own[w].scored
            /\ own[w].zero \subseteq new.zero /\ new.zero \subseteq own[w].zero \cup {cur[w]}
            /\ cur[w] \in view[w].zero \cup new.zero
    BY <1>1, <1>6, EmbeddedOutcome
  <2>2. outages' = outages /\ UNCHANGED rows
    BY <1>6, <2>1 DEF RefineEmbedded, Flushed
  <2>3. IInv'
    BY <1>1, <2>1, <2>2, FlushStep
  <2> QED
    BY <2>2, <2>3 DEF rows
<1>7. ASSUME NEW w \in Workers, RefineUnembedded(w) PROVE Goal
  <2>1. PICK new \in Writes :
            /\ Flushed(w, new)
            /\ new.embedded = own[w].embedded /\ new.zero = own[w].zero
            /\ own[w].facts \subseteq new.facts /\ new.facts \subseteq own[w].facts \cup {cur[w]}
            /\ own[w].scored \subseteq new.scored /\ new.scored \subseteq own[w].scored \cup {cur[w]}
    BY <1>1, <1>7, UnembeddedOutcome
  <2>2. outages' = outages \cup {cur[w]} /\ UNCHANGED rows
    BY <1>7, <2>1 DEF RefineUnembedded, Flushed
  <2>3. IInv'
    BY <1>1, <2>1, <2>2, FlushStep
  <2> QED
    BY <2>2, <2>3 DEF rows
<1>8. ASSUME NEW w \in Workers, Commit(w) PROVE Goal
  BY <1>1, <1>8, CommitStep
<1>9. ASSUME NEW w \in Workers, Abort(w) \/ DeadlockVictim(w) PROVE Goal
  <2>1. EndSession(w) /\ UNCHANGED <<rows, outages>>
    BY <1>9 DEF Abort, DeadlockVictim
  <2> QED
    BY <1>1, <2>1, DropStep DEF rows
<1>10. CASE UNCHANGED vars
  BY <1>1, <1>10, QuietStep DEF vars, rows
<1> QED
  BY <1>2, <1>3, <1>4, <1>5, <1>6, <1>7, <1>8, <1>9, <1>10 DEF Next, Refine

\* The invariant, for any batches, workers, faults and limit.
THEOREM IInvCorrect == Spec => []IInv
<1>1. Init => IInv
  BY IInvInit, RefinementAssumption
<1>2. IInv /\ [Next]_vars => IInv'
  BY IInvNext, RefinementAssumption
<1> QED
  BY <1>1, <1>2, PTL DEF Spec

\* Every variable keeps its type.
THEOREM TypeCorrect == Spec => []TypeOK
<1>1. IInv => TypeOK
  BY DEF IInv
<1> QED
  BY <1>1, IInvCorrect, PTL

\* A signal that the catch-up repeats had an outage: what is committed of a signal
\* comes with its embedding (RefinementService commits once, at the end).
THEOREM RepeatedOnlyAfterOutageCorrect == Spec => []RepeatedOnlyAfterOutage
<1>1. IInv => RepeatedOnlyAfterOutage
  BY DEF IInv, TypeOK, Confidence, AnalysedOnlyInOutage, SuppressedEarned, RepeatedOnlyAfterOutage
<1> QED
  BY <1>1, IInvCorrect, PTL

\* Suppression is final, however outdated the instances that jobs write from
\* (refine_signal, step 2).
THEOREM SuppressionIsFinalCorrect == Spec => SuppressionIsFinal
<1>1. IInv /\ [Next]_vars => [\A s \in Signals :
         confidence[s] = "zero" /\ confidence'[s] # "zero" => s \in outages]_vars
  BY IInvNext, RefinementAssumption
<1> QED
  BY <1>1, IInvCorrect, PTL DEF Spec, SuppressionIsFinal

\* Whatever is embedded is suppressed, and whatever is analysed had no embedding:
\* the exact extent of the self-comparison in is_semantic_duplicate.
THEOREM EmbeddedAreSuppressedCorrect ==
  Spec => [](EmbeddedAreSuppressed /\ AnalysedOnlyInOutage)
<1>1. IInv => EmbeddedAreSuppressed /\ AnalysedOnlyInOutage
  BY DEF IInv
<1> QED
  BY <1>1, IInvCorrect, PTL

\* No two jobs have uncommitted writes of one signal, so a commit overwrites nothing
\* that was written since its job wrote it (the flush before the duplicate check).
THEOREM WritesApartCorrect == Spec => []WritesApart
<1>1. IInv => WritesApart
  BY DEF IInv, TypeOK, Writes, WritersHoldLocks, WritesApart, Written
<1> QED
  BY <1>1, IInvCorrect, PTL
=============================================================================
