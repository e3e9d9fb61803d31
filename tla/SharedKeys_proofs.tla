-------------------------- MODULE SharedKeys_proofs --------------------------
(***************************************************************************)
(* The components that share Redis keys, for every number of briefs, runs, *)
(* requests and calls, and every cooldown, threshold and timeout.          *)
(*                                                                         *)
(* Briefs: two runs between check and key of one brief both know that they *)
(* slipped, and a brief that set its key is as far from its regeneration   *)
(* as the key is from its end.  The helpers (idempotency key, compute      *)
(* lock, circuit): each invariant says who works for the key that is set.  *)
(***************************************************************************)
EXTENDS BriefRefresh, IdempotencyKeys, CircuitBreaker, ComputeLock,
        FiniteSetTheorems, TLAPS

-----------------------------------------------------------------------------
(* The refresh of briefs                                                   *)

\* No run is a record of its type.
LEMMA NoRunTyped == NoRun \in RunType
  BY RefreshAssumption DEF NoRun, RunType

LEMMA RefreshTypeNext == RefreshTypeOK /\ [RefreshNext]_refreshVars => RefreshTypeOK'
<1> SUFFICES ASSUME RefreshTypeOK, [RefreshNext]_refreshVars PROVE RefreshTypeOK'
  OBVIOUS
<1>a. /\ refreshed \in [Briefs -> 0..StaleAfter] /\ limit \in [Briefs -> 0..Cooldown]
      /\ run \in [Refreshers -> RunType] /\ since \in [Briefs -> 0..Cooldown]
      /\ slipped \subseteq Refreshers \X Briefs
      /\ unlimited \subseteq Briefs /\ rolledBack \subseteq Briefs
  BY DEF RefreshTypeOK
<1>b. ASSUME refreshed' \in [Briefs -> 0..StaleAfter], limit' \in [Briefs -> 0..Cooldown],
             run' \in [Refreshers -> RunType], since' \in [Briefs -> 0..Cooldown],
             slipped' \subseteq Refreshers \X Briefs,
             unlimited' \subseteq Briefs, rolledBack' \subseteq Briefs
      PROVE  RefreshTypeOK'
  BY <1>b DEF RefreshTypeOK
<1>c. /\ 0 \in 0..Cooldown /\ Cooldown \in 0..Cooldown
      /\ 0 \in 0..StaleAfter /\ 0 \in 0..MaxPasses
  BY RefreshAssumption
<1>d. ASSUME NEW r \in Refreshers, NEW x \in RunType, run' = [run EXCEPT ![r] = x]
      PROVE  run' \in [Refreshers -> RunType]
  BY <1>a, <1>d
<1>e. ASSUME NEW r \in Refreshers, Skip(r) PROVE run' \in [Refreshers -> RunType]
  <2>1. [run[r] EXCEPT !.step = "checking", !.current = {}] \in RunType
    BY <1>a DEF RunType
  <2> QED
    BY <1>a, <1>e, <2>1 DEF Skip
<1>f. \A r \in Refreshers : run[r].flushed \subseteq Briefs /\ run[r].current \subseteq Briefs
                            /\ run[r].left \subseteq Briefs
  BY <1>a DEF RunType
<1>1. CASE UNCHANGED refreshVars
  BY <1>a, <1>b, <1>1 DEF refreshVars
<1>2. ASSUME NEW r \in Refreshers, NEW briefs \in SUBSET Briefs, BeginRun(r, briefs)
      PROVE  RefreshTypeOK'
  <2>1. [NoRun EXCEPT !.step = "checking", !.left = briefs] \in RunType
    BY NoRunTyped DEF RunType
  <2>2. run' \in [Refreshers -> RunType]
    BY <1>a, <1>2, <2>1 DEF BeginRun
  <2> QED
    BY <1>a, <1>b, <1>2, <2>2 DEF BeginRun
<1>3. ASSUME NEW r \in Refreshers, NEW b \in Briefs, CheckLimit(r, b) PROVE RefreshTypeOK'
  <2>1. [run[r] EXCEPT !.left = @ \ {b}] \in RunType
    BY <1>a DEF RunType
  <2>2. [run[r] EXCEPT !.left = @ \ {b}, !.current = {b}, !.step = "regenerating"] \in RunType
    BY <1>a DEF RunType
  <2>3. run' \in [Refreshers -> RunType]
    BY <1>a, <1>3, <2>1, <2>2 DEF CheckLimit
  <2>4. slipped' \subseteq Refreshers \X Briefs
    BY <1>a, <1>3 DEF CheckLimit
  <2> QED
    BY <1>a, <1>b, <1>3, <2>3, <2>4 DEF CheckLimit
<1>4. ASSUME NEW r \in Refreshers, RegenerateFails(r) PROVE RefreshTypeOK'
  BY <1>a, <1>b, <1>e, <1>4 DEF RegenerateFails
<1>5. ASSUME NEW r \in Refreshers, NEW b \in Briefs, Regenerate(r, b) PROVE RefreshTypeOK'
  <2>1. run[r] \in RunType /\ [run[r].age EXCEPT ![b] = 0] \in [Briefs -> 0..MaxPasses]
    BY <1>a, <1>c DEF RunType
  <2>2. [run[r] EXCEPT !.step = "flushing", !.age[b] = 0] \in RunType
    BY <2>1 DEF RunType
  <2>3. run' \in [Refreshers -> RunType]
    BY <1>a, <1>5, <2>2 DEF Regenerate
  <2> QED
    BY <1>a, <1>b, <1>5, <2>3 DEF Regenerate
<1>11. ASSUME NEW r \in Refreshers, NEW b \in Briefs, Flush(r, b) PROVE RefreshTypeOK'
  <2>1. [run[r] EXCEPT !.flushed = @ \cup {b}, !.step = "limiting"] \in RunType
    BY <1>a DEF RunType
  <2>2. [run[r] EXCEPT !.flushed = @ \cup {b}, !.step = "checking", !.current = {}] \in RunType
    BY <1>a DEF RunType
  <2>3. run' \in [Refreshers -> RunType]
    BY <1>a, <1>11, <2>1, <2>2 DEF Flush
  <2>4. since' \in [Briefs -> 0..Cooldown]
    BY <1>a, <1>c, <1>11 DEF Flush
  <2> QED
    BY <1>a, <1>b, <1>11, <2>3, <2>4 DEF Flush
<1>6. ASSUME NEW r \in Refreshers, BreakSession(r) PROVE RefreshTypeOK'
  <2>1. [run[r] EXCEPT !.step = "broken", !.current = {}, !.flushed = {}] \in RunType
    BY <1>a DEF RunType
  <2>2. run' \in [Refreshers -> RunType]
    BY <1>a, <1>6, <2>1 DEF BreakSession
  <2> QED
    BY <1>a, <1>b, <1>f, <1>6, <2>2 DEF BreakSession
<1>7. ASSUME NEW r \in Refreshers, NEW b \in Briefs, SetLimit(r, b) PROVE RefreshTypeOK'
  <2>1. limit' \in [Briefs -> 0..Cooldown]
    BY <1>a, <1>c, <1>7 DEF SetLimit
  <2>2. run' \in [Refreshers -> RunType]
    BY <1>e, <1>7 DEF SetLimit
  <2>3. unlimited' \subseteq Briefs /\ rolledBack' \subseteq Briefs
    BY <1>a, <1>7 DEF SetLimit
  <2> QED
    BY <1>a, <1>b, <1>7, <2>1, <2>2, <2>3 DEF SetLimit
<1>8. ASSUME NEW r \in Refreshers, CommitRun(r) PROVE RefreshTypeOK'
  <2>1. ASSUME NEW b \in Briefs
        PROVE  (IF run[r].age[b] < StaleAfter THEN run[r].age[b] ELSE StaleAfter)
                  \in 0..StaleAfter
    <3>1. run[r].age[b] \in 0..MaxPasses
      BY <1>a DEF RunType
    <3> QED
      BY <3>1, RefreshAssumption
  <2>2. refreshed' \in [Briefs -> 0..StaleAfter]
    BY <1>a, <1>8, <2>1 DEF CommitRun
  <2> QED
    BY <1>a, <1>b, <1>d, <1>8, <2>2, NoRunTyped DEF CommitRun
<1>9. ASSUME NEW r \in Refreshers, FailRun(r) PROVE RefreshTypeOK'
  BY <1>a, <1>b, <1>d, <1>f, <1>9, NoRunTyped DEF FailRun
<1>10. CASE Pass
  <2>1. ASSUME NEW n \in Nat, NEW m \in 0..n PROVE Up(m, n) \in 0..n
    BY DEF Up
  <2>2. refreshed' \in [Briefs -> 0..StaleAfter] /\ since' \in [Briefs -> 0..Cooldown]
    BY <1>a, <1>10, <2>1, RefreshAssumption DEF Pass
  <2>3. limit' \in [Briefs -> 0..Cooldown]
    <3>1. \A m \in 0..Cooldown : (IF m > 0 THEN m - 1 ELSE 0) \in 0..Cooldown
      BY RefreshAssumption
    <3> QED
      BY <1>a, <1>10, <3>1 DEF Pass
  <2>4. run' \in [Refreshers -> RunType]
    <3>1. ASSUME NEW r \in Refreshers, Running(r)
          PROVE  [run[r] EXCEPT !.passes = @ + 1,
                     !.age = [b \in Briefs |-> Up(@[b], MaxPasses)]] \in RunType
      <4>1. /\ run[r] \in RunType /\ run[r].passes \in 0..MaxPasses
            /\ run[r].age \in [Briefs -> 0..MaxPasses]
        BY <1>a DEF RunType
      <4>2. run[r].passes < MaxPasses
        BY <1>10, <3>1 DEF Pass
      <4>3. run[r].passes + 1 \in 0..MaxPasses
        BY <4>1, <4>2, RefreshAssumption
      <4>4. [b \in Briefs |-> Up(run[r].age[b], MaxPasses)] \in [Briefs -> 0..MaxPasses]
        BY <2>1, <4>1, RefreshAssumption
      <4> QED
        BY <4>1, <4>3, <4>4 DEF RunType
    <3> QED
      BY <1>a, <1>10, <3>1 DEF Pass
  <2> QED
    BY <1>a, <1>b, <1>10, <2>2, <2>3, <2>4 DEF Pass
<1> QED
  <2>1. ASSUME NEW r \in Refreshers, CheckAll(r) \/ RefreshSingle(r) PROVE RefreshTypeOK'
    BY <1>2, <2>1 DEF CheckAll, RefreshSingle
  <2> QED
    BY <1>1, <1>3, <1>4, <1>5, <1>6, <1>7, <1>8, <1>9, <1>10,
       <1>11, <2>1 DEF RefreshNext

\* The refresh's state has its types in every behaviour.
THEOREM RefreshTypeCorrect == RefreshSpec => []RefreshTypeOK
<1>1. RefreshInit => RefreshTypeOK
  <2> SUFFICES ASSUME RefreshInit PROVE RefreshTypeOK
    OBVIOUS
  <2>1. 0 \in 0..StaleAfter /\ StaleAfter \in 0..StaleAfter
        /\ 0 \in 0..Cooldown /\ Cooldown \in 0..Cooldown
    BY RefreshAssumption
  <2>2. refreshed \in [Briefs -> 0..StaleAfter]
    BY <2>1 DEF RefreshInit
  <2>3. limit \in [Briefs -> 0..Cooldown] /\ since \in [Briefs -> 0..Cooldown]
    BY <2>1 DEF RefreshInit
  <2>4. run \in [Refreshers -> RunType]
    BY NoRunTyped DEF RefreshInit
  <2> QED
    BY <2>2, <2>3, <2>4 DEF RefreshInit, RefreshTypeOK
<1> QED
  BY <1>1, RefreshTypeNext, PTL DEF RefreshSpec

-----------------------------------------------------------------------------

\* A run is at one brief at a time, and has flushed the one whose key it is to set.
OneBrief ==
    \A r \in Refreshers :
       /\ \A b, d \in run[r].current : b = d
       /\ InStep(r, "limiting") => run[r].current \subseteq run[r].flushed

\* A set key is as near its end as the brief's refreshed_at is past, but for the time a
\* run may take from its stamp to its commit, unless that refresh is yet to be committed
\* or was rolled back.
KeyKeepsTime ==
    \A b \in Briefs : limit[b] > 0 =>
       \/ limit[b] + refreshed[b] <= Cooldown + MaxPasses
       \/ b \in rolledBack
       \/ \E r \in Refreshers : Running(r) /\ b \in run[r].flushed

\* A brief that set its key is held off as long as its regeneration is recent.
KeyHoldsOff == \A b \in Briefs \ unlimited : limit[b] + since[b] >= Cooldown

\* Of two runs between check and key of a brief, and of one that is there although the
\* brief was regenerated within the hour and set its key, it is known that they slipped.
SlipsKnown ==
    \A b \in Briefs, r \in Refreshers : Between(r, b) =>
       /\ \A q \in Refreshers \ {r} : Between(q, b) => <<r, b>> \in slipped
       /\ since[b] < Cooldown => b \in unlimited \/ <<r, b>> \in slipped

RefreshInv == RefreshTypeOK /\ OneBrief /\ KeyKeepsTime /\ KeyHoldsOff /\ SlipsKnown

\* Numbers and runs as the proofs below use them.
LEMMA RefreshFields ==
  ASSUME RefreshTypeOK
  PROVE  /\ run = [r \in Refreshers |-> run[r]]
         /\ \A b \in Briefs : limit[b] \in 0..Cooldown /\ since[b] \in 0..Cooldown
                              /\ refreshed[b] \in 0..StaleAfter
         /\ \A r \in Refreshers : run[r] \in RunType /\ run[r].current \subseteq Briefs
                              /\ run[r].flushed \subseteq Briefs
  BY DEF RefreshTypeOK, RunType

\* What a step makes of its run, and that it leaves the others alone.
Others(r) == \A q \in Refreshers \ {r} : run'[q] = run[q]

LEMMA BeginStep ==
  ASSUME RefreshTypeOK, NEW r \in Refreshers, CheckAll(r) \/ RefreshSingle(r)
  PROVE  /\ ~ Running(r) /\ Others(r)
         /\ run'[r].step = "checking" /\ run'[r].current = {} /\ run'[r].flushed = {}
<1>1. PICK briefs \in SUBSET Briefs : BeginRun(r, briefs)
  BY DEF CheckAll, RefreshSingle
<1> QED
  BY <1>1, RefreshFields DEF BeginRun, NoRun, Others

LEMMA SkipStep ==
  ASSUME RefreshTypeOK, NEW r \in Refreshers, Skip(r)
  PROVE  /\ Others(r) /\ run'[r].flushed = run[r].flushed
         /\ run'[r].step = "checking" /\ run'[r].current = {}
<1>1. run[r] \in RunType
  BY RefreshFields
<1> QED
  BY <1>1, RefreshFields DEF Skip, RunType, Others

LEMMA EndStep ==
  ASSUME RefreshTypeOK, NEW r \in Refreshers, run' = [run EXCEPT ![r] = NoRun]
  PROVE  Others(r) /\ run'[r] = NoRun
  BY RefreshFields DEF Others

LEMMA BreakStep ==
  ASSUME RefreshTypeOK, NEW r \in Refreshers, BreakSession(r)
  PROVE  /\ Others(r)
         /\ run'[r].step = "broken" /\ run'[r].current = {} /\ run'[r].flushed = {}
<1>1. run[r] \in RunType
  BY RefreshFields
<1> QED
  BY <1>1, RefreshFields DEF BreakSession, RunType, Others

LEMMA CheckStep ==
  ASSUME RefreshTypeOK, NEW r \in Refreshers, NEW b \in Briefs, CheckLimit(r, b)
  PROVE  /\ Others(r) /\ Running(r) /\ run'[r].flushed = run[r].flushed
         /\ \/ /\ run'[r].step = "checking" /\ run'[r].current = run[r].current
               /\ slipped' = slipped
            \/ LET others == {q \in Refreshers : Between(q, b)} IN
               /\ run'[r].step = "regenerating" /\ run'[r].current = {b}
               /\ slipped' = (slipped \ {<<r, b>>}) \cup
                    (IF others # {} \/ limit[b] > 0 THEN (others \cup {r}) \X {b} ELSE {})
<1>1. run[r] \in RunType /\ run[r].step = "checking"
  BY RefreshFields DEF CheckLimit, InStep
<1>2. Running(r)
  BY <1>1 DEF Running, InStep
<1>3. \/ /\ run' = [run EXCEPT ![r].left = @ \ {b}]
         /\ slipped' = slipped
      \/ LET others == {q \in Refreshers : Between(q, b)} IN
         /\ run' = [run EXCEPT ![r].left = @ \ {b}, ![r].current = {b}, ![r].step = "regenerating"]
         /\ slipped' = (slipped \ {<<r, b>>}) \cup
              (IF others # {} \/ limit[b] > 0 THEN (others \cup {r}) \X {b} ELSE {})
  BY DEF CheckLimit
<1> QED
  BY <1>1, <1>2, <1>3, RefreshFields DEF RunType, Others

LEMMA RegenerateStep ==
  ASSUME RefreshTypeOK, NEW r \in Refreshers, NEW b \in Briefs, Regenerate(r, b)
  PROVE  /\ Others(r) /\ Running(r) /\ run'[r].step = "flushing"
         /\ run'[r].current = run[r].current /\ run'[r].flushed = run[r].flushed
<1>1. run[r] \in RunType /\ run[r].step = "regenerating"
  BY RefreshFields DEF Regenerate, InStep
<1>2. Running(r)
  BY <1>1 DEF Running, InStep
<1> QED
  BY <1>1, <1>2, RefreshFields DEF Regenerate, RunType, Others

LEMMA FlushStep ==
  ASSUME RefreshTypeOK, NEW r \in Refreshers, NEW b \in Briefs, Flush(r, b)
  PROVE  /\ Others(r) /\ Running(r) /\ b \in run[r].current
         /\ run'[r].flushed = run[r].flushed \cup {b}
         /\ \/ run'[r].step = "limiting" /\ run'[r].current = run[r].current
            \/ run'[r].step = "checking" /\ run'[r].current = {}
<1>1. run[r] \in RunType /\ run[r].step = "flushing"
  BY RefreshFields DEF Flush, InStep
<1>2. Running(r)
  BY <1>1 DEF Running, InStep
<1> QED
  BY <1>1, <1>2, RefreshFields DEF Flush, RunType, Others

-----------------------------------------------------------------------------

LEMMA OneBriefNext ==
  RefreshTypeOK /\ OneBrief /\ [RefreshNext]_refreshVars => OneBrief'
<1> SUFFICES ASSUME RefreshTypeOK, OneBrief, [RefreshNext]_refreshVars PROVE OneBrief'
  OBVIOUS
\* One run moves, and what it moves to is in order.
<1>a. ASSUME NEW r \in Refreshers, Others(r), \A b, d \in run'[r].current : b = d,
             run'[r].step = "limiting" => run'[r].current \subseteq run'[r].flushed
      PROVE  OneBrief'
  BY <1>a DEF OneBrief, InStep, Others
<1>1. CASE UNCHANGED refreshVars
  BY <1>1 DEF refreshVars, OneBrief, InStep
<1>2. ASSUME NEW r \in Refreshers, CheckAll(r) \/ RefreshSingle(r) PROVE OneBrief'
  BY <1>2, <1>a, BeginStep
<1>3. ASSUME NEW r \in Refreshers, NEW b \in Briefs, CheckLimit(r, b) PROVE OneBrief'
  <2>1. \A d, e \in run'[r].current : d = e
    BY <1>3, CheckStep DEF OneBrief
  <2>2. run'[r].step # "limiting"
    BY <1>3, CheckStep
  <2> QED
    BY <1>3, <1>a, <2>1, <2>2, CheckStep
<1>4. ASSUME NEW r \in Refreshers, NEW b \in Briefs, Flush(r, b) PROVE OneBrief'
  <2>1. /\ \A d, e \in run'[r].current : d = e
        /\ run'[r].current \subseteq run'[r].flushed
    BY <1>4, FlushStep DEF OneBrief
  <2> QED
    BY <1>4, <1>a, <2>1, FlushStep
<1>10. ASSUME NEW r \in Refreshers, NEW b \in Briefs, Regenerate(r, b) PROVE OneBrief'
  <2>1. /\ Others(r) /\ run'[r].step # "limiting"
        /\ \A d, e \in run'[r].current : d = e
    BY <1>10, RegenerateStep DEF OneBrief
  <2> QED
    BY <1>a, <2>1
<1>5. ASSUME NEW r \in Refreshers, NEW b \in Briefs, SetLimit(r, b) PROVE OneBrief'
  BY <1>5, <1>a, SkipStep DEF SetLimit
<1>6. ASSUME NEW r \in Refreshers, RegenerateFails(r) PROVE OneBrief'
  BY <1>6, <1>a, SkipStep DEF RegenerateFails
<1>7. ASSUME NEW r \in Refreshers, BreakSession(r) PROVE OneBrief'
  BY <1>7, <1>a, BreakStep
<1>8. ASSUME NEW r \in Refreshers, CommitRun(r) \/ FailRun(r) PROVE OneBrief'
  BY <1>8, <1>a, EndStep DEF CommitRun, FailRun, NoRun
<1>9. CASE Pass
  <2>1. \A r \in Refreshers : /\ run'[r].current = run[r].current /\ run'[r].step = run[r].step
                              /\ run'[r].flushed = run[r].flushed
    BY <1>9, RefreshFields DEF Pass, RunType
  <2> QED
    BY <2>1 DEF OneBrief, InStep
<1> QED
  BY <1>1, <1>2, <1>3, <1>4, <1>5, <1>6, <1>7, <1>8, <1>9, <1>10 DEF RefreshNext

LEMMA KeyKeepsTimeNext ==
  RefreshTypeOK /\ OneBrief /\ KeyKeepsTime /\ [RefreshNext]_refreshVars => KeyKeepsTime'
<1> SUFFICES ASSUME RefreshTypeOK, OneBrief, KeyKeepsTime, [RefreshNext]_refreshVars,
                    NEW b \in Briefs, limit'[b] > 0
             PROVE  \/ limit'[b] + refreshed'[b] <= Cooldown + MaxPasses
                    \/ b \in rolledBack'
                    \/ \E r \in Refreshers : Running(r)' /\ b \in run'[r].flushed
  BY DEF KeyKeepsTime
<1> DEFINE Goal == \/ limit'[b] + refreshed'[b] <= Cooldown + MaxPasses
                   \/ b \in rolledBack'
                   \/ \E r \in Refreshers : Running(r)' /\ b \in run'[r].flushed
<1>a. limit[b] \in 0..Cooldown /\ refreshed[b] \in 0..StaleAfter
  BY RefreshFields
\* One run moves, keys and rows stay, and what the run had flushed is flushed or lost.
<1>b. ASSUME NEW r \in Refreshers, Others(r), limit' = limit, refreshed' = refreshed,
             rolledBack \subseteq rolledBack',
             (Running(r) /\ b \in run[r].flushed)
                => b \in rolledBack' \/ (Running(r)' /\ b \in run'[r].flushed)
      PROVE  Goal
  BY <1>b DEF KeyKeepsTime, Running, InStep, Others
<1>1. CASE UNCHANGED refreshVars
  BY <1>1 DEF refreshVars, KeyKeepsTime, Running, InStep
<1>2. ASSUME NEW r \in Refreshers, CheckAll(r) \/ RefreshSingle(r) PROVE Goal
  <2>1. limit' = limit /\ refreshed' = refreshed /\ rolledBack' = rolledBack
    BY <1>2 DEF CheckAll, RefreshSingle, BeginRun
  <2> QED
    BY <1>2, <1>b, <2>1, BeginStep
<1>3. ASSUME NEW r \in Refreshers, NEW d \in Briefs, CheckLimit(r, d) PROVE Goal
  <2>1. limit' = limit /\ refreshed' = refreshed /\ rolledBack' = rolledBack
    BY <1>3 DEF CheckLimit
  <2>2. Running(r)'
    BY <1>3, CheckStep DEF Running, InStep
  <2> QED
    BY <1>3, <1>b, <2>1, <2>2, CheckStep
<1>4. ASSUME NEW r \in Refreshers, NEW d \in Briefs, Regenerate(r, d) PROVE Goal
  <2>1. limit' = limit /\ refreshed' = refreshed /\ rolledBack' = rolledBack
    BY <1>4 DEF Regenerate
  <2>2. Running(r)'
    BY <1>4, RegenerateStep DEF Running, InStep
  <2> QED
    BY <1>4, <1>b, <2>1, <2>2, RegenerateStep
<1>11. ASSUME NEW r \in Refreshers, NEW d \in Briefs, Flush(r, d) PROVE Goal
  <2>1. limit' = limit /\ refreshed' = refreshed /\ rolledBack' = rolledBack
    BY <1>11 DEF Flush
  <2>2. Running(r)'
    BY <1>11, FlushStep DEF Running, InStep
  <2> QED
    BY <1>11, <1>b, <2>1, <2>2, FlushStep
<1>5. ASSUME NEW r \in Refreshers, RegenerateFails(r) PROVE Goal
  <2>1. limit' = limit /\ refreshed' = refreshed /\ rolledBack' = rolledBack /\ Skip(r)
    BY <1>5 DEF RegenerateFails
  <2>2. Running(r)'
    BY <2>1, SkipStep DEF Running, InStep
  <2> QED
    BY <1>b, <2>1, <2>2, SkipStep
<1>6. ASSUME NEW r \in Refreshers, NEW d \in Briefs, SetLimit(r, d) PROVE Goal
  <2>1. refreshed' = refreshed /\ Skip(r) /\ d \in run[r].flushed
    BY <1>6 DEF SetLimit, OneBrief
  <2>2. Running(r)' /\ run'[r].flushed = run[r].flushed
    BY <2>1, SkipStep DEF Running, InStep
  <2>3. CASE b = d
    BY <2>1, <2>2, <2>3
  <2>4. CASE b # d
    <3>1. limit'[b] = limit[b] /\ (b \in rolledBack => b \in rolledBack')
      BY <1>6, <2>4, RefreshFields DEF SetLimit, RefreshTypeOK
    <3> QED
      BY <2>1, <2>2, <3>1, SkipStep DEF KeyKeepsTime, Running, InStep, Others
  <2> QED
    BY <2>3, <2>4
<1>7. ASSUME NEW r \in Refreshers, BreakSession(r) PROVE Goal
  <2>1. limit' = limit /\ refreshed' = refreshed /\ rolledBack' = rolledBack \cup run[r].flushed
    BY <1>7 DEF BreakSession
  <2> QED
    BY <1>7, <1>b, <2>1, BreakStep
<1>8. ASSUME NEW r \in Refreshers, FailRun(r) PROVE Goal
  <2>1. limit' = limit /\ refreshed' = refreshed /\ rolledBack' = rolledBack \cup run[r].flushed
    BY <1>8 DEF FailRun
  <2> QED
    BY <1>8, <1>b, <2>1, EndStep DEF FailRun
<1>9. ASSUME NEW r \in Refreshers, CommitRun(r) PROVE Goal
  <2>1. limit' = limit /\ rolledBack' = rolledBack /\ Others(r)
    BY <1>9, EndStep DEF CommitRun
  <2>2. CASE b \in run[r].flushed
    <3>1. run[r].age[b] \in 0..MaxPasses
      BY RefreshFields DEF RunType
    <3>2. refreshed'[b] <= run[r].age[b] /\ refreshed'[b] \in Nat
      <4>1. refreshed'[b] = IF run[r].age[b] < StaleAfter THEN run[r].age[b] ELSE StaleAfter
        BY <1>9, <2>2 DEF CommitRun
      <4> QED
        BY <3>1, <4>1, RefreshAssumption
    <3> QED
      BY <1>a, <2>1, <3>1, <3>2, RefreshAssumption
  <2>3. CASE b \notin run[r].flushed
    <3>1. refreshed'[b] = refreshed[b]
      BY <1>9, <2>3 DEF CommitRun
    <3> QED
      BY <2>1, <2>3, <3>1 DEF KeyKeepsTime, Running, InStep, Others
  <2> QED
    BY <2>2, <2>3
<1>10. CASE Pass
  <2>1. \A r \in Refreshers : run'[r].step = run[r].step /\ run'[r].flushed = run[r].flushed
    BY <1>10, RefreshFields DEF Pass, RunType
  <2>2. /\ limit'[b] = (IF limit[b] > 0 THEN limit[b] - 1 ELSE 0)
        /\ refreshed'[b] = (IF refreshed[b] < StaleAfter THEN refreshed[b] + 1 ELSE StaleAfter)
        /\ rolledBack' = rolledBack
    BY <1>10 DEF Pass, Up
  <2>3. limit[b] > 0 /\ (limit[b] + refreshed[b] <= Cooldown + MaxPasses
                            => limit'[b] + refreshed'[b] <= Cooldown + MaxPasses)
    BY <1>a, <2>2, RefreshAssumption
  <2> QED
    BY <2>1, <2>2, <2>3 DEF KeyKeepsTime, Running, InStep
<1> QED
  BY <1>1, <1>2, <1>3, <1>4, <1>5, <1>6, <1>7, <1>8, <1>9, <1>10, <1>11
     DEF RefreshNext

LEMMA KeyHoldsOffNext ==
  RefreshTypeOK /\ KeyHoldsOff /\ [RefreshNext]_refreshVars => KeyHoldsOff'
<1> SUFFICES ASSUME RefreshTypeOK, KeyHoldsOff, [RefreshNext]_refreshVars,
                    NEW b \in Briefs, b \notin unlimited'
             PROVE  limit'[b] + since'[b] >= Cooldown
  BY DEF KeyHoldsOff
<1> DEFINE Goal == limit'[b] + since'[b] >= Cooldown
<1>a. limit[b] \in 0..Cooldown /\ since[b] \in 0..Cooldown
  BY RefreshFields
<1>1. CASE UNCHANGED <<limit, since, unlimited>>
  BY <1>1 DEF KeyHoldsOff
<1>2. ASSUME NEW r \in Refreshers, NEW d \in Briefs, Flush(r, d) PROVE Goal
  <2>1. b # d /\ b \notin unlimited /\ limit' = limit
    BY <1>2 DEF Flush
  <2>2. since'[b] = since[b]
    BY <1>2, <2>1 DEF Flush, RefreshTypeOK
  <2> QED
    BY <2>1, <2>2 DEF KeyHoldsOff
<1>3. ASSUME NEW r \in Refreshers, NEW d \in Briefs, SetLimit(r, d) PROVE Goal
  <2>1. since' = since
    BY <1>3 DEF SetLimit
  <2>2. \/ b = d /\ limit'[b] = Cooldown
        \/ b \notin unlimited /\ limit'[b] = limit[b]
    BY <1>3 DEF SetLimit, RefreshTypeOK
  <2>3. CASE b = d /\ limit'[b] = Cooldown
    BY <1>a, <2>1, <2>3, RefreshAssumption
  <2>4. CASE b \notin unlimited /\ limit'[b] = limit[b]
    BY <2>1, <2>4 DEF KeyHoldsOff
  <2> QED
    BY <2>2, <2>3, <2>4
<1>4. CASE Pass
  <2>1. /\ limit'[b] = (IF limit[b] > 0 THEN limit[b] - 1 ELSE 0)
        /\ since'[b] = (IF since[b] < Cooldown THEN since[b] + 1 ELSE Cooldown)
        /\ limit[b] + since[b] >= Cooldown
    BY <1>4 DEF Pass, Up, KeyHoldsOff
  <2> QED
    BY <1>a, <2>1, RefreshAssumption
<1> QED
  BY <1>1, <1>2, <1>3, <1>4
     DEF RefreshNext, refreshVars, CheckAll, RefreshSingle, BeginRun, CheckLimit,
         Regenerate, RegenerateFails, BreakSession, CommitRun, FailRun

LEMMA SlipsKnownNext ==
  RefreshTypeOK /\ OneBrief /\ KeyHoldsOff /\ SlipsKnown /\ [RefreshNext]_refreshVars
    => SlipsKnown'
<1> SUFFICES ASSUME RefreshTypeOK, OneBrief, KeyHoldsOff, SlipsKnown, [RefreshNext]_refreshVars
             PROVE  SlipsKnown'
  OBVIOUS
\* Nobody comes between check and key, and what was known stays known.
<1>a. ASSUME \A b \in Briefs, r \in Refreshers : Between(r, b)' => Between(r, b),
             slipped' = slipped,
             \A b \in Briefs, r \in Refreshers :
                Between(r, b)' /\ since'[b] < Cooldown /\ b \notin unlimited'
                  => (since[b] < Cooldown /\ b \notin unlimited) \/ <<r, b>> \in slipped
      PROVE  SlipsKnown'
  BY <1>a DEF SlipsKnown
<1>b. \A b \in Briefs : limit[b] \in 0..Cooldown /\ since[b] \in 0..Cooldown
  BY RefreshFields
<1>1. CASE UNCHANGED refreshVars
  BY <1>1 DEF refreshVars, SlipsKnown, Between
<1>2. ASSUME NEW r \in Refreshers, CheckAll(r) \/ RefreshSingle(r) PROVE SlipsKnown'
  <2>1. since' = since /\ slipped' = slipped /\ unlimited' = unlimited
    BY <1>2 DEF CheckAll, RefreshSingle, BeginRun
  <2>2. \A b \in Briefs, q \in Refreshers : Between(q, b)' => Between(q, b)
    BY <1>2, BeginStep DEF Between, Others
  <2> QED
    BY <1>a, <2>1, <2>2
<1>3. ASSUME NEW r \in Refreshers, NEW d \in Briefs, CheckLimit(r, d) PROVE SlipsKnown'
  <2> DEFINE others == {q \in Refreshers : Between(q, d)}
  <2>1. since' = since /\ unlimited' = unlimited
    BY <1>3 DEF CheckLimit
  <2>2. CASE run'[r].current = run[r].current /\ slipped' = slipped
    <3>1. \A b \in Briefs, q \in Refreshers : Between(q, b)' => Between(q, b)
      BY <1>3, <2>2, CheckStep DEF Between, Others
    <3> QED
      BY <1>a, <2>1, <2>2, <3>1
  <2>3. CASE /\ run'[r].current = {d}
             /\ slipped' = (slipped \ {<<r, d>>}) \cup
                  (IF others # {} \/ limit[d] > 0 THEN (others \cup {r}) \X {d} ELSE {})
    <3>1. \A b \in Briefs, q \in Refreshers :
             Between(q, b)' => Between(q, b) \/ (q = r /\ b = d)
      BY <1>3, <2>3, CheckStep DEF Between, Others
    <3>2. CASE others # {} \/ limit[d] > 0
      <4>1. \A q \in Refreshers : Between(q, d)' => <<q, d>> \in slipped'
        BY <2>3, <3>1, <3>2
      <4>2. \A b \in Briefs, q \in Refreshers : b # d /\ <<q, b>> \in slipped => <<q, b>> \in slipped'
        BY <2>3
      <4> QED
        BY <2>1, <3>1, <4>1, <4>2 DEF SlipsKnown
    <3>3. CASE others = {} /\ ~ (limit[d] > 0)
      <4>1. \A q \in Refreshers : Between(q, d)' => q = r
        BY <3>1, <3>3
      <4>2. d \in unlimited \/ ~ (since[d] < Cooldown)
        BY <1>b, <3>3, RefreshAssumption DEF KeyHoldsOff
      <4>3. \A b \in Briefs, q \in Refreshers : b # d /\ <<q, b>> \in slipped => <<q, b>> \in slipped'
        BY <2>3
      <4> QED
        BY <2>1, <3>1, <4>1, <4>2, <4>3 DEF SlipsKnown
    <3> QED
      BY <3>2, <3>3
  <2> QED
    BY <1>3, <2>2, <2>3, CheckStep
<1>4. ASSUME NEW r \in Refreshers, NEW d \in Briefs, Flush(r, d) PROVE SlipsKnown'
  <2>1. slipped' = slipped /\ unlimited' = unlimited \cup {d}
    BY <1>4 DEF Flush
  <2>2. \A b \in Briefs : b # d => since'[b] = since[b]
    BY <1>4 DEF Flush, RefreshTypeOK
  <2>3. \A b \in Briefs, q \in Refreshers : Between(q, b)' => Between(q, b)
    BY <1>4, FlushStep DEF Between, Others
  <2> QED
    BY <1>a, <2>1, <2>2, <2>3
<1>10. ASSUME NEW r \in Refreshers, NEW d \in Briefs, Regenerate(r, d) PROVE SlipsKnown'
  <2>1. since' = since /\ slipped' = slipped /\ unlimited' = unlimited
    BY <1>10 DEF Regenerate
  <2>2. \A b \in Briefs, q \in Refreshers : Between(q, b)' => Between(q, b)
    BY <1>10, RegenerateStep DEF Between, Others
  <2> QED
    BY <1>a, <2>1, <2>2
<1>5. ASSUME NEW r \in Refreshers, RegenerateFails(r) PROVE SlipsKnown'
  <2>1. since' = since /\ slipped' = slipped /\ unlimited' = unlimited /\ Skip(r)
    BY <1>5 DEF RegenerateFails
  <2>2. \A b \in Briefs, q \in Refreshers : Between(q, b)' => Between(q, b)
    BY <2>1, SkipStep DEF Between, Others
  <2> QED
    BY <1>a, <2>1, <2>2
<1>6. ASSUME NEW r \in Refreshers, NEW d \in Briefs, SetLimit(r, d) PROVE SlipsKnown'
  <2>1. since' = since /\ slipped' = slipped /\ Skip(r) /\ Between(r, d)
        /\ \A b \in Briefs : b # d /\ b \notin unlimited' => b \notin unlimited
    BY <1>6 DEF SetLimit, Between
  <2>2. \A b \in Briefs, q \in Refreshers : Between(q, b)' => q # r /\ Between(q, b)
    BY <2>1, SkipStep DEF Between, Others
  <2>3. \A q \in Refreshers : Between(q, d)' => <<q, d>> \in slipped
    BY <2>1, <2>2 DEF SlipsKnown
  <2> QED
    BY <1>a, <2>1, <2>2, <2>3
<1>7. ASSUME NEW r \in Refreshers, BreakSession(r) PROVE SlipsKnown'
  <2>1. since' = since /\ slipped' = slipped /\ unlimited' = unlimited
    BY <1>7 DEF BreakSession
  <2>2. \A b \in Briefs, q \in Refreshers : Between(q, b)' => Between(q, b)
    BY <1>7, BreakStep DEF Between, Others
  <2> QED
    BY <1>a, <2>1, <2>2
<1>8. ASSUME NEW r \in Refreshers, CommitRun(r) \/ FailRun(r) PROVE SlipsKnown'
  <2>1. since' = since /\ slipped' = slipped /\ unlimited' = unlimited
    BY <1>8 DEF CommitRun, FailRun
  <2>2. run' = [run EXCEPT ![r] = NoRun]
    BY <1>8 DEF CommitRun, FailRun
  <2>3. \A b \in Briefs, q \in Refreshers : Between(q, b)' => Between(q, b)
    BY <2>2, EndStep DEF Between, Others, NoRun
  <2> QED
    BY <1>a, <2>1, <2>3
<1>9. CASE Pass
  <2>1. slipped' = slipped /\ unlimited' = unlimited
    BY <1>9 DEF Pass
  <2>2. \A b \in Briefs, q \in Refreshers : Between(q, b)' => Between(q, b)
    <3>1. \A q \in Refreshers : run'[q].current = run[q].current
      BY <1>9, RefreshFields DEF Pass, RunType
    <3> QED
      BY <3>1 DEF Between
  <2>3. \A b \in Briefs : since'[b] < Cooldown => since[b] < Cooldown
    <3>1. \A b \in Briefs : since'[b] = IF since[b] < Cooldown THEN since[b] + 1 ELSE Cooldown
      BY <1>9 DEF Pass, Up
    <3> QED
      BY <1>b, <3>1, RefreshAssumption
  <2> QED
    BY <1>a, <2>1, <2>2, <2>3
<1> QED
  BY <1>1, <1>2, <1>3, <1>4, <1>5, <1>6, <1>7, <1>8, <1>9, <1>10 DEF RefreshNext

\* The inductive invariant of the refresh, in every behaviour.
THEOREM RefreshInvCorrect == RefreshSpec => []RefreshInv
<1>1. RefreshInit => OneBrief /\ KeyKeepsTime /\ KeyHoldsOff /\ SlipsKnown
  <2> SUFFICES ASSUME RefreshInit PROVE OneBrief /\ KeyKeepsTime /\ KeyHoldsOff /\ SlipsKnown
    OBVIOUS
  <2>1. \A r \in Refreshers : run[r].current = {} /\ run[r].step = "idle"
    BY DEF RefreshInit, NoRun
  <2>2. \A b \in Briefs : limit[b] = 0 /\ since[b] = Cooldown
    BY DEF RefreshInit
  <2>3. OneBrief /\ SlipsKnown
    BY <2>1 DEF OneBrief, SlipsKnown, Between, InStep
  <2>4. KeyKeepsTime /\ KeyHoldsOff
    BY <2>2, RefreshAssumption DEF KeyKeepsTime, KeyHoldsOff
  <2> QED
    BY <2>3, <2>4
<1>2. RefreshInv /\ [RefreshNext]_refreshVars => RefreshInv'
  BY RefreshTypeNext, OneBriefNext, KeyKeepsTimeNext, KeyHoldsOffNext, SlipsKnownNext
     DEF RefreshInv
<1>3. RefreshSpec => []RefreshTypeOK
  BY RefreshTypeCorrect
<1>4. RefreshInit /\ RefreshTypeOK => RefreshInv
  BY <1>1 DEF RefreshInv
<1> QED
  BY <1>2, <1>3, <1>4, PTL DEF RefreshSpec

\* A brief whose key is set was refreshed within the hour and a run's time, for every
\* number of briefs and runs, every cooldown and every limit of the runs' time, unless
\* the refresh is yet to be committed or was rolled back.
THEOREM LimitedIsRefreshedCorrect == RefreshSpec => []LimitedIsRefreshed
<1>1. RefreshInv => LimitedIsRefreshed
  <2> SUFFICES ASSUME RefreshInv, NEW b \in Briefs, limit[b] > 0
               PROVE  \/ refreshed[b] < Cooldown + MaxPasses
                      \/ b \in rolledBack
                      \/ \E r \in Refreshers : Running(r) /\ b \in run[r].flushed
    BY DEF LimitedIsRefreshed
  <2>1. limit[b] \in 0..Cooldown /\ refreshed[b] \in 0..StaleAfter
    BY RefreshFields DEF RefreshInv
  <2>2. limit[b] + refreshed[b] <= Cooldown + MaxPasses => refreshed[b] < Cooldown + MaxPasses
    BY <2>1, RefreshAssumption
  <2> QED
    BY <2>2 DEF RefreshInv, KeyKeepsTime
<1> QED
  BY <1>1, RefreshInvCorrect, PTL

\* A brief is regenerated twice within the hour only by runs that slipped past each
\* other's check or without a key, however many runs overlap.
THEOREM RefreshesApartCorrect == RefreshSpec => RefreshesApart
<1> DEFINE Apart == \A b \in Briefs, r \in Refreshers :
               (b \in run'[r].flushed \ run[r].flushed /\ since[b] < Cooldown)
               => <<r, b>> \in slipped \/ b \in unlimited
<1>1. RefreshInv /\ [RefreshNext]_refreshVars => [Apart]_refreshVars
  <2> SUFFICES ASSUME RefreshInv, RefreshNext, NEW b \in Briefs, NEW r \in Refreshers,
                      b \in run'[r].flushed \ run[r].flushed, since[b] < Cooldown
               PROVE  <<r, b>> \in slipped \/ b \in unlimited
    OBVIOUS
  <2>a. RefreshTypeOK /\ SlipsKnown
    BY DEF RefreshInv
  <2>1. ASSUME NEW q \in Refreshers, CheckAll(q) \/ RefreshSingle(q) PROVE FALSE
    BY <2>a, <2>1, BeginStep DEF Others
  <2>2. ASSUME NEW q \in Refreshers, NEW d \in Briefs, CheckLimit(q, d) PROVE FALSE
    BY <2>a, <2>2, CheckStep DEF Others
  <2>3. ASSUME NEW q \in Refreshers, NEW d \in Briefs, Flush(q, d)
        PROVE  <<r, b>> \in slipped \/ b \in unlimited
    <3>1. q = r /\ d = b /\ Between(r, b)
      BY <2>a, <2>3, FlushStep DEF Others, Between
    <3> QED
      BY <2>a, <3>1 DEF SlipsKnown
  <2>4. ASSUME NEW q \in Refreshers, Skip(q) PROVE FALSE
    BY <2>a, <2>4, SkipStep DEF Others
  <2>5. ASSUME NEW q \in Refreshers, BreakSession(q) PROVE FALSE
    BY <2>a, <2>5, BreakStep DEF Others
  <2>6. ASSUME NEW q \in Refreshers, CommitRun(q) \/ FailRun(q) PROVE FALSE
    <3>1. run' = [run EXCEPT ![q] = NoRun]
      BY <2>6 DEF CommitRun, FailRun
    <3> QED
      BY <2>a, <3>1, EndStep DEF Others, NoRun
  <2>7. CASE Pass
    <3>1. run'[r].flushed = run[r].flushed
      BY <2>a, <2>7, RefreshFields DEF Pass, RunType
    <3> QED
      BY <3>1
  <2>8. ASSUME NEW q \in Refreshers, NEW d \in Briefs, Regenerate(q, d) PROVE FALSE
    BY <2>a, <2>8, RegenerateStep DEF Others
  <2> QED
    BY <2>1, <2>2, <2>3, <2>4, <2>5, <2>6, <2>7, <2>8
       DEF RefreshNext, RegenerateFails, SetLimit
<1> QED
  BY <1>1, RefreshInvCorrect, PTL DEF RefreshSpec, RefreshesApart

-----------------------------------------------------------------------------
(* The idempotency key                                                     *)

LEMMA IdempotencyTypeInit == IdempotencyInit => IdempotencyTypeOK
<1> SUFFICES ASSUME IdempotencyInit PROVE IdempotencyTypeOK
  OBVIOUS
<1>1. entry \in {Free, Claimed} \cup {Stored(body) : body \in Bodies}
  BY DEF IdempotencyInit
<1> QED
  BY <1>1 DEF IdempotencyInit, IdempotencyTypeOK, NoCall

LEMMA IdempotencyTypeNext ==
  IdempotencyTypeOK /\ [IdempotencyNext]_idempotencyVars => IdempotencyTypeOK'
<1> SUFFICES ASSUME IdempotencyTypeOK, [IdempotencyNext]_idempotencyVars
             PROVE  IdempotencyTypeOK'
  OBVIOUS
<1> USE IdempotencyAssumption
    DEF IdempotencyTypeOK, Owning, NoCall, Doing, Becomes, Respond, Free, Claimed, Stored
<1>1. CASE UNCHANGED idempotencyVars
  BY <1>1 DEF idempotencyVars
<1>2. ASSUME NEW c \in Callers, NEW body \in Bodies, ClaimKey(c, body)
      PROVE  IdempotencyTypeOK'
  BY <1>2 DEF ClaimKey
<1>3. ASSUME NEW c \in Callers, ReadEntry(c) PROVE IdempotencyTypeOK'
  BY <1>3 DEF ReadEntry
<1>4. ASSUME NEW c \in Callers, PollEntry(c) PROVE IdempotencyTypeOK'
  BY <1>4 DEF PollEntry
<1>5. ASSUME NEW c \in Callers, HandlerSucceeds(c) PROVE IdempotencyTypeOK'
  BY <1>5 DEF HandlerSucceeds
<1>6. ASSUME NEW c \in Callers, StoreAnswer(c) PROVE IdempotencyTypeOK'
  <2>1. caller[c].body \in Bodies
    BY <1>6 DEF StoreAnswer
  <2>2. entry' \in {Free, Claimed} \cup {Stored(body) : body \in Bodies}
    BY <1>6, <2>1, Zenon DEF StoreAnswer
  <2> QED
    BY <1>6, <2>2 DEF StoreAnswer
<1>7. ASSUME NEW c \in Callers, HandlerFails(c) PROVE IdempotencyTypeOK'
  BY <1>7 DEF HandlerFails
<1>8. ASSUME NEW c \in Callers, ReleaseKey(c) PROVE IdempotencyTypeOK'
  BY <1>8 DEF ReleaseKey
<1>9. ASSUME NEW c \in Callers, LoseCaller(c) PROVE IdempotencyTypeOK'
  BY <1>9 DEF LoseCaller
<1>10. CASE ExpireKey
  BY <1>10 DEF ExpireKey
<1> QED
  BY <1>1, <1>2, <1>3, <1>4, <1>5, <1>6, <1>7, <1>8, <1>9, <1>10 DEF IdempotencyNext

\* The key's state has its types in every behaviour.
THEOREM IdempotencyTypeCorrect == IdempotencySpec => []IdempotencyTypeOK
  BY IdempotencyTypeInit, IdempotencyTypeNext, PTL DEF IdempotencySpec

\* One request owns the claim; while its handler may yet succeed none has, and one
\* that has succeeded keeps the key taken.
ClaimHasOneOwner ==
    /\ \A c, d \in Callers :
          caller[c].step \in Owning /\ caller[d].step \in Owning => c = d
    /\ \A c \in Callers : caller[c].step \in Owning => entry = Claimed
    /\ \A c \in Callers : caller[c].step \in {"running", "releasing"} => effects = 0
    /\ entry = Free => effects = 0

IdempotencyInv == IdempotencyTypeOK /\ ClaimHasOneOwner /\ OneEffect /\ OrphanedOnlyIfCut

LEMMA IdempotencyInvNext ==
  IdempotencyInv /\ [IdempotencyNext]_idempotencyVars => IdempotencyInv'
<1> SUFFICES ASSUME IdempotencyInv, [IdempotencyNext]_idempotencyVars
             PROVE  (ClaimHasOneOwner /\ OneEffect /\ OrphanedOnlyIfCut)'
  BY IdempotencyTypeNext DEF IdempotencyInv
<1> USE DEF IdempotencyInv, IdempotencyTypeOK, ClaimHasOneOwner, OneEffect, OrphanedOnlyIfCut,
            Owning, NoCall, Doing, Becomes, Respond, Free, Claimed, Stored
<1> DEFINE Inv == ClaimHasOneOwner /\ OneEffect /\ OrphanedOnlyIfCut
<1>1. CASE UNCHANGED idempotencyVars
  BY <1>1 DEF idempotencyVars
<1>2. ASSUME NEW c \in Callers, NEW body \in Bodies, ClaimKey(c, body) PROVE Inv'
  BY <1>2 DEF ClaimKey
<1>3. ASSUME NEW c \in Callers, ReadEntry(c) PROVE Inv'
  BY <1>3 DEF ReadEntry
<1>4. ASSUME NEW c \in Callers, PollEntry(c) PROVE Inv'
  BY <1>4 DEF PollEntry
<1>5. ASSUME NEW c \in Callers, HandlerSucceeds(c) PROVE Inv'
  BY <1>5 DEF HandlerSucceeds
<1>6. ASSUME NEW c \in Callers, StoreAnswer(c) PROVE Inv'
  BY <1>6 DEF StoreAnswer
<1>7. ASSUME NEW c \in Callers, HandlerFails(c) PROVE Inv'
  BY <1>7 DEF HandlerFails
<1>8. ASSUME NEW c \in Callers, ReleaseKey(c) PROVE Inv'
  BY <1>8 DEF ReleaseKey
<1>9. ASSUME NEW c \in Callers, LoseCaller(c) PROVE Inv'
  BY <1>9 DEF LoseCaller
<1>10. CASE ExpireKey
  BY <1>10 DEF ExpireKey
<1> QED
  BY <1>1, <1>2, <1>3, <1>4, <1>5, <1>6, <1>7, <1>8, <1>9, <1>10 DEF IdempotencyNext

\* Who owns the claim, in every behaviour.
THEOREM IdempotencyInvCorrect == IdempotencySpec => []IdempotencyInv
<1>1. IdempotencyInit => IdempotencyInv
  BY IdempotencyTypeInit
     DEF IdempotencyInit, IdempotencyInv, ClaimHasOneOwner, OneEffect,
         OrphanedOnlyIfCut, Owning, NoCall, Free, Claimed
<1> QED
  BY <1>1, IdempotencyInvNext, PTL DEF IdempotencySpec

\* The handler succeeds at most once in the life of a key, however many requests carry
\* it and however they fail.
THEOREM OneEffectCorrect == IdempotencySpec => []OneEffect
  BY IdempotencyInvCorrect, PTL DEF IdempotencyInv

\* A claim nobody works for was cut off, however many requests there are.
THEOREM OrphanedOnlyIfCutCorrect == IdempotencySpec => []OrphanedOnlyIfCut
  BY IdempotencyInvCorrect, PTL DEF IdempotencyInv

-----------------------------------------------------------------------------
(* The compute lock                                                        *)

LEMMA LockBounds ==
  0 \in 0..LockTimeout /\ LockTimeout \in 0..LockTimeout /\ 0 \in 0..WaitMax
  BY ComputeAssumption

LEMMA ComputeTypeNext == ComputeTypeOK /\ [ComputeNext]_computeVars => ComputeTypeOK'
<1> SUFFICES ASSUME ComputeTypeOK, [ComputeNext]_computeVars PROVE ComputeTypeOK'
  OBVIOUS
<1> USE LockBounds DEF Moves
<1>1. CASE UNCHANGED computeVars
  BY <1>1 DEF computeVars, ComputeTypeOK
<1>2. ASSUME NEW g \in Getters, Look(g) PROVE ComputeTypeOK'
  BY <1>2 DEF Look, ComputeTypeOK
<1>3. ASSUME NEW g \in Getters, TakeLock(g) PROVE ComputeTypeOK'
  BY <1>3 DEF TakeLock, ComputeTypeOK
<1>4. ASSUME NEW g \in Getters, LoseLock(g) PROVE ComputeTypeOK'
  BY <1>4 DEF LoseLock, ComputeTypeOK
<1>5. ASSUME NEW g \in Getters, FindValue(g) \/ FallBack(g) PROVE ComputeTypeOK'
  BY <1>5 DEF FindValue, FallBack, ComputeTypeOK
<1>6. ASSUME NEW g \in Getters, Computed(g) PROVE ComputeTypeOK'
  BY <1>6 DEF Computed, ComputeTypeOK
<1>7. ASSUME NEW g \in Getters, DropLock(g) \/ LoseGetter(g) PROVE ComputeTypeOK'
  BY <1>7 DEF DropLock, LoseGetter, ComputeTypeOK
<1>8. CASE ValueAges
  BY <1>8 DEF ValueAges, ComputeTypeOK
<1>9. CASE Elapse
  <2>1. ASSUME NEW g \in Getters
        PROVE  (IF getter[g] = "waiting" THEN waited[g] + 1 ELSE waited[g]) \in 0..WaitMax
    <3>1. waited[g] \in 0..WaitMax /\ (getter[g] = "waiting" => waited[g] < WaitMax)
      BY <1>9 DEF Elapse, ComputeTypeOK
    <3> QED
      BY <3>1, ComputeAssumption
  <2>2. waited' \in [Getters -> 0..WaitMax]
    BY <1>9, <2>1 DEF Elapse
  <2>3. lockLeft' \in 0..LockTimeout
    <3>1. lockLeft \in 0..LockTimeout /\ lockLeft' = IF lockLeft > 0 THEN lockLeft - 1 ELSE 0
      BY <1>9 DEF Elapse, ComputeTypeOK
    <3> QED
      BY <3>1, ComputeAssumption
  <2>4. /\ cache' = cache /\ getter' = getter
        /\ owner' \subseteq Getters /\ exposed' \subseteq Getters
    BY <1>9 DEF Elapse, ComputeTypeOK
  <2> QED
    BY <2>2, <2>3, <2>4 DEF ComputeTypeOK
<1> QED
  BY <1>1, <1>2, <1>3, <1>4, <1>5, <1>6, <1>7, <1>8, <1>9 DEF ComputeNext

\* The lock's state has its types in every behaviour.
THEOREM ComputeTypeCorrect == ComputeSpec => []ComputeTypeOK
<1>1. ComputeInit => ComputeTypeOK
  BY ComputeAssumption, LockBounds DEF ComputeInit, ComputeTypeOK
<1> QED
  BY <1>1, ComputeTypeNext, PTL DEF ComputeSpec

\* The lock of a request that works under it is set, and whoever computes has that lock
\* or is known to have lost it.
Holder(g) == getter[g] \in {"computing", "unlocking"}
LockHasOneHolder ==
    /\ owner # {} => lockLeft > 0
    /\ \A g \in Getters : Holder(g) => g \in exposed \/ owner = {g}

LEMMA LockHasOneHolderNext ==
  ComputeTypeOK /\ LockHasOneHolder /\ [ComputeNext]_computeVars => LockHasOneHolder'
<1> SUFFICES ASSUME ComputeTypeOK, LockHasOneHolder, [ComputeNext]_computeVars
             PROVE  LockHasOneHolder'
  OBVIOUS
<1>a. /\ lockLeft \in Nat /\ getter = [g \in Getters |-> getter[g]]
      /\ owner \subseteq Getters
  <2>1. lockLeft \in 0..LockTimeout
    BY DEF ComputeTypeOK
  <2>2. getter = [g \in Getters |-> getter[g]] /\ owner \subseteq Getters
    BY DEF ComputeTypeOK
  <2> QED
    BY <2>1, <2>2, ComputeAssumption
\* Nobody begins to compute, and nothing happens to the lock.
<1>b. ASSUME owner' = owner, exposed' = exposed, lockLeft' = lockLeft,
             \A g \in Getters : Holder(g)' => Holder(g)
      PROVE  LockHasOneHolder'
  BY <1>b DEF LockHasOneHolder
<1> USE DEF Holder, Moves
<1>1. CASE UNCHANGED computeVars
  BY <1>1 DEF computeVars, LockHasOneHolder
<1>2. ASSUME NEW g \in Getters, Look(g) PROVE LockHasOneHolder'
  BY <1>a, <1>b, <1>2 DEF Look
<1>3. ASSUME NEW g \in Getters, TakeLock(g) PROVE LockHasOneHolder'
  <2>1. /\ lockLeft = 0 /\ lockLeft' = LockTimeout
        /\ owner' = {g} /\ exposed' = exposed \ {g}
    BY <1>3 DEF TakeLock
  <2>2. \A h \in Getters \ {g} : getter'[h] = getter[h]
    BY <1>a, <1>3 DEF TakeLock
  <2>3. \A h \in Getters : Holder(h) => h \in exposed
    BY <1>a, <2>1 DEF LockHasOneHolder
  <2>4. lockLeft' > 0
    BY <2>1, ComputeAssumption
  <2> QED
    BY <2>1, <2>2, <2>3, <2>4 DEF LockHasOneHolder
<1>4. ASSUME NEW g \in Getters, LoseLock(g) PROVE LockHasOneHolder'
  BY <1>a, <1>b, <1>4 DEF LoseLock
<1>5. ASSUME NEW g \in Getters, FindValue(g) \/ FallBack(g) PROVE LockHasOneHolder'
  BY <1>a, <1>b, <1>5 DEF FindValue, FallBack
<1>6. ASSUME NEW g \in Getters, Computed(g) PROVE LockHasOneHolder'
  BY <1>a, <1>b, <1>6 DEF Computed
<1>7. ASSUME NEW g \in Getters, DropLock(g) PROVE LockHasOneHolder'
  <2>1. /\ Holder(g) /\ ~ Holder(g)' /\ owner' = {}
        /\ exposed' = (exposed \cup (IF g \in exposed THEN owner ELSE {})) \ {g}
    BY <1>a, <1>7 DEF DropLock
  <2>2. ASSUME NEW h \in Getters, Holder(h)' PROVE h \in exposed'
    <3>1. h # g /\ Holder(h)
      BY <1>a, <1>7, <2>1, <2>2 DEF DropLock
    <3>2. h \in exposed \/ owner = {h}
      BY <3>1 DEF LockHasOneHolder
    <3>3. owner = {h} => g \in exposed
      BY <2>1, <3>1 DEF LockHasOneHolder
    <3> QED
      BY <2>1, <3>1, <3>2, <3>3
  <2> QED
    BY <2>1, <2>2 DEF LockHasOneHolder
<1>8. ASSUME NEW g \in Getters, LoseGetter(g) PROVE LockHasOneHolder'
  <2>1. /\ lockLeft' = lockLeft /\ owner' = owner \ {g} /\ exposed' = exposed \ {g}
        /\ \A h \in Getters : Holder(h)' => h # g /\ Holder(h)
    BY <1>a, <1>8 DEF LoseGetter
  <2> QED
    BY <2>1 DEF LockHasOneHolder
<1>9. CASE ValueAges
  BY <1>b, <1>9 DEF ValueAges
<1>10. CASE Elapse
  <2>1. /\ getter' = getter
        /\ lockLeft' = IF lockLeft > 0 THEN lockLeft - 1 ELSE 0
        /\ owner' = IF lockLeft > 1 THEN owner ELSE {}
        /\ exposed' = IF lockLeft > 1 THEN exposed ELSE exposed \cup owner
    BY <1>10 DEF Elapse
  <2>2. lockLeft > 1 => lockLeft' > 0
    BY <1>a, <2>1
  <2>3. owner' # {} => lockLeft' > 0
    BY <2>1, <2>2
  <2>4. ASSUME NEW g \in Getters, Holder(g)' PROVE g \in exposed' \/ owner' = {g}
    <3>1. g \in exposed \/ owner = {g}
      BY <2>1, <2>4 DEF LockHasOneHolder
    <3> QED
      BY <2>1, <3>1
  <2> QED
    BY <2>3, <2>4 DEF LockHasOneHolder
<1> QED
  BY <1>1, <1>2, <1>3, <1>4, <1>5, <1>6, <1>7, <1>8, <1>9, <1>10 DEF ComputeNext

\* Of two requests that compute under the lock one has lost it, by its end or through one
\* that had lost it before, for any number of requests, life of the lock and wait.
THEOREM OneUnderLockCorrect == ComputeSpec => []OneUnderLock
<1>1. ComputeInit => LockHasOneHolder
  BY DEF ComputeInit, LockHasOneHolder, Holder
<1>2. LockHasOneHolder => OneUnderLock
  BY DEF LockHasOneHolder, Holder, OneUnderLock
<1> QED
  BY <1>1, <1>2, ComputeTypeCorrect, LockHasOneHolderNext, PTL DEF ComputeSpec

-----------------------------------------------------------------------------
(* The circuit breaker                                                     *)

LEMMA TimeBounds == 0 \in 0..Unset /\ Unset \in 0..Unset
  BY BreakerAssumption DEF Unset

LEMMA BreakerTypeNext == BreakerTypeOK /\ [BreakerNext]_breakerVars => BreakerTypeOK'
<1> SUFFICES ASSUME BreakerTypeOK, [BreakerNext]_breakerVars PROVE BreakerTypeOK'
  OBVIOUS
<1> USE BreakerAssumption, TimeBounds DEF BreakerTypeOK, Leave, History, CallSteps
<1>1. CASE UNCHANGED breakerVars
  BY <1>1 DEF breakerVars
<1>2. ASSUME NEW c \in Calls, Enter(c) \/ ReadOpenedAt(c) \/ HalfOpen(c) \/ ForgetSuccesses(c)
      PROVE  BreakerTypeOK'
  BY <1>2 DEF Enter, ReadOpenedAt, HalfOpen, ForgetSuccesses
<1>3. ASSUME NEW c \in Calls, Return(c) \/ OnSuccess(c) \/ OnFailure(c) \/ ResetFailures(c)
      PROVE  BreakerTypeOK'
  BY <1>3 DEF Return, OnSuccess, OnFailure, ResetFailures
<1>4. ASSUME NEW c \in Calls, CountSuccess(c) \/ CountFailure(c) PROVE BreakerTypeOK'
  BY <1>4 DEF CountSuccess, CountFailure
<1>5. ASSUME NEW c \in Calls, Close(c) \/ Tidy(c) PROVE BreakerTypeOK'
  <2>1. call' \in [Calls -> CallSteps]
    BY <1>5 DEF Close, Tidy
  <2>2. opened' \in 0..Unset
    BY <1>5 DEF Close, Tidy
  <2>3. circuit' \in {"closed", "open", "half-open"} /\ failures' \in Nat /\ successes' \in Nat
    BY <1>5 DEF Close, Tidy
  <2>4. interrupted' \in BOOLEAN /\ swept' \in BOOLEAN
    BY <1>5 DEF Close, Tidy
  <2> QED
    BY <2>1, <2>2, <2>3, <2>4
<1>6. ASSUME NEW c \in Calls, Open(c) \/ Stamp(c) \/ Settle(c) PROVE BreakerTypeOK'
  <2>1. call' \in [Calls -> CallSteps]
    BY <1>6 DEF Open, Stamp, Settle
  <2>2. opened' \in 0..Unset
    BY <1>6 DEF Open, Stamp, Settle
  <2>3. circuit' \in {"closed", "open", "half-open"} /\ failures' \in Nat /\ successes' \in Nat
    BY <1>6 DEF Open, Stamp, Settle
  <2>4. interrupted' \in BOOLEAN /\ swept' \in BOOLEAN
    BY <1>6 DEF Open, Stamp, Settle
  <2> QED
    BY <2>1, <2>2, <2>3, <2>4
<1>7. ASSUME NEW c \in Calls, RecordAsFailure(c) \/ LoseCall(c) PROVE BreakerTypeOK'
  BY <1>7 DEF RecordAsFailure, LoseCall
<1>8. CASE ForgetFailures \/ Wait
  <2>1. opened' \in 0..Unset
    BY <1>8, BreakerAssumption DEF ForgetFailures, Wait, Unset
  <2> QED
    BY <1>8, <2>1 DEF ForgetFailures, Wait
<1> QED
  BY <1>1, <1>2, <1>3, <1>4, <1>5, <1>6, <1>7, <1>8 DEF BreakerNext

\* The circuit's keys have their types in every behaviour.
THEOREM BreakerTypeCorrect == BreakerSpec => []BreakerTypeOK
<1>1. BreakerInit => BreakerTypeOK
  <2> SUFFICES ASSUME BreakerInit PROVE BreakerTypeOK
    OBVIOUS
  <2>1. opened \in 0..Unset
    BY TimeBounds DEF BreakerInit
  <2> QED
    BY <2>1 DEF BreakerInit, BreakerTypeOK, CallSteps
<1> QED
  BY <1>1, BreakerTypeNext, PTL DEF BreakerSpec

LEMMA StuckOpenExplainedNext ==
  BreakerTypeOK /\ StuckOpenExplained /\ [BreakerNext]_breakerVars => StuckOpenExplained'
<1> SUFFICES ASSUME BreakerTypeOK, StuckOpenExplained, [BreakerNext]_breakerVars
             PROVE  StuckOpenExplained'
  OBVIOUS
<1> USE BreakerAssumption DEF BreakerTypeOK, StuckOpenExplained, Leave, History, CallSteps, Unset
<1>1. CASE UNCHANGED breakerVars
  BY <1>1 DEF breakerVars
<1>2. ASSUME NEW c \in Calls, Enter(c) \/ ReadOpenedAt(c) \/ HalfOpen(c) \/ ForgetSuccesses(c)
      PROVE  StuckOpenExplained'
  BY <1>2 DEF Enter, ReadOpenedAt, HalfOpen, ForgetSuccesses
<1>3. ASSUME NEW c \in Calls, Return(c) \/ OnSuccess(c) \/ OnFailure(c) \/ ResetFailures(c)
      PROVE  StuckOpenExplained'
  BY <1>3 DEF Return, OnSuccess, OnFailure, ResetFailures
<1>4. ASSUME NEW c \in Calls, CountSuccess(c) \/ CountFailure(c) PROVE StuckOpenExplained'
  BY <1>4 DEF CountSuccess, CountFailure
<1>5. ASSUME NEW c \in Calls, Close(c) \/ Tidy(c) PROVE StuckOpenExplained'
  BY <1>5 DEF Close, Tidy
<1>6. ASSUME NEW c \in Calls, Open(c) PROVE StuckOpenExplained'
  BY <1>6 DEF Open
<1>7. ASSUME NEW c \in Calls, Stamp(c) \/ Settle(c) PROVE StuckOpenExplained'
  BY <1>7 DEF Stamp, Settle
<1>8. ASSUME NEW c \in Calls, RecordAsFailure(c) \/ LoseCall(c) PROVE StuckOpenExplained'
  BY <1>8 DEF RecordAsFailure, LoseCall
<1>9. CASE ForgetFailures \/ Wait
  BY <1>9 DEF ForgetFailures, Wait
<1> QED
  BY <1>1, <1>2, <1>3, <1>4, <1>5, <1>6, <1>7, <1>8, <1>9 DEF BreakerNext

\* A circuit is stuck open only after a lost call or a late clean-up, for any number of
\* calls, thresholds and timeout.
THEOREM StuckOpenExplainedCorrect == BreakerSpec => []StuckOpenExplained
<1>1. BreakerInit => StuckOpenExplained
  BY DEF BreakerInit, StuckOpenExplained
<1> QED
  BY <1>1, BreakerTypeCorrect, StuckOpenExplainedNext, PTL DEF BreakerSpec

\* A call that is to tidy up has closed the circuit, and alone nobody opens it again.
TidyWhileClosed ==
    ~ swept /\ \A c \in Calls : call[c] = "tidy" => circuit # "open"

LEMMA TidyWhileClosedNext ==
  ASSUME \A c, d \in Calls : c = d, BreakerTypeOK, TidyWhileClosed, [BreakerNext]_breakerVars
  PROVE  TidyWhileClosed'
<1> USE DEF BreakerTypeOK, TidyWhileClosed, Leave, History
<1>1. CASE UNCHANGED breakerVars
  BY <1>1 DEF breakerVars
<1>2. ASSUME NEW c \in Calls, Enter(c) \/ ReadOpenedAt(c) \/ HalfOpen(c) \/ ForgetSuccesses(c)
      PROVE  TidyWhileClosed'
  BY <1>2 DEF Enter, ReadOpenedAt, HalfOpen, ForgetSuccesses
<1>3. ASSUME NEW c \in Calls, Return(c) \/ OnSuccess(c) \/ OnFailure(c) \/ ResetFailures(c)
      PROVE  TidyWhileClosed'
  BY <1>3 DEF Return, OnSuccess, OnFailure, ResetFailures
<1>4. ASSUME NEW c \in Calls, CountSuccess(c) \/ CountFailure(c) PROVE TidyWhileClosed'
  BY <1>4 DEF CountSuccess, CountFailure
<1>5. ASSUME NEW c \in Calls, Close(c) PROVE TidyWhileClosed'
  BY <1>5 DEF Close
<1>6. ASSUME NEW c \in Calls, Tidy(c) PROVE TidyWhileClosed'
  <2>1. ~ swept'
    BY <1>6 DEF Tidy
  <2>2. \A d \in Calls : call'[d] # "tidy"
    BY <1>6 DEF Tidy
  <2> QED
    BY <2>1, <2>2
<1>7. ASSUME NEW c \in Calls, Open(c) \/ Stamp(c) \/ Settle(c) PROVE TidyWhileClosed'
  <2>1. \A d \in Calls : call'[d] # "tidy"
    BY <1>7 DEF Open, Stamp, Settle
  <2>2. ~ swept'
    BY <1>7 DEF Open, Stamp, Settle
  <2> QED
    BY <2>1, <2>2
<1>8. ASSUME NEW c \in Calls, RecordAsFailure(c) \/ LoseCall(c) PROVE TidyWhileClosed'
  BY <1>8 DEF RecordAsFailure, LoseCall
<1>9. CASE ForgetFailures \/ Wait
  BY <1>9 DEF ForgetFailures, Wait
<1> QED
  BY <1>1, <1>2, <1>3, <1>4, <1>5, <1>6, <1>7, <1>8, <1>9 DEF BreakerNext

\* Calls that follow one another leave the circuit open without opened_at only when one
\* is lost between the two SETs of _on_failure: the late DELETE of _on_success needs a
\* second call.
THEOREM StuckOpenAlone ==
  ASSUME \A c, d \in Calls : c = d
  PROVE  BreakerSpec => [](circuit = "open" /\ opened = Unset =>
                             interrupted \/ \E c \in Calls : call[c] \in {"stamp", "restamp"})
<1> DEFINE Explained == circuit = "open" /\ opened = Unset =>
                          interrupted \/ \E c \in Calls : call[c] \in {"stamp", "restamp"}
<1>1. BreakerInit => TidyWhileClosed
  BY DEF BreakerInit, TidyWhileClosed
<1>2. BreakerTypeOK /\ TidyWhileClosed /\ [BreakerNext]_breakerVars => TidyWhileClosed'
  BY TidyWhileClosedNext
<1>3. StuckOpenExplained /\ TidyWhileClosed => Explained
  BY DEF StuckOpenExplained, TidyWhileClosed
<1> HIDE DEF Explained
<1>4. BreakerSpec => []Explained
  BY <1>1, <1>2, <1>3, BreakerTypeCorrect, StuckOpenExplainedCorrect, PTL DEF BreakerSpec
<1> QED
  BY <1>4 DEF Explained
=============================================================================
