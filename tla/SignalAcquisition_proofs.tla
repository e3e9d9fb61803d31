----------------------- MODULE SignalAcquisition_proofs -----------------------
(***************************************************************************)
(* Acquisition, for every number of contracts, contents, jobs and admins,  *)
(* every max_failures and any number of faults.                            *)
(*                                                                         *)
(* The row lock of a contract makes its health sound: whoever stands       *)
(* behind the first of the queue is about to write, so a job that comes to *)
(* the front has not written yet, and one that has written is at the front *)
(* until its session ends.  The unique index makes the signals sound: the  *)
(* rows that sessions have inserted are apart, and not stored yet.         *)
(***************************************************************************)
EXTENDS SignalAcquisition, SequenceTheorems, TLAPS

-----------------------------------------------------------------------------
(* The invariant                                                           *)

Working == {"filter", "insert"} \cup Marking

\* A job that is about to write the health of c.
InHand(j, c) == cur[j] = c /\ pc[j] \in Marking

\* What HealthIsEarned says of a row or of an instance.
HealthOK(v, n) ==
    /\ v.status = "degraded" => v.failures >= MaxFailures
    /\ v.status = "active" => v.failures < MaxFailures
    /\ v.failures <= 2 * n

\* No signal is stored twice, and nobody has inserted what is stored or what another has.
StoreInv ==
    /\ \A s \in Signals : stored[s] <= 1
    /\ \A j \in Jobs : \A s \in own[j] : stored[s] = 0
    /\ \A j, k \in Jobs : j # k => own[j] \cap own[k] = {}

Distinct(q) == \A m, n \in DOMAIN q : q[m] = q[n] => m = n

\* Nobody is in a queue twice, and behind its first there are only jobs about to write.
QueueInv ==
    \A c \in Contracts :
       /\ Distinct(lock[c])
       /\ \A n \in DOMAIN lock[c] : n >= 2 => InHand(lock[c][n], c)

\* The first of a queue is about to write, or has written from the row as it was.
HealthInv ==
    /\ \A c \in Contracts \ stale : HealthOK(row[c], streak[c])
    /\ \A j \in Jobs, c \in Contracts : Holds(j, c) =>
          \/ InHand(j, c)
          \/ /\ view[j][c].active = row[c].active
             /\ c \notin stale => HealthOK(view[j][c], streak[c])

\* A job's signals wait for its success to be recorded, or it has been and is locked.
Recorded(j, c) ==
    /\ Holds(j, c) /\ c \notin todo[j]
    /\ c \notin stale => view[j][c].failures = 0 /\ view[j][c].status = "active"

OwnInv ==
    \A j \in Jobs :
       /\ pc[j] \in Working => cur[j] \in todo[j]
       /\ pc[j] \in {"filter", "insert"} => cur[j] \notin Webhooks
       /\ pc[j] \in {"idle", "done"} => own[j] = {}
       /\ \A s \in own[j] : s[1] \notin Webhooks
                           /\ (Recorded(j, s[1]) \/ (cur[j] = s[1] /\ pc[j] = "mark"))

IInv == TypeOK /\ StoreInv /\ QueueInv /\ HealthInv /\ OwnInv

-----------------------------------------------------------------------------
(* Queues                                                                  *)

\* RemoveAt leaves out one place of a sequence.
LEMMA RemoveAtProperties ==
  ASSUME NEW S, NEW q \in Seq(S), NEW n \in 1..Len(q)
  PROVE  /\ RemoveAt(q, n) \in Seq(S)
         /\ Len(RemoveAt(q, n)) = Len(q) - 1
         /\ \A m \in 1..(Len(q) - 1) : RemoveAt(q, n)[m] = IF m < n THEN q[m] ELSE q[m + 1]
<1> DEFINE s == SubSeq(q, 1, n - 1)
           t == SubSeq(q, n + 1, Len(q))
<1>1. Len(q) \in Nat /\ n \in Nat /\ 1 <= n /\ n <= Len(q)
  BY LenProperties
<1>2. \A i \in 1..Len(q) : q[i] \in S
  BY ElementOfSeq
<1>3. /\ s \in Seq(S) /\ Len(s) = n - 1
      /\ \A i \in 1..(n - 1) : s[i] = q[i]
  <2>1. 1 \in Int /\ n - 1 \in Int /\ \A i \in 1..(n - 1) : q[i] \in S
    BY <1>1, <1>2
  <2>2. /\ s \in Seq(S) /\ Len(s) = IF 1 <= n - 1 THEN (n - 1) - 1 + 1 ELSE 0
        /\ \A i \in 1..((n - 1) - 1 + 1) : s[i] = q[1 + i - 1]
    BY <2>1, SubSeqProperties
  <2> QED
    BY <1>1, <2>2
<1>4. /\ t \in Seq(S) /\ Len(t) = Len(q) - n
      /\ \A i \in 1..(Len(q) - n) : t[i] = q[n + i]
  <2>1. n + 1 \in Int /\ Len(q) \in Int /\ \A i \in (n + 1)..Len(q) : q[i] \in S
    BY <1>1, <1>2
  <2>2. /\ t \in Seq(S) /\ Len(t) = IF n + 1 <= Len(q) THEN Len(q) - (n + 1) + 1 ELSE 0
        /\ \A i \in 1..(Len(q) - (n + 1) + 1) : t[i] = q[(n + 1) + i - 1]
    BY <2>1, SubSeqProperties
  <2> QED
    BY <1>1, <2>2
<1>5. /\ s \o t \in Seq(S) /\ Len(s \o t) = Len(s) + Len(t)
      /\ \A i \in 1..(Len(s) + Len(t)) : (s \o t)[i] = IF i <= Len(s) THEN s[i] ELSE t[i - Len(s)]
  BY <1>3, <1>4, ConcatProperties
<1>6. RemoveAt(q, n) = s \o t
  BY DEF RemoveAt
<1> HIDE DEF s, t
<1>8. Len(s) + Len(t) = Len(q) - 1
  BY <1>1, <1>3, <1>4
<1>7. ASSUME NEW m \in 1..(Len(q) - 1) PROVE (s \o t)[m] = IF m < n THEN q[m] ELSE q[m + 1]
  <2>1. m \in 1..(Len(s) + Len(t))
    BY <1>8
  <2>2. CASE m < n
    BY <1>1, <1>3, <1>5, <2>1, <2>2
  <2>3. CASE ~ (m < n)
    <3>1. (s \o t)[m] = t[m - (n - 1)] /\ m - (n - 1) \in 1..(Len(q) - n)
      BY <1>1, <1>3, <1>5, <2>1, <2>3
    <3>2. t[m - (n - 1)] = q[n + (m - (n - 1))] /\ n + (m - (n - 1)) = m + 1
      BY <1>1, <1>4, <3>1
    <3> QED
      BY <2>3, <3>1, <3>2
  <2> QED
    BY <2>2, <2>3
<1> QED
  BY <1>5, <1>6, <1>7, <1>8

\* Leaving a queue: whoever is behind the first of the new queue was behind the first
\* of the old one, and a first that has not left stays.
LEMMA QueueAfter ==
  ASSUME TypeOK, NEW j \in Jobs, NEW c \in Contracts, Unlock(j)
  PROVE  /\ lock'[c] \in Seq(Jobs)
         /\ Distinct(lock[c]) => /\ Distinct(lock'[c])
                                 /\ \A n \in DOMAIN lock'[c] : lock'[c][n] # j
         /\ \A n \in DOMAIN lock'[c] : n >= 2 =>
               \E m \in DOMAIN lock[c] : m >= 2 /\ lock'[c][n] = lock[c][m]
         /\ \A k \in Jobs : k # j /\ Holds(k, c) => Holds(k, c)'
         /\ \A k \in Jobs : Holds(k, c)' =>
               \/ Holds(k, c)
               \/ \E m \in DOMAIN lock[c] : m >= 2 /\ lock[c][m] = k
<1> DEFINE q == lock[c]
           n0 == Place(j, c)
<1>1. q \in Seq(Jobs) /\ Len(q) \in Nat /\ DOMAIN q = 1..Len(q)
  BY LenProperties DEF TypeOK
<1>2. CASE ~ Waits(j, c)
  <2>1. lock'[c] = q
    BY <1>2 DEF Unlock
  <2>2. \A n \in DOMAIN q : q[n] # j
    BY <1>2 DEF Waits
  <2> QED
    BY <1>1, <2>1, <2>2 DEF Holds
<1>3. CASE Waits(j, c)
  <2>1. n0 \in DOMAIN q /\ q[n0] = j
    BY <1>3 DEF Waits, Place
  <2>2. lock'[c] = RemoveAt(q, n0)
    BY <1>3 DEF Unlock
  <2> DEFINE r == lock'[c]
  <2> HIDE DEF q, n0
  <2>3. /\ r \in Seq(Jobs) /\ Len(r) = Len(q) - 1
        /\ \A m \in 1..(Len(q) - 1) : r[m] = IF m < n0 THEN q[m] ELSE q[m + 1]
    BY <1>1, <2>1, <2>2, RemoveAtProperties
  <2>4. DOMAIN r = 1..(Len(q) - 1)
    BY <2>3, LenProperties
  <2> HIDE DEF r
  <2>5. ASSUME NEW n \in DOMAIN r, n >= 2
        PROVE  \E m \in DOMAIN q : m >= 2 /\ r[n] = q[m]
    <3>1. n \in 1..(Len(q) - 1) /\ n \in 1..Len(q) /\ n + 1 \in 1..Len(q)
      BY <1>1, <2>4, <2>5
    <3>2. CASE n < n0
      BY <1>1, <2>3, <2>5, <3>1, <3>2
    <3>3. CASE ~ (n < n0)
      BY <1>1, <2>3, <2>5, <3>1, <3>3
    <3> QED
      BY <3>2, <3>3
  <2>a. ASSUME Distinct(q) PROVE Distinct(r) /\ \A n \in DOMAIN r : r[n] # j
    <3>1. \A m \in 1..(Len(q) - 1) : m \in 1..Len(q) /\ m + 1 \in 1..Len(q)
      BY <1>1
    <3>2. n0 \in 1..Len(q)
      BY <1>1, <2>1
    <3>3. ASSUME NEW m \in DOMAIN r, NEW n \in DOMAIN r, r[m] = r[n] PROVE m = n
      <4>1. m \in 1..(Len(q) - 1) /\ n \in 1..(Len(q) - 1)
        BY <2>4
      <4>2. (IF m < n0 THEN m ELSE m + 1) = (IF n < n0 THEN n ELSE n + 1)
        BY <1>1, <2>a, <2>3, <3>1, <3>3, <4>1 DEF Distinct
      <4> QED
        BY <1>1, <3>2, <4>1, <4>2
    <3>4. ASSUME NEW n \in DOMAIN r, r[n] = j PROVE FALSE
      <4>1. n \in 1..(Len(q) - 1)
        BY <2>4
      <4>2. (IF n < n0 THEN n ELSE n + 1) = n0
        BY <1>1, <2>a, <2>1, <2>3, <3>1, <3>4, <4>1 DEF Distinct
      <4> QED
        BY <1>1, <3>2, <4>1, <4>2
    <3> QED
      BY <3>3, <3>4 DEF Distinct
  <2>6. q # <<>> /\ Len(q) >= 1 /\ Head(q) = q[1]
    BY <1>1, <2>1
  <2>7. r # <<>> => Len(r) >= 1 /\ Head(r) = r[1] /\ Len(q) >= 2
    BY <1>1, <2>3
  <2>8. ASSUME NEW k \in Jobs, k # j, q # <<>> /\ Head(q) = k PROVE r # <<>> /\ Head(r) = k
    <3>1. q[1] = k /\ n0 # 1 /\ n0 \in 1..Len(q)
      BY <1>1, <2>1, <2>6, <2>8
    <3>2. n0 \in Nat /\ 1 < n0 /\ 1 \in 1..(Len(q) - 1)
      BY <1>1, <3>1
    <3>3. r[1] = k
      BY <2>3, <3>1, <3>2
    <3>4. Len(r) # 0
      BY <1>1, <2>3, <3>2
    <3>5. r # <<>>
      BY <3>4
    <3> QED
      BY <2>7, <3>3, <3>5
  <2>9. ASSUME NEW k \in Jobs, r # <<>> /\ Head(r) = k
        PROVE  \/ q # <<>> /\ Head(q) = k
               \/ \E m \in DOMAIN q : m >= 2 /\ q[m] = k
    <3>1. 1 \in 1..(Len(q) - 1) /\ 2 \in 1..Len(q) /\ r[1] = k
      BY <1>1, <2>7, <2>9
    <3>2. r[1] = q[1] \/ r[1] = q[2]
      BY <2>3, <3>1
    <3> QED
      BY <1>1, <2>6, <3>1, <3>2
  <2> USE DEF q, r
  <2>10. ASSUME NEW k \in Jobs, k # j, Holds(k, c) PROVE Holds(k, c)'
    BY <2>8, <2>10 DEF Holds
  <2>11. ASSUME NEW k \in Jobs, Holds(k, c)'
         PROVE  Holds(k, c) \/ \E m \in DOMAIN lock[c] : m >= 2 /\ lock[c][m] = k
    BY <2>9, <2>11 DEF Holds
  <2> QED
    BY <2>3, <2>5, <2>a, <2>10, <2>11
<1> QED
  BY <1>2, <1>3

-----------------------------------------------------------------------------
(* Health columns                                                          *)

LEMMA HealthFields ==
  ASSUME NEW v \in Health
  PROVE  /\ v.active \in BOOLEAN /\ v.status \in {"active", "degraded", "disabled"}
         /\ v.failures \in Nat
         /\ v = [active |-> v.active, status |-> v.status, failures |-> v.failures]
  BY DEF Health

\* An UPDATE of the changed columns writes the new instance over a row that has not
\* changed, and leaves a column alone that is the same in both instances.
LEMMA WrittenHealth ==
  ASSUME NEW base \in Health, NEW old \in Health, NEW new \in Health
  PROVE  /\ Written(base, old, new) \in Health
         /\ old = base => Written(base, old, new) = new
         /\ old.active = new.active => Written(base, old, new).active = base.active
<1>1. DOMAIN base = {"active", "status", "failures"}
  BY DEF Health
<1> DEFINE w == Written(base, old, new)
<1>2. /\ w = [col \in {"active", "status", "failures"} |->
                 IF new[col] = old[col] THEN base[col] ELSE new[col]]
  BY <1>1 DEF Written
<1>3. /\ w.active = IF new.active = old.active THEN base.active ELSE new.active
      /\ w.status = IF new.status = old.status THEN base.status ELSE new.status
      /\ w.failures = IF new.failures = old.failures THEN base.failures ELSE new.failures
  BY <1>2
<1>4. w = [active |-> w.active, status |-> w.status, failures |-> w.failures]
  BY <1>2
<1> HIDE DEF w
<1>5. /\ w.active \in BOOLEAN /\ w.status \in {"active", "degraded", "disabled"}
      /\ w.failures \in Nat
  <2>1. w.active \in BOOLEAN
    BY <1>3, HealthFields
  <2>2. w.status \in {"active", "degraded", "disabled"}
    BY <1>3, HealthFields
  <2>3. w.failures \in Nat
    BY <1>3, HealthFields
  <2> QED
    BY <2>1, <2>2, <2>3
<1>6. w \in Health
  BY <1>4, <1>5 DEF Health
<1>7. old = base => w = new
  <2> SUFFICES ASSUME old = base PROVE w = new
    OBVIOUS
  <2>1. w.active = new.active /\ w.status = new.status /\ w.failures = new.failures
    BY <1>3
  <2> QED
    BY <1>4, <2>1, HealthFields
<1> QED
  BY <1>3, <1>6, <1>7 DEF w

\* A failure recorded, and a success.
LEMMA FailedHealth ==
  ASSUME AcquisitionAssumption, NEW v \in Health, NEW n \in Nat
  PROVE  /\ Failed(v) \in Health /\ Failed(v).active = v.active
         /\ Failed(v).failures = v.failures + 1
         /\ HealthOK(v, n) => /\ Failed(v).status = "degraded" => Failed(v).failures >= MaxFailures
                              /\ Failed(v).status = "active" => Failed(v).failures < MaxFailures
<1> DEFINE status == IF v.failures + 1 >= MaxFailures THEN "degraded" ELSE v.status
<1>1. MaxFailures \in Nat
  BY DEF AcquisitionAssumption
<1>2. v.failures + 1 \in Nat /\ v.failures \in Nat /\ status \in {"active", "degraded", "disabled"}
  BY HealthFields
<1>4. Failed(v) = [v EXCEPT !.failures = v.failures + 1, !.status = status]
  BY DEF Failed, Health
<1>5. /\ Failed(v) \in Health /\ Failed(v).active = v.active
      /\ Failed(v).failures = v.failures + 1 /\ Failed(v).status = status
  <2>1. PICK f \in Nat : f = v.failures + 1
    BY <1>2
  <2>2. PICK s \in {"active", "degraded", "disabled"} : s = status
    BY <1>2
  <2>3. Failed(v) = [v EXCEPT !.failures = f, !.status = s]
    BY <1>4, <2>1, <2>2
  <2> HIDE DEF status
  <2>4. /\ Failed(v) \in Health /\ Failed(v).active = v.active
        /\ Failed(v).failures = f /\ Failed(v).status = s
    BY <2>3 DEF Health
  <2> QED
    BY <2>1, <2>2, <2>4
<1>6. HealthOK(v, n) => /\ Failed(v).status = "degraded" => Failed(v).failures >= MaxFailures
                        /\ Failed(v).status = "active" => Failed(v).failures < MaxFailures
  BY <1>1, <1>2, <1>5 DEF HealthOK
<1> QED
  BY <1>5, <1>6

LEMMA FetchedHealth ==
  ASSUME NEW v \in Health
  PROVE  /\ Fetched(v) \in Health /\ Fetched(v).active = v.active
         /\ Fetched(v).failures = 0 /\ Fetched(v).status = "active"
  BY DEF Fetched, Health

LEMMA AdminHealth ==
  ASSUME AcquisitionAssumption, NEW v \in Health, NEW n \in Nat, NEW new \in AdminVersions(v)
  PROVE  new \in Health /\ (HealthOK(v, n) => HealthOK(new, n))
<1>1. MaxFailures \in Nat \ {0}
  BY DEF AcquisitionAssumption
<1> DEFINE Sound(w) == /\ w \in Health
                       /\ \/ w.failures = 0 /\ w.status = "active"
                          \/ w.failures = v.failures /\ w.status \in {v.status, "disabled"}
<1>2. Sound(Healthy)
  BY DEF Healthy, Health
<1>3. /\ Sound([v EXCEPT !.active = FALSE, !.status = "disabled"])
      /\ Sound([v EXCEPT !.active = TRUE]) /\ Sound([v EXCEPT !.active = FALSE])
  <2>1. Sound([v EXCEPT !.active = FALSE, !.status = "disabled"])
    BY DEF Health
  <2>2. Sound([v EXCEPT !.active = TRUE])
    BY DEF Health
  <2>3. Sound([v EXCEPT !.active = FALSE])
    BY DEF Health
  <2> QED
    BY <2>1, <2>2, <2>3
<1>5. Sound(new)
  <2> HIDE DEF Sound
  <2> QED
    BY <1>2, <1>3 DEF AdminVersions
<1>4. HealthOK(v, n) => HealthOK(new, n)
  BY <1>1, <1>5, HealthFields DEF HealthOK
<1> QED
  BY <1>4, <1>5

-----------------------------------------------------------------------------
(* Types                                                                   *)

Labels == {"idle", "loop", "filter", "insert", "mark", "raised", "failed", "loaded", "done"}

\* Every variable has its type: TypeOK in one place, for goals and for facts.
LEMMA Types ==
  TypeOK <=> /\ row \in [Contracts -> Health] /\ lock \in [Contracts -> Seq(Jobs)]
             /\ stored \in [Signals -> Nat] /\ published \in [Contracts -> SUBSET Items]
             /\ pc \in [Sessions -> Labels] /\ todo \in [Sessions -> SUBSET Contracts]
             /\ cur \in [Jobs -> Contracts \cup {None}] /\ found \in [Jobs -> SUBSET Items]
             /\ own \in [Jobs -> SUBSET Signals]
             /\ view \in [Sessions -> [Contracts -> Health]]
             /\ faults \in 0..MaxFaults /\ streak \in [Contracts -> Nat]
             /\ stale \subseteq Contracts
  BY DEF TypeOK, Labels

LEMMA MoreFaults ==
  ASSUME AcquisitionAssumption, TypeOK, faults < MaxFaults, faults' = faults + 1
  PROVE  faults' \in 0..MaxFaults
<1>1. faults \in Int /\ MaxFaults \in Int /\ 0 <= faults /\ faults <= MaxFaults
  BY Types DEF AcquisitionAssumption
<1> QED
  BY <1>1

LEMMA HealthyType == Healthy \in Health /\ Nothing \in [Contracts -> Health]
  BY DEF Healthy, Health, Nothing

\* The job that is about to write works on a contract of its batch.
LEMMA Current ==
  ASSUME IInv, NEW j \in Jobs, pc[j] \in Working
  PROVE  cur[j] \in Contracts /\ cur[j] \in todo[j] /\ j \in Sessions
  BY DEF IInv, OwnInv, TypeOK, Sessions

\* A session that ends.
LEMMA ForgetTypes ==
  ASSUME TypeOK, NEW j \in Jobs, Forget(j), Unlock(j)
  PROVE  /\ pc' \in [Sessions -> Labels] /\ todo' \in [Sessions -> SUBSET Contracts]
         /\ cur' \in [Jobs -> Contracts \cup {None}] /\ found' \in [Jobs -> SUBSET Items]
         /\ own' \in [Jobs -> SUBSET Signals] /\ view' \in [Sessions -> [Contracts -> Health]]
         /\ lock' \in [Contracts -> Seq(Jobs)]
<1>1. pc' \in [Sessions -> Labels]
  BY Types DEF Forget, Goto, Labels
<1>2. todo' \in [Sessions -> SUBSET Contracts]
  BY Types DEF Forget
<1>3. cur' \in [Jobs -> Contracts \cup {None}] /\ found' \in [Jobs -> SUBSET Items]
      /\ own' \in [Jobs -> SUBSET Signals]
  BY Types DEF Forget
<1>4. view' \in [Sessions -> [Contracts -> Health]]
  BY Types, HealthyType DEF Forget
<1>5. lock' \in [Contracts -> Seq(Jobs)]
  <2>1. \A c \in Contracts : lock'[c] \in Seq(Jobs)
    BY QueueAfter
  <2>2. lock' = [c \in Contracts |-> lock'[c]]
    BY DEF Unlock
  <2> QED
    BY <2>1, <2>2
<1> QED
  BY <1>1, <1>2, <1>3, <1>4, <1>5

\* The UPDATE of a health row.
LEMMA UpdateHealthTypes ==
  ASSUME AcquisitionAssumption, IInv, NEW j \in Jobs, pc[j] \in Marking,
         NEW new \in Health, UpdateHealth(j, new), streak' \in [Contracts -> Nat]
  PROVE  TypeOK'
<1>1. PICK c \in Contracts : c = cur[j]
  BY Current DEF Working
<1>2. j \in Sessions /\ TypeOK
  BY DEF Sessions, IInv
<1>3. lock' \in [Contracts -> Seq(Jobs)]
  <2>1. <<j>> \in Seq(Jobs)
    OBVIOUS
  <2> QED
    BY <1>1, <1>2, <2>1, Types DEF UpdateHealth
<1>4. view' \in [Sessions -> [Contracts -> Health]]
  BY <1>1, <1>2, Types DEF UpdateHealth
<1>5. stale' \subseteq Contracts /\ todo' \in [Sessions -> SUBSET Contracts]
  BY <1>1, <1>2, Types DEF UpdateHealth
<1>6. cur' \in [Jobs -> Contracts \cup {None}] /\ found' \in [Jobs -> SUBSET Items]
  BY <1>2, Types DEF UpdateHealth
<1>7. pc' \in [Sessions -> Labels]
  BY <1>2, Types DEF UpdateHealth, Goto, Labels
<1>8. UNCHANGED <<row, stored, published, own, faults>>
  BY DEF UpdateHealth
<1> QED
  BY <1>2, <1>3, <1>4, <1>5, <1>6, <1>7, <1>8, Types DEF TypeOK, Labels

\* What a job writes when it marks a failure or a success.
LEMMA MarkedHealth ==
  ASSUME AcquisitionAssumption, IInv, NEW j \in Jobs, NEW c \in Contracts, c = cur[j]
  PROVE  /\ view[j][c] \in Health /\ row[c] \in Health
         /\ Marked(j, Failed(view[j][c])) \in Health
         /\ Failed(Marked(j, Failed(view[j][c]))) \in Health
         /\ Marked(j, Fetched(view[j][c])) \in Health
<1>1. view[j][c] \in Health /\ row[c] \in Health
  BY Types DEF IInv, Sessions
<1>2. Failed(view[j][c]) \in Health /\ Fetched(view[j][c]) \in Health
  <2>1. 0 \in Nat
    OBVIOUS
  <2> QED
    BY <1>1, <2>1, FailedHealth, FetchedHealth
<1>3. \A new \in Health : Marked(j, new) \in Health
  BY <1>1, WrittenHealth DEF Marked
<1>4. Failed(Marked(j, Failed(view[j][c]))) \in Health
  <2>1. 0 \in Nat
    OBVIOUS
  <2> QED
    BY <1>2, <1>3, <2>1, FailedHealth
<1> QED
  BY <1>1, <1>2, <1>3, <1>4

LEMMA TypesNext ==
  ASSUME AcquisitionAssumption, IInv, [Next]_vars
  PROVE  TypeOK'
<1>a. /\ TypeOK /\ row \in [Contracts -> Health] /\ lock \in [Contracts -> Seq(Jobs)]
      /\ stored \in [Signals -> Nat] /\ published \in [Contracts -> SUBSET Items]
      /\ pc \in [Sessions -> Labels] /\ todo \in [Sessions -> SUBSET Contracts]
      /\ cur \in [Jobs -> Contracts \cup {None}] /\ found \in [Jobs -> SUBSET Items]
      /\ own \in [Jobs -> SUBSET Signals]
      /\ view \in [Sessions -> [Contracts -> Health]]
      /\ faults \in 0..MaxFaults /\ streak \in [Contracts -> Nat]
      /\ stale \subseteq Contracts
  BY Types DEF IInv
<1>b. ASSUME row' \in [Contracts -> Health], lock' \in [Contracts -> Seq(Jobs)],
             stored' \in [Signals -> Nat], published' \in [Contracts -> SUBSET Items],
             pc' \in [Sessions -> Labels], todo' \in [Sessions -> SUBSET Contracts],
             cur' \in [Jobs -> Contracts \cup {None}], found' \in [Jobs -> SUBSET Items],
             own' \in [Jobs -> SUBSET Signals], view' \in [Sessions -> [Contracts -> Health]],
             faults' \in 0..MaxFaults, streak' \in [Contracts -> Nat],
             stale' \subseteq Contracts
      PROVE  TypeOK'
  BY <1>b DEF TypeOK, Labels
<1>c. Jobs \subseteq Sessions /\ Admins \subseteq Sessions /\ TierJobs \subseteq Jobs
      /\ OnDemandJobs \subseteq Jobs
  BY DEF Sessions, Jobs
<1>d. ASSUME NEW s \in Sessions, NEW l \in Labels, Goto(s, l) PROVE pc' \in [Sessions -> Labels]
  BY <1>a, <1>d DEF Goto
<1>e. {"idle", "loop", "filter", "insert", "mark", "raised", "failed", "loaded", "done"} = Labels
  BY DEF Labels
<1>1. CASE UNCHANGED vars
  BY <1>1, <1>a, <1>b DEF vars
<1>2. ASSUME NEW c \in Contracts, NEW x \in Items, Publish(c, x) PROVE TypeOK'
  BY <1>2, <1>a, <1>b DEF Publish
<1>3. ASSUME NEW j \in TierJobs, TierStart(j) PROVE TypeOK'
  <2>1. pc' \in [Sessions -> Labels]
    BY <1>3, <1>c, <1>d, <1>e DEF TierStart
  <2>2. todo' \in [Sessions -> SUBSET Contracts] /\ view' \in [Sessions -> [Contracts -> Health]]
    BY <1>3, <1>a, <1>c DEF TierStart
  <2> QED
    BY <1>3, <1>a, <1>b, <2>1, <2>2 DEF TierStart
<1>4. ASSUME NEW j \in OnDemandJobs, NEW c \in Contracts, OnDemandStart(j, c) PROVE TypeOK'
  <2>1. pc' \in [Sessions -> Labels]
    BY <1>4, <1>c, <1>d, <1>e DEF OnDemandStart
  <2>2. todo' \in [Sessions -> SUBSET Contracts] /\ view' \in [Sessions -> [Contracts -> Health]]
    <3>1. CASE row[c].active
      <4>1. j \in Sessions /\ row[c] \in Health
        BY <1>a, <1>c
      <4>2. todo' = [todo EXCEPT ![j] = {c}] /\ view' = [view EXCEPT ![j][c] = row[c]]
        BY <1>4, <3>1 DEF OnDemandStart
      <4>3. todo' \in [Sessions -> SUBSET Contracts]
        BY <1>a, <4>1, <4>2
      <4>4. view' \in [Sessions -> [Contracts -> Health]]
        BY <1>a, <4>1, <4>2
      <4> QED
        BY <4>3, <4>4
    <3>2. CASE ~ row[c].active
      BY <1>4, <3>2, <1>a DEF OnDemandStart
    <3> QED
      BY <3>1, <3>2
  <2> QED
    BY <1>4, <1>a, <1>b, <2>1, <2>2 DEF OnDemandStart
<1>5. ASSUME NEW j \in Jobs, NEW c \in Contracts, FetchOk(j, c) PROVE TypeOK'
  <2>1. pc' \in [Sessions -> Labels]
    BY <1>5, <1>c, <1>d, <1>e DEF FetchOk
  <2>2. cur' \in [Jobs -> Contracts \cup {None}] /\ found' \in [Jobs -> SUBSET Items]
    BY <1>5, <1>a DEF FetchOk
  <2> QED
    BY <1>5, <1>a, <1>b, <2>1, <2>2 DEF FetchOk
<1>6. ASSUME NEW j \in TierJobs, NEW c \in Contracts, NEW l \in {"raised", "failed"},
             FetchFails(j, c, l)
      PROVE  TypeOK'
  <2>1. pc' \in [Sessions -> Labels]
    BY <1>6, <1>c, <1>d, <1>e DEF FetchFails
  <2>2. cur' \in [Jobs -> Contracts \cup {None}]
    BY <1>6, <1>a, <1>c DEF FetchFails
  <2>3. faults' \in 0..MaxFaults
    BY <1>6, <1>a, MoreFaults DEF FetchFails
  <2> QED
    BY <1>6, <1>a, <1>b, <2>1, <2>2, <2>3 DEF FetchFails
<1>7. ASSUME NEW j \in Jobs, NEW c \in Contracts, SkipFetch(j, c) PROVE TypeOK'
  <2>1. pc' \in [Sessions -> Labels]
    BY <1>7, <1>c, <1>d, <1>e DEF SkipFetch
  <2>2. cur' \in [Jobs -> Contracts \cup {None}]
    BY <1>7, <1>a DEF SkipFetch
  <2> QED
    BY <1>7, <1>a, <1>b, <2>1, <2>2 DEF SkipFetch
<1>8. ASSUME NEW j \in Jobs, WaitForRow(j) PROVE TypeOK'
  <2>1. PICK c \in Contracts : c = cur[j]
    BY <1>8, Current DEF WaitForRow, Working
  <2>2. Append(lock[c], j) \in Seq(Jobs)
    BY <1>a
  <2>3. lock' \in [Contracts -> Seq(Jobs)]
    BY <1>8, <1>a, <2>1, <2>2 DEF WaitForRow
  <2> QED
    BY <1>8, <1>a, <1>b, <2>3 DEF WaitForRow
<1>9. ASSUME NEW j \in Jobs, MarkFailed(j) \/ MarkFetched(j) PROVE TypeOK'
  <2>1. pc[j] \in Marking
    BY <1>9 DEF MarkFailed, MarkFetched, Marking
  <2>2. PICK c \in Contracts : c = cur[j]
    BY <2>1, Current DEF Working
  <2>3. PICK new \in Health : UpdateHealth(j, new)
    BY <1>9, <2>2, MarkedHealth DEF MarkFailed, MarkFetched
  <2>4. streak' \in [Contracts -> Nat]
    <3>1. streak' = streak \/ streak' = [streak EXCEPT ![c] = streak[c] + 1]
      BY <1>9, <1>a, <2>2 DEF MarkFailed, MarkFetched
    <3>2. streak[c] + 1 \in Nat
      BY <1>a
    <3> QED
      BY <1>a, <3>1, <3>2
  <2> QED
    BY <2>1, <2>3, <2>4, UpdateHealthTypes
<1>10. ASSUME NEW j \in Jobs, FilterDuplicates(j) PROVE TypeOK'
  <2>1. pc' \in [Sessions -> Labels]
    BY <1>10, <1>c, <1>d, <1>e DEF FilterDuplicates
  <2>2. found' \in [Jobs -> SUBSET Items]
    BY <1>10, <1>a DEF FilterDuplicates
  <2> QED
    BY <1>10, <1>a, <1>b, <2>1, <2>2 DEF FilterDuplicates
<1>11. ASSUME NEW j \in Jobs, Insert(j) PROVE TypeOK'
  <2>1. pc' \in [Sessions -> Labels]
    BY <1>11, <1>c, <1>d, <1>e DEF Insert
  <2>2. Inserts(j) \subseteq Signals
    BY <1>11, <1>a, Current DEF Insert, Inserts, Signals, Working
  <2>3. own' \in [Jobs -> SUBSET Signals]
    BY <1>11, <1>a, <2>2 DEF Insert
  <2> QED
    BY <1>11, <1>a, <1>b, <2>1, <2>3 DEF Insert
<1>12. ASSUME NEW j \in Jobs, Commit(j) PROVE TypeOK'
  <2>1. row' \in [Contracts -> Health]
    BY <1>12, <1>a, <1>c DEF Commit
  <2>2. stored' \in [Signals -> Nat]
    BY <1>12, <1>a DEF Commit
  <2>3. streak' \in [Contracts -> Nat]
    BY <1>12, <1>a DEF Commit
  <2>4. UNCHANGED <<published, faults, stale>>
    BY <1>12 DEF Commit
  <2> QED
    BY <1>12, <1>a, <1>b, <2>1, <2>2, <2>3, <2>4, ForgetTypes DEF Commit
<1>13. ASSUME NEW j \in Jobs, RollBack(j), faults' \in 0..MaxFaults PROVE TypeOK'
  <2>1. UNCHANGED <<row, stored, published, streak, stale>>
    BY <1>13 DEF RollBack
  <2> QED
    BY <1>13, <1>a, <1>b, <2>1, ForgetTypes DEF RollBack
<1>14. ASSUME NEW j \in Jobs, InsertConflicts(j) \/ DeadlockVictim(j) \/ Abort(j) PROVE TypeOK'
  <2>1. RollBack(j) /\ faults' \in 0..MaxFaults
    BY <1>14, <1>a, MoreFaults DEF InsertConflicts, DeadlockVictim, Abort
  <2> QED
    BY <1>13, <2>1
<1>15. ASSUME NEW a \in Admins, NEW c \in Contracts, AdminLoad(a, c) PROVE TypeOK'
  <2>1. pc' \in [Sessions -> Labels]
    BY <1>15, <1>c, <1>d, <1>e DEF AdminLoad
  <2>2. todo' \in [Sessions -> SUBSET Contracts] /\ view' \in [Sessions -> [Contracts -> Health]]
    BY <1>15, <1>a, <1>c DEF AdminLoad
  <2> QED
    BY <1>15, <1>a, <1>b, <2>1, <2>2 DEF AdminLoad
<1>16. ASSUME NEW a \in Admins, NEW c \in Contracts, NEW new \in AdminVersions(view[a][c]),
              AdminWrite(a, c, new)
       PROVE  TypeOK'
  <2>1. pc' \in [Sessions -> Labels]
    BY <1>16, <1>c, <1>d, <1>e DEF AdminWrite
  <2>2. view[a][c] \in Health /\ row[c] \in Health /\ new \in Health
    <3>1. view[a][c] \in Health /\ row[c] \in Health /\ 0 \in Nat
      BY <1>a, <1>c
    <3> QED
      BY <1>16, <3>1, AdminHealth
  <2>3. row' \in [Contracts -> Health]
    BY <1>16, <1>a, <2>2, WrittenHealth DEF AdminWrite
  <2>4. todo' \in [Sessions -> SUBSET Contracts] /\ view' \in [Sessions -> [Contracts -> Health]]
        /\ stale' \subseteq Contracts
    BY <1>16, <1>a, <1>c, HealthyType DEF AdminWrite
  <2> QED
    BY <1>16, <1>a, <1>b, <2>1, <2>3, <2>4 DEF AdminWrite
<1> QED
  BY <1>1, <1>2, <1>3, <1>4, <1>5, <1>6, <1>7, <1>8, <1>9, <1>10, <1>11, <1>12, <1>14, <1>15, <1>16
     DEF Next, JobStep, AdminStep

-----------------------------------------------------------------------------
(* The invariant, step by step                                             *)

\* No job but s has moved.
OthersKeep(s) ==
    \A k \in Jobs \ {s} :
       /\ pc'[k] = pc[k] /\ cur'[k] = cur[k] /\ todo'[k] = todo[k]
       /\ own'[k] = own[k] /\ view'[k] = view[k]

LEMMA RowsTyped ==
  ASSUME TypeOK, NEW c \in Contracts
  PROVE  /\ row[c] \in Health /\ streak[c] \in Nat /\ lock[c] \in Seq(Jobs)
         /\ DOMAIN lock[c] = 1..Len(lock[c]) /\ Len(lock[c]) \in Nat
         /\ \A n \in DOMAIN lock[c] : lock[c][n] \in Jobs
         /\ \A j \in Jobs : view[j][c] \in Health
<1>1. row[c] \in Health /\ streak[c] \in Nat /\ lock[c] \in Seq(Jobs)
  BY Types
<1>2. \A j \in Jobs : view[j][c] \in Health
  BY Types DEF Sessions
<1> QED
  BY <1>1, <1>2, LenProperties, ElementOfSeq

\* A step of one session that touches no row, no lock and no signal, and loads no more
\* than what the rows are.
LEMMA QuietStep ==
  ASSUME IInv, TypeOK', NEW s, OthersKeep(s),
         UNCHANGED <<lock, stored, row, streak, stale>>,
         s \in Jobs =>
            /\ pc[s] \notin Marking /\ own'[s] = own[s]
            /\ \A c \in Contracts : view'[s][c] \in {view[s][c], row[c]}
            /\ pc'[s] \in Working => cur'[s] \in todo'[s]
            /\ pc'[s] \in {"filter", "insert"} => cur'[s] \notin Webhooks
            /\ pc'[s] \in {"idle", "done"} => own[s] = {}
            /\ own[s] = {} \/ (todo'[s] = todo[s] /\ view'[s] = view[s])
  PROVE  IInv'
<1>1. TypeOK /\ StoreInv /\ QueueInv /\ HealthInv /\ OwnInv
  BY DEF IInv
<1>2. ASSUME NEW k \in Jobs, NEW c \in Contracts, InHand(k, c) PROVE InHand(k, c)' /\ k # s
  BY <1>2 DEF InHand, OthersKeep
<1>3. \A k \in Jobs, c \in Contracts : Holds(k, c)' <=> Holds(k, c)
  BY DEF Holds
<1>4. StoreInv'
  <2>1. own' = own
    <3>1. \A k \in Jobs : own'[k] = own[k]
      BY DEF OthersKeep
    <3> QED
      BY <1>1, <3>1 DEF TypeOK
  <2> QED
    BY <1>1, <2>1 DEF StoreInv
<1>5. QueueInv'
  <2>1. ASSUME NEW c \in Contracts, NEW n \in DOMAIN lock[c], n >= 2 PROVE InHand(lock[c][n], c)'
    <3>1. PICK k \in Jobs : k = lock[c][n]
      BY <1>1, RowsTyped
    <3>2. InHand(k, c)
      BY <1>1, <2>1, <3>1 DEF QueueInv
    <3>3. InHand(k, c)' /\ lock'[c][n] = k
      BY <1>2, <3>1, <3>2
    <3> QED
      BY <3>1, <3>3 DEF InHand
  <2> QED
    BY <1>1, <2>1 DEF QueueInv, Distinct, InHand
<1>6. HealthInv'
  <2>1. ASSUME NEW k \in Jobs, NEW c \in Contracts, Holds(k, c)
        PROVE  \/ InHand(k, c)'
               \/ /\ view'[k][c].active = row'[c].active
                  /\ c \notin stale' => HealthOK(view'[k][c], streak'[c])
    <3>1. CASE InHand(k, c)
      BY <1>2, <3>1
    <3>2. CASE ~ InHand(k, c) /\ view'[k][c] = row[c]
      BY <1>1, <3>2 DEF HealthInv
    <3>3. CASE ~ InHand(k, c) /\ view'[k][c] = view[k][c]
      BY <1>1, <2>1, <3>3 DEF HealthInv
    <3>4. view'[k][c] \in {view[k][c], row[c]}
      BY DEF OthersKeep
    <3> QED
      BY <3>1, <3>2, <3>3, <3>4
  <2>2. \A c \in Contracts \ stale' : HealthOK(row'[c], streak'[c])
    BY <1>1 DEF HealthInv
  <2> QED
    BY <1>3, <2>1, <2>2 DEF HealthInv, HealthOK, InHand
<1>7. ASSUME NEW k \in Jobs, k # s
      PROVE  /\ pc'[k] \in Working => cur'[k] \in todo'[k]
             /\ pc'[k] \in {"filter", "insert"} => cur'[k] \notin Webhooks
             /\ pc'[k] \in {"idle", "done"} => own'[k] = {}
             /\ \A x \in own'[k] : /\ x[1] \notin Webhooks
                                   /\ Recorded(k, x[1])' \/ (cur'[k] = x[1] /\ pc'[k] = "mark")
  <2>1. /\ pc'[k] = pc[k] /\ cur'[k] = cur[k] /\ todo'[k] = todo[k]
        /\ own'[k] = own[k] /\ view'[k] = view[k]
    BY <1>7 DEF OthersKeep
  <2> QED
    BY <1>1, <2>1 DEF OwnInv, Recorded, Holds
<1>8. ASSUME s \in Jobs
      PROVE  \A x \in own'[s] : /\ x[1] \notin Webhooks
                                /\ Recorded(s, x[1])' \/ (cur'[s] = x[1] /\ pc'[s] = "mark")
  <2> SUFFICES ASSUME NEW x \in own[s] PROVE x[1] \notin Webhooks /\ Recorded(s, x[1])'
    BY <1>8
  <2>1. todo'[s] = todo[s] /\ view'[s] = view[s] /\ pc[s] # "mark"
    BY <1>8 DEF Marking
  <2>2. x[1] \notin Webhooks /\ Recorded(s, x[1])
    BY <1>1, <1>8, <2>1 DEF OwnInv
  <2> QED
    BY <2>1, <2>2 DEF Recorded, Holds
<1>9. OwnInv'
  BY <1>7, <1>8 DEF OwnInv
<1> QED
  BY <1>4, <1>5, <1>6, <1>9 DEF IInv

\* What OwnInv says of one job.
OwnOK(k) ==
    /\ pc[k] \in Working => cur[k] \in todo[k]
    /\ pc[k] \in {"filter", "insert"} => cur[k] \notin Webhooks
    /\ pc[k] \in {"idle", "done"} => own[k] = {}
    /\ \A s \in own[k] : /\ s[1] \notin Webhooks
                         /\ Recorded(k, s[1]) \/ (cur[k] = s[1] /\ pc[k] = "mark")

\* The insert waited for every job that has the same content, and none is stored.
LEMMA InsertStep ==
  ASSUME IInv, TypeOK', NEW j \in Jobs, Insert(j)
  PROVE  IInv'
<1>1. TypeOK /\ StoreInv /\ QueueInv /\ HealthInv /\ OwnInv
  BY DEF IInv
<1>2. /\ pc[j] = "insert" /\ pc' = [pc EXCEPT ![j] = "mark"] /\ j \in Sessions
      /\ own' = [own EXCEPT ![j] = @ \cup Inserts(j)]
      /\ \A k \in Jobs \ {j} : own[k] \cap Inserts(j) = {}
      /\ \A s \in Inserts(j) : stored[s] = 0
      /\ UNCHANGED <<row, lock, stored, todo, cur, view, streak, stale>>
  BY DEF Insert, Goto, InsertWaitsFor, Sessions
<1>3. /\ pc'[j] = "mark" /\ own'[j] = own[j] \cup Inserts(j)
      /\ \A k \in Jobs \ {j} : pc'[k] = pc[k] /\ own'[k] = own[k]
  BY <1>1, <1>2 DEF TypeOK
<1>4. StoreInv'
  <2>1. \A s \in Signals : stored'[s] <= 1
    BY <1>1, <1>2 DEF StoreInv
  <2>2. \A k \in Jobs : \A s \in own'[k] : stored'[s] = 0
    BY <1>1, <1>2, <1>3 DEF StoreInv
  <2>3. \A k, l \in Jobs : k # l => own'[k] \cap own'[l] = {}
    BY <1>1, <1>2, <1>3 DEF StoreInv
  <2> QED
    BY <2>1, <2>2, <2>3 DEF StoreInv
<1>5. ASSUME NEW k \in Jobs, NEW c \in Contracts, InHand(k, c) PROVE InHand(k, c)'
  BY <1>2, <1>3, <1>5 DEF InHand, Marking
<1>6. QueueInv'
  <2>1. ASSUME NEW c \in Contracts, NEW n \in DOMAIN lock[c], n >= 2 PROVE InHand(lock[c][n], c)'
    <3>1. PICK k \in Jobs : k = lock[c][n]
      BY <1>1, RowsTyped
    <3>2. InHand(k, c)'
      BY <1>1, <1>5, <2>1, <3>1 DEF QueueInv
    <3> QED
      BY <1>2, <3>1, <3>2 DEF InHand
  <2> QED
    BY <1>1, <1>2, <2>1 DEF QueueInv, Distinct, InHand
<1>7. HealthInv'
  <2>1. \A k \in Jobs, c \in Contracts : Holds(k, c)' <=> Holds(k, c)
    BY <1>2 DEF Holds
  <2> QED
    BY <1>1, <1>2, <1>5, <2>1 DEF HealthInv, HealthOK
<1>8. ASSUME NEW k \in Jobs PROVE OwnOK(k)'
  <2>1. CASE k # j
    BY <1>1, <1>2, <1>3, <2>1 DEF OwnInv, OwnOK, Recorded, Holds
  <2>2. CASE k = j
    <3>1. cur[j] \in todo[j] /\ cur[j] \notin Webhooks
      BY <1>1, <1>2 DEF OwnInv, Working
    <3>2. \A s \in own[j] : s[1] \notin Webhooks /\ Recorded(j, s[1])'
      BY <1>1, <1>2 DEF OwnInv, Recorded, Holds
    <3>3. \A s \in Inserts(j) : s[1] = cur[j]
      BY DEF Inserts
    <3>4. \A s \in own'[j] : /\ s[1] \notin Webhooks
                             /\ Recorded(j, s[1])' \/ (cur'[j] = s[1] /\ pc'[j] = "mark")
      BY <1>2, <1>3, <3>1, <3>2, <3>3
    <3> QED
      BY <1>2, <1>3, <2>2, <3>1, <3>4 DEF OwnOK
  <2> QED
    BY <2>1, <2>2
<1> QED
  BY <1>4, <1>6, <1>7, <1>8 DEF IInv, OwnInv, OwnOK

\* A job that finds the row locked stands behind the first, about to write.
LEMMA WaitStep ==
  ASSUME IInv, TypeOK', NEW j \in Jobs, WaitForRow(j)
  PROVE  IInv'
<1>1. TypeOK /\ StoreInv /\ QueueInv /\ HealthInv /\ OwnInv
  BY DEF IInv
<1>2. PICK d \in Contracts : d = cur[j]
  BY Current DEF WaitForRow, Working
<1>3. /\ pc[j] \in Marking /\ lock[d] # <<>> /\ ~ Waits(j, d) /\ InHand(j, d)
      /\ lock' = [lock EXCEPT ![d] = Append(lock[d], j)]
      /\ UNCHANGED <<row, stored, pc, todo, cur, own, view, streak, stale>>
  BY <1>2 DEF WaitForRow, InHand
<1>4. \A c \in Contracts \ {d} : lock'[c] = lock[c]
  BY <1>1, <1>3 DEF TypeOK
<1> DEFINE q == lock[d]
           r == lock'[d]
<1>5. /\ q \in Seq(Jobs) /\ Len(q) \in Nat /\ DOMAIN q = 1..Len(q) /\ r = Append(q, j)
  BY <1>1, <1>3, RowsTyped DEF TypeOK
<1>6. /\ r # <<>> /\ Len(r) = Len(q) + 1 /\ Head(r) = Head(q) /\ DOMAIN r = 1..(Len(q) + 1)
      /\ \A n \in 1..Len(q) : r[n] = q[n]
      /\ r[Len(q) + 1] = j
  <2>1. r \in Seq(Jobs)
    BY <1>5, AppendProperties
  <2>2. DOMAIN r = 1..Len(r)
    BY <2>1, LenProperties
  <2>3. Head(r) = Head(q)
    BY <1>3, <1>5, HeadTailAppend
  <2> QED
    BY <1>5, <2>2, <2>3, AppendProperties
<1>7. \A k \in Jobs, c \in Contracts : Holds(k, c)' <=> Holds(k, c)
  BY <1>3, <1>4, <1>6 DEF Holds
<1>8. ASSUME NEW c \in Contracts
      PROVE  /\ Distinct(lock'[c])
             /\ \A n \in DOMAIN lock'[c] : n >= 2 => InHand(lock'[c][n], c)
  <2>1. CASE c # d
    BY <1>1, <1>4, <2>1 DEF QueueInv
  <2>2. CASE c = d
    <3>1. \A n \in 1..Len(q) : q[n] # j
      BY <1>3, <1>5 DEF Waits
    <3>2. \A n \in 1..(Len(q) + 1) : n \in 1..Len(q) \/ n = Len(q) + 1
      BY <1>5
    <3>3. Distinct(q)
      BY <1>1 DEF QueueInv
    <3> HIDE DEF q, r
    <3>4. Distinct(r)
      BY <1>5, <1>6, <3>1, <3>2, <3>3 DEF Distinct
    <3>5. \A n \in DOMAIN r : n >= 2 => (n \in DOMAIN q /\ r[n] = q[n]) \/ r[n] = j
      BY <1>5, <1>6, <3>2
    <3> USE DEF q, r
    <3> QED
      BY <1>1, <1>3, <2>2, <3>4, <3>5 DEF QueueInv
  <2> QED
    BY <2>1, <2>2
<1>9. QueueInv'
  BY <1>3, <1>8 DEF QueueInv, InHand, Distinct
<1>10. StoreInv' /\ HealthInv' /\ OwnInv'
  <2>1. StoreInv'
    BY <1>1, <1>3 DEF StoreInv
  <2>2. HealthInv'
    BY <1>1, <1>3, <1>7 DEF HealthInv, HealthOK, InHand
  <2>3. OwnInv'
    <3>1. \A k \in Jobs, c \in Contracts : Recorded(k, c) => Recorded(k, c)'
      BY <1>3, <1>7 DEF Recorded
    <3>2. \A k \in Jobs : \A s \in own[k] : s[1] \in Contracts
      BY <1>1 DEF TypeOK, Signals
    <3> QED
      BY <1>1, <1>3, <3>1, <3>2 DEF OwnInv
  <2> QED
    BY <2>1, <2>2, <2>3
<1> QED
  BY <1>9, <1>10 DEF IInv

\* More failed fetches account for no fewer failures.
LEMMA HealthOKMore ==
  ASSUME NEW v \in Health, NEW m \in Nat, NEW n \in Nat, m <= n, HealthOK(v, m)
  PROVE  HealthOK(v, n)
  BY HealthFields DEF HealthOK

\* A job writes a row: it stands alone, or first, in the queue, and knows the row it
\* has written from here on.
LEMMA UpdateStep ==
  ASSUME AcquisitionAssumption, IInv, TypeOK', NEW j \in Jobs, NEW c \in Contracts, c = cur[j],
         pc[j] \in Marking, NEW new \in Health, UpdateHealth(j, new),
         new.active = row[c].active, \A d \in Contracts : streak[d] <= streak'[d],
         c \notin stale /\ view[j][c] = row[c] => HealthOK(new, streak'[c]),
         view[j][c] = row[c] /\ pc[j] = "mark" /\ c \notin Webhooks =>
            new.failures = 0 /\ new.status = "active"
  PROVE  IInv'
<1>1. TypeOK /\ StoreInv /\ QueueInv /\ HealthInv /\ OwnInv
  BY DEF IInv
<1>2. /\ lock[c] = <<>> \/ Holds(j, c)
      /\ lock' = [lock EXCEPT ![c] = IF @ = <<>> THEN <<j>> ELSE @]
      /\ view' = [view EXCEPT ![j][c] = new]
      /\ stale' = IF view[j][c] = row[c] THEN stale ELSE stale \cup {c}
      /\ todo' = [todo EXCEPT ![j] = @ \ {c}] /\ cur' = [cur EXCEPT ![j] = None]
      /\ pc' = [pc EXCEPT ![j] = "loop"] /\ UNCHANGED <<row, stored, own>>
  BY DEF UpdateHealth, Goto
<1>3. /\ j \in Sessions /\ pc'[j] = "loop" /\ todo'[j] = todo[j] \ {c} /\ view'[j][c] = new
      /\ \A d \in Contracts \ {c} : view'[j][d] = view[j][d] /\ lock'[d] = lock[d]
      /\ \A k \in Jobs \ {j} : /\ pc'[k] = pc[k] /\ cur'[k] = cur[k] /\ todo'[k] = todo[k]
                               /\ view'[k] = view[k]
  BY <1>1, <1>2 DEF TypeOK, Sessions
<1>4. lock'[c] = IF lock[c] = <<>> THEN <<j>> ELSE lock[c]
  BY <1>1, <1>2 DEF TypeOK
<1>5. stale \subseteq stale' /\ (c \notin stale' => c \notin stale /\ view[j][c] = row[c])
  BY <1>2
<1>6. ASSUME NEW k \in Jobs, NEW d \in Contracts
      PROVE  /\ Holds(k, d) => Holds(k, d)'
             /\ Holds(k, d)' => Holds(k, d) \/ (k = j /\ d = c)
             /\ Holds(k, c)' => k = j
  BY <1>2, <1>3, <1>4 DEF Holds
<1>7. ASSUME NEW k \in Jobs \ {j}, NEW d \in Contracts, InHand(k, d) PROVE InHand(k, d)'
  BY <1>3, <1>7 DEF InHand
<1>8. Holds(j, c)'
  BY <1>2, <1>4 DEF Holds
<1>9. ASSUME NEW d \in Contracts
      PROVE  /\ Distinct(lock'[d])
             /\ \A n \in DOMAIN lock'[d] : n >= 2 => InHand(lock[d][n], d)'
  <2>1. CASE lock'[d] = lock[d]
    <3>1. ASSUME NEW n \in DOMAIN lock[d], n >= 2, lock[d][n] = j PROVE FALSE
      <4>1. InHand(j, d)
        BY <1>1, <3>1 DEF QueueInv
      <4>2. d = c /\ lock[c] # <<>>
        BY <1>1, <3>1, <4>1, RowsTyped DEF InHand
      <4>3. lock[c] # <<>> /\ lock[c][1] = j /\ 1 \in DOMAIN lock[c]
        BY <1>1, <1>2, <4>2, RowsTyped DEF Holds
      <4> QED
        BY <1>1, <3>1, <4>2, <4>3 DEF QueueInv, Distinct
    <3>2. ASSUME NEW n \in DOMAIN lock[d], n >= 2 PROVE InHand(lock[d][n], d) /\ lock[d][n] \in Jobs \ {j}
      BY <1>1, <3>1, <3>2, RowsTyped DEF QueueInv
    <3>3. ASSUME NEW n \in DOMAIN lock'[d], n >= 2 PROVE InHand(lock[d][n], d)'
      <4>1. PICK k \in Jobs \ {j} : k = lock[d][n] /\ InHand(k, d)
        BY <2>1, <3>2, <3>3
      <4>2. InHand(k, d)' /\ lock'[d][n] = k
        BY <1>7, <2>1, <4>1
      <4> QED
        BY <4>2 DEF InHand
    <3> QED
      BY <1>1, <2>1, <3>3 DEF QueueInv
  <2>2. CASE lock'[d] = <<j>>
    BY <2>2 DEF Distinct
  <2> QED
    BY <1>3, <1>4, <2>1, <2>2
<1>10. QueueInv'
  BY <1>9 DEF QueueInv, Distinct
<1>11. ASSUME NEW k \in Jobs, NEW d \in Contracts, Holds(k, d)'
       PROVE  \/ InHand(k, d)'
              \/ /\ view'[k][d].active = row'[d].active
                 /\ d \notin stale' => HealthOK(view'[k][d], streak'[d])
  <2>1. CASE d = c
    BY <1>2, <1>3, <1>5, <1>6, <1>11, <2>1
  <2>2. CASE d # c
    <3>1. Holds(k, d) /\ view'[k][d] = view[k][d] /\ ~ InHand(j, d)
      BY <1>3, <1>6, <1>11, <2>2 DEF InHand
    <3>2. InHand(k, d) => InHand(k, d)'
      BY <1>7, <3>1
    <3>3. view[k][d] \in Health /\ streak[d] \in Nat /\ streak'[d] \in Nat
      BY <1>1, RowsTyped DEF TypeOK
    <3>4. \/ InHand(k, d)
          \/ /\ view[k][d].active = row[d].active
             /\ d \notin stale => HealthOK(view[k][d], streak[d])
      BY <1>1, <3>1 DEF HealthInv
    <3>5. HealthOK(view[k][d], streak[d]) => HealthOK(view[k][d], streak'[d])
      BY <3>3, HealthOKMore
    <3> QED
      BY <1>2, <1>5, <3>1, <3>2, <3>4, <3>5
  <2> QED
    BY <2>1, <2>2
<1>12. ASSUME NEW d \in Contracts \ stale' PROVE HealthOK(row'[d], streak'[d])
  <2>1. row[d] \in Health /\ streak[d] \in Nat /\ streak'[d] \in Nat /\ HealthOK(row[d], streak[d])
    BY <1>1, <1>5, RowsTyped DEF TypeOK, HealthInv
  <2> QED
    BY <1>2, <2>1, HealthOKMore
<1>13. HealthInv'
  BY <1>11, <1>12 DEF HealthInv, HealthOK, InHand
<1>14. ASSUME NEW k \in Jobs PROVE OwnOK(k)'
  <2>a. OwnOK(k) /\ \A s \in own[k] : s[1] \in Contracts
    BY <1>1 DEF OwnInv, OwnOK, TypeOK, Signals
  <2>1. CASE k # j
    <3>1. \A d \in Contracts : Recorded(k, d) => Recorded(k, d)'
      BY <1>3, <1>5, <1>6, <2>1 DEF Recorded
    <3> QED
      BY <1>2, <1>3, <2>a, <2>1, <3>1 DEF OwnOK
  <2>2. CASE k = j
    <3>1. ASSUME NEW s \in own[j], s[1] # c PROVE Recorded(j, s[1])'
      <4>1. s[1] \in Contracts /\ Recorded(j, s[1])
        BY <2>a, <2>2, <3>1 DEF OwnOK
      <4> QED
        BY <1>3, <1>5, <1>6, <3>1, <4>1 DEF Recorded
    <3>2. ASSUME NEW s \in own[j], s[1] = c PROVE Recorded(j, s[1])'
      <4>1. c \in todo[j] /\ c \notin Webhooks /\ pc[j] = "mark"
        BY <2>a, <2>2, <3>2 DEF OwnOK, Recorded, Working
      <4>2. c \notin stale' => new.failures = 0 /\ new.status = "active"
        BY <1>5, <4>1
      <4> QED
        BY <1>3, <1>8, <3>2, <4>2 DEF Recorded
    <3>3. \A s \in own[j] : s[1] \notin Webhooks /\ Recorded(j, s[1])'
      BY <2>a, <2>2, <3>1, <3>2 DEF OwnOK
    <3> QED
      BY <1>2, <1>3, <2>2, <3>3 DEF OwnOK, Working, Marking
  <2> QED
    BY <2>1, <2>2
<1>15. StoreInv'
  BY <1>1, <1>2 DEF StoreInv
<1> QED
  BY <1>10, <1>13, <1>14, <1>15 DEF IInv, OwnInv, OwnOK

\* The end of a session: whoever comes to the front of a queue has not written yet.
LEMMA EndStep ==
  ASSUME IInv, TypeOK', NEW j \in Jobs, Forget(j), Unlock(j), UNCHANGED stale, StoreInv',
         \A c \in Contracts \ stale : HealthOK(row'[c], streak'[c]),
         \A k \in Jobs \ {j}, c \in Contracts :
            Holds(k, c) => row'[c] = row[c] /\ streak'[c] = streak[c]
  PROVE  IInv'
<1>1. TypeOK /\ QueueInv /\ HealthInv /\ OwnInv
  BY DEF IInv
<1>2. /\ own'[j] = {} /\ cur'[j] = None /\ pc'[j] \in {"idle", "done"}
      /\ \A k \in Jobs \ {j} : /\ pc'[k] = pc[k] /\ cur'[k] = cur[k] /\ todo'[k] = todo[k]
                               /\ own'[k] = own[k] /\ view'[k] = view[k]
  BY <1>1 DEF Forget, Goto, TypeOK, Sessions
<1>3. ASSUME NEW k \in Jobs \ {j}, NEW c \in Contracts, InHand(k, c) PROVE InHand(k, c)'
  BY <1>2, <1>3 DEF InHand
<1>4. ASSUME NEW c \in Contracts
      PROVE  /\ Distinct(lock'[c]) /\ \A n \in DOMAIN lock'[c] : lock'[c][n] # j
             /\ \A n \in DOMAIN lock'[c] : n >= 2 =>
                   \E m \in DOMAIN lock[c] : m >= 2 /\ lock'[c][n] = lock[c][m]
  BY <1>1, QueueAfter DEF QueueInv
<1>5. ASSUME NEW c \in Contracts, NEW m \in DOMAIN lock[c], m >= 2
      PROVE  lock[c][m] \in Jobs /\ InHand(lock[c][m], c)
  BY <1>1, <1>5, RowsTyped DEF QueueInv
<1>6. ASSUME NEW c \in Contracts, NEW n \in DOMAIN lock'[c], n >= 2 PROVE InHand(lock[c][n], c)'
  <2>1. PICK m \in DOMAIN lock[c] : m >= 2 /\ lock'[c][n] = lock[c][m]
    BY <1>4, <1>6
  <2>2. PICK k \in Jobs : k = lock[c][m] /\ InHand(k, c)
    BY <1>5, <2>1
  <2>3. k # j /\ lock'[c][n] = k
    BY <1>4, <2>1, <2>2
  <2>4. InHand(k, c)'
    BY <1>3, <2>2, <2>3
  <2> QED
    BY <2>3, <2>4 DEF InHand
<1>7. QueueInv'
  BY <1>4, <1>6 DEF QueueInv, Distinct
<1>8. ASSUME NEW k \in Jobs, NEW c \in Contracts, Holds(k, c)'
      PROVE  k # j /\ (Holds(k, c) \/ InHand(k, c)')
  <2>1. lock'[c] \in Seq(Jobs) /\ lock'[c] # <<>> /\ Head(lock'[c]) = k
    BY <1>8 DEF TypeOK, Holds
  <2>2. 1 \in DOMAIN lock'[c] /\ lock'[c][1] = k
    BY <2>1, LenProperties
  <2>3. k # j
    BY <1>4, <2>2
  <2>4. Holds(k, c) \/ \E m \in DOMAIN lock[c] : m >= 2 /\ lock[c][m] = k
    BY <1>1, <1>8, QueueAfter
  <2>5. Holds(k, c) \/ InHand(k, c)
    BY <1>5, <2>4
  <2> QED
    BY <1>3, <2>3, <2>5
<1>9. ASSUME NEW k \in Jobs, NEW c \in Contracts, Holds(k, c)'
      PROVE  \/ InHand(k, c)'
             \/ /\ view'[k][c].active = row'[c].active
                /\ c \notin stale' => HealthOK(view'[k][c], streak'[c])
  <2>1. CASE Holds(k, c)
    <3>1. k # j /\ row'[c] = row[c] /\ streak'[c] = streak[c] /\ view'[k] = view[k]
      BY <1>2, <1>8, <1>9, <2>1
    <3>2. InHand(k, c) => InHand(k, c)'
      BY <1>3, <3>1
    <3> QED
      BY <1>1, <2>1, <3>1, <3>2 DEF HealthInv
  <2>2. CASE ~ Holds(k, c)
    BY <1>8, <1>9, <2>2
  <2> QED
    BY <2>1, <2>2
<1>10. HealthInv'
  BY <1>9 DEF HealthInv, HealthOK, InHand
<1>11. ASSUME NEW k \in Jobs PROVE OwnOK(k)'
  <2>1. CASE k = j
    BY <1>2, <2>1 DEF OwnOK, Working, Marking
  <2>2. CASE k # j
    <3>1. OwnOK(k) /\ \A s \in own[k] : s[1] \in Contracts
      BY <1>1 DEF OwnInv, OwnOK, TypeOK, Signals
    <3>2. \A c \in Contracts : Recorded(k, c) => Recorded(k, c)'
      <4>1. \A c \in Contracts : Holds(k, c) => Holds(k, c)'
        BY <1>1, <2>2, QueueAfter
      <4> QED
        BY <1>2, <2>2, <4>1 DEF Recorded
    <3> QED
      BY <1>2, <2>2, <3>1, <3>2 DEF OwnOK
  <2> QED
    BY <2>1, <2>2
<1> QED
  BY <1>7, <1>10, <1>11 DEF IInv, OwnInv, OwnOK

\* A commit writes the rows the session holds, which it knows, and its signals.
LEMMA CommitStep ==
  ASSUME AcquisitionAssumption, IInv, TypeOK', NEW j \in Jobs, Commit(j)
  PROVE  /\ IInv'
         /\ \A c \in Contracts : row'[c] = row[c] \/ row'[c].active = row[c].active
         /\ \A s \in Signals : stored'[s] > stored[s] /\ s[1] \notin stale =>
               row'[s[1]].failures = 0 /\ row'[s[1]].status = "active"
<1>1. TypeOK /\ StoreInv /\ QueueInv /\ HealthInv /\ OwnInv
  BY DEF IInv
<1>2. /\ pc[j] = "loop" /\ Unlock(j) /\ Forget(j) /\ UNCHANGED stale
      /\ \A c \in Contracts : row'[c] = IF Holds(j, c) THEN view[j][c] ELSE row[c]
      /\ \A s \in Signals : stored'[s] = IF s \in own[j] THEN stored[s] + 1 ELSE stored[s]
      /\ \A c \in Contracts : streak'[c] =
            IF Holds(j, c) /\ c \notin Webhooks /\ view[j][c].failures = 0 THEN 0 ELSE streak[c]
  BY DEF Commit
<1>3. ASSUME NEW c \in Contracts, Holds(j, c)
      PROVE  /\ view[j][c].active = row[c].active
             /\ c \notin stale => HealthOK(view[j][c], streak[c])
  <2>1. ~ InHand(j, c)
    BY <1>2 DEF InHand, Marking
  <2> QED
    BY <1>1, <1>3, <2>1 DEF HealthInv
<1>4. ASSUME NEW c \in Contracts \ stale PROVE HealthOK(row'[c], streak'[c])
  <2>1. CASE Holds(j, c) /\ c \notin Webhooks /\ view[j][c].failures = 0
    <3>1. row'[c] = view[j][c] /\ streak'[c] = 0 /\ HealthOK(view[j][c], streak[c])
      BY <1>2, <1>3, <1>4, <2>1
    <3> QED
      BY <2>1, <3>1 DEF HealthOK
  <2>2. CASE Holds(j, c) /\ ~ (c \notin Webhooks /\ view[j][c].failures = 0)
    <3>1. row'[c] = view[j][c] /\ streak'[c] = streak[c]
      BY <1>2, <2>2
    <3> QED
      BY <1>3, <1>4, <2>2, <3>1
  <2>3. CASE ~ Holds(j, c)
    <3>1. row'[c] = row[c] /\ streak'[c] = streak[c]
      BY <1>2, <2>3
    <3> QED
      BY <1>1, <1>4, <3>1 DEF HealthInv
  <2> QED
    BY <2>1, <2>2, <2>3
<1>5. ASSUME NEW k \in Jobs \ {j}, NEW c \in Contracts, Holds(k, c)
      PROVE  row'[c] = row[c] /\ streak'[c] = streak[c]
  BY <1>2, <1>5 DEF Holds
<1>6. own'[j] = {} /\ \A k \in Jobs \ {j} : own'[k] = own[k]
  BY <1>1, <1>2 DEF Forget, TypeOK
<1>7. StoreInv'
  <2>1. ASSUME NEW s \in Signals PROVE stored'[s] <= 1
    <3>1. CASE s \in own[j]
      <4>1. stored[s] = 0 /\ stored'[s] = stored[s] + 1
        BY <1>1, <1>2, <3>1 DEF StoreInv
      <4> QED
        BY <4>1
    <3>2. CASE s \notin own[j]
      BY <1>1, <1>2, <3>2 DEF StoreInv
    <3> QED
      BY <3>1, <3>2
  <2>2. ASSUME NEW k \in Jobs, NEW s \in own'[k] PROVE stored'[s] = 0
    <3>1. k # j /\ s \in own[k] /\ s \notin own[j] /\ s \in Signals /\ stored[s] = 0
      BY <1>1, <1>6, <2>2 DEF StoreInv, TypeOK
    <3> QED
      BY <1>2, <3>1
  <2>3. \A k, l \in Jobs : k # l => own'[k] \cap own'[l] = {}
    BY <1>1, <1>6 DEF StoreInv
  <2> QED
    BY <2>1, <2>2, <2>3 DEF StoreInv
<1>8. IInv'
  BY <1>2, <1>4, <1>5, <1>7, EndStep
<1>9. \A c \in Contracts : row'[c] = row[c] \/ row'[c].active = row[c].active
  BY <1>2, <1>3
<1>10. ASSUME NEW s \in Signals, stored'[s] > stored[s], s[1] \notin stale
       PROVE  row'[s[1]].failures = 0 /\ row'[s[1]].status = "active"
  <2>1. s \in own[j] /\ s[1] \in Contracts
    <3>1. stored[s] \in Nat /\ s[1] \in Contracts
      BY <1>1 DEF TypeOK, Signals
    <3> QED
      BY <1>2, <1>10, <3>1
  <2>2. Recorded(j, s[1])
    BY <1>1, <1>2, <2>1 DEF OwnInv
  <2> QED
    BY <1>2, <1>10, <2>1, <2>2 DEF Recorded
<1> QED
  BY <1>8, <1>9, <1>10

\* A rollback writes nothing.
LEMMA RollBackStep ==
  ASSUME IInv, TypeOK', NEW j \in Jobs, RollBack(j)
  PROVE  IInv'
<1>1. TypeOK /\ StoreInv /\ HealthInv
  BY DEF IInv
<1>2. Unlock(j) /\ Forget(j) /\ UNCHANGED <<row, stored, streak, stale>>
  BY DEF RollBack
<1>3. own'[j] = {} /\ \A k \in Jobs \ {j} : own'[k] = own[k]
  BY <1>1, <1>2 DEF Forget, TypeOK
<1>4. StoreInv'
  BY <1>1, <1>2, <1>3 DEF StoreInv
<1>5. \A c \in Contracts \ stale : HealthOK(row'[c], streak'[c])
  BY <1>1, <1>2 DEF HealthInv
<1> QED
  BY <1>2, <1>4, <1>5, EndStep

\* An admin writes a row nobody holds.
LEMMA AdminWriteStep ==
  ASSUME AcquisitionAssumption, IInv, TypeOK', NEW a \in Admins, NEW c \in Contracts,
         NEW new \in AdminVersions(view[a][c]), AdminWrite(a, c, new)
  PROVE  IInv'
<1>1. TypeOK /\ StoreInv /\ QueueInv /\ HealthInv /\ OwnInv
  BY DEF IInv
<1>2. /\ lock[c] = <<>> /\ row' = [row EXCEPT ![c] = Written(row[c], view[a][c], new)]
      /\ stale' = IF view[a][c] = row[c] THEN stale ELSE stale \cup {c}
      /\ todo' = [todo EXCEPT ![a] = {}] /\ view' = [view EXCEPT ![a] = Nothing]
      /\ pc' = [pc EXCEPT ![a] = "done"]
      /\ UNCHANGED <<lock, stored, cur, own, streak>>
  BY DEF AdminWrite, Goto
<1>3. a \notin Jobs /\ a \in Sessions
  BY DEF AcquisitionAssumption, Sessions
<1>4. \A k \in Jobs : pc'[k] = pc[k] /\ todo'[k] = todo[k] /\ view'[k] = view[k]
  BY <1>1, <1>2, <1>3 DEF TypeOK, Sessions
<1>5. /\ \A d \in Contracts \ {c} : row'[d] = row[d]
      /\ row'[c] = Written(row[c], view[a][c], new)
      /\ \A k \in Jobs : ~ Holds(k, c)
      /\ \A k \in Jobs, d \in Contracts : Holds(k, d)' <=> Holds(k, d)
  BY <1>1, <1>2 DEF TypeOK, Holds
<1>6. ASSUME NEW d \in Contracts \ stale' PROVE HealthOK(row'[d], streak'[d])
  <2>1. d \notin stale /\ HealthOK(row[d], streak[d]) /\ (d = c => view[a][c] = row[c])
    BY <1>1, <1>2, <1>6 DEF HealthInv
  <2>2. CASE d = c
    <3>1. /\ row[c] \in Health /\ view[a][c] \in Health /\ streak[c] \in Nat
      BY <1>1, <1>3, Types
    <3>2. new \in Health /\ HealthOK(new, streak[c])
      BY <2>1, <2>2, <3>1, AdminHealth
    <3>3. row'[c] = new
      BY <1>5, <2>1, <2>2, <3>1, <3>2, WrittenHealth
    <3> QED
      BY <1>2, <2>2, <3>2, <3>3
  <2>3. CASE d # c
    BY <1>2, <1>5, <2>1, <2>3
  <2> QED
    BY <2>2, <2>3
<1>7. ASSUME NEW k \in Jobs, NEW d \in Contracts, Holds(k, d)'
      PROVE  \/ InHand(k, d)'
             \/ /\ view'[k][d].active = row'[d].active
                /\ d \notin stale' => HealthOK(view'[k][d], streak'[d])
  <2>1. Holds(k, d) /\ d # c /\ row'[d] = row[d] /\ view'[k] = view[k] /\ (d \notin stale' => d \notin stale)
    BY <1>2, <1>4, <1>5, <1>7
  <2>2. InHand(k, d) => InHand(k, d)'
    BY <1>2, <1>4 DEF InHand
  <2> QED
    BY <1>1, <1>2, <2>1, <2>2 DEF HealthInv
<1>8. HealthInv'
  BY <1>6, <1>7 DEF HealthInv, HealthOK, InHand
<1>9. QueueInv'
  <2>1. ASSUME NEW d \in Contracts, NEW n \in DOMAIN lock[d], n >= 2 PROVE InHand(lock[d][n], d)'
    <3>1. PICK k \in Jobs : k = lock[d][n] /\ InHand(k, d)
      BY <1>1, <2>1, RowsTyped DEF QueueInv
    <3>2. InHand(k, d)' /\ lock'[d][n] = k
      BY <1>2, <1>4, <3>1 DEF InHand
    <3> QED
      BY <3>2 DEF InHand
  <2> QED
    BY <1>1, <1>2, <2>1 DEF QueueInv, Distinct, InHand
<1>10. ASSUME NEW k \in Jobs PROVE OwnOK(k)'
  <2>1. OwnOK(k) /\ \A s \in own[k] : s[1] \in Contracts
    BY <1>1 DEF OwnInv, OwnOK, TypeOK, Signals
  <2>2. \A d \in Contracts : Recorded(k, d) => Recorded(k, d)'
    BY <1>2, <1>4, <1>5 DEF Recorded
  <2> QED
    BY <1>2, <1>4, <2>1, <2>2 DEF OwnOK
<1>11. StoreInv'
  BY <1>1, <1>2 DEF StoreInv
<1> QED
  BY <1>8, <1>9, <1>10, <1>11 DEF IInv, OwnInv, OwnOK

\* A failure or a success is marked.
LEMMA MarkStep ==
  ASSUME AcquisitionAssumption, IInv, TypeOK', NEW j \in Jobs, MarkFailed(j) \/ MarkFetched(j)
  PROVE  IInv'
<1>1. TypeOK /\ HealthInv
  BY DEF IInv
<1>2. pc[j] \in Marking
  BY DEF MarkFailed, MarkFetched, Marking
<1>3. PICK c \in Contracts : c = cur[j]
  BY <1>2, Current DEF Working
<1> DEFINE v == view[j][c]
           once == Marked(j, Failed(v))
<1>4. /\ v \in Health /\ row[c] \in Health /\ once \in Health /\ Failed(once) \in Health
      /\ Marked(j, Fetched(v)) \in Health /\ streak[c] \in Nat
  BY <1>1, <1>3, MarkedHealth, Types
<1>5. c \notin stale => HealthOK(row[c], streak[c])
  BY <1>1 DEF HealthInv
<1>6. Failed(v) \in Health /\ Failed(v).active = v.active
  BY <1>4, FailedHealth
<1>7. once.active = row[c].active /\ (v = row[c] => once = Failed(row[c]))
  BY <1>3, <1>4, <1>6, WrittenHealth DEF Marked
<1>8. CASE MarkFetched(j)
  <2>1. pc[j] = "mark" /\ UNCHANGED streak
    BY <1>8 DEF MarkFetched
  <2>2. CASE c \in Webhooks
    <3>1. UpdateHealth(j, row[c])
      BY <1>3, <1>8, <2>2 DEF MarkFetched
    <3>2. \A d \in Contracts : streak[d] <= streak'[d]
      BY <1>1, <2>1, Types
    <3> QED
      BY <1>2, <1>3, <1>4, <1>5, <2>1, <2>2, <3>1, <3>2, UpdateStep
  <2>3. CASE c \notin Webhooks
    <3> DEFINE new == Marked(j, Fetched(v))
    <3>1. UpdateHealth(j, new)
      BY <1>3, <1>8, <2>3 DEF MarkFetched
    <3>2. \A d \in Contracts : streak[d] <= streak'[d]
      BY <1>1, <2>1, Types
    <3>3. /\ Fetched(v) \in Health /\ Fetched(v).active = v.active
          /\ Fetched(v).failures = 0 /\ Fetched(v).status = "active"
      BY <1>4, FetchedHealth
    <3>4. new.active = row[c].active /\ (v = row[c] => new = Fetched(v))
      BY <1>3, <1>4, <3>3, WrittenHealth DEF Marked
    <3>5. v = row[c] => new.failures = 0 /\ new.status = "active"
      BY <3>3, <3>4
    <3>6. v = row[c] => HealthOK(new, streak'[c])
      BY <1>4, <2>1, <3>5 DEF HealthOK, AcquisitionAssumption
    <3> HIDE DEF new
    <3> QED
      <4>1. new \in Health
        BY <1>4 DEF new
      <4> QED
        BY <1>2, <1>3, <2>1, <3>1, <3>2, <3>4, <3>5, <3>6, <4>1, UpdateStep
  <2> QED
    BY <2>2, <2>3
<1>9. CASE MarkFailed(j)
  <2>1. /\ pc[j] # "mark" /\ streak' = [streak EXCEPT ![c] = streak[c] + 1]
        /\ UpdateHealth(j, once) \/ UpdateHealth(j, Failed(once))
    BY <1>3, <1>9 DEF MarkFailed
  <2>2. streak'[c] = streak[c] + 1 /\ \A d \in Contracts : streak[d] <= streak'[d]
    BY <1>1, <2>1, Types
  <2>3. c \notin stale /\ v = row[c] => HealthOK(once, streak'[c]) /\ HealthOK(Failed(once), streak'[c])
    <3> SUFFICES ASSUME c \notin stale, v = row[c]
                 PROVE  HealthOK(once, streak'[c]) /\ HealthOK(Failed(once), streak'[c])
      OBVIOUS
    <3>1. HealthOK(row[c], streak[c]) /\ once = Failed(row[c])
      BY <1>5, <1>7
    <3>2. /\ once.failures = row[c].failures + 1
          /\ once.status = "degraded" => once.failures >= MaxFailures
          /\ once.status = "active" => once.failures < MaxFailures
      BY <1>4, <3>1, FailedHealth
    <3>3. row[c].failures \in Nat /\ row[c].failures <= 2 * streak[c]
      BY <1>4, <3>1, HealthFields DEF HealthOK
    <3>4. once.failures <= 2 * (streak[c] + 1) /\ once.failures + 1 <= 2 * (streak[c] + 1)
      BY <1>4, <3>2, <3>3
    <3>5. HealthOK(once, streak'[c])
      BY <2>2, <3>2, <3>4 DEF HealthOK
    <3>6. streak'[c] \in Nat
      BY <1>4, <2>2
    <3>7. /\ Failed(once).failures = once.failures + 1
          /\ Failed(once).status = "degraded" => Failed(once).failures >= MaxFailures
          /\ Failed(once).status = "active" => Failed(once).failures < MaxFailures
      BY <1>4, <3>5, <3>6, FailedHealth
    <3>8. HealthOK(Failed(once), streak'[c])
      BY <2>2, <3>4, <3>7 DEF HealthOK
    <3> QED
      BY <3>5, <3>8
  <2>4. Failed(once).active = row[c].active
    BY <1>4, <1>7, FailedHealth
  <2> HIDE DEF once
  <2>5. CASE UpdateHealth(j, once)
    BY <1>2, <1>3, <1>4, <1>7, <2>1, <2>2, <2>3, <2>5, UpdateStep
  <2>6. CASE UpdateHealth(j, Failed(once))
    BY <1>2, <1>3, <1>4, <2>1, <2>2, <2>3, <2>4, <2>6, UpdateStep
  <2> QED
    BY <2>1, <2>5, <2>6
<1> QED
  BY <1>8, <1>9

\* The steps of one session that write nothing.
LEMMA QuietSteps ==
  ASSUME AcquisitionAssumption, IInv, TypeOK',
         \/ UNCHANGED vars
         \/ \E c \in Contracts, x \in Items : Publish(c, x)
         \/ \E j \in TierJobs : TierStart(j)
         \/ \E j \in OnDemandJobs, c \in Contracts : OnDemandStart(j, c)
         \/ \E j \in Jobs, c \in Contracts : FetchOk(j, c) \/ SkipFetch(j, c)
         \/ \E j \in TierJobs, c \in Contracts, outcome \in {"raised", "failed"} :
               FetchFails(j, c, outcome)
         \/ \E j \in Jobs : FilterDuplicates(j)
         \/ \E a \in Admins, c \in Contracts : AdminLoad(a, c)
  PROVE  IInv' /\ UNCHANGED <<row, stored>>
<1>1. TypeOK /\ OwnInv
  BY DEF IInv
<1>2. /\ \A j \in TierJobs \cup OnDemandJobs : j \in Jobs
      /\ \A j \in Jobs : j \in Sessions /\ j # None
      /\ \A a \in Admins : a \in Sessions /\ a \notin Jobs
  BY DEF Jobs, Sessions, AcquisitionAssumption
<1>3. \A j \in Jobs : pc[j] \in {"idle", "done"} => own[j] = {}
  BY <1>1 DEF OwnInv
<1>4. CASE UNCHANGED vars \/ \E c \in Contracts, x \in Items : Publish(c, x)
  <2>1. UNCHANGED <<row, lock, stored, pc, todo, cur, own, view, streak, stale>>
    BY <1>4 DEF vars, Publish
  <2>2. OthersKeep(None) /\ None \notin Jobs
    BY <1>2, <2>1 DEF OthersKeep
  <2> QED
    BY <2>1, <2>2, QuietStep
<1>5. ASSUME NEW j \in TierJobs, TierStart(j) PROVE IInv' /\ UNCHANGED <<row, stored>>
  <2>1. /\ pc[j] = "idle" /\ pc' = [pc EXCEPT ![j] = "loop"] /\ view' = [view EXCEPT ![j] = row]
        /\ todo' = [todo EXCEPT ![j] = {c \in Contracts : Polled(c)}]
        /\ UNCHANGED <<row, lock, stored, cur, own, streak, stale>>
    BY <1>5 DEF TierStart, Goto
  <2>2. j \in Jobs /\ pc'[j] = "loop" /\ view'[j] = row /\ OthersKeep(j)
    BY <1>1, <1>2, <2>1 DEF OthersKeep, TypeOK, Sessions
  <2>3. own[j] = {}
    BY <1>3, <2>1, <2>2
  <2> QED
    BY <2>1, <2>2, <2>3, QuietStep DEF Working, Marking
<1>6. ASSUME NEW j \in OnDemandJobs, NEW c \in Contracts, OnDemandStart(j, c)
      PROVE  IInv' /\ UNCHANGED <<row, stored>>
  <2>1. /\ pc[j] = "idle" /\ UNCHANGED <<row, lock, stored, cur, own, streak, stale>>
        /\ \/ /\ pc' = [pc EXCEPT ![j] = "loop"] /\ todo' = [todo EXCEPT ![j] = {c}]
              /\ view' = [view EXCEPT ![j][c] = row[c]]
           \/ pc' = [pc EXCEPT ![j] = "done"] /\ UNCHANGED <<todo, view>>
    BY <1>6 DEF OnDemandStart, Goto
  <2>2. j \in Jobs /\ pc'[j] \in {"loop", "done"} /\ OthersKeep(j)
    BY <1>1, <1>2, <2>1 DEF OthersKeep, TypeOK, Sessions
  <2>3. \A d \in Contracts : view'[j][d] \in {view[j][d], row[d]}
    <3>1. j \in Sessions /\ view \in [Sessions -> [Contracts -> Health]]
      BY <1>1, <1>2, Types
    <3>2. CASE view' = view
      BY <3>2
    <3>3. CASE view' = [view EXCEPT ![j][c] = row[c]]
      <4>1. view'[j] = [view[j] EXCEPT ![c] = row[c]] /\ view[j] \in [Contracts -> Health]
        BY <3>1, <3>3
      <4> QED
        BY <4>1
    <3> QED
      BY <2>1, <3>2, <3>3
  <2>4. own[j] = {}
    BY <1>3, <2>1, <2>2
  <2> QED
    BY <2>1, <2>2, <2>3, <2>4, QuietStep DEF Working, Marking
<1>7. ASSUME NEW j \in Jobs, NEW c \in Contracts, FetchOk(j, c) \/ SkipFetch(j, c)
      PROVE  IInv' /\ UNCHANGED <<row, stored>>
  <2>1. /\ pc[j] = "loop" /\ c \in todo[j] /\ cur' = [cur EXCEPT ![j] = c]
        /\ \/ pc' = [pc EXCEPT ![j] = "filter"] /\ c \notin Webhooks
           \/ pc' = [pc EXCEPT ![j] = "mark"]
        /\ UNCHANGED <<row, lock, stored, todo, own, view, streak, stale>>
    BY <1>7 DEF FetchOk, SkipFetch, Goto
  <2>2. /\ cur'[j] = c /\ OthersKeep(j)
        /\ pc'[j] = "mark" \/ (pc'[j] = "filter" /\ c \notin Webhooks)
    BY <1>1, <1>2, <2>1 DEF OthersKeep, TypeOK
  <2> QED
    BY <2>1, <2>2, QuietStep DEF Marking
<1>8. ASSUME NEW j \in TierJobs, NEW c \in Contracts, NEW l \in {"raised", "failed"},
             FetchFails(j, c, l)
      PROVE  IInv' /\ UNCHANGED <<row, stored>>
  <2>1. /\ pc[j] = "loop" /\ c \in todo[j] /\ cur' = [cur EXCEPT ![j] = c]
        /\ pc' = [pc EXCEPT ![j] = l]
        /\ UNCHANGED <<row, lock, stored, todo, own, view, streak, stale>>
    BY <1>8 DEF FetchFails, Goto
  <2>2. j \in Jobs /\ cur'[j] = c /\ OthersKeep(j) /\ pc'[j] = l
    BY <1>1, <1>2, <2>1 DEF OthersKeep, TypeOK
  <2> QED
    BY <2>1, <2>2, QuietStep DEF Marking
<1>9. ASSUME NEW j \in Jobs, FilterDuplicates(j) PROVE IInv' /\ UNCHANGED <<row, stored>>
  <2>1. /\ pc[j] = "filter" /\ pc' = [pc EXCEPT ![j] = "insert"]
        /\ UNCHANGED <<row, lock, stored, todo, cur, own, view, streak, stale>>
    BY <1>9 DEF FilterDuplicates, Goto
  <2>2. pc'[j] = "insert" /\ OthersKeep(j)
    BY <1>1, <1>2, <2>1 DEF OthersKeep, TypeOK
  <2>3. cur[j] \in todo[j] /\ cur[j] \notin Webhooks
    BY <1>1, <2>1 DEF OwnInv, Working
  <2> QED
    BY <2>1, <2>2, <2>3, QuietStep DEF Marking
<1>10. ASSUME NEW a \in Admins, NEW c \in Contracts, AdminLoad(a, c)
       PROVE  IInv' /\ UNCHANGED <<row, stored>>
  <2>1. /\ pc' = [pc EXCEPT ![a] = "loaded"] /\ todo' = [todo EXCEPT ![a] = {c}]
        /\ view' = [view EXCEPT ![a][c] = row[c]]
        /\ UNCHANGED <<row, lock, stored, cur, own, streak, stale>>
    BY <1>10 DEF AdminLoad, Goto
  <2>2. OthersKeep(a) /\ a \notin Jobs
    BY <1>1, <1>2, <2>1 DEF OthersKeep, TypeOK
  <2> QED
    BY <2>1, <2>2, QuietStep
<1> QED
  BY <1>4, <1>5, <1>6, <1>7, <1>8, <1>9, <1>10

\* What a step does to the rows and the signals: only a commit writes signals, with the
\* success they came with; only an admin activates.
LEMMA InvNext ==
  ASSUME AcquisitionAssumption, IInv, [Next]_vars
  PROVE  /\ IInv'
         /\ \/ \A c \in Contracts : row'[c] = row[c] \/ row'[c].active = row[c].active
            \/ \E a \in Admins : pc[a] = "loaded" /\ pc'[a] = "done"
         /\ \A s \in Signals : stored'[s] > stored[s] /\ s[1] \notin stale' =>
               row'[s[1]].failures = 0 /\ row'[s[1]].status = "active"
<1> DEFINE Goal == /\ IInv'
                   /\ \/ \A c \in Contracts : row'[c] = row[c] \/ row'[c].active = row[c].active
                      \/ \E a \in Admins : pc[a] = "loaded" /\ pc'[a] = "done"
                   /\ \A s \in Signals : stored'[s] > stored[s] /\ s[1] \notin stale' =>
                         row'[s[1]].failures = 0 /\ row'[s[1]].status = "active"
<1>1. TypeOK' /\ TypeOK
  BY TypesNext DEF IInv
<1>2. ASSUME UNCHANGED stored PROVE \A s \in Signals : ~ (stored'[s] > stored[s])
  <2>1. \A s \in Signals : stored[s] \in Nat
    BY <1>1, Types
  <2> QED
    BY <1>2, <2>1
<1>3. ASSUME IInv', UNCHANGED <<row, stored>> PROVE Goal
  BY <1>2, <1>3
<1>4. ASSUME NEW j \in Jobs, Insert(j) \/ WaitForRow(j) \/ MarkFetched(j) \/ MarkFailed(j)
      PROVE  Goal
  <2>1. UNCHANGED <<row, stored>>
    BY <1>4 DEF Insert, WaitForRow, MarkFetched, MarkFailed, UpdateHealth
  <2>2. IInv'
    BY <1>1, <1>4, InsertStep, WaitStep, MarkStep
  <2> QED
    BY <1>3, <2>1, <2>2
<1>5. ASSUME NEW j \in Jobs, InsertConflicts(j) \/ DeadlockVictim(j) \/ Abort(j) PROVE Goal
  <2>1. RollBack(j)
    BY <1>5 DEF InsertConflicts, DeadlockVictim, Abort
  <2>2. UNCHANGED <<row, stored>>
    BY <2>1 DEF RollBack
  <2> QED
    BY <1>1, <1>3, <2>1, <2>2, RollBackStep
<1>6. ASSUME NEW j \in Jobs, Commit(j) PROVE Goal
  <2>1. stale' = stale
    BY <1>6 DEF Commit
  <2> QED
    BY <1>1, <1>6, <2>1, CommitStep
<1>7. ASSUME NEW a \in Admins, NEW c \in Contracts, NEW new \in AdminVersions(view[a][c]),
             AdminWrite(a, c, new)
      PROVE  Goal
  <2>1. UNCHANGED stored /\ pc[a] = "loaded" /\ pc'[a] = "done"
    BY <1>1, <1>7 DEF AdminWrite, Goto, TypeOK, Sessions
  <2>2. IInv'
    BY <1>1, <1>7, AdminWriteStep
  <2> QED
    BY <1>2, <2>1, <2>2
<1> HIDE DEF Goal
<1>8. Goal
  BY <1>1, <1>3, <1>4, <1>5, <1>6, <1>7, QuietSteps DEF Next, JobStep, AdminStep
<1> QED
  BY <1>8 DEF Goal

LEMMA InvInit == AcquisitionAssumption /\ Init => IInv
<1> SUFFICES ASSUME AcquisitionAssumption, Init PROVE IInv
  OBVIOUS
<1>1. TypeOK
  <2>1. faults \in 0..MaxFaults
    BY DEF Init, AcquisitionAssumption
  <2>2. <<>> \in Seq(Jobs) /\ "idle" \in Labels
    BY DEF Labels
  <2>3. row \in [Contracts -> Health] /\ view \in [Sessions -> [Contracts -> Health]]
    BY HealthyType DEF Init
  <2> QED
    BY <2>1, <2>2, <2>3, Types DEF Init
<1>2. StoreInv /\ OwnInv
  BY DEF Init, StoreInv, OwnInv, Jobs, Sessions, Working, Marking
<1>3. \A c \in Contracts : lock[c] = <<>> /\ DOMAIN lock[c] = {}
  BY DEF Init
<1>4. QueueInv
  BY <1>3 DEF QueueInv, Distinct
<1>5. HealthInv
  <2>1. \A c \in Contracts : HealthOK(row[c], streak[c])
    BY DEF Init, Nothing, Healthy, HealthOK, AcquisitionAssumption
  <2> QED
    BY <1>3, <2>1 DEF HealthInv, Holds
<1> QED
  BY <1>1, <1>2, <1>4, <1>5 DEF IInv

-----------------------------------------------------------------------------
(* The theorems                                                            *)

\* The inductive invariant: what a queue of the row locks means, what the first of it
\* knows of the row, and that uncommitted signals are apart and come with a success.
THEOREM IInvCorrect == Spec => []IInv
<1>1. Init => IInv
  BY InvInit, AcquisitionAssumption
<1>2. IInv /\ [Next]_vars => IInv'
  BY InvNext, AcquisitionAssumption
<1> QED
  BY <1>1, <1>2, PTL DEF Spec

\* Every variable of the acquisition keeps its type.
THEOREM TypeCorrect == Spec => []TypeOK
<1>1. IInv => TypeOK
  BY DEF IInv
<1> QED
  BY <1>1, IInvCorrect, PTL

\* Overlapping jobs never store one content twice for a contract.
THEOREM NoDuplicateSignalsCorrect == Spec => []NoDuplicateSignals
<1>1. IInv => NoDuplicateSignals
  BY DEF IInv, StoreInv, NoDuplicateSignals
<1> QED
  BY <1>1, IInvCorrect, PTL

\* A contract's health is what its fetches were, unless it was written from an outdated
\* instance.
THEOREM HealthIsEarnedCorrect == Spec => []HealthIsEarned
<1>1. IInv => HealthIsEarned
  BY DEF IInv, HealthInv, HealthOK, HealthIsEarned
<1> QED
  BY <1>1, IInvCorrect, PTL

\* Only an admin switches a contract on again, from whatever instance a worker writes.
THEOREM OnlyAdminsActivateCorrect == Spec => OnlyAdminsActivate
<1>1. IInv /\ [Next]_vars =>
         [\A c \in Contracts : row'[c].active /\ ~row[c].active =>
             \E a \in Admins : pc[a] = "loaded" /\ pc'[a] = "done"]_vars
  BY InvNext, AcquisitionAssumption
<1> QED
  BY <1>1, IInvCorrect, PTL DEF Spec, OnlyAdminsActivate

\* New signals appear together with the success of the fetch that found them.
THEOREM SignalsComeWithHealthCorrect == Spec => SignalsComeWithHealth
<1>1. IInv /\ [Next]_vars =>
         [\A c \in Contracts :
            (\E x \in Items : stored'[<<c, x>>] > stored[<<c, x>>]) =>
               c \in stale' \/ (row'[c].failures = 0 /\ row'[c].status = "active")]_vars
  <2> SUFFICES ASSUME IInv, [Next]_vars, NEW c \in Contracts, NEW x \in Items,
                      stored'[<<c, x>>] > stored[<<c, x>>], c \notin stale'
               PROVE  row'[c].failures = 0 /\ row'[c].status = "active"
    OBVIOUS
  <2>1. <<c, x>> \in Signals /\ <<c, x>>[1] = c
    BY DEF Signals
  <2> QED
    BY <2>1, InvNext, AcquisitionAssumption
<1> QED
  BY <1>1, IInvCorrect, PTL DEF Spec, SignalsComeWithHealth

-----------------------------------------------------------------------------
(* The signal store                                                        *)

\* What a job has found and what it has inserted was published.
FromSource(j) ==
    /\ pc[j] \in {"filter", "insert"} => found[j] \subseteq published[cur[j]]
    /\ \A s \in own[j] : s[2] \in published[s[1]]
Provenance == \A j \in Jobs : FromSource(j)

\* A step of one session, or of a source, that inserts no more than what was found.
LEMMA SourceStep ==
  ASSUME AcquisitionAssumption, IInv, Provenance, NEW s,
         \A c \in Contracts : published[c] \subseteq published'[c],
         \A k \in Jobs \ {s} : /\ pc'[k] = pc[k] /\ cur'[k] = cur[k]
                               /\ found'[k] = found[k] /\ own'[k] = own[k],
         s \in Jobs =>
            /\ pc'[s] \in {"filter", "insert"} => found'[s] \subseteq published'[cur'[s]]
            /\ \/ own'[s] \subseteq own[s]
               \/ pc[s] = "insert" /\ own'[s] = own[s] \cup Inserts(s)
  PROVE  Provenance'
<1>1. \A k \in Jobs : own[k] \subseteq Signals
  BY Types DEF IInv
<1>2. ASSUME NEW k \in Jobs \ {s} PROVE FromSource(k)'
  <2>1. pc[k] \in {"filter", "insert"} => cur[k] \in Contracts
    BY Current DEF Working
  <2> QED
    BY <1>1, <1>2, <2>1 DEF Provenance, FromSource, Signals
<1>3. ASSUME s \in Jobs PROVE FromSource(s)'
  <2>1. \A x \in own[s] : x[2] \in published'[x[1]]
    BY <1>1, <1>3 DEF Provenance, FromSource, Signals
  <2>2. pc[s] = "insert" => \A x \in Inserts(s) : x[2] \in published'[x[1]]
    <3>1. pc[s] = "insert" => cur[s] \in Contracts /\ found[s] \subseteq published[cur[s]]
      BY <1>3, Current DEF Working, Provenance, FromSource
    <3> QED
      BY <3>1 DEF Inserts
  <2> QED
    BY <1>3, <2>1, <2>2 DEF FromSource
<1> QED
  BY <1>2, <1>3 DEF Provenance

\* A commit stores a batch: published, of fetched sources, and not stored before.
LEMMA CommitStores ==
  ASSUME IInv, Provenance, NEW j \in Jobs, Commit(j)
  PROVE  \E batch \in SUBSET Store!New : Store!Store(batch)
<1>1. /\ own[j] \subseteq Signals /\ \A s \in own[j] : stored[s] = 0 /\ s[1] \notin Webhooks
      /\ \A s \in own[j] : s[2] \in published[s[1]]
  BY Types DEF IInv, StoreInv, OwnInv, Provenance, FromSource
<1>2. own[j] \subseteq Store!New
  BY <1>1 DEF Store!New, Signals
<1>3. stored' = [s \in Signals |-> IF s \in own[j] THEN 1 ELSE stored[s]] /\ UNCHANGED published
  BY <1>1 DEF Commit
<1> QED
  BY <1>2, <1>3 DEF Store!Store, Signals

\* The end of a session takes what it has not committed.
LEMMA ForgetKeepsSource ==
  ASSUME AcquisitionAssumption, IInv, Provenance, NEW j \in Jobs, Forget(j), UNCHANGED published
  PROVE  Provenance'
<1>1. TypeOK /\ j \in Sessions
  BY DEF IInv, Sessions
<1>2. /\ pc'[j] \in {"idle", "done"} /\ own'[j] = {}
      /\ \A k \in Jobs \ {j} : /\ pc'[k] = pc[k] /\ cur'[k] = cur[k]
                               /\ found'[k] = found[k] /\ own'[k] = own[k]
  BY <1>1 DEF Forget, Goto, TypeOK, Sessions
<1> QED
  BY <1>2, SourceStep

\* Every step of the code is a step of the store, or leaves it alone.
LEMMA StoreNext ==
  ASSUME AcquisitionAssumption, IInv, Provenance, [Next]_vars
  PROVE  Provenance' /\ [Store!Next]_(Store!vars)
<1> DEFINE Goal == Provenance' /\ [Store!Next]_(Store!vars)
<1>a. /\ pc \in [Sessions -> Labels] /\ cur \in [Jobs -> Contracts \cup {None}]
      /\ found \in [Jobs -> SUBSET Items] /\ own \in [Jobs -> SUBSET Signals]
      /\ published \in [Contracts -> SUBSET Items]
      /\ Jobs \subseteq Sessions /\ Jobs \cap Admins = {} /\ None \notin Jobs
  BY Types DEF IInv, Sessions, AcquisitionAssumption
<1>b. UNCHANGED <<published, stored>> => UNCHANGED Store!vars
  BY DEF Store!vars
<1>1. ASSUME NEW c \in Contracts, NEW x \in Items, Publish(c, x) PROVE Goal
  <2>1. Store!Publish(c, x)
    BY <1>1 DEF Publish, Store!Publish
  <2>2. \A d \in Contracts : published[d] \subseteq published'[d]
    BY <1>a, <1>1 DEF Publish
  <2>3. Provenance'
    BY <1>a, <1>1, <2>2, SourceStep DEF Publish
  <2> QED
    BY <2>1, <2>3 DEF Store!Next
<1>2. ASSUME NEW j \in TierJobs, TierStart(j) PROVE Goal
  <2>1. j \in Jobs
    BY DEF Jobs
  <2>2. Provenance'
    BY <1>a, <1>2, <2>1, SourceStep DEF TierStart, Goto
  <2> QED
    BY <1>b, <1>2, <2>2 DEF TierStart
<1>3. ASSUME NEW j \in OnDemandJobs, NEW c \in Contracts, OnDemandStart(j, c) PROVE Goal
  <2>1. j \in Jobs
    BY DEF Jobs
  <2>2. Provenance'
    BY <1>a, <1>3, <2>1, SourceStep DEF OnDemandStart, Goto
  <2> QED
    BY <1>b, <1>3, <2>2 DEF OnDemandStart
<1>4. ASSUME NEW j \in Jobs, NEW c \in Contracts, FetchOk(j, c) \/ SkipFetch(j, c) PROVE Goal
  <2>1. Provenance'
    BY <1>a, <1>4, SourceStep DEF FetchOk, SkipFetch, Goto
  <2> QED
    BY <1>b, <1>4, <2>1 DEF FetchOk, SkipFetch
<1>5. ASSUME NEW j \in TierJobs, NEW c \in Contracts, NEW outcome \in {"raised", "failed"},
             FetchFails(j, c, outcome)
      PROVE  Goal
  <2>1. j \in Jobs
    BY DEF Jobs
  <2>2. Provenance'
    BY <1>a, <1>5, <2>1, SourceStep DEF FetchFails, Goto
  <2> QED
    BY <1>b, <1>5, <2>2 DEF FetchFails
<1>6. ASSUME NEW j \in Jobs, FilterDuplicates(j) PROVE Goal
  <2>1. found'[j] \subseteq found[j] /\ pc[j] = "filter"
    BY <1>a, <1>6 DEF FilterDuplicates
  <2>2. found'[j] \subseteq published'[cur'[j]]
    BY <1>6, <2>1 DEF FilterDuplicates, Provenance, FromSource
  <2>3. Provenance'
    BY <1>a, <1>6, <2>2, SourceStep DEF FilterDuplicates, Goto
  <2> QED
    BY <1>b, <1>6, <2>3 DEF FilterDuplicates
<1>7. ASSUME NEW j \in Jobs, Insert(j) PROVE Goal
  <2>1. Provenance'
    BY <1>a, <1>7, SourceStep DEF Insert, Goto
  <2> QED
    BY <1>b, <1>7, <2>1 DEF Insert
<1>8. ASSUME NEW j \in Jobs, NEW new, UpdateHealth(j, new) PROVE Goal
  <2>1. Provenance'
    BY <1>a, <1>8, SourceStep DEF UpdateHealth, Goto
  <2> QED
    BY <1>b, <1>8, <2>1 DEF UpdateHealth
<1>9. ASSUME NEW j \in Jobs, WaitForRow(j) PROVE Goal
  <2>1. Provenance'
    BY <1>a, <1>9, SourceStep DEF WaitForRow
  <2> QED
    BY <1>b, <1>9, <2>1 DEF WaitForRow
<1>10. ASSUME NEW j \in Jobs, Commit(j) PROVE Goal
  <2>1. Provenance'
    BY <1>10, ForgetKeepsSource DEF Commit
  <2> QED
    BY <1>10, <2>1, CommitStores DEF Store!Next
<1>11. ASSUME NEW j \in Jobs, RollBack(j) PROVE Goal
  <2>1. Provenance'
    BY <1>11, ForgetKeepsSource DEF RollBack
  <2> QED
    BY <1>b, <1>11, <2>1 DEF RollBack
<1>12. ASSUME AdminStep PROVE Goal
  <2>1. PICK a \in Admins : \A b \in Sessions \ {a} : pc'[b] = pc[b]
    BY <1>a, <1>12 DEF AdminStep, AdminLoad, AdminWrite, Goto
  <2>2. UNCHANGED <<cur, found, own, published, stored>>
    BY <1>12 DEF AdminStep, AdminLoad, AdminWrite
  <2>3. Provenance'
    BY <1>a, <2>1, <2>2, SourceStep
  <2> QED
    BY <1>b, <2>2, <2>3
<1>13. ASSUME UNCHANGED vars PROVE Goal
  <2>1. Provenance'
    BY <1>a, <1>13, SourceStep DEF vars
  <2> QED
    BY <1>b, <1>13, <2>1 DEF vars
<1> HIDE DEF Goal
<1>14. ASSUME NEW j \in Jobs, JobStep(j) \/ Abort(j) PROVE Goal
  BY <1>4, <1>6, <1>7, <1>8, <1>9, <1>10, <1>11, <1>14
     DEF JobStep, MarkFetched, MarkFailed, InsertConflicts, DeadlockVictim, Abort
<1>15. Goal
  BY <1>1, <1>2, <1>3, <1>5, <1>12, <1>13, <1>14 DEF Next
<1> QED
  BY <1>15 DEF Goal

\* The code implements the signal store: whatever jobs overlap and however sessions end,
\* batches appear at once, hold what was published and was not stored, and stay.
THEOREM RefinesStoreCorrect == Spec => RefinesStore
<1>1. Init => Provenance /\ Store!Init
  BY DEF Init, Provenance, FromSource, Store!Init, Signals, Jobs, Sessions
<1>2. IInv /\ Provenance /\ [Next]_vars => Provenance' /\ [Store!Next]_(Store!vars)
  BY StoreNext, AcquisitionAssumption
<1> QED
  BY <1>1, <1>2, IInvCorrect, PTL DEF Spec, RefinesStore, Store!Spec

-----------------------------------------------------------------------------
(* One worker at a time, and no admin                                      *)

\* A signal that is stored or about to be.
Kept(s) == stored[s] > 0 \/ \E j \in Jobs : s \in own[j]

\* No two contracts keep the same content (what filter_duplicates is for).
OneCopy == \A s, t \in Signals : s[2] = t[2] /\ stored[s] > 0 /\ stored[t] > 0 => s = t

SoleInv ==
    /\ stale = {}
    /\ \A j \in Jobs : \A c \in todo[j] : view[j][c] = row[c]
    /\ \A s, t \in Signals : s[2] = t[2] /\ Kept(s) /\ Kept(t) => s = t
    /\ \A j \in Jobs : pc[j] = "insert" => \A s \in Signals : s[2] \in found[j] => ~ Kept(s)

\* A step that moves no row and no signal, and works on instances that are up to date.
LEMMA SoleStep ==
  ASSUME SoleInv, UNCHANGED <<row, stored, stale>>,
         \A j \in Jobs : /\ own'[j] \subseteq own[j]
                         /\ \A c \in todo'[j] : view'[j][c] = row[c]
                         /\ pc'[j] = "insert" => pc[j] = "insert" /\ found'[j] = found[j]
  PROVE  SoleInv'
<1>1. \A s : Kept(s)' => Kept(s)
  BY DEF Kept
<1> QED
  BY <1>1 DEF SoleInv

\* A session that ends keeps no batch.
LEMMA SoleEnd ==
  ASSUME IInv, SoleInv, NEW j \in Jobs, \A k \in Jobs : k = j, Forget(j), stale' = stale,
         \A s \in Signals : stored'[s] > 0 => Kept(s)
  PROVE  SoleInv'
<1>1. TypeOK /\ j \in Sessions
  BY DEF IInv, Sessions
<1>2. pc'[j] # "insert" /\ own'[j] = {} /\ todo'[j] = {}
  BY <1>1 DEF Forget, Goto, TypeOK, Sessions
<1>3. \A s \in Signals : Kept(s)' => Kept(s)
  BY <1>2 DEF Kept
<1> QED
  BY <1>2, <1>3 DEF SoleInv

\* What the filter leaves is kept nowhere, and nobody can insert it before this job.
LEMMA SoleFilter ==
  ASSUME IInv, SoleInv, NEW j \in Jobs, \A k \in Jobs : k = j, FilterDuplicates(j)
  PROVE  SoleInv'
<1>1. TypeOK /\ UNCHANGED <<row, stored, todo, own, view, stale>>
  BY DEF IInv, FilterDuplicates
<1>2. \A s : Kept(s)' <=> Kept(s)
  BY <1>1 DEF Kept
<1>3. found'[j] = {x \in found[j] : \A c \in Contracts :
                      stored[<<c, x>>] = 0 /\ <<c, x>> \notin own[j]}
  BY <1>1 DEF FilterDuplicates, TypeOK
<1>4. ASSUME NEW s \in Signals, s[2] \in found'[j] PROVE ~ Kept(s)
  <2>1. PICK c \in Contracts, x \in Items : s = <<c, x>>
    BY DEF Signals
  <2>2. stored[s] = 0 /\ s \notin own[j]
    BY <1>3, <1>4, <2>1
  <2> QED
    BY <2>2 DEF Kept
<1> QED
  BY <1>1, <1>2, <1>4 DEF SoleInv

\* The insert brings one contract contents that are kept nowhere.
LEMMA SoleInsert ==
  ASSUME IInv, SoleInv, NEW j \in Jobs, \A k \in Jobs : k = j, Insert(j)
  PROVE  SoleInv'
<1>1. TypeOK /\ j \in Sessions /\ pc[j] = "insert"
      /\ UNCHANGED <<row, stored, todo, view, stale>>
  BY DEF IInv, Sessions, Insert
<1>2. own'[j] = own[j] \cup Inserts(j) /\ pc'[j] = "mark"
  BY <1>1 DEF Insert, Goto, TypeOK, Sessions
<1>3. \A s \in Signals : Kept(s)' => Kept(s) \/ s \in Inserts(j)
  BY <1>1, <1>2 DEF Kept
<1>4. \A s \in Signals : s[2] \in found[j] => ~ Kept(s)
  BY <1>1 DEF SoleInv
<1>5. \A s \in Inserts(j) : s[1] = cur[j] /\ s[2] \in found[j] /\ s = <<s[1], s[2]>>
  BY DEF Inserts
<1>6. \A s, t \in Signals : s[2] = t[2] /\ Kept(s)' /\ Kept(t)' => s = t
  <2> SUFFICES ASSUME NEW s \in Signals, NEW t \in Signals, s[2] = t[2], Kept(s)', Kept(t)'
               PROVE  s = t
    OBVIOUS
  <2>1. CASE s \in Inserts(j) /\ t \in Inserts(j)
    BY <1>5, <2>1
  <2>2. CASE s \notin Inserts(j) /\ t \notin Inserts(j)
    BY <1>3, <2>2 DEF SoleInv
  <2> QED
    BY <1>3, <1>4, <1>5, <2>1, <2>2
<1> QED
  BY <1>1, <1>2, <1>6 DEF SoleInv

\* Every step of the one job keeps its instances up to date and its contents apart.
LEMMA SoleNext ==
  ASSUME AcquisitionAssumption, Admins = {}, \A j, k \in Jobs : j = k,
         IInv, SoleInv, [Next]_vars
  PROVE  SoleInv'
<1>a. /\ TypeOK /\ pc \in [Sessions -> Labels] /\ todo \in [Sessions -> SUBSET Contracts]
      /\ view \in [Sessions -> [Contracts -> Health]] /\ own \in [Jobs -> SUBSET Signals]
      /\ Jobs \subseteq Sessions
      /\ \A j \in Jobs : \A c \in todo[j] : view[j][c] = row[c]
  BY Types DEF IInv, Sessions, SoleInv
<1>1. ASSUME NEW c \in Contracts, NEW x \in Items, Publish(c, x) PROVE SoleInv'
  BY <1>a, <1>1, SoleStep DEF Publish
<1>2. ASSUME NEW j \in Jobs, TierStart(j) PROVE SoleInv'
  <2>1. todo'[j] \subseteq Contracts /\ view'[j] = row /\ pc'[j] = "loop"
    BY <1>a, <1>2 DEF TierStart, Goto
  <2> QED
    BY <1>a, <1>2, <2>1, SoleStep DEF TierStart
<1>3. ASSUME NEW j \in Jobs, NEW c \in Contracts, OnDemandStart(j, c) PROVE SoleInv'
  <2>1. \A d \in todo'[j] : view'[j][d] = row[d]
    BY <1>a, <1>3 DEF OnDemandStart
  <2>2. pc'[j] # "insert"
    BY <1>a, <1>3 DEF OnDemandStart, Goto
  <2> QED
    BY <1>a, <1>3, <2>1, <2>2, SoleStep DEF OnDemandStart
<1>4. ASSUME NEW j \in Jobs, NEW c \in Contracts,
             \/ FetchOk(j, c) \/ SkipFetch(j, c)
             \/ \E outcome \in {"raised", "failed"} : FetchFails(j, c, outcome)
      PROVE  SoleInv'
  <2>1. pc'[j] # "insert" /\ UNCHANGED <<row, stored, stale, own, todo, view>>
    BY <1>a, <1>4 DEF FetchOk, SkipFetch, FetchFails, Goto
  <2> QED
    BY <1>a, <2>1, SoleStep
<1>5. ASSUME NEW j \in Jobs, WaitForRow(j) PROVE SoleInv'
  BY <1>a, <1>5, SoleStep DEF WaitForRow
<1>6. ASSUME NEW j \in Jobs, pc[j] \in Marking, NEW new, UpdateHealth(j, new) PROVE SoleInv'
  <2>1. cur[j] \in todo[j]
    BY <1>6, Current DEF Working
  <2>2. /\ todo'[j] = todo[j] \ {cur[j]} /\ pc'[j] = "loop"
        /\ \A d \in Contracts \ {cur[j]} : view'[j][d] = view[j][d]
        /\ UNCHANGED <<row, stored, own>>
    BY <1>a, <1>6 DEF UpdateHealth, Goto
  <2>3. stale' = stale
    BY <1>a, <1>6, <2>1 DEF UpdateHealth
  <2>4. \A d \in todo'[j] : view'[j][d] = row[d]
    BY <1>a, <2>2
  <2> QED
    BY <2>2, <2>3, <2>4, SoleStep
<1>7. ASSUME NEW j \in Jobs, Commit(j) PROVE SoleInv'
  <2>1. \A s \in Signals : stored'[s] > 0 => Kept(s)
    BY <1>7 DEF Commit, Kept
  <2> QED
    BY <1>7, <2>1, SoleEnd DEF Commit
<1>8. ASSUME NEW j \in Jobs, RollBack(j) PROVE SoleInv'
  <2>1. \A s \in Signals : stored'[s] > 0 => Kept(s)
    BY <1>8 DEF RollBack, Kept
  <2> QED
    BY <1>8, <2>1, SoleEnd DEF RollBack
<1>9. ASSUME NEW j \in Jobs, FilterDuplicates(j) \/ Insert(j) PROVE SoleInv'
  BY <1>9, SoleFilter, SoleInsert
<1>10. CASE UNCHANGED vars
  BY <1>a, <1>10, SoleStep DEF vars
<1>11. ASSUME NEW j \in Jobs, JobStep(j) \/ Abort(j) PROVE SoleInv'
  <2>1. CASE MarkFetched(j) \/ MarkFailed(j)
    BY <1>6, <2>1 DEF MarkFetched, MarkFailed, Marking
  <2> QED
    BY <1>4, <1>5, <1>7, <1>8, <1>9, <1>11, <2>1
       DEF JobStep, InsertConflicts, DeadlockVictim, Abort
<1>12. TierJobs \subseteq Jobs /\ OnDemandJobs \subseteq Jobs /\ ~ AdminStep
  BY DEF Jobs, AdminStep
<1> QED
  BY <1>1, <1>2, <1>3, <1>4, <1>10, <1>11, <1>12 DEF Next

\* With one job at a time and no admin nothing is written from an outdated instance, so
\* that every contract's health is earned, and no two contracts keep one content: only
\* overlap costs the one or the other (fetch_by_tier, filter_duplicates).
THEOREM OnlyOverlapHarms ==
  ASSUME Admins = {}, \A j, k \in Jobs : j = k
  PROVE  Spec => [](stale = {} /\ OneCopy)
<1>1. Init => SoleInv
  BY DEF Init, SoleInv, Kept, Jobs, Sessions
<1>2. IInv /\ SoleInv /\ [Next]_vars => SoleInv'
  BY SoleNext, AcquisitionAssumption
<1>3. SoleInv => stale = {} /\ OneCopy
  BY DEF SoleInv, Kept, OneCopy
<1> QED
  BY <1>1, <1>2, <1>3, IInvCorrect, PTL DEF Spec
=============================================================================
