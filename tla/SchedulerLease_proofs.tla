------------------------ MODULE SchedulerLease_proofs ------------------------
(***************************************************************************)
(* At most one process schedules while nobody has overslept, for every set *)
(* of processes, key life, renewal period and stall.  The invariant ties a *)
(* process's clock to the key: the life that is left and the time since    *)
(* the last renewal add up to the whole life.                              *)
(***************************************************************************)
EXTENDS SchedulerLease, TLAPS

\* A process that schedules owns the key, and the key has lost no more of its life
\* than the time since the process renewed it; so does one about to delete it.
Owned ==
    late = {} =>
        /\ \A p \in Processes : pc[p] \in Scheduling =>
              key = p /\ age[p] < TTL /\ ttl + age[p] >= TTL
        /\ \A p \in Processes : pc[p] = "releasing" => key = p

IInv == TypeOK /\ Owned

-----------------------------------------------------------------------------

LEMMA TypeInit == Init => TypeOK
  BY LeaseAssumption DEF Init, TypeOK, Scheduling

LEMMA TypeNext == TypeOK /\ [Next]_vars => TypeOK'
<1> SUFFICES ASSUME TypeOK, [Next]_vars PROVE TypeOK'
  OBVIOUS
<1> USE LeaseAssumption DEF TypeOK, Scheduling, Goto
<1>1. CASE UNCHANGED vars
  BY <1>1 DEF vars
<1>2. ASSUME NEW p \in Processes, Start(p) PROVE TypeOK'
  BY <1>2 DEF Start
<1>3. ASSUME NEW p \in Processes, ReadKey(p) PROVE TypeOK'
  BY <1>3 DEF ReadKey
<1>4. ASSUME NEW p \in Processes, Extend(p) PROVE TypeOK'
  BY <1>4 DEF Extend
<1>5. ASSUME NEW p \in Processes, Stop(p) PROVE TypeOK'
  BY <1>5 DEF Stop
<1>6. ASSUME NEW p \in Processes, ReadToRelease(p) PROVE TypeOK'
  BY <1>6 DEF ReadToRelease
<1>7. ASSUME NEW p \in Processes, Release(p) PROVE TypeOK'
  BY <1>7 DEF Release
<1>8. ASSUME NEW p \in Processes, Crash(p) PROVE TypeOK'
  BY <1>8 DEF Crash
<1>9. CASE Tick
  <2>1. age' \in [Processes -> 0..(Renewal + MaxStall)]
    <3>1. ASSUME NEW p \in Processes
          PROVE  (IF p \in Ageing THEN age[p] + 1 ELSE age[p]) \in 0..(Renewal + MaxStall)
      <4>1. CASE p \in Ageing
        <5>1. age[p] < Deadline(p)
          BY <1>9, <4>1 DEF Tick
        <5>2. Deadline(p) = Renewal + MaxStall \/ Deadline(p) = MaxStall
          BY <4>1 DEF Ageing, Deadline
        <5> QED
          BY <4>1, <5>1, <5>2
      <4>2. CASE p \notin Ageing
        BY <4>2
      <4> QED
        BY <4>1, <4>2
    <3> QED
      BY <1>9, <3>1 DEF Tick
  <2>2. key' \in Processes \cup {None} /\ ttl' \in 0..TTL /\ late' \subseteq Processes
    BY <1>9 DEF Tick, Ageing
  <2> QED
    BY <1>9, <2>1, <2>2 DEF Tick
<1> QED
  BY <1>1, <1>2, <1>3, <1>4, <1>5, <1>6, <1>7, <1>8, <1>9 DEF Next, Renew, Shutdown

\* The lease's state has its types in every behaviour.
THEOREM TypeCorrect == Spec => []TypeOK
  BY TypeInit, TypeNext, PTL DEF Spec

-----------------------------------------------------------------------------

LEMMA OwnedInit == Init => Owned
  BY DEF Init, Owned, Scheduling

\* Each step keeps the tie between clocks and key; a Tick that would cut it makes
\* the process late.
LEMMA OwnedNext == IInv /\ [Next]_vars => Owned'
<1> SUFFICES ASSUME IInv, [Next]_vars, late' = {} PROVE Owned'
  BY DEF Owned
<1> USE LeaseAssumption DEF IInv, TypeOK, Owned, Scheduling, Goto
<1>1. CASE UNCHANGED vars
  BY <1>1 DEF vars
<1>2. ASSUME NEW p \in Processes, Start(p) PROVE Owned'
  BY <1>2 DEF Start
<1>3. ASSUME NEW p \in Processes, ReadKey(p) PROVE Owned'
  BY <1>3 DEF ReadKey
<1>4. ASSUME NEW p \in Processes, Extend(p) PROVE Owned'
  BY <1>4 DEF Extend
<1>5. ASSUME NEW p \in Processes, Stop(p) PROVE Owned'
  BY <1>5 DEF Stop
<1>6. ASSUME NEW p \in Processes, ReadToRelease(p) PROVE Owned'
  BY <1>6 DEF ReadToRelease
<1>7. ASSUME NEW p \in Processes, Release(p) PROVE Owned'
  BY <1>7 DEF Release
<1>8. ASSUME NEW p \in Processes, Crash(p) PROVE Owned'
  BY <1>8 DEF Crash
<1>9. CASE Tick
  <2>1. late = {} /\ \A p \in Ageing : pc[p] # "releasing" /\ age'[p] < TTL
    <3>1. late = {} /\ {p \in Ageing : pc[p] = "releasing" \/ age'[p] >= TTL} = {}
      BY <1>9 DEF Tick
    <3>2. \A p \in Ageing : age'[p] \in Nat
      BY <1>9, TypeNext DEF Ageing
    <3> QED
      BY <3>1, <3>2
  <2>2. ASSUME NEW p \in Processes, pc[p] \in Scheduling
        PROVE  key' = p /\ age'[p] < TTL /\ ttl' + age'[p] >= TTL
    <3>1. p \in Ageing
      BY <2>2 DEF Ageing
    <3>2. age'[p] = age[p] + 1 /\ age'[p] < TTL
      BY <1>9, <2>1, <3>1 DEF Tick
    <3>3. key = p /\ ttl + age[p] >= TTL
      BY <2>1, <2>2
    <3>4. ttl > 1
      BY <3>2, <3>3
    <3> QED
      BY <1>9, <3>2, <3>3, <3>4 DEF Tick
  <2>3. \A p \in Processes : pc[p] # "releasing"
    BY <2>1 DEF Ageing
  <2> QED
    BY <1>9, <2>2, <2>3 DEF Tick
<1> QED
  BY <1>1, <1>2, <1>3, <1>4, <1>5, <1>6, <1>7, <1>8, <1>9 DEF Next, Renew, Shutdown

\* Clocks and key agree in every behaviour.
THEOREM IInvCorrect == Spec => []IInv
<1>1. Init => IInv
  BY TypeInit, OwnedInit DEF IInv
<1>2. IInv /\ [Next]_vars => IInv'
  BY TypeNext, OwnedNext DEF IInv
<1> QED
  BY <1>1, <1>2, PTL DEF Spec

\* At most one process schedules as long as nobody overslept, however many there
\* are and whatever the key's life, the renewal period and the stalls are.
THEOREM OneSchedulerCorrect == Spec => []OneScheduler
<1>1. IInv => OneScheduler
  BY DEF IInv, Owned, OneScheduler
<1> QED
  BY <1>1, IInvCorrect, PTL

-----------------------------------------------------------------------------

\* Without stalls nobody oversleeps: a renewal is due long before the key's end.
LEMMA NobodyLate ==
  ASSUME MaxStall = 0
  PROVE  TypeOK /\ late = {} /\ [Next]_vars => late' = {}
<1> SUFFICES ASSUME TypeOK, late = {}, [Next]_vars PROVE late' = {}
  OBVIOUS
<1>1. CASE Tick
  <2>1. ASSUME NEW p \in Ageing PROVE pc[p] # "releasing" /\ age'[p] < TTL
    <3>1. p \in Processes /\ age[p] \in Nat /\ age[p] < Deadline(p)
      BY <1>1, LeaseAssumption DEF Tick, Ageing, TypeOK
    <3>2. pc[p] # "releasing"
      BY <3>1, LeaseAssumption DEF Deadline, Scheduling
    <3>3. Deadline(p) = Renewal
      BY <3>1, <3>2, LeaseAssumption DEF Deadline, Ageing
    <3> QED
      BY <1>1, <3>1, <3>2, <3>3, LeaseAssumption DEF Tick
  <2>2. {p \in Ageing : pc[p] = "releasing" \/ age'[p] >= TTL} = {}
    <3>1. \A p \in Ageing : age'[p] \in Nat
      BY <1>1, TypeNext, LeaseAssumption DEF Ageing, TypeOK
    <3> QED
      BY <2>1, <3>1, LeaseAssumption
  <2> QED
    BY <1>1, <2>2 DEF Tick
<1>2. CASE ~Tick
  BY <1>2 DEF Next, vars, Renew, Shutdown, Start, ReadKey, Extend, Stop,
              ReadToRelease, Release, Crash
<1> QED
  BY <1>1, <1>2

\* The scheduler is a singleton if no step of a process ever comes late.
THEOREM SingletonWithoutStalls ==
  ASSUME MaxStall = 0
  PROVE  Spec => []Singleton
<1>1. Init => TypeOK /\ late = {}
  BY TypeInit DEF Init
<1>2. (TypeOK /\ late = {}) /\ [Next]_vars => (TypeOK /\ late = {})'
  BY TypeNext, NobodyLate
<1>3. (TypeOK /\ late = {}) /\ OneScheduler => Singleton
  BY DEF OneScheduler, Singleton
<1> QED
  BY <1>1, <1>2, <1>3, OneSchedulerCorrect, PTL DEF Spec
=============================================================================
