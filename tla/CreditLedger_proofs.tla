------------------------ MODULE CreditLedger_proofs -------------------------
(***************************************************************************)
(* Proofs about CreditLedger, for every set of requests and renewals, every *)
(* cost and plan, and every choice of the routes that preload.             *)
(***************************************************************************)
EXTENDS CreditLedger, TLAPS

-----------------------------------------------------------------------------
(* The inductive invariant                                                 *)

\* Requests and renewals keep to their own labels.
Roles ==
    /\ \A r \in Requests : pc[r] # "flushed"
    /\ \A w \in Renewals : pc[w] \notin {"locked", "charged", "answered", "refused"}

\* The row lock is held by the one session that is past its lock and unsettled.
LockHeld == \A s \in Sessions : pc[s] \in Holding <=> lock = s

\* A session that holds the lock on the instance it has just read knows the row,
\* up to the charge it has added itself.
HolderKnowsRow ==
    staleActs = {} =>
        /\ \A r \in Requests :
             /\ pc[r] = "locked" => view[r] = row
             /\ pc[r] \in {"charged", "answered"} =>
                    /\ view[r].allocated = row.allocated
                    /\ view[r].consumed = row.consumed + Cost[r]
        /\ \A w \in Renewals : pc[w] = "flushed" => view[w] = row

\* A charge that passed the check leaves its instance with a balance.
ChargePassedCheck ==
    \A r \in Requests :
        pc[r] \in {"charged", "answered"} => view[r].consumed <= view[r].allocated

\* Until a renewal commits, everybody sees the first allocation.
FirstAllocation ==
    (\A w \in Renewals : pc[w] # "committed") =>
        /\ row.allocated = Allocation
        /\ row.consumed <= Allocation
        /\ \A s \in Sessions : view[s].allocated = Allocation

IInv ==
    /\ TypeOK
    /\ Roles
    /\ LockHeld
    /\ HolderKnowsRow
    /\ ChargePassedCheck
    /\ FirstAllocation
    /\ LedgerBalances
    /\ ChargeIsAtomic

USE SessionsAssumption, CreditsAssumption DEF Sessions

-----------------------------------------------------------------------------
(* Type correctness, by itself                                             *)

\* TypeOK holds at the start.
LEMMA TypeInit == Init => TypeOK
BY DEF Init, TypeOK, Columns, Holding, Settled

\* Every step of every session keeps TypeOK.
LEMMA TypeNext == TypeOK /\ [Next]_vars => TypeOK'
<1> SUFFICES ASSUME TypeOK, [Next]_vars PROVE TypeOK'
  OBVIOUS
<1> USE DEF TypeOK, Columns, Holding, Settled, Goto
<1>1. ASSUME NEW r \in Requests, Authenticate(r) PROVE TypeOK'
  BY <1>1 DEF Authenticate
<1>2. ASSUME NEW r \in Requests, LockRow(r) PROVE TypeOK'
  BY <1>2 DEF LockRow
<1>3. ASSUME NEW r \in Requests, Charge(r) PROVE TypeOK'
  BY <1>3 DEF Charge
<1>4. ASSUME NEW r \in Requests, Refuse(r) PROVE TypeOK'
  BY <1>4 DEF Refuse
<1>5. ASSUME NEW r \in Requests, Answer(r) PROVE TypeOK'
  BY <1>5 DEF Answer
<1>6. ASSUME NEW r \in Requests, Commit(r) PROVE TypeOK'
  BY <1>6 DEF Commit, Remaining
<1>7. ASSUME NEW w \in Renewals, LoadForRenewal(w) PROVE TypeOK'
  BY <1>7 DEF LoadForRenewal
<1>8. ASSUME NEW w \in Renewals, FlushRenewal(w) PROVE TypeOK'
  BY <1>8 DEF FlushRenewal
<1>9. ASSUME NEW w \in Renewals, CommitRenewal(w) PROVE TypeOK'
  BY <1>9 DEF CommitRenewal
<1>10. ASSUME NEW s \in Sessions, Abort(s) PROVE TypeOK'
  BY <1>10 DEF Abort
<1>11. CASE UNCHANGED vars
  BY <1>11 DEF vars
<1> QED
  BY <1>1, <1>2, <1>3, <1>4, <1>5, <1>6, <1>7, <1>8, <1>9, <1>10, <1>11
  DEF Next, RequestStep, RenewalStep

\* The variables keep their types, whatever the sessions do.
THEOREM TypeCorrect == Spec => []TypeOK
BY TypeInit, TypeNext, PTL DEF Spec

-----------------------------------------------------------------------------
(* The invariant is inductive                                              *)

\* IInv holds at the start.
LEMMA IInvInit == Init => IInv
BY DEF Init, IInv, TypeOK, Columns, Holding, Settled, Roles, LockHeld,
       HolderKnowsRow, ChargePassedCheck, FirstAllocation, LedgerBalances,
       ChargeIsAtomic

\* A session that is alone in Holding and leaves or enters it moves the lock
\* with it; the other sessions keep their labels.
LEMMA AuthenticateKeeps ==
  ASSUME IInv, NEW r \in Requests, Authenticate(r)
  PROVE  IInv'
<1> USE DEF IInv, Authenticate, Goto
<1>1. TypeOK'
  BY TypeNext DEF Next
<1>2. Roles' /\ LockHeld'
  BY DEF Roles, LockHeld, Holding, TypeOK
<1>3. HolderKnowsRow' /\ ChargePassedCheck'
  BY DEF HolderKnowsRow, ChargePassedCheck, TypeOK, Columns
<1>4. FirstAllocation'
  BY DEF FirstAllocation, TypeOK, Columns
<1>5. LedgerBalances' /\ ChargeIsAtomic'
  BY DEF LedgerBalances, ChargeIsAtomic, TypeOK
<1> QED
  BY <1>1, <1>2, <1>3, <1>4, <1>5

\* Taking the row lock: the request knows the row or is recorded as outdated.
LEMMA LockRowKeeps ==
  ASSUME IInv, NEW r \in Requests, LockRow(r)
  PROVE  IInv'
<1> USE DEF IInv, LockRow, Goto
<1>1. TypeOK'
  BY TypeNext DEF Next, RequestStep
<1>2. Roles' /\ LockHeld'
  BY DEF Roles, LockHeld, Holding, TypeOK
<1>3. HolderKnowsRow' /\ ChargePassedCheck'
  BY DEF HolderKnowsRow, ChargePassedCheck, TypeOK, Columns, LockHeld, Holding
<1>4. FirstAllocation'
  BY DEF FirstAllocation, TypeOK, Columns
<1>5. LedgerBalances' /\ ChargeIsAtomic'
  BY DEF LedgerBalances, ChargeIsAtomic, TypeOK
<1> QED
  BY <1>1, <1>2, <1>3, <1>4, <1>5

\* The check and the increment, both on the session's own instance.
LEMMA ChargeKeeps ==
  ASSUME IInv, NEW r \in Requests, Charge(r)
  PROVE  IInv'
<1> USE DEF IInv, Charge, Goto
<1>1. TypeOK'
  BY TypeNext DEF Next, RequestStep
<1>2. Roles' /\ LockHeld'
  BY DEF Roles, LockHeld, Holding, TypeOK
<1>3. /\ view'[r].allocated = view[r].allocated
      /\ view'[r].consumed = view[r].consumed + Cost[r]
      /\ \A s \in Sessions : s # r => view'[s] = view[s]
      /\ view[r].consumed + Cost[r] <= view[r].allocated
  BY DEF Remaining, TypeOK, Columns
<1>4. HolderKnowsRow'
  BY <1>3 DEF HolderKnowsRow, TypeOK, Columns
<1>5. ChargePassedCheck'
  BY <1>3 DEF ChargePassedCheck, TypeOK, Columns
<1>6. FirstAllocation'
  BY <1>3 DEF FirstAllocation, TypeOK, Columns
<1>7. LedgerBalances' /\ ChargeIsAtomic'
  BY DEF LedgerBalances, ChargeIsAtomic, TypeOK
<1> QED
  BY <1>1, <1>2, <1>4, <1>5, <1>6, <1>7

\* A refusal gives the lock back and changes nothing else.
LEMMA RefuseKeeps ==
  ASSUME IInv, NEW r \in Requests, Refuse(r)
  PROVE  IInv'
<1> USE DEF IInv, Refuse, Goto
<1>1. TypeOK'
  BY TypeNext DEF Next, RequestStep
<1>2. Roles' /\ LockHeld'
  BY DEF Roles, LockHeld, Holding, TypeOK
<1>3. HolderKnowsRow' /\ ChargePassedCheck'
  BY DEF HolderKnowsRow, ChargePassedCheck, TypeOK, Columns
<1>4. FirstAllocation'
  BY DEF FirstAllocation, TypeOK
<1>5. LedgerBalances' /\ ChargeIsAtomic'
  BY DEF LedgerBalances, ChargeIsAtomic, TypeOK
<1> QED
  BY <1>1, <1>2, <1>3, <1>4, <1>5

\* An answer moves no data.
LEMMA AnswerKeeps ==
  ASSUME IInv, NEW r \in Requests, Answer(r)
  PROVE  IInv'
<1> USE DEF IInv, Answer, Goto
<1>1. TypeOK'
  BY TypeNext DEF Next, RequestStep
<1>2. Roles' /\ LockHeld'
  BY DEF Roles, LockHeld, Holding, TypeOK
<1>3. HolderKnowsRow' /\ ChargePassedCheck'
  BY DEF HolderKnowsRow, ChargePassedCheck, TypeOK, Columns
<1>4. FirstAllocation'
  BY DEF FirstAllocation, TypeOK
<1>5. LedgerBalances' /\ ChargeIsAtomic'
  BY DEF LedgerBalances, ChargeIsAtomic, TypeOK
<1> QED
  BY <1>1, <1>2, <1>3, <1>4, <1>5

\* The commit: the row takes the instance's counter, and by HolderKnowsRow that
\* is the old counter plus the charge.
LEMMA CommitKeeps ==
  ASSUME IInv, NEW r \in Requests, Commit(r)
  PROVE  IInv'
<1> USE DEF IInv, Commit, Goto
<1>1. TypeOK'
  BY TypeNext DEF Next, RequestStep
<1>2. Roles' /\ LockHeld'
  BY DEF Roles, LockHeld, Holding, TypeOK
<1>3. /\ row'.consumed = view[r].consumed
      /\ row'.allocated = row.allocated
      /\ view[r].consumed <= view[r].allocated
  BY DEF TypeOK, Columns, ChargePassedCheck
<1>4. \A s \in Sessions : s # r => pc'[s] \notin Holding
  BY DEF LockHeld, TypeOK, Holding
<1>5. HolderKnowsRow'
  BY <1>4 DEF HolderKnowsRow, TypeOK, Holding
<1>6. ChargePassedCheck'
  BY DEF ChargePassedCheck, TypeOK
<1>7. FirstAllocation'
  BY <1>3 DEF FirstAllocation, TypeOK, Columns
<1>8. LedgerBalances'
  BY <1>3 DEF LedgerBalances, HolderKnowsRow, TypeOK, Columns
<1>9. ChargeIsAtomic'
  <2>1. Remaining(view[r]) >= 0
    BY <1>3 DEF Remaining, TypeOK, Columns
  <2>2. \A q \in Requests :
           pc'[q] = "committed" <=> \E t \in ledger' : t.request = q
    <3> SUFFICES ASSUME NEW q \in Requests
                 PROVE  pc'[q] = "committed" <=> \E t \in ledger' : t.request = q
      OBVIOUS
    <3>1. CASE q = r
      <4> DEFINE txn == [request |-> r, remaining |-> Remaining(view[r])]
      <4>1. txn \in ledger' /\ txn.request = q
        BY <3>1
      <4>2. pc'[q] = "committed"
        BY <3>1 DEF TypeOK
      <4> QED
        BY <4>1, <4>2
    <3>2. CASE q # r
      <4>1. pc'[q] = pc[q]
        BY <3>2 DEF TypeOK
      <4>2. (\E t \in ledger' : t.request = q) <=> (\E t \in ledger : t.request = q)
        BY <3>2
      <4> QED
        BY <4>1, <4>2 DEF ChargeIsAtomic
    <3> QED
      BY <3>1, <3>2
  <2> QED
    BY <2>1, <2>2 DEF ChargeIsAtomic
<1> QED
  BY <1>1, <1>2, <1>5, <1>6, <1>7, <1>8, <1>9

\* Reading the row for a renewal.
LEMMA LoadForRenewalKeeps ==
  ASSUME IInv, NEW w \in Renewals, LoadForRenewal(w)
  PROVE  IInv'
<1> USE DEF IInv, LoadForRenewal, Goto
<1>1. TypeOK'
  BY TypeNext DEF Next
<1>2. Roles' /\ LockHeld'
  BY DEF Roles, LockHeld, Holding, TypeOK
<1>3. HolderKnowsRow' /\ ChargePassedCheck'
  BY DEF HolderKnowsRow, ChargePassedCheck, TypeOK, Columns
<1>4. FirstAllocation'
  BY DEF FirstAllocation, TypeOK, Columns
<1>5. LedgerBalances' /\ ChargeIsAtomic'
  BY DEF LedgerBalances, ChargeIsAtomic, TypeOK
<1> QED
  BY <1>1, <1>2, <1>3, <1>4, <1>5

\* The renewal's flush takes the lock, as LockRow does.
LEMMA FlushRenewalKeeps ==
  ASSUME IInv, NEW w \in Renewals, FlushRenewal(w)
  PROVE  IInv'
<1> USE DEF IInv, FlushRenewal, Goto
<1>1. TypeOK'
  BY TypeNext DEF Next, RenewalStep
<1>2. Roles' /\ LockHeld'
  BY DEF Roles, LockHeld, Holding, TypeOK
<1>3. HolderKnowsRow' /\ ChargePassedCheck'
  BY DEF HolderKnowsRow, ChargePassedCheck, TypeOK, Columns
<1>4. FirstAllocation'
  BY DEF FirstAllocation, TypeOK
<1>5. LedgerBalances' /\ ChargeIsAtomic'
  BY DEF LedgerBalances, ChargeIsAtomic, TypeOK
<1> QED
  BY <1>1, <1>2, <1>3, <1>4, <1>5

\* The renewal's commit ends the first allocation and starts a cycle.
LEMMA CommitRenewalKeeps ==
  ASSUME IInv, NEW w \in Renewals, CommitRenewal(w)
  PROVE  IInv'
<1> USE DEF IInv, CommitRenewal, Goto
<1>1. TypeOK'
  BY TypeNext DEF Next, RenewalStep
<1>2. Roles' /\ LockHeld'
  BY DEF Roles, LockHeld, Holding, TypeOK
<1>3. \A s \in Sessions : s # w => pc'[s] \notin Holding
  BY DEF LockHeld, TypeOK, Holding
<1>4. HolderKnowsRow'
  BY <1>3 DEF HolderKnowsRow, TypeOK, Holding
<1>5. ChargePassedCheck'
  BY DEF ChargePassedCheck, TypeOK
<1>6. FirstAllocation'
  BY DEF FirstAllocation, TypeOK
<1>7. LedgerBalances'
  <2> SUFFICES ASSUME staleActs' = {}
               PROVE  row'.consumed = 0 /\ 0 <= row'.allocated
    BY DEF LedgerBalances
  <2>1. view[w] = row
    BY DEF HolderKnowsRow
  <2>2. row'.consumed = 0
    BY <2>1
  <2>3. row'.allocated = Plan[w]
    BY <2>1
  <2> QED
    BY <2>2, <2>3
<1>8. ChargeIsAtomic'
  BY DEF ChargeIsAtomic, TypeOK
<1> QED
  BY <1>1, <1>2, <1>4, <1>5, <1>6, <1>7, <1>8

\* A rollback frees the lock of the session that aborts, and nothing else.
LEMMA AbortKeeps ==
  ASSUME IInv, NEW s \in Sessions, Abort(s)
  PROVE  IInv'
<1> USE DEF IInv, Abort, Goto
<1>1. TypeOK'
  BY TypeNext DEF Next
<1>2. Roles' /\ LockHeld'
  BY DEF Roles, LockHeld, Holding, TypeOK
<1>3. HolderKnowsRow' /\ ChargePassedCheck'
  BY DEF HolderKnowsRow, ChargePassedCheck, TypeOK
<1>4. FirstAllocation'
  BY DEF FirstAllocation, TypeOK, Holding
<1>5. LedgerBalances' /\ ChargeIsAtomic'
  BY DEF LedgerBalances, ChargeIsAtomic, TypeOK, Holding
<1> QED
  BY <1>1, <1>2, <1>3, <1>4, <1>5

\* Every step keeps IInv.
LEMMA IInvNext == IInv /\ [Next]_vars => IInv'
<1> SUFFICES ASSUME IInv, [Next]_vars PROVE IInv'
  OBVIOUS
<1>1. CASE UNCHANGED vars
  BY <1>1 DEF vars, IInv, TypeOK, Roles, LockHeld, HolderKnowsRow,
     ChargePassedCheck, FirstAllocation, LedgerBalances, ChargeIsAtomic
<1>2. CASE Next
  BY <1>2, AuthenticateKeeps, LockRowKeeps, ChargeKeeps, RefuseKeeps, AnswerKeeps,
     CommitKeeps, LoadForRenewalKeeps, FlushRenewalKeeps, CommitRenewalKeeps,
     AbortKeeps DEF Next, RequestStep, RenewalStep
<1> QED
  BY <1>1, <1>2

\* IInv is an invariant.
THEOREM IInvCorrect == Spec => []IInv
BY IInvInit, IInvNext, PTL DEF Spec

-----------------------------------------------------------------------------
(* The properties                                                          *)

\* For every allocation, cost and interleaving: the counter is the sum of the
\* cycle's charges, within the allocation, until someone acts on an outdated
\* instance.  Outdated instances are the only way to lose a charge.
THEOREM LedgerBalancesCorrect == Spec => []LedgerBalances
BY IInvCorrect, PTL DEF IInv

\* The charge and its credit_transactions row are committed together or not at all.
THEOREM ChargeIsAtomicCorrect == Spec => []ChargeIsAtomic
BY IInvCorrect, PTL DEF IInv

\* The stored counter stays within the first allocation until a renewal commits,
\* even though charges may be lost.
THEOREM LostChargesStayHiddenCorrect == Spec => []LostChargesStayHidden
<1>1. IInv => LostChargesStayHidden
  BY DEF IInv, FirstAllocation, LostChargesStayHidden
<1> QED
  BY <1>1, IInvCorrect, PTL

\* A step that leaves nobody with an outdated instance is a step of the prepaid
\* account: a commit is its Charge, a renewal its Renew, the rest leave it alone.
LEMMA StepRefinesAccount ==
  ASSUME IInv, [Next]_vars, staleActs' = {}
  PROVE  [Account!Next]_(Account!vars)
<1> USE DEF IInv, Goto
<1> DEFINE Charged == {r \in Requests : pc[r] = "committed"}
<1>0. staleActs = {}
  BY DEF Next, RequestStep, RenewalStep, Authenticate, LockRow, Charge, Refuse,
     Answer, Commit, LoadForRenewal, FlushRenewal, CommitRenewal, Abort, vars
<1>1. ASSUME NEW r \in Requests, Commit(r)
      PROVE  Account!Charge(r)
  <2>1. /\ view[r].allocated = row.allocated
        /\ view[r].consumed = row.consumed + Cost[r]
        /\ view[r].consumed <= view[r].allocated
    BY <1>0, <1>1 DEF HolderKnowsRow, ChargePassedCheck, Commit
  <2>2. Remaining(row)' = Remaining(row) - Cost[r] /\ Cost[r] <= Remaining(row)
    BY <1>1, <2>1 DEF Commit, Remaining, TypeOK, Columns
  <2>3. r \notin Charged /\ Charged' = Charged \cup {r}
    BY <1>1 DEF Commit, TypeOK
  <2> QED
    BY <2>2, <2>3 DEF Account!Charge
<1>2. ASSUME NEW w \in Renewals, CommitRenewal(w)
      PROVE  Account!Renew
  <2>1. view[w] = row
    BY <1>0, <1>2 DEF HolderKnowsRow, CommitRenewal
  <2>2. row'.consumed = 0 /\ row'.allocated = Plan[w]
    BY <1>2, <2>1 DEF CommitRenewal
  <2>3. Remaining(row)' \in {Plan[v] : v \in Renewals}
    BY <2>2 DEF Remaining
  <2>4. Charged' = Charged
    BY <1>2 DEF CommitRenewal, TypeOK
  <2> QED
    BY <2>3, <2>4 DEF Account!Renew
<1>3. ASSUME \A r \in Requests : ~Commit(r), \A w \in Renewals : ~CommitRenewal(w)
      PROVE  UNCHANGED Account!vars
  <2>1. row' = row
    BY <1>3 DEF Next, RequestStep, RenewalStep, Authenticate, LockRow, Charge, Refuse,
       Answer, LoadForRenewal, FlushRenewal, Abort, vars
  <2>2. \A r \in Requests : pc'[r] = "committed" <=> pc[r] = "committed"
    BY <1>3 DEF Next, RequestStep, RenewalStep, Authenticate, LockRow, Charge, Refuse,
       Answer, LoadForRenewal, FlushRenewal, Abort, vars, TypeOK, Holding
  <2>3. Charged' = Charged
    BY <2>2
  <2> QED
    BY <2>1, <2>3 DEF Account!vars, Remaining
<1> QED
  BY <1>1, <1>2, <1>3 DEF Account!Next

\* The code implements the prepaid account for as long as nobody acts on an
\* outdated instance.
THEOREM RefinesAccountCorrect == Spec => RefinesAccount
<1>1. IInv /\ [Next]_vars => [staleActs' = {} => [Account!Next]_(Account!vars)]_vars
  BY StepRefinesAccount
<1> QED
  BY <1>1, IInvCorrect, PTL DEF Spec, RefinesAccount

-----------------------------------------------------------------------------
(* Nothing is overspent where no route preloads                            *)

\* A request that loads its instance under the lock knows the row, up to its own
\* charge, even next to renewals that write from outdated instances.
RequestsKnowRow ==
    \A r \in Requests :
        /\ pc[r] = "locked" => view[r] = row
        /\ pc[r] \in {"charged", "answered"} =>
               /\ view[r].allocated = row.allocated
               /\ view[r].consumed = row.consumed + Cost[r]

\* The counter covers the charges of the cycle: an outdated renewal may leave it too
\* high, and never too low.
CounterCovers == spent <= row.consumed /\ spent <= row.allocated

FreshInv == IInv /\ RequestsKnowRow /\ CounterCovers

\* The first state has no charge.
LEMMA FreshInit == Init => FreshInv
BY IInvInit DEF Init, FreshInv, RequestsKnowRow, CounterCovers

\* The lock keeps the row from moving under a request, and a charge is added to what
\* the row shows.
LEMMA FreshNext ==
  ASSUME Preloaded = {}, FreshInv, [Next]_vars
  PROVE  FreshInv'
<1>1. IInv /\ IInv'
  BY IInvNext DEF FreshInv
<1> DEFINE Goal == RequestsKnowRow' /\ CounterCovers'
<1> USE DEF Goto
<1>2. ASSUME NEW r \in Requests, LockRow(r) PROVE Goal
  BY <1>1, <1>2 DEF LockRow, IInv, TypeOK, FreshInv, RequestsKnowRow, CounterCovers
<1>3. ASSUME NEW r \in Requests, Charge(r) PROVE Goal
  <2>1. /\ view'[r].allocated = view[r].allocated
        /\ view'[r].consumed = view[r].consumed + Cost[r]
        /\ \A s \in Sessions : s # r => view'[s] = view[s]
    BY <1>1, <1>3 DEF Charge, IInv, TypeOK, Columns
  <2> QED
    BY <1>1, <1>3, <2>1 DEF Charge, IInv, TypeOK, FreshInv, RequestsKnowRow, CounterCovers
<1>4. ASSUME NEW r \in Requests, Commit(r) PROVE Goal
  <2>1. /\ row'.consumed = row.consumed + Cost[r] /\ row'.allocated = row.allocated
        /\ row'.consumed <= row'.allocated
    BY <1>1, <1>4 DEF Commit, IInv, TypeOK, Columns, FreshInv, RequestsKnowRow,
                      ChargePassedCheck
  <2>2. \A q \in Requests : pc'[q] \notin Holding
    BY <1>1, <1>4 DEF Commit, IInv, LockHeld, TypeOK, Holding
  <2>3. spent' = spent + Cost[r]
    BY <1>4 DEF Commit
  <2>4. CounterCovers'
    BY <1>1, <2>1, <2>3 DEF IInv, TypeOK, Columns, FreshInv, CounterCovers
  <2> QED
    BY <2>2, <2>4 DEF RequestsKnowRow, Holding
<1>5. ASSUME NEW w \in Renewals, CommitRenewal(w) PROVE Goal
  <2>1. \A q \in Requests : pc'[q] \notin Holding
    BY <1>1, <1>5 DEF CommitRenewal, IInv, LockHeld, TypeOK, Holding
  <2>2. spent' = 0 /\ row' \in Columns
    BY <1>1, <1>5 DEF CommitRenewal, IInv, TypeOK
  <2> QED
    BY <2>1, <2>2 DEF RequestsKnowRow, Holding, CounterCovers, Columns
<1>6. ASSUME NEW s \in Sessions,
             pc'[s] \notin {"locked", "charged", "answered"} \/ pc[s] = "charged",
             \A q \in Sessions \ {s} : pc'[q] = pc[q] /\ view'[q] = view[q],
             pc[s] = "charged" => pc'[s] = "answered" \/ pc'[s] = "aborted",
             pc[s] = "charged" => view'[s] = view[s],
             UNCHANGED <<row, spent>>
      PROVE  Goal
  BY <1>6 DEF FreshInv, RequestsKnowRow, CounterCovers
<1>7. ASSUME NEW r \in Requests, Authenticate(r) \/ Refuse(r) \/ Answer(r) PROVE Goal
  BY <1>1, <1>6, <1>7 DEF Authenticate, Refuse, Answer, IInv, TypeOK
<1>8. ASSUME NEW w \in Renewals, LoadForRenewal(w) \/ FlushRenewal(w) PROVE Goal
  BY <1>1, <1>6, <1>8 DEF LoadForRenewal, FlushRenewal, IInv, TypeOK
<1>9. ASSUME NEW s \in Sessions, Abort(s) PROVE Goal
  BY <1>1, <1>6, <1>9 DEF Abort, IInv, TypeOK
<1>10. CASE UNCHANGED vars
  BY <1>1, <1>10 DEF vars, FreshInv, RequestsKnowRow, CounterCovers
<1> QED
  BY <1>1, <1>2, <1>3, <1>4, <1>5, <1>7, <1>8, <1>9, <1>10
     DEF FreshInv, Next, RequestStep, RenewalStep

\* What consume_credits_atomic claims holds wherever the route reaches the lock without
\* an instance, whatever the renewals write: get_current_organization, which puts one
\* into the identity map, is the only cause of an overspent cycle.
THEOREM NoOverspendWithoutPreloading ==
  ASSUME Preloaded = {}
  PROVE  Spec => []NoOverspend
<1>1. Init => FreshInv
  BY FreshInit
<1>2. FreshInv /\ [Next]_vars => FreshInv'
  BY FreshNext
<1>3. FreshInv => NoOverspend
  BY DEF FreshInv, CounterCovers, NoOverspend
<1> QED
  BY <1>1, <1>2, <1>3, PTL DEF Spec
=============================================================================
