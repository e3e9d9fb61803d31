---------------------------- MODULE CreditLedger ----------------------------
(***************************************************************************)
(* The credit counter of one organization, as the database sessions of the *)
(* API share it.                                                           *)
(*                                                                         *)
(* A session is an HTTP request that charges credits                       *)
(* (CreditService.consume_credits), or a renewal that installs a plan's    *)
(* allocation and zeroes the counter (a verified payment, a trial check).  *)
(* The organization row carries the two columns the sessions fight over    *)
(* and Postgres's row lock.  A session also has an ORM identity map: once  *)
(* an Organization instance is in it, a later SELECT returns that instance *)
(* with the attributes it already had (no populate_existing).  Routes that *)
(* depend on get_current_organization hold such an instance before they    *)
(* lock the row: Preloaded.                                                *)
(***************************************************************************)
EXTENDS Integers

CONSTANTS
    Requests,      \* charging requests, each handled once
    Renewals,      \* sessions that renew the plan, each run once
    Preloaded,     \* the requests whose route loads the organization first
    Cost,          \* Cost[r]: credits request r consumes (> 0)
    Plan,          \* Plan[w]: allocation that renewal w installs
    Allocation,    \* the allocation at the start
    NoSession      \* "nobody", the value of a free row lock

Sessions == Requests \cup Renewals

ASSUME SessionsAssumption ==
    /\ Requests \cap Renewals = {}
    /\ NoSession \notin Sessions
    /\ Preloaded \subseteq Requests
ASSUME CreditsAssumption ==
    /\ Allocation \in Nat
    /\ Cost \in [Requests -> Nat \ {0}]
    /\ Plan \in [Renewals -> Nat]

VARIABLES
    row,         \* the committed columns of the organization row
    lock,        \* the session that holds the row lock, or NoSession
    pc,          \* where each session is
    view,        \* the attributes of each session's Organization instance
    ledger,      \* committed credit_transactions rows
    spent,       \* history: credits charged since the last renewal
    staleActs    \* history: sessions that acted on an outdated instance

vars == <<row, lock, pc, view, ledger, spent, staleActs>>

Holding == {"locked", "charged", "answered", "flushed"}
Settled == {"committed", "refused", "aborted"}
Columns == [consumed : Nat, allocated : Nat]

TypeOK ==
    /\ row \in Columns
    /\ lock \in Sessions \cup {NoSession}
    /\ pc \in [Sessions -> {"start", "ready"} \cup Holding \cup Settled]
    /\ view \in [Sessions -> Columns]
    /\ ledger \in SUBSET [request : Requests, remaining : Int]
    /\ spent \in Nat
    /\ staleActs \in SUBSET Sessions

Remaining(v) == v.allocated - v.consumed

Init ==
    /\ row = [consumed |-> 0, allocated |-> Allocation]
    /\ lock = NoSession
    /\ pc = [s \in Sessions |-> "start"]
    /\ view = [s \in Sessions |-> row]
    /\ ledger = {}
    /\ spent = 0
    /\ staleActs = {}

Goto(s, label) == pc' = [pc EXCEPT ![s] = label]

-----------------------------------------------------------------------------
(* Charging requests                                                       *)

\* get_current_user and get_current_organization have run.  The second leaves
\* the instance in the identity map; the instance the first one loads is
\* garbage by now, so a route without the second starts from nothing.
Authenticate(r) ==
    /\ pc[r] = "start"
    /\ Goto(r, "ready")
    /\ view' = IF r \in Preloaded THEN [view EXCEPT ![r] = row] ELSE view
    /\ UNCHANGED <<row, lock, ledger, spent, staleActs>>

\* Mutant: a plain SELECT, without FOR UPDATE.
LockRowPlainSelect(r) ==
    /\ pc[r] = "ready"
    /\ Goto(r, "locked")
    /\ view' = IF r \in Preloaded THEN view ELSE [view EXCEPT ![r] = row]
    /\ staleActs' = IF view'[r] = row THEN staleActs ELSE staleActs \cup {r}
    /\ UNCHANGED <<row, lock, ledger, spent>>

\* SELECT ... FOR UPDATE: waits for the row lock.  An instance that the
\* identity map already holds keeps its attributes.
LockRow(r) ==
    /\ pc[r] = "ready"
    /\ lock = NoSession
    /\ lock' = r
    /\ Goto(r, "locked")
    /\ view' = IF r \in Preloaded THEN view ELSE [view EXCEPT ![r] = row]
    /\ staleActs' = IF view'[r] = row THEN staleActs ELSE staleActs \cup {r}
    /\ UNCHANGED <<row, ledger, spent>>

\* Mutant: the charge and its transaction row are committed on the spot.
ChargeAutocommit(r) ==
    /\ pc[r] = "locked"
    /\ Remaining(view[r]) >= Cost[r]
    /\ view' = [view EXCEPT ![r].consumed = @ + Cost[r]]
    /\ ledger' = ledger \cup {[request |-> r, remaining |-> Remaining(view'[r])]}
    /\ Goto(r, "charged")
    /\ UNCHANGED <<row, lock, spent, staleActs>>

\* Mutant: no balance check (a charge may go into overage).
ChargeWithOverage(r) ==
    /\ pc[r] = "locked"
    /\ view' = [view EXCEPT ![r].consumed = @ + Cost[r]]
    /\ Goto(r, "charged")
    /\ UNCHANGED <<row, lock, ledger, spent, staleActs>>

\* Mutant: the counter is taken for the balance and decremented.
ChargeDecrements(r) ==
    /\ pc[r] = "locked"
    /\ Remaining(view[r]) >= Cost[r]
    /\ view' = [view EXCEPT ![r].consumed = @ - Cost[r]]
    /\ Goto(r, "charged")
    /\ UNCHANGED <<row, lock, ledger, spent, staleActs>>

\* The balance check, the increment and the flush of the UPDATE.
Charge(r) ==
    /\ pc[r] = "locked"
    /\ Remaining(view[r]) >= Cost[r]
    /\ view' = [view EXCEPT ![r].consumed = @ + Cost[r]]
    /\ Goto(r, "charged")
    /\ UNCHANGED <<row, lock, ledger, spent, staleActs>>

\* InsufficientCreditsError becomes a 402, which rolls the session back.
Refuse(r) ==
    /\ pc[r] = "locked"
    /\ Remaining(view[r]) < Cost[r]
    /\ lock' = NoSession
    /\ Goto(r, "refused")
    /\ UNCHANGED <<row, view, ledger, spent, staleActs>>

\* The handler returns and the client has its answer; the code of get_db
\* after its yield has not run yet.
Answer(r) ==
    /\ pc[r] = "charged"
    /\ Goto(r, "answered")
    /\ UNCHANGED <<row, lock, view, ledger, spent, staleActs>>

\* get_db commits.  The UPDATE sets credits_consumed to the instance's value.
Commit(r) ==
    /\ pc[r] = "answered"
    /\ row' = [row EXCEPT !.consumed = view[r].consumed]
    /\ ledger' = ledger \cup {[request |-> r, remaining |-> Remaining(view[r])]}
    /\ spent' = spent + Cost[r]
    /\ lock' = NoSession
    /\ Goto(r, "committed")
    /\ UNCHANGED <<view, staleActs>>

-----------------------------------------------------------------------------
(* Renewals: verify_and_activate_checkout, check_trial_expiry              *)

LoadForRenewal(w) ==
    /\ pc[w] = "start"
    /\ Goto(w, "ready")
    /\ view' = [view EXCEPT ![w] = row]
    /\ UNCHANGED <<row, lock, ledger, spent, staleActs>>

\* The flush of the renewal's UPDATE takes the row lock.
FlushRenewal(w) ==
    /\ pc[w] = "ready"
    /\ lock = NoSession
    /\ lock' = w
    /\ Goto(w, "flushed")
    /\ staleActs' = IF view[w] = row THEN staleActs ELSE staleActs \cup {w}
    /\ UNCHANGED <<row, view, ledger, spent>>

\* Mutant: the counter is not zeroed.
CommitRenewalKeepCounter(w) ==
    /\ pc[w] = "flushed"
    /\ row' = [row EXCEPT !.allocated = Plan[w]]
    /\ spent' = 0
    /\ lock' = NoSession
    /\ Goto(w, "committed")
    /\ UNCHANGED <<view, ledger, staleActs>>

\* Only a column whose loaded value differs from the new one is in the UPDATE.
CommitRenewal(w) ==
    /\ pc[w] = "flushed"
    /\ row' = [consumed  |-> IF view[w].consumed = 0 THEN row.consumed ELSE 0,
               allocated |-> IF view[w].allocated = Plan[w] THEN row.allocated
                                                            ELSE Plan[w]]
    /\ spent' = 0
    /\ lock' = NoSession
    /\ Goto(w, "committed")
    /\ UNCHANGED <<view, ledger, staleActs>>

-----------------------------------------------------------------------------

\* Mutant: the failing session keeps its transaction open.
AbortKeepLock(s) ==
    /\ pc[s] \in {"ready"} \cup Holding
    /\ Goto(s, "aborted")
    /\ UNCHANGED <<row, lock, view, ledger, spent, staleActs>>

\* An exception in the handler, a failed commit or a lost process: the
\* session rolls back and the row lock goes with its transaction.
Abort(s) ==
    /\ pc[s] \in {"ready"} \cup Holding
    /\ lock' = IF lock = s THEN NoSession ELSE lock
    /\ Goto(s, "aborted")
    /\ UNCHANGED <<row, view, ledger, spent, staleActs>>

RequestStep(r) ==
    LockRow(r) \/ Charge(r) \/ Refuse(r) \/ Answer(r) \/ Commit(r)
RenewalStep(w) ==
    FlushRenewal(w) \/ CommitRenewal(w)

Next ==
    \/ \E r \in Requests : Authenticate(r) \/ RequestStep(r)
    \/ \E w \in Renewals : LoadForRenewal(w) \/ RenewalStep(w)
    \/ \E s \in Sessions : Abort(s)

\* A session that has started is run by its server until it settles; a failure
\* is never owed.
Fairness ==
    /\ \A r \in Requests : WF_vars(RequestStep(r))
    /\ \A w \in Renewals : WF_vars(RenewalStep(w))

Spec == Init /\ [][Next]_vars
FairSpec == Spec /\ Fairness

-----------------------------------------------------------------------------
(* Properties                                                              *)

\* As long as no session acted on an outdated instance, the counter is the sum
\* of the charges of the cycle and the charges stay within the allocation: the
\* row lock makes check and increment atomic, renewals included
\* (consume_credits_atomic, "Atomically check and consume credits").
LedgerBalances ==
    staleActs = {} => row.consumed = spent /\ spent <= row.allocated

\* A request has a credit_transactions row exactly if its charge is committed,
\* and no such row ever shows a negative balance: an answer that is rolled back
\* leaves neither (the flush in consume_credits_atomic, the rollback in get_db).
ChargeIsAtomic ==
    /\ \A r \in Requests : pc[r] = "committed" <=> \E t \in ledger : t.request = r
    /\ \A t \in ledger : t.remaining >= 0

\* Until a plan is renewed the stored counter never exceeds the allocation, not
\* even when outdated instances lose charges: the balance endpoints cannot show
\* the loss (the check in consume_credits_atomic, get_overage).
LostChargesStayHidden ==
    (\A w \in Renewals : pc[w] # "committed") => row.consumed <= row.allocated

\* Each step of a system in which nobody acted on an outdated instance is a step
\* of the prepaid account (or leaves it alone).
Account == INSTANCE PrepaidAccount WITH
    balance <- Remaining(row),
    charged <- {r \in Requests : pc[r] = "committed"},
    Plans   <- {Plan[w] : w \in Renewals}
RefinesAccount == [][staleActs' = {} => [Account!Next]_(Account!vars)]_vars

\* A session that has started settles: nobody waits for the row lock for ever,
\* although it is held across the whole handler (get_db commits, or rolls back).
EverySessionSettles ==
    \A s \in Sessions : (pc[s] = "ready") ~> (pc[s] \in Settled)

\* What consume_credits_atomic claims: concurrent requests never both pass the
\* check on credits only one of them can have.
NoOverspend == spent <= row.allocated
=============================================================================
