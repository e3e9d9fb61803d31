--------------------------- MODULE PrepaidAccount ---------------------------
(***************************************************************************)
(* What "strict prepaid" credits promise, with none of the machinery: an   *)
(* account holds a balance, a request is charged at most once and only in  *)
(* full, and the balance changes otherwise only when a plan is renewed.    *)
(* CreditLedger, the model of the code, is compared with this account.     *)
(***************************************************************************)
EXTENDS Integers

CONSTANTS
    Requests,    \* the requests that may be charged
    Cost,        \* Cost[r]: what request r costs
    Plans        \* the allocations a renewal may grant

VARIABLES
    balance,     \* credits that can still be spent
    charged      \* the requests that have been charged

vars == <<balance, charged>>

\* A request is charged in one step, once, and only from a sufficient balance.
Charge(r) ==
    /\ r \notin charged
    /\ Cost[r] <= balance
    /\ balance' = balance - Cost[r]
    /\ charged' = charged \cup {r}

\* A renewal starts a new cycle with the whole allocation of some plan.
Renew ==
    /\ balance' \in Plans
    /\ UNCHANGED charged

Next == Renew \/ \E r \in Requests : Charge(r)

=============================================================================
