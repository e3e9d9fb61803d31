--------------------------- MODULE MCCreditLedger ---------------------------
(***************************************************************************)
(* Instances of CreditLedger for TLC.  "search", "fetch" and "brief" stand *)
(* for routes that charge 2, 1 and 2 of 3 credits: any two of them may     *)
(* compete for the last credits.  The payment moves the plan down and the  *)
(* trial check moves it to another allocation.                             *)
(***************************************************************************)
EXTENDS CreditLedger

CONSTANTS search, brief, fetch, payment, trialCheck

MCCost == [r \in Requests |-> IF r = fetch THEN 1 ELSE 2]
MCPlan == [w \in Renewals |-> IF w = payment THEN 2 ELSE 3]
=============================================================================
