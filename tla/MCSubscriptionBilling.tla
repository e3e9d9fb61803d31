----------------------- MODULE MCSubscriptionBilling -----------------------
(***************************************************************************)
(* Instances of SubscriptionBilling for TLC: checkouts for the trial's     *)
(* tier and for the next one, two sessions at a time.                      *)
(***************************************************************************)
EXTENDS SubscriptionBilling, TLC

CONSTANTS h1, h2, growth, mid_market

MCTarget == growth :> 1 @@ mid_market :> 2
MCTargetMid == mid_market :> 2
HandlerSymmetry == Permutations(Handlers)
=============================================================================
