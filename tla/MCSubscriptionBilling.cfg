SPECIFICATION Spec
CONSTANTS
    h1 = h1
    h2 = h2
    growth = growth
    mid_market = mid_market
    None = None
    Handlers = {h1, h2}
    Refs = {mid_market}
    Target <- MCTargetMid
    TrialTier = 1
    MaxInFlight = 1
    MaxFaults = 1
SYMMETRY HandlerSymmetry
INVARIANTS
    TypeOK
    TierIsPaidFor
    StatusFollowsPaystack
    CancelStaysPossible
    PaymentIsNotForgotten
PROPERTY OnlyLateChecksDowngrade
\* A new customer need not buy anything, and all may be idle for ever.
CHECK_DEADLOCK FALSE
