SPECIFICATION Spec
CONSTANTS
    h1 = h1
    h2 = h2
    growth = growth
    mid_market = mid_market
    None = None
    Handlers = {h1, h2}
    Refs = {growth, mid_market}
    Target <- MCTarget
    TrialTier = 1
    MaxInFlight = 0
    MaxFaults = 0
INVARIANT SubscribersKeepTier
CHECK_DEADLOCK FALSE
