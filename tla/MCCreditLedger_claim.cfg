SPECIFICATION Spec
CONSTANTS
    search = search
    brief = brief
    fetch = fetch
    payment = payment
    trialCheck = trialCheck
    NoSession = NoSession
    Requests = {search, brief}
    Renewals = {}
    Preloaded = {search, brief}
    Cost <- MCCost
    Plan <- MCPlan
    Allocation = 3
INVARIANT NoOverspend
CHECK_DEADLOCK FALSE
