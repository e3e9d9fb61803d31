SPECIFICATION FairSpec
CONSTANTS
    search = search
    brief = brief
    fetch = fetch
    payment = payment
    trialCheck = trialCheck
    NoSession = NoSession
    Requests = {search, fetch, brief}
    Renewals = {payment, trialCheck}
    Preloaded = {search, brief}
    Cost <- MCCost
    Plan <- MCPlan
    Allocation = 3
INVARIANTS
    TypeOK
    LedgerBalances
    ChargeIsAtomic
    LostChargesStayHidden
PROPERTIES
    RefinesAccount
    EverySessionSettles
\* Every session is handled once: the system stops when all have settled.
CHECK_DEADLOCK FALSE
