SPECIFICATION Spec
CONSTANTS
    feed = feed
    hook = hook
    news = news
    notice = notice
    tick = tick
    late = late
    manual = manual
    admin = admin
    None = None
    Contracts = {feed}
    Webhooks = {}
    Items = {news}
    TierJobs = {tick}
    OnDemandJobs = {}
    Admins = {}
    MaxFailures = 3
    MaxFaults = 3
INVARIANT DegradedAfterMaxFailures
