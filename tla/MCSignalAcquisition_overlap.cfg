SPECIFICATION FairSpec
CONSTANTS
    feed = feed
    hook = hook
    news = news
    notice = notice
    tick = tick
    late = late
    manual = manual
    admin = admin
    None = None
    Contracts = {feed, hook}
    Webhooks = {hook}
    Items = {news, notice}
    TierJobs = {tick, late}
    OnDemandJobs = {}
    Admins = {}
    MaxFailures = 3
    MaxFaults = 1
PROPERTIES
    RefinesStore
    PublishedIsStored
