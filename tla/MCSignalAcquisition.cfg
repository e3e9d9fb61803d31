SPECIFICATION Spec
CONSTANTS
    feed = feed
    hook = hook
    news = news
    notice = notice
    tick = tick
    late = late
    manual = manual
    admin = admin
    None = None
    Contracts = {feed, hook}
    Webhooks = {hook}
    Items = {news}
    TierJobs = {tick}
    OnDemandJobs = {manual}
    Admins = {admin}
    MaxFailures = 3
    MaxFaults = 2
INVARIANTS
    TypeOK
    HealthIsEarned
PROPERTIES
    OnlyAdminsActivate
    SignalsComeWithHealth
