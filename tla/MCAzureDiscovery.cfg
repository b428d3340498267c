SPECIFICATION FairSpec
CONSTANTS
    sub1 = sub1
    sub2 = sub2
    Subs = {sub1, sub2}
    Names = {"n"}
    Asked <- NameOrId
    Offers <- MCOffers
    TTL = 2
    MaxConnStrs = 1
    PageSize = 1
    Lag = 1
    MaxChanges = 1
    MaxFailures = 1
    None = None
INVARIANTS
    TypeOK
    StaleForAnHourAtMost
    SettledAreListed
    ReadOnlyIsKept
PROPERTY CachesCatchUp
