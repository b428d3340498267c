SPECIFICATION Spec
CONSTANTS
    sub1 = sub1
    sub2 = sub2
    Subs = {sub1}
    Names = {"n", "m"}
    Asked <- NameOrId
    Offers <- MCOffers
    TTL = 2
    MaxConnStrs = 1
    PageSize = 1
    Lag = 1
    MaxChanges = 0
    MaxFailures = 0
    None = None
INVARIANT AllAccountsListed
