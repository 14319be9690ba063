SPECIFICATION FairSpec
CONSTANTS
    Orders = {"epay", "stripe", "creem"}
    Handlers = {h1, h2}
    Method <- MCMethod
    Amount <- MCAmount
    QuotaPerUnit = 2
    NoOrder = "no order"
    Nobody = nobody
    MaxExtra = 2
    MaxFailures = 1
    MaxCrashes = 1
INVARIANTS
    SettledForGood
    CreditsAreBounded
PROPERTIES
    PaidIsCredited
    ImplementsOrderBook
CHECK_DEADLOCK FALSE
