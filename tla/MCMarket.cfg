CONSTANTS
    alice = alice
    bob = bob
    core = core
    usd = usd
    Null = Null
    Accounts = {alice, bob}
    Issuer = alice
    Core = core
    Usd = usd
    Backing = core
    Producers = {1, 2}
    ProducerSets = {{2}}
    Endowment <- MCEndowment
    Offers <- MCOffers
    Updates <- MCUpdates
    Settlements = {1, 2}
    FeedPrices <- MCFeedPrices
    MCR = 7
    MSSR = 6
    Denom = 4
    FeePercent <- MCFeePercent
    MaxFee = 1
    OrderFee = 1
    CancelFee = 2
    FeedLife = 2
    SettleDelay = 1
    SettleOffset = 10
    SettleVolume = 50
    MaxOps = 5
    MaxTime = 3
SPECIFICATION Spec
INVARIANTS MoneyAccounted CoreInOrdersExact BookSettled BlocksApply
CHECK_DEADLOCK FALSE
