CONSTANTS
    alice = alice
    bob = bob
    core = core
    usd = usd
    NoData = NoData
    Accounts = {alice, bob}
    Assets = {core, usd}
    Core = core
    Issuer <- MCIssuer
    Endowment <- MCEndowment
    Profit <- MCProfit
    Amounts = {1, 2}
    Periods = {1, 3}
    Donations <- MCDonations
    MaxPeriod = 2
    MaxHeld = 2
    MaxDay = 1
    MaxLocks = 2
    MaxPool = 2
SPECIFICATION Spec
INVARIANTS SupplyConserved CoreLocksRedeemable
CHECK_DEADLOCK FALSE
