CONSTANTS
    alice = alice  bob = bob  null = null  core = core  gold = gold  silver = silver
    Core = core  Uias = {gold, silver}  Existing = {gold}
    Accounts = {alice, bob, null}  ChainAccounts = {null}  NullAccount = null
    ByName <- MCByName
    Issuer <- MCIssuer  Endowment <- MCEndowment  Pool = 3
    Registrar <- MCRegistrar  LifetimeReferrer <- ToAlice  Referrer <- MCReferrer
    Lifetime = {alice, null}  Witness = alice  Workers <- MCWorkers  WorkerAccount = alice
    MaxSupply <- MCMaxSupply  Rate <- MCRate
    Hundred = 10  NetworkFee = 2  LifetimeFee = 3  ReferrerReward = 5
    MinFee = 1  Fees <- MCFees  CreateFees <- MCCreateFees  Threshold = 2
    Periods = {0, 2}  Period = 2  WitnessPay = 1  PayPeriod = 2  WorkerBudget = 4
    CycleRate = 1  CycleUnit = 4  Day = 2  Interval = 2  Slots = {1}
    Amounts <- MCAmounts  Claims <- MCClaims  Policies <- MCPolicies  Terms <- MCTerms
    GenesisBalances <- MCGenesis  NoPermit = NoPermit
    MaxOps = 3  MaxTime = 4
SPECIFICATION Spec
INVARIANTS SupplyExact VestingSound ClaimsWithinLimit
CHECK_DEADLOCK FALSE
