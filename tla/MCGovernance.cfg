SPECIFICATION Spec
CONSTANTS
    Accounts = {0, 1, 2, 3, 4}
    Keys = {1, 2, 3}
    CommitteeAccount = 0
    InitialActive <- MCActive
    InitialOwner <- MCOwner
    InitialOptions <- MCOptions
    Endowment <- MCEndowment
    InitialVotables <- MCVotables
    InitialParameters <- MCParameters
    Lifetime = {1, 2, 4}
    MinCount <- MCMinCount
    WeightBits = 2
    MaxMembership = 3
    MaintenanceInterval = 2
    Gaps = {1, 3}
    Proposed <- MCProposed
    Sent <- MCSent
    Expirations = {3}
    Reviews = {2}
    Signatures = {{1}, {2}, {3}, {1, 2}, {1, 3}}
    Updates <- MCUpdates
    NewVotables <- NewMember
    NoReview = NoReview
    NoPending = NoPending
    MaxProposals = 1
    MaxSent = 1
    MaxTime = 6
INVARIANTS
    AuthorizedByConsent
    AppliedOnceAndWhole
PROPERTIES
    CommitteeActsAfterReview
    WitnessesByMajority
CHECK_DEADLOCK FALSE
