SPECIFICATION Spec
CONSTANTS
    Unlimited = 5
    TwoTo64 = 16
    MinShares = 2
    MaxShares = 4
    MinPeriod <- MCMinPeriod
    MaxPeriod <- MCMaxPeriod
    Parent <- MCParent
    NoQuotaFits <- MCNoQuotaFits
    Requests <- MCRequests
INVARIANTS OnlyBadRequestsRefused SuccessIsExact NoStrayLimit
