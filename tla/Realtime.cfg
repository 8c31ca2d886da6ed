\* The handler against calls from other goroutines and hanging capabilities.
SPECIFICATION ActorSpec
CONSTANTS
    Cap <- MCGateCap
    Access <- MCAccess
    Risk <- MCRisk
    AccessOf <- MCAccessOf
    RiskOf <- MCRiskOf
    ByCapID <- MCByCapID
    ByAccess <- MCNoRule
    ByRisk <- MCNoRule
    DefaultRule <- MCDefaultRule
    DefaultArmFor = 1
    Window = 3
    Threshold = 2
    Second = 2
    Unknown <- MCUnknown
    SessionEnd = SessionEnd
    NoCap = NoCap
    Grants <- MCGrants
    SessionGrants = {}
    RunTimeout = 1
    QuarantineFor = 2
    DrainFor = 1
    MaxGen = 1
    MaxContext = 3
    MaxRequests = 2
    MaxNow = 2
INVARIANTS
    QuarantineEndsSession
    RepliesTruthful
PROPERTIES
    LaunchInSession
    RealtimeLoopCut
    LaunchCovered
    CancelReleases
    RealtimeAnswered
