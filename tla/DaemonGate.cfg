\* One client, many runs: the gate and the doom-loop breaker over time.
SPECIFICATION Spec
CONSTANTS
    Conn = {c1}
    NoConn = NoConn
    NoReply = NoReply
    Cap <- MCGateCap
    Access <- MCAccess
    Risk <- MCRisk
    AccessOf <- MCAccessOf
    RiskOf <- MCRiskOf
    ByCapID <- MCByCapID
    ByAccess <- MCByAccess
    ByRisk <- MCByRisk
    DefaultRule <- MCDefaultRule
    DefaultArmFor = 1
    Window = 2
    Threshold = 3
    Arg <- MCArg
    Unknown <- MCUnknown
    Ops <- MCRunOnly
    RunTimeout = 2
    Second = 2
    MaxSteps = 1
    InitArm <- MCInitArm
    InitSession = {}
    InitLog <- MCInitLog
    MaxRequests = 3
    MaxNow = 2
INVARIANTS
    HistoryCoversWindow
    StartsCovered
    GrantsExact
    RepliesTruthful
PROPERTIES
    DoomLoopCut
    ImplementsGuardedRuns
