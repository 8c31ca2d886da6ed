\* One command of each kind against the daemon, with crashes and expiry.
SPECIFICATION ClientSpec
CONSTANTS
    Conn = {c1}
    NoConn = NoConn
    NoReply = NoReply
    Cap <- MCCap
    Access <- MCAccess
    Risk <- MCRisk
    AccessOf <- MCAccessOf
    RiskOf <- MCRiskOf
    ByCapID <- MCByCapID
    ByAccess <- MCByAccess
    ByRisk <- MCByRisk
    DefaultRule <- MCDefaultRule
    DefaultArmFor = 1
    Window = 2
    Threshold = 3
    Arg <- MCArg
    Unknown <- MCUnknown
    Ops <- MCOps
    RunTimeout = 1
    Second = 1
    MaxSteps = 2
    InitArm <- MCInitArm
    InitSession = {}
    InitLog <- MCInitLog
    MaxRequests = 9
    MaxNow = 1
    Kinds <- MCAllKinds
    MaxAttempts = 3
INVARIANTS
    StepsInOrder
    OutcomeTruthful
PROPERTIES
    HumanInLoop
    CommandEnds
