\* Two connections and every operation through the mailbox and the actor.
SPECIFICATION SchedSpec
CONSTANTS
    Conn = {c1, c2}
    NoConn = NoConn
    NoReply = NoReply
    Cap <- MCFewCap
    Access <- MCAccess
    Risk <- MCRisk
    AccessOf <- MCAccessOf
    RiskOf <- MCRiskOf
    ByCapID <- MCByCapID
    ByAccess <- MCByAccess
    ByRisk <- MCByRisk
    DefaultRule <- MCDefaultRule
    DefaultArmFor = 1
    Window = 3
    Threshold = 3
    Arg <- MCArg
    Unknown <- MCUnknown
    Ops <- MCAllOps
    RunTimeout = 2
    Second = 2
    MaxSteps = 2
    InitArm <- MCInitArm
    InitSession = {}
    InitLog <- MCNone
    MaxRequests = 2
    MaxNow = 1
INVARIANTS
    NoCommandLost
PROPERTIES
    CommandAnswered
    ReasonedAnswered
