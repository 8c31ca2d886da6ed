\* The daemon honours a grant that was disarmed.
SPECIFICATION Spec
CONSTANTS
    Cap <- MCExec
    Access <- MCAccess
    Risk <- MCRisk
    AccessOf <- MCAccessOf
    RiskOf <- MCRiskOf
    ByCapID <- MCByCapID
    ByAccess <- MCNoRule
    ByRisk <- MCNoRule
    DefaultRule <- MCDefaultRule
    DefaultArmFor = 1
    Window = 3
    Threshold = 2
    Second = 2
    Proc = {p1}
    Kinds = {"arm", "disarm", "call"}
    Empty = Empty
    Garbled = Garbled
    MaxSteps = 1
    MaxCommands = 3
    MaxRuns = 1
    MaxNow = 1
PROPERTIES
    DisarmIsImmediate
