\* Two commands and the daemon race on the files.
SPECIFICATION Spec
CONSTANTS
    Cap <- MCVault
    Access <- MCAccess
    Risk <- MCRisk
    AccessOf <- MCAccessOf
    RiskOf <- MCRiskOf
    ByCapID <- MCByCapID
    ByAccess <- MCNoRule
    ByRisk <- MCNoRule
    DefaultRule <- MCDefaultRule
    DefaultArmFor = 1
    Window = 3
    Threshold = 2
    Second = 2
    Proc = {p1, p2}
    Kinds = {"call", "ask", "do", "arm", "disarm"}
    Empty = Empty
    Garbled = Garbled
    MaxSteps = 2
    MaxCommands = 2
    MaxRuns = 3
    MaxNow = 2
INVARIANTS
    RunsAuthorised
    SerialReadable
SYMMETRY MCSymmetry
PROPERTIES
    CommandLoopCut
    SerialLoopCut
