\* One capture, ordinary or barge, with or without an idle time.
SPECIFICATION FairSpec
CONSTANTS
    Level = {1, 4, 8}
    Factor = 3
    BargeFactor = 6
    ThresholdMin = 2
    CalibrateFrames = 2
    PreRollFrames = 2
    TriggerFrames = 2
    BargeTrigger = 3
    EndSilence = 2
    MaxUtterance = 6
    FloorFrames = 4
    IdleFrames = 5
    QueueCap = 1
INVARIANTS
    OnsetKept
PROPERTIES
    ListenEnds
CHECK_DEADLOCK FALSE
