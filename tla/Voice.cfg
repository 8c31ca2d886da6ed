\* The watcher, its window and a window opened from the keyboard.
SPECIFICATION FairSpec
CONSTANTS
    Standalone = {s}
    Managed = m
    Backends = 2
    MaxSaid = 3
    MaxOpens = 2
INVARIANTS
    OneCapture
PROPERTIES
    WordsServedOnce
    VoiceYes
    BargeSilences
    WatchResumes
CHECK_DEADLOCK FALSE
