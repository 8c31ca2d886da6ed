\* One conversation, the project's Claude and another one.
SPECIFICATION FairSpec
CONSTANTS
    Own = own
    Others = {other}
    Rounds = 2
    Attempts = 4
    Grace = 2
    Polls = 3
    MaxQuestions = 2
    Verbatim = verbatim
    Rewordings = {reworded}
PROPERTIES
    RelayAnswersSeen
    AnsweredOnce
    HandoffEnds
CHECK_DEADLOCK FALSE
