SPECIFICATION Spec
CONSTANTS
    Scripts <- Conversations
    MaxRequests = 3
    RecvBuf = 2
    MaxNumber = 3
    Texts <- Answers
    Steady <- SteadyArguments
INVARIANTS
    AnswersInOrder
    HandlersGetWholeMessages
    RangesExact
    NoStandoff
PROPERTY KeepsPromise
CHECK_DEADLOCK FALSE
