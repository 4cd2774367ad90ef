SPECIFICATION OddSpec
CONSTANTS
    Words <- MCWords
    Quoted <- MCQuoted
    Integral <- MCIntegral
    Fractional = {}
    Strings <- MCStrings
    BareDates <- MCBareDates
    MaxDepth = 100
    Vocabulary = {}
    MaxLength = 0
    Texts <- MCTexts
INVARIANTS
    FailedParseIsReported
\* a query ends with its outcome
CHECK_DEADLOCK FALSE
