SPECIFICATION MCSpec
CONSTANTS
    Words <- MCWords
    Quoted <- MCQuoted
    Integral <- MCIntegral
    Fractional = {}
    Strings <- MCStrings
    BareDates <- MCBareDates
    MaxDepth = 100
    Vocabulary = {"a", "1", "'s'", "(", ")", ",", "NOT", "DATE", "AS", "->", "-", "."}
    MaxLength = 4
    Texts <- MCTexts
INVARIANTS
    TypeOK DepthBalanced OperandsKept SpelledQueriesComeBack
\* a query ends with its outcome
CHECK_DEADLOCK FALSE
