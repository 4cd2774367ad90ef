SPECIFICATION MCSpec
CONSTANTS
    MaxLength = 5
    MaxQuerySize = 8
    Chars <- MCChars
    Digits <- MCDigits
    HexDigits <- MCHexDigits
    WordChars <- MCWordChars
    Spaces <- MCSpaces
    WideSpaces <- MCWideSpaces
INVARIANTS
    StaysInText
    TokensTile
    WrittenTokensComeBack
    QuotedAsWritten
PROPERTY
    LexerStops
\* a text ends
CHECK_DEADLOCK FALSE
