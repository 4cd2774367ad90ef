SPECIFICATION Spec
CONSTANTS
    Comma = ","
    NL = "n"
    MaxLen = 6
    Chars <- MCChars
    Bodies <- MCBodies
INVARIANTS NoOverrun ParsedAsMeant
PROPERTY ParserReturns
CHECK_DEADLOCK FALSE
