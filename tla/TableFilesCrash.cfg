SPECIFICATION FairSpec
CONSTANTS
    Imports = {i1, i2}
    Queries = {q1}
    FileNames <- MCFileNames
    ColumnsTxt <- MCColumnsTxt
    CountTxt <- MCCountTxt
    Unwritable <- MCUnwritable
    Chars <- MCChars
    NL = "n"
    Hole = "_"
    Uploads <- OddUploads
    Selects <- OddSelects
    BufferSize = 2
    MaxCrashes = 1
INVARIANTS LoneImportStored HolesNeedOverlap
CHECK_DEADLOCK FALSE
PROPERTIES ImportsReply QueriesAnswer
