SPECIFICATION Spec
CONSTANTS
    Imports = {i1, i2}
    Queries = {q1}
    FileNames <- MCFileNames
    ColumnsTxt <- MCColumnsTxt
    CountTxt <- MCCountTxt
    Unwritable <- MCUnwritable
    Chars <- MCChars
    NL = "n"
    Hole = "_"
    Uploads <- FewUploads
    Selects <- MCSelects
    BufferSize = 3
    MaxCrashes = 1
INVARIANTS TypeOK AlmostRectangular OnlyLastRowShifts QuietQueryExact FirstImportReadsPrefix
CHECK_DEADLOCK FALSE
