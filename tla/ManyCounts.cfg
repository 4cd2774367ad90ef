SPECIFICATION Spec
CONSTANTS
    CountName <- MCCount
    EqualsName <- MCEquals
    Dot = 6
    IntSize = 16
    Queries <- ManyCounts
    Tables <- MCTables
    TableName <- t
    DefaultDB <- db
INVARIANT EveryCountAddsUp
CHECK_DEADLOCK FALSE
