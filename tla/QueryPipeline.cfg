SPECIFICATION Spec
CONSTANTS
    CountName <- MCCount
    EqualsName <- MCEquals
    Dot = 6
    IntSize = 16
    Queries <- MCQueries
    Tables <- MCTables
    TableName <- t
    DefaultDB <- db
INVARIANTS StaysDefined OneCountAddsUp
PROPERTIES AnswersAsPromised QueryEnds
CHECK_DEADLOCK FALSE
