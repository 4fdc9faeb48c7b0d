SPECIFICATION Spec
CONSTANTS
    Statements <- Supported
    Teams <- EveryTeam
    MaxStatements = 5
INVARIANTS TypeOK SchemaFits TablesFollow JoinsNameColumns ForeignKeysJoin DownUndoesCreates
CHECK_DEADLOCK FALSE
