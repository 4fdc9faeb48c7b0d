SPECIFICATION Spec
CONSTANTS
    Statements <- WithDropTable
    Teams <- Both
    MaxStatements = 4
INVARIANTS TablesFollow
CHECK_DEADLOCK FALSE
