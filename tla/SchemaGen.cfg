SPECIFICATION Spec
CONSTANTS
    MaxDir = 2
    MaxEdits = 3
    MaxRuns = 3
INVARIANTS TypeOK SchemaNeverAhead SuccessIsWhole
PROPERTIES AllOrNothing
CHECK_DEADLOCK FALSE
