SPECIFICATION Spec
CONSTANTS
    Values <- SomeValues
    Decls <- SomeDecls
    MaxStmts = 3
    Misread <- SomeMisread
    LastBits = 1
INVARIANTS TypeOK ReadsWhatWasWritten ConnectionsAgree RunsItsOwnText
