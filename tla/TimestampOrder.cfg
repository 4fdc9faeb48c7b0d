SPECIFICATION Spec
CONSTANTS
    Values <- Instants
    Decls <- SomeDecls
    MaxStmts = 3
    Misread <- SomeMisread
    LastBits = 1
INVARIANT TextOrderIsTimeOrder
