SPECIFICATION Spec
CONSTANTS
    t1 = t1  t2 = t2  t3 = t3
    c1 = c1  c2 = c2
    Nobody = Nobody
    NoConn = NoConn
    Task <- AllTasks
    Conn <- TwoConns
    Arm = "pg"
    MaxDepth = 2
    MaxSize = 1
    MaxStmts = 2
    Timeouts = TRUE
    CancelAt <- AllButBegin
SYMMETRY Alike32
INVARIANTS TypeOK Agreement
PROPERTIES NoLateCommit KeepsPromise
