SPECIFICATION FairSpec
CONSTANTS
    t1 = t1  t2 = t2  t3 = t3
    c1 = c1  c2 = c2
    Nobody = Nobody
    NoConn = NoConn
    Task <- TwoTasks
    Conn <- TwoConns
    Arm = "pg"
    MaxDepth = 1
    MaxSize = 1
    MaxStmts = 1
    Timeouts = FALSE
    CancelAt <- AllAwaits
INVARIANTS CleanUnlessCut SlotsConserved
PROPERTIES EveryCallReturns
