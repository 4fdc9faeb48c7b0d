SPECIFICATION FairSpec
CONSTANTS
    Thread = {t1, t2}
    Conn = {c1, c2}
    NoConn = NoConn
    Urls <- SomeUrls
    MaxSize = 2
    MinIdle = 1
    MaxDepth = 2
    MaxStmts = 2
    MaxFaults = 1
INVARIANTS TypeOK StartsClean CountsMatch OpensWhatItNames
PROPERTIES KeepsPromise GetsServed
