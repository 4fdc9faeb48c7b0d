SPECIFICATION Spec
CONSTANTS
    Text <- TwoStatements
    MaxLines = 3
INVARIANTS DownBlocksStayOff
