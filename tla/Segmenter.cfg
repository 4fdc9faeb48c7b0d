SPECIFICATION Spec
CONSTANTS
    Text <- TwoStatements
    MaxLines = 6
INVARIANTS TypeOK AcceptsWellFormed EachBackendGetsItsLines ModelSeesSharedOnly
