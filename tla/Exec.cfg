SPECIFICATION FairSpec
CONSTANTS
    Txns <- AllTxns
    Paths <- MCPaths
INVARIANT RefusedBeforeChange
INVARIANT RowsHaveFiles
INVARIANT SuccessIsExact
INVARIANT CompletedStayApplied
INVARIANT RemovedAsRecorded
INVARIANT LastOfName
INVARIANT NameNeverMissing
PROPERTY CommitsTowardsGoal
PROPERTY Terminates
