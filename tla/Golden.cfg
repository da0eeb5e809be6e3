CONSTANTS
    BaseCases <- MCBaseCases
    Stale = {"old"}
    Mentioning = {2}
    MaxRuns = 3
    MaxFaults = 2
SPECIFICATION Spec
INVARIANT CaptureIsIsolated
INVARIANT RefreshIsExact
INVARIANT TestsAreExact
INVARIANT CasesReachTheirCommand
CHECK_DEADLOCK FALSE
